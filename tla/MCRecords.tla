------------------------------- MODULE MCRecords -------------------------------
(* Small instances of the components that read and write the network's records:  *)
(* Verifier, Gossip, Tracks, Listings and BodyAccess.  They share no state the     *)
(* models keep, so one run checks them side by side: `part` says which of them     *)
(* moves, and the others stay in their initial states.                             *)
EXTENDS Verifier, Gossip, Tracks, Listings, BodyAccess, TLC

VARIABLE part
recordsVars == <<part, vvars, gvars, tvars, lvars, accessVars>>

Parts == {"Verifier", "Gossip", "Tracks", "Listings", "BodyAccess"}
Still == /\ (part # "Verifier" => UNCHANGED vvars) /\ (part # "Gossip" => UNCHANGED gvars)
         /\ (part # "Tracks" => UNCHANGED tvars) /\ (part # "Listings" => UNCHANGED lvars)
         /\ (part # "BodyAccess" => UNCHANGED accessVars) /\ UNCHANGED part

Init == part \in Parts /\ VerInit /\ GossipInit /\ TracksInit /\ ListInit /\ AccessInit
Next == \/ part = "Verifier" /\ VerNext /\ Still
        \/ part = "Gossip" /\ GossipNext /\ Still
        \/ part = "Tracks" /\ TracksNext /\ Still
        \/ part = "Listings" /\ ListNext /\ Still
        \/ part = "BodyAccess" /\ AccessNext /\ Still

(* The fairness of each component while it is the one that moves. *)
Fairness ==
  /\ WF_recordsVars(part = "Verifier" /\ RoundSteps /\ Still)
  /\ WF_recordsVars(part = "Verifier" /\ GraceRuns /\ Still)
  /\ WF_recordsVars(part = "Verifier" /\ CacheExpires /\ Still)
  /\ SF_recordsVars(part = "Verifier" /\ RoundPick /\ vrun'["round"].pc = "check" /\ Still)
  /\ WF_recordsVars(part = "Gossip" /\ RoundCalls /\ Still)
  /\ WF_recordsVars(part = "Tracks" /\ Syncing /\ Still)
  /\ WF_recordsVars(part = "Tracks" /\ ModelComes /\ Still)
  /\ \A i \in Items : WF_recordsVars(part = "Tracks" /\ BackoffRuns(i) /\ Still)
  /\ \A v \in Checker : WF_recordsVars(part = "BodyAccess" /\ CheckerActs(v) /\ Still)
Spec == Init /\ [][Next]_recordsVars /\ Fairness

(* ----------------------------------- Verifier ----------------------------------- *)
Disk == vbought \/ vbuy \/ vapply \/ vserved \/ vforget \/ vlost
Hand == vrun["hand"].pc # "idle"
(* The body's own life, a second verification and the failing model take turns.       *)
VerifierApart ==
  /\ Disk => vrun["hand"].pc = "idle" /\ Len(vlog) <= 1 /\ vfail = 0
  /\ vquorum => vextras = 0 /\ ~Disk
  /\ Len(vlog) <= 3
  /\ Hand => vmodel /\ vfail = 0

(* ------------------------------------ Gossip ------------------------------------ *)
CONSTANTS home, near, far
TheirRecords == (home :> <<"bad", "r1", "r2", "r3">>) @@ (near :> <<"r2">>) @@ (far :> <<>>)
\* home took two records at a time, and one of them is dated ahead of that.
TakenAt == (home :> <<1, 2, 2, 3>>) @@ (near :> <<1>>) @@ (far :> <<>>)
DatedAt == ("bad" :> 1) @@ ("r1" :> 3) @@ ("r2" :> 2) @@ ("r3" :> 3)

(* ------------------------------- Tracks and listings ----------------------------- *)
Newer == [i \in {"v1", "v2", "d", "e", "u"} |-> IF i = "v1" THEN {"v2"} ELSE {}]
SameBytes == [i \in {"a1", "a2", "a3", "f1", "f2"} |-> IF i \in {"a1", "a3"} THEN "x" ELSE i]
AllOverlap == {<<i, j>> \in {"a1", "a2", "a3"} \X {"a1", "a2", "a3"} : i # j}
OnA1 == [i \in {"a1", "a2", "a3", "f1", "f2"} |-> IF i \in {"f1", "f2"} THEN {"a1"} ELSE {}]

(* ----------------------------------- BodyAccess --------------------------------- *)
Od == [i \in {"a", "b"} |-> IF i = "a" THEN 1 ELSE 2]
Own3 == [i \in {"a", "b", "f"} |-> IF i = "a" THEN "x" ELSE IF i = "b" THEN "y" ELSE "z"]
Shared == [i \in {"a", "b", "f"} |-> IF i = "f" THEN "y" ELSE "x"]
SetsOpen == [i \in {"a", "b", "f"} |-> IF i = "a" THEN "derivative" ELSE "private"]
(* tokens and prices on one side, licences and prices on another, leases on the third. *)
Aside == Cardinality({x \in {"tokens", "licences", "leases"} :
            \/ x = "tokens" /\ tokens # <<>>
            \/ x = "licences" /\ (free # {} \/ \E i \in Item : license[i] > 0)
            \/ x = "leases" /\ \E i \in Ours : lease[i] # [v \in Checker |-> [r \in 0..MaxChallenges |-> 0]]
                              /\ \E j \in Item : round[j] > 0}) <= 1

Apart == VerifierApart /\ Aside

(* RecordsArrive of Gossip: what a configured peer has, and this node may take, is on *)
(* this node at last, whichever calls fail, but for what the times of the records lose *)
(* (p2p.ts:157-254).                                                                    *)
EveryRecordArrives == part = "Gossip" => RecordsArrive
(* WaitingIsMet of BodyAccess: an own listing that waits for its quorum gets it         *)
(* (market.ts:2048-2075).                                                                *)
EveryWaitingIsMet == part = "BodyAccess" => WaitingIsMet
===============================================================================
