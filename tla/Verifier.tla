------------------------------ MODULE Verifier ------------------------------
(* A verifying node and one knowledge of another author: the polling round, a
   verification asked for by hand beside it, challenges, the grace period of an
   absent model server, and what becomes of the fetched body, which the node may
   buy, serve, forget or collect as garbage meanwhile.
   Source: src/src/verifier.ts, src/src/gc.ts, src/src/market.ts.

   Abstractions.  The public record is the sequence vlog of what concerns this
   knowledge; a created_at is the length of the record when it was taken.  A run
   passes or fails freely, only where it ran is kept.  The listing is priced,
   not a draft, not this node's own (both refused at once) and names a benchmark
   and the model this node serves, so the node always wants to execute it.        *)
EXTENDS Integers, Sequences, SequencesExt
CONSTANTS
    Grace,       \* RUNTIME_GRACE_MS, in ticks of one age
    MaxFetch,    \* VERIFY_LEASE_FETCHES
    MaxRecords,  \* bound: the environment adds records up to this length
    MaxExtras   \* bound: restarts, verifications by hand, bodies forgotten or collected
ASSUME VerifierAssumption == Grace \in Nat \ {0} /\ MaxFetch \in Nat /\ MaxRecords \in Nat /\ MaxExtras \in Nat
VARIABLES
    vlog,     \* what the ledger says: challenges, own and other attestations
    vquorum,  \* enough other verifiers passed it
    vcache,   \* the catalogue entry as last derived, or Nothing
    vmodel,   \* the model server answers
    vfail,    \* runtimeFailures: 0, or 1 + the age of the first failure
    vupgraded,\* the `upgraded:` key
    vrun,     \* the round and the verification asked for by hand
    vbody, vlic, vbought, vserved,   \* body held, licence, purchase row, applied row
    vbuy, vapply, vforget,           \* a purchase, a load, a `patch forget` under way
    vfetches, \* copies the seller served, for each challenge (0: the first verification)
    vextras, \* how many of the events MaxExtras bounds so far
    vlost     \* history: the owner let the body go, or it went under a purchase or load
vvars == <<vlog, vquorum, vcache, vmodel, vfail, vupgraded, vrun, vbody, vlic, vbought,
           vserved, vbuy, vapply, vforget, vfetches, vextras, vlost>>
vdisk == <<vbody, vlic, vbought, vserved, vbuy, vapply, vforget, vextras, vlost>>
Nothing == [found |-> FALSE]
Runs == {"round", "hand"}
NoRun == [pc |-> "idle", view |-> Nothing, recheck |-> FALSE, began |-> 0, at |-> 0, on |-> "none"]
----------------------------------------------------------------------------
(* What the catalogue derives from the record. *)
Places(kind) == {i \in 1..Len(vlog) : vlog[i].kind = kind}
LastOf(S) == IF S = {} THEN 0 ELSE CHOOSE i \in S : \A j \in S : j <= i
Mine == LastOf(Places("mine"))
MineAt == IF Mine = 0 THEN 0 ELSE vlog[Mine].at
HasAnswer(c) == \E i \in Places("mine") \cup Places("peer") : vlog[i].at >= c
OpenChallenge == LET c == LastOf(Places("chal")) IN IF c = 0 \/ HasAnswer(c) THEN 0 ELSE c
Entry == [found |-> TRUE, mine |-> Mine # 0, at |-> MineAt,
          hash |-> Mine # 0 /\ vlog[Mine].on = "hash", open |-> OpenChallenge,
          waits |-> ~vquorum \/ OpenChallenge # 0]
\* A derivation is used for 1.5 s, although others have appended since.
Read == IF vcache.found THEN vcache ELSE Entry

NeedsAnswer(v) == v.open # 0 /\ (~v.mine \/ v.at < v.open)
CanUpgrade(v) == v.mine /\ v.hash /\ vmodel
Settled(v, recheck) == v.mine /\ v.at >= v.open /\ ~recheck /\ ~CanUpgrade(v)
----------------------------------------------------------------------------
VerInit ==
    /\ vlog = <<>> /\ vquorum = FALSE /\ vcache = Nothing /\ vmodel = TRUE
    /\ vfail = 0 /\ vupgraded = FALSE /\ vrun = [r \in Runs |-> NoRun]
    /\ vbody = FALSE /\ vlic = "none" /\ vbought = FALSE /\ vserved = FALSE
    /\ vbuy = FALSE /\ vapply = FALSE /\ vforget = FALSE /\ vfetches = [c \in 0..MaxRecords |-> 0] /\ vlost = FALSE /\ vextras = 0

Go(r, pc) == vrun' = [vrun EXCEPT ![r].pc = pc]
Extra == vextras < MaxExtras /\ vextras' = vextras + 1
Quit(r) == vrun' = [vrun EXCEPT ![r] = NoRun]

(* The round reads the catalogue once ... *)
RoundBegin ==
    /\ vrun["round"].pc = "idle"
    /\ vcache' = Read
    /\ vrun' = [vrun EXCEPT !["round"].pc = "look", !["round"].view = Read]
    /\ UNCHANGED <<vlog, vquorum, vmodel, vfail, vupgraded, vfetches, vdisk>>

(* ... asks the model server, and decides what this entry needs.  standAside (the
   budget, the window, somebody waiting) may end the round before the attempt.    *)
Attempted(v) ==
    /\ ~(vmodel /\ vserved)
    /\ \/ NeedsAnswer(v)
       \/ ~NeedsAnswer(v) /\ CanUpgrade(v) /\ ~vupgraded
       \/ ~v.mine /\ v.waits
RoundPick ==
    LET v == vrun["round"].view IN
    /\ vrun["round"].pc = "look"
    /\ \/ /\ Attempted(v) /\ vrun' = [vrun EXCEPT !["round"] = [NoRun EXCEPT !.pc = "check"]]
          /\ vupgraded' = (vupgraded \/ (v.mine /\ ~NeedsAnswer(v)))
       \/ Quit("round") /\ UNCHANGED vupgraded
    /\ UNCHANGED <<vlog, vquorum, vcache, vmodel, vfail, vfetches, vdisk>>

ByHand ==
    /\ vrun["hand"].pc = "idle" /\ Extra
    /\ \E again \in BOOLEAN :
           vrun' = [vrun EXCEPT !["hand"].pc = "check", !["hand"].recheck = again]
    /\ UNCHANGED <<vlog, vquorum, vcache, vmodel, vfail, vupgraded, vfetches, vbody, vlic, vbought,
                   vserved, vbuy, vapply, vforget, vlost>>

(* verifyOne looks again: nothing is measured twice without a reason, nor under
   itself.                                                                        *)
VerifyCheck(r) ==
    /\ vrun[r].pc = "check"
    /\ vcache' = Read
    /\ IF Settled(Read, vrun[r].recheck) \/ (vserved /\ vmodel)
       THEN Quit(r)
       ELSE vrun' = [vrun EXCEPT ![r].pc = "fetch", ![r].began = Len(vlog)]
    /\ UNCHANGED <<vlog, vquorum, vmodel, vfail, vupgraded, vfetches, vdisk>>

Licensed(source) == IF vlic = "purchase" THEN vlic ELSE source
\* The seller's verificationLease: the entry waits for this verifier, few copies so far.
LeaseHeld == ((Mine = 0 /\ Entry.waits) \/ NeedsAnswer(Entry)) /\ vfetches[OpenChallenge] < MaxFetch
EnsureBlob(r) ==
    /\ vrun[r].pc = "fetch"
    /\ vlic' = Licensed("verification")
    /\ \/ vbody /\ Go(r, "run") /\ UNCHANGED <<vbody, vfetches, vlost>>
       \/ /\ ~vbody /\ LeaseHeld /\ vbody' = TRUE /\ vlost' = FALSE /\ Go(r, "run")
          /\ vfetches' = [vfetches EXCEPT ![OpenChallenge] = @ + 1]
       \/ ~vbody /\ ~LeaseHeld /\ Quit(r) /\ UNCHANGED <<vbody, vfetches, vlost>>
    /\ UNCHANGED <<vlog, vquorum, vcache, vmodel, vfail, vupgraded, vbought, vserved,
                   vbuy, vapply, vforget, vextras>>

(* The benchmark, or what stands in for it: within the grace period of the first
   failure the run is given up, after it the attestation is of the file alone.    *)
(* Mutant: the time of the latest failure counts, so the grace never ends. *)
NotedAnew == 1
Noted == IF vfail = 0 THEN 1 ELSE vfail
Measured(r, on) == vrun' = [vrun EXCEPT ![r].pc = "write", ![r].at = Len(vlog), ![r].on = on]
Measure(r) ==
    /\ vrun[r].pc = "run"
    /\ \/ vmodel /\ vbody /\ Measured(r, "model") /\ vfail' = 0
       \/ vfail' = Noted /\ vfail' <= Grace /\ Quit(r)
       \/ vfail' = Noted /\ vfail' > Grace /\ Measured(r, "hash")
    /\ UNCHANGED <<vlog, vquorum, vcache, vmodel, vupgraded, vfetches, vdisk>>

Attest(r) ==
    /\ vrun[r].pc = "write"
    /\ vlog' = Append(vlog, [kind |-> "mine", at |-> vrun[r].at, on |-> vrun[r].on,
                             began |-> vrun[r].began, recheck |-> vrun[r].recheck])
    /\ vcache' = Nothing /\ vrun' = [vrun EXCEPT ![r] = [NoRun EXCEPT !.pc = "release"]]
    /\ UNCHANGED <<vquorum, vmodel, vfail, vupgraded, vfetches, vdisk>>

(* releaseBody: the file goes unless this node bought, licensed or serves it. *)
Releasable == vbody /\ ~vbought /\ ~vserved /\ vlic # "purchase"
ReleaseBody(r) ==
    /\ vrun[r].pc = "release" /\ Quit(r)
    /\ IF Releasable
       THEN vbody' = FALSE /\ vlic' = "none" /\ vlost' = (vlost \/ vbuy \/ vapply)
       ELSE UNCHANGED <<vbody, vlic, vlost>>
    /\ UNCHANGED <<vlog, vquorum, vcache, vmodel, vfail, vupgraded, vfetches, vbought,
                   vserved, vbuy, vapply, vforget, vextras>>
----------------------------------------------------------------------------
(* The other uses of the body. *)
Others == <<vlog, vquorum, vcache, vmodel, vfail, vupgraded, vrun, vfetches>>
\* finishPurchase has the body, and waits for the names of the payees.
BuyBody == /\ ~vbuy /\ ~vbought /\ vbuy' = TRUE /\ vbody' = TRUE /\ vlost' = (vlost /\ vbody)
           /\ UNCHANGED <<vlic, vbought, vserved, vapply, vforget, vextras, Others>>
BuyEnd == /\ vbuy /\ vbuy' = FALSE /\ vbought' = TRUE /\ vlic' = "purchase"
          /\ UNCHANGED <<vbody, vserved, vapply, vforget, vlost, vextras, Others>>
\* applyStack checked body and licence, and waits for the model.
ApplyBegin == /\ ~vapply /\ ~vserved /\ vbody /\ vlic = "purchase" /\ vapply' = TRUE
              /\ UNCHANGED <<vbody, vlic, vbought, vserved, vbuy, vforget, vlost, vextras, Others>>
ApplyEnd == /\ vapply /\ vapply' = FALSE /\ vserved' = vbody /\ vlost' = (vlost \/ vforget)
            /\ UNCHANGED <<vbody, vlic, vbought, vbuy, vforget, vextras, Others>>
Unload == /\ vserved /\ vserved' = FALSE
          /\ UNCHANGED <<vbody, vlic, vbought, vbuy, vapply, vforget, vlost, vextras, Others>>
(* Mutant: a loaded knowledge is forgotten. *)
ForgetHeld == vbody
Forgettable == vbody /\ ~vserved
ForgetBegin == /\ ~vforget /\ Forgettable /\ vforget' = TRUE /\ Extra
               /\ UNCHANGED <<vbody, vlic, vbought, vserved, vbuy, vapply, vlost, Others>>
\* After the catalogue was read: isApplied is not asked again.
ForgetEnd == /\ vforget /\ vforget' = FALSE /\ vbody' = FALSE
             /\ vlost' = (vlost \/ (vbody /\ ~vserved))
             /\ UNCHANGED <<vlic, vbought, vserved, vbuy, vapply, vextras, Others>>
Collectable == vbody /\ ~vserved /\ ~vbought
GcRun == /\ Collectable /\ Extra
         /\ vbody' = FALSE /\ vlost' = (vlost \/ vbuy \/ vapply)
         /\ UNCHANGED <<vlic, vbought, vserved, vbuy, vapply, vforget, Others>>
----------------------------------------------------------------------------
(* The rest of the network, the model server, the clock and a restart. *)
Say(kind) == vlog' = Append(vlog, [kind |-> kind, at |-> Len(vlog) + 1])
Challenge == /\ OpenChallenge = 0 /\ Len(vlog) < MaxRecords /\ Say("chal")
             /\ UNCHANGED <<vquorum, vcache, vmodel, vfail, vupgraded, vrun, vfetches, vdisk>>
PeersAnswer == /\ OpenChallenge # 0 /\ Len(vlog) < MaxRecords /\ Say("peer")
               /\ UNCHANGED <<vquorum, vcache, vmodel, vfail, vupgraded, vrun, vfetches, vdisk>>
PeersVerify == /\ ~vquorum /\ vquorum' = TRUE
               /\ UNCHANGED <<vlog, vcache, vmodel, vfail, vupgraded, vrun, vfetches, vdisk>>
ModelTurns == /\ vmodel' = ~vmodel
              /\ UNCHANGED <<vlog, vquorum, vcache, vfail, vupgraded, vrun, vfetches, vdisk>>
CacheExpires == /\ vcache.found /\ vcache' = Nothing
                /\ UNCHANGED <<vlog, vquorum, vmodel, vfail, vupgraded, vrun, vfetches, vdisk>>
GraceRuns == /\ vfail \in 1..Grace /\ vfail' = vfail + 1
             /\ UNCHANGED <<vlog, vquorum, vcache, vmodel, vupgraded, vrun, vfetches, vdisk>>
Restart == /\ Extra
           /\ vcache' = Nothing /\ vfail' = 0 /\ vupgraded' = FALSE
           /\ vrun' = [r \in Runs |-> NoRun] /\ vbuy' = FALSE /\ vapply' = FALSE /\ vforget' = FALSE
           /\ UNCHANGED <<vlog, vquorum, vmodel, vbody, vlic, vbought, vserved, vfetches, vlost>>

RoundSteps == \/ RoundBegin \/ RoundPick \/ VerifyCheck("round") \/ EnsureBlob("round")
              \/ Measure("round") \/ Attest("round") \/ ReleaseBody("round")
HandSteps == \/ VerifyCheck("hand") \/ EnsureBlob("hand") \/ Measure("hand")
             \/ Attest("hand") \/ ReleaseBody("hand")
VerNext == \/ RoundSteps \/ HandSteps \/ ByHand
           \/ BuyBody \/ BuyEnd \/ ApplyBegin \/ ApplyEnd \/ Unload \/ ForgetBegin \/ ForgetEnd
           \/ GcRun \/ Challenge \/ PeersAnswer \/ PeersVerify \/ ModelTurns
           \/ CacheExpires \/ GraceRuns \/ Restart
VerFairness == /\ WF_vvars(RoundSteps) /\ WF_vvars(GraceRuns) /\ WF_vvars(CacheExpires)
               /\ SF_vvars(RoundPick /\ vrun'["round"].pc = "check")
VerSpec == VerInit /\ [][VerNext]_vvars
VerFairSpec == VerSpec /\ VerFairness
----------------------------------------------------------------------------
\* What is on the model has its body on disk (forgetBody, releaseBody, gcRun), unless
\* the body went while the load was waiting for the model or the load came while
\* `patch forget` was reading the catalogue.
ServedIsHeld == vserved => vbody \/ vlost

\* Every challenge is answered, whatever the model server does, provided the node does
\* not serve the knowledge itself: after the grace period the file alone is attested,
\* and the seller's lease lasts until then (round, verifyOne, verificationLease).
ChallengesEnd == OpenChallenge # 0 ~> OpenChallenge = 0 \/ vserved
=============================================================================
