------------------------------ MODULE Listings ------------------------------
(* What an author's node puts on the record about its own knowledge: drafts, the
   announcement and the list of older versions it will retire, the supersede records
   written once the new one is verified, price changes and withdrawals; and what the
   catalogue makes of the price and withdrawal records in whatever order the ledger
   lists them, with the notices the author gets.  Source: src/src/market.ts.

   Abstractions.  Verification and the knowledge of other nodes are external.  Rows,
   schemas, branches, licences and datasets are in the constants: what overlaps what,
   and which parents a knowledge names.                                               *)
EXTENDS Naturals, Sequences, FiniteSets, SequencesExt
CONSTANTS
    Own, Foreign,       \* ids this node may publish, and ids of other authors
    Bytes,              \* the body of each id
    Overlaps,           \* pairs of own ids that share rows, schema and branch
    Parents, Updates,   \* the parents each id names; pairs <<id, parent>> declared an update
    Already,            \* own ids announced long ago
    SeenCap,            \* how many notices the author's node remembers
    MaxListing          \* bound: publications, price changes, withdrawals, failures, crashes
ASSUME ListingsAssumption ==
    /\ Bytes \in [Own \cup Foreign -> STRING] /\ Overlaps \subseteq Own \X Own
    /\ Parents \in [Own \cup Foreign -> SUBSET (Own \cup Foreign)] /\ Already \subseteq Own
    /\ IsFiniteSet(Own) /\ Own \cap Foreign = {}
    /\ MaxListing \in Nat /\ SeenCap \in Nat
VARIABLES
    ldraft,     \* rows of the drafts table
    lsince,     \* created_at of the anchor of each id, 0 when it is not on the record
    lverified,  \* ids that passed their quorum
    lsup,       \* supersede records: <<old, new>>
    lterms,     \* price and retire records in the order the ledger lists them
    lpend,      \* pending_supersede of each own id
    ldecl,      \* history: pairs the publisher declared with `replaces`
    lann,       \* the announcement under way
    lrec,       \* reconcileSupersedes under way: what it still visits, writes and clears
    lseen,      \* marks of the notices written
    lclock, lbusy      \* the time; how much MaxListing bounds has happened
lvars == <<ldraft, lsince, lverified, lsup, lterms, lpend, ldecl, lann, lrec, lseen, lclock, lbusy>>
Ids == Own \cup Foreign
NoAnn == [id |-> "none", at |-> 0, pc |-> "idle", retires |-> {}, declared |-> {}]
Later == lclock' = lclock + 1 /\ lbusy < MaxListing /\ lbusy' = lbusy + 1
Listed(i) == lsince[i] > 0
Superseded(i) == \E p \in lsup : p[1] = i /\ p[2] \in lverified

(* catalogAll over the price and retire records: the newest price of the author wins,
   and a withdrawal is final; an older record is kept in the history only.           *)
Newest(acc, r) == IF r.at >= acc.at THEN [acc EXCEPT !.price = r.price, !.at = r.at] ELSE acc
FoldTerms(i) ==
    FoldLeft(LAMBDA acc, r : IF r.id # i THEN acc
                             ELSE IF r.price = "retired" THEN [acc EXCEPT !.retired = TRUE]
                             ELSE Newest(acc, r),
             [price |-> "listed", at |-> 0, retired |-> FALSE], lterms)
Retired(i) == FoldTerms(i).retired
OnSale(i) == Listed(i) /\ i \in lverified /\ ~Retired(i)
Tradeable(i) == Listed(i) /\ ~Retired(i) /\ ~Superseded(i)
----------------------------------------------------------------------------
ListInit ==
    /\ ldraft = {} /\ lsince = [i \in Ids |-> IF i \in Already THEN 1 ELSE 0] /\ lverified = {} /\ lsup = {} /\ lterms = <<>>
    /\ lpend = [i \in Own |-> {}] /\ ldecl = {} /\ lann = NoAnn /\ lrec = <<>>
    /\ lseen = <<>> /\ lclock = 2 /\ lbusy = 0

(* createDraft: a new id, known parents, and bytes nobody has on the record; the same
   bytes of this node's own only with force.                                          *)
DuplicateBody(i, force) ==
    \E j \in Ids \ {i} : Listed(j) /\ Bytes[j] = Bytes[i] /\ (j \in Foreign \/ ~force)
CreateDraft ==
    /\ Later
    /\ \E i \in Own, force \in BOOLEAN :
           /\ i \notin ldraft /\ ~Listed(i) /\ ~DuplicateBody(i, force)
           /\ \A p \in Parents[i] : Listed(p) \/ p \in ldraft
           /\ ldraft' = ldraft \cup {i}
    /\ UNCHANGED <<lsince, lverified, lsup, lterms, lpend, ldecl, lann, lrec, lseen>>
DeleteDraft ==
    /\ ldraft # {} /\ Later /\ \E i \in ldraft : ldraft' = ldraft \ {i}
    /\ UNCHANGED <<lsince, lverified, lsup, lterms, lpend, ldecl, lann, lrec, lseen>>

(* What an announcement will retire: the own overlapping versions older than these
   bytes, no declared parent unless it is an update, and those named in `replaces`.  *)
(* Mutant: a re-bake of an old file counts as new. *)
FromNow(i, now) == now
FirstSeen(i, now) ==
    LET older == {lsince[j] : j \in {k \in Own \ {i} : Listed(k) /\ Bytes[k] = Bytes[i]}}
    IN CHOOSE t \in older \cup {now} : \A u \in older \cup {now} : t <= u
Lineage(i, j) == j \in Parents[i] \/ i \in Parents[j]
Supersedable(i, now) ==
    {j \in Own \ {i} : /\ <<i, j>> \in Overlaps /\ Tradeable(j) /\ lsince[j] < FirstSeen(i, now)
                       /\ Lineage(i, j) => <<i, j>> \in Updates}
Declarable(i, now) == {j \in Own \ {i} : Tradeable(j) /\ j \notin Parents[i] /\ lsince[j] < now}

AnnounceBegin ==
    /\ lann.pc = "idle" /\ Later
    /\ \E i \in ldraft, auto \in BOOLEAN :
         /\ \A p \in Parents[i] : Listed(p)
         /\ \E declared \in {{}} \cup {{j} : j \in Declarable(i, lclock)} :
                lann' = [id |-> i, at |-> lclock, pc |-> "append", declared |-> declared,
                         retires |-> declared \cup IF auto THEN Supersedable(i, lclock) ELSE {}]
    /\ UNCHANGED <<ldraft, lsince, lverified, lsup, lterms, lpend, ldecl, lrec, lseen>>
\* A second anchor of one id (after a crash) changes nothing the library has listed.
AnnounceAppend ==
    /\ lann.pc = "append"
    /\ \/ /\ lsince' = IF Listed(lann.id) THEN lsince ELSE [lsince EXCEPT ![lann.id] = lann.at]
          /\ lann' = [lann EXCEPT !.pc = "finish"] /\ UNCHANGED lbusy
       \/ lbusy < MaxListing /\ lbusy' = lbusy + 1 /\ lann' = NoAnn /\ UNCHANGED lsince
    /\ UNCHANGED <<ldraft, lverified, lsup, lterms, lpend, ldecl, lrec, lseen, lclock>>
AnnounceFinish ==
    /\ lann.pc = "finish"
    /\ ldraft' = ldraft \ {lann.id} /\ lpend' = [lpend EXCEPT ![lann.id] = lann.retires]
    /\ ldecl' = ldecl \cup {<<j, lann.id>> : j \in lann.declared} /\ lann' = NoAnn
    /\ UNCHANGED <<lsince, lverified, lsup, lterms, lrec, lseen, lclock, lbusy>>

ForeignAnnounce ==
    /\ Later
    /\ \E i \in Foreign : ~Listed(i) /\ (\A p \in Parents[i] : Listed(p)) /\ lsince' = [lsince EXCEPT ![i] = lclock]
    /\ UNCHANGED <<ldraft, lverified, lsup, lterms, lpend, ldecl, lann, lrec, lseen>>
QuorumPasses ==
    /\ \E i \in Ids : Listed(i) /\ i \notin lverified /\ lverified' = lverified \cup {i}
    /\ UNCHANGED <<ldraft, lsince, lsup, lterms, lpend, ldecl, lann, lrec, lseen, lclock, lbusy>>
----------------------------------------------------------------------------
(* reconcileSupersedes, from the tick and after an attestation: it visits the verified
   listings of the catalogue it read at the start, and reads each pending list then. *)
VerifiedOwn == {i \in Own : OnSale(i) /\ ~Superseded(i)}
Pairs(i) == SetToSeq({<<j, i>> : j \in {k \in lpend[i] : Listed(k) /\ lsince[k] < lsince[i]}})
RecBegin ==
    /\ lrec = <<>> /\ \E i \in VerifiedOwn : lpend[i] # {}
    /\ lrec' = [n \in 1..Cardinality(VerifiedOwn) |-> <<"visit", SetToSeq(VerifiedOwn)[n]>>]
    /\ UNCHANGED <<ldraft, lsince, lverified, lsup, lterms, lpend, ldecl, lann, lseen, lclock, lbusy>>
RecVisit ==
    /\ lrec # <<>> /\ Head(lrec)[1] = "visit"
    /\ LET i == Head(lrec)[2] IN
           lrec' = (IF lpend[i] = {} THEN <<>> ELSE Append(Pairs(i), <<"clear", i>>)) \o Tail(lrec)
    /\ UNCHANGED <<ldraft, lsince, lverified, lsup, lterms, lpend, ldecl, lann, lseen, lclock, lbusy>>
AfterWrite(old, new) == IF old = "clear" THEN [lpend EXCEPT ![new] = {}] ELSE lpend
RecStep ==
    LET old == Head(lrec)[1]
        new == Head(lrec)[2]
    IN
    /\ lrec # <<>> /\ old # "visit"
    /\ \/ /\ lsup' = IF old = "clear" THEN lsup ELSE lsup \cup {<<old, new>>}
          /\ lpend' = AfterWrite(old, new) /\ lrec' = Tail(lrec) /\ UNCHANGED lbusy
       \/ /\ old # "clear" /\ lbusy < MaxListing /\ lbusy' = lbusy + 1    \* append failed
          /\ lrec' = <<>> /\ lpend' = [lpend EXCEPT ![new] = AfterWrite(old, new)[new]] /\ UNCHANGED lsup
    /\ UNCHANGED <<ldraft, lsince, lverified, lterms, ldecl, lann, lseen, lclock>>

(* setPrice and retire append a record; the ledger lists it at a place of its own. *)
PutOnRecord(r) == \E k \in 1..Len(lterms) + 1 : lterms' = InsertAt(lterms, k, r)
SetPrice ==
    /\ Later
    /\ \E i \in Own, price \in {"cheap", "dear"} :
           /\ Listed(i) /\ ~Retired(i) /\ FoldTerms(i).price # price
           /\ PutOnRecord([id |-> i, price |-> price, at |-> lclock])
    /\ UNCHANGED <<ldraft, lsince, lverified, lsup, lpend, ldecl, lann, lrec, lseen>>
Retire ==
    /\ Later
    /\ \E i \in Own : Listed(i) /\ ~Retired(i) /\ PutOnRecord([id |-> i, price |-> "retired", at |-> lclock])
    /\ UNCHANGED <<ldraft, lsince, lverified, lsup, lpend, ldecl, lann, lrec, lseen>>

(* noticeLineageEvents: somebody built on this node's knowledge; each mark is
   written once, as far as the node remembers.                                       *)
News == {i \in Foreign : Listed(i) /\ \E p \in Parents[i] \cap Own : Listed(p)}
Remembered(marks) == IF Len(marks) > SeenCap THEN SubSeq(marks, Len(marks) - SeenCap + 1, Len(marks)) ELSE marks
Notice ==
    LET new == SetToSeq(News \ Range(lseen)) IN
    /\ new # <<>>
    /\ lseen' = Remembered(lseen \o new)
    /\ UNCHANGED <<ldraft, lsince, lverified, lsup, lterms, lpend, ldecl, lann, lrec, lclock, lbusy>>

ListCrash ==
    /\ lbusy < MaxListing /\ lbusy' = lbusy + 1 /\ lann' = NoAnn /\ lrec' = <<>>
    /\ UNCHANGED <<ldraft, lsince, lverified, lsup, lterms, lpend, ldecl, lseen, lclock>>
Reconciling == RecBegin \/ RecVisit \/ RecStep
ListNext ==
    \/ CreateDraft \/ DeleteDraft \/ AnnounceBegin \/ AnnounceAppend \/ AnnounceFinish \/ ForeignAnnounce
    \/ QuorumPasses \/ Reconciling \/ SetPrice \/ Retire \/ Notice \/ ListCrash
ListSpec == ListInit /\ [][ListNext]_lvars
ListFairSpec == ListSpec /\ WF_lvars(Reconciling)
----------------------------------------------------------------------------
\* A listing is superseded only by a verified version of the same author that is newer,
\* and, unless it was declared, whose bytes were first published later (items 151, 240).
SupersededByNewer ==
    \A p \in lsup : /\ p[1] \in Own /\ p[2] \in lverified /\ lsince[p[1]] < lsince[p[2]]
                    /\ p \in ldecl \/ \A k \in Own : Listed(k) /\ Bytes[k] = Bytes[p[2]]
                                                => lsince[p[1]] < lsince[k]

=============================================================================
