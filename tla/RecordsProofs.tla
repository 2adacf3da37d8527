---------------------------- MODULE RecordsProofs ----------------------------
(* Machine-checked theorems about records: what a node puts on the ledger, holds
   for it and owes by it.  The body of a served knowledge, for any number of
   records and restarts (Verifier); the versions an author retires, for all ids,
   bodies and parents (Listings); the records of its peers, for all shelves and
   pages (Gossip); the track it follows, for all items (Tracks); and the rows a
   sale owes, for every table and every bound (Payouts).                      *)
EXTENDS Verifier, Listings, Gossip, Tracks, Payouts, FiniteSums, SequenceTheorems, TLAPS

-----------------------------------------------------------------------------
(* Verifier: the body of what the model serves.                              *)

\* What is served is held, unless the body went meanwhile; and a body that `patch
\* forget` is about to take from under the model is already known to be lost.
HeldInv ==
  /\ vserved => vbody \/ vlost
  /\ vserved /\ vforget => vbody /\ vlost
Truths == {vbody, vserved, vforget, vlost, vbuy, vapply} \subseteq BOOLEAN

\* Steps that leave the body alone, and those that write a verification's row of it.
LEMMA BodyAlone ==
  ASSUME HeldInv, Truths, UNCHANGED vdisk
  PROVE  HeldInv' /\ Truths'
BY DEF HeldInv, Truths, vdisk

LEMMA RunHolds ==
  ASSUME HeldInv, Truths, NEW r \in Runs,
         VerifyCheck(r) \/ EnsureBlob(r) \/ Measure(r) \/ Attest(r) \/ ReleaseBody(r)
  PROVE  HeldInv' /\ Truths'
<1>1. CASE VerifyCheck(r) \/ Measure(r) \/ Attest(r)
  <2>1. UNCHANGED vdisk
    BY <1>1 DEF VerifyCheck, Measure, Attest
  <2>. QED  BY <2>1, BodyAlone
<1>2. CASE EnsureBlob(r)
  <2>1. /\ UNCHANGED <<vserved, vforget, vbuy, vapply>>
        /\ \/ vbody' = vbody /\ vlost' = vlost
           \/ ~vbody /\ vbody' = TRUE /\ vlost' = FALSE
    BY <1>2 DEF EnsureBlob
  <2>. QED  BY <2>1 DEF HeldInv, Truths
<1>3. CASE ReleaseBody(r)
  <2>1. /\ UNCHANGED <<vserved, vforget, vbuy, vapply>>
        /\ \/ vbody' = vbody /\ vlost' = vlost
           \/ ~vserved /\ vbody' = FALSE /\ vlost' = (vlost \/ vbuy \/ vapply)
    BY <1>3 DEF ReleaseBody, Releasable
  <2>. QED  BY <2>1 DEF HeldInv, Truths
<1>. QED  BY <1>1, <1>2, <1>3

LEMMA HeldStep ==
  ASSUME HeldInv, Truths, [VerNext]_vvars
  PROVE  HeldInv' /\ Truths'
<1>1. ASSUME RoundBegin \/ RoundPick \/ ByHand PROVE HeldInv' /\ Truths'
  <2>1. UNCHANGED <<vbody, vserved, vforget, vlost, vbuy, vapply>>
    BY <1>1 DEF RoundBegin, RoundPick, ByHand, vdisk
  <2>. QED  BY <2>1 DEF HeldInv, Truths
<1>2. ASSUME RoundSteps \/ HandSteps PROVE HeldInv' /\ Truths'
  BY <1>1, <1>2, RunHolds DEF RoundSteps, HandSteps, Runs
<1>3. ASSUME BuyBody PROVE HeldInv' /\ Truths'
  <2>1. UNCHANGED <<vserved, vforget, vapply>> /\ vbuy' = TRUE /\ vbody' = TRUE /\ vlost' = (vlost /\ vbody)
    BY <1>3 DEF BuyBody
  <2>. QED  BY <2>1 DEF HeldInv, Truths
<1>4. ASSUME BuyEnd \/ ApplyBegin PROVE HeldInv' /\ Truths'
  <2>1. UNCHANGED <<vbody, vserved, vforget, vlost>> /\ vbuy' \in {vbuy, FALSE} /\ vapply' \in {vapply, TRUE}
    BY <1>4 DEF BuyEnd, ApplyBegin
  <2>. QED  BY <2>1 DEF HeldInv, Truths
\* A load ends with what is on disk then; a `patch forget` under way has lost it.
<1>5. ASSUME ApplyEnd PROVE HeldInv' /\ Truths'
  <2>1. /\ UNCHANGED <<vbody, vforget, vbuy>> /\ vapply' = FALSE
        /\ vserved' = vbody /\ vlost' = (vlost \/ vforget)
    BY <1>5 DEF ApplyEnd
  <2>. QED  BY <2>1 DEF HeldInv, Truths
<1>6. ASSUME Unload PROVE HeldInv' /\ Truths'
  <2>1. UNCHANGED <<vbody, vforget, vlost, vbuy, vapply>> /\ vserved' = FALSE
    BY <1>6 DEF Unload
  <2>. QED  BY <2>1 DEF HeldInv, Truths
<1>7. ASSUME ForgetBegin PROVE HeldInv' /\ Truths'
  <2>1. UNCHANGED <<vbody, vserved, vlost, vbuy, vapply>> /\ vforget' = TRUE /\ ~vserved
    BY <1>7 DEF ForgetBegin, Forgettable
  <2>. QED  BY <2>1 DEF HeldInv, Truths
<1>8. ASSUME ForgetEnd PROVE HeldInv' /\ Truths'
  <2>1. /\ UNCHANGED <<vserved, vbuy, vapply>> /\ vforget /\ vforget' = FALSE /\ vbody' = FALSE
        /\ vlost' = (vlost \/ (vbody /\ ~vserved))
    BY <1>8 DEF ForgetEnd
  <2>. QED  BY <2>1 DEF HeldInv, Truths
<1>9. ASSUME GcRun PROVE HeldInv' /\ Truths'
  <2>1. /\ UNCHANGED <<vserved, vforget, vbuy, vapply>> /\ ~vserved
        /\ vbody' = FALSE /\ vlost' = (vlost \/ vbuy \/ vapply)
    BY <1>9 DEF GcRun, Collectable
  <2>. QED  BY <2>1 DEF HeldInv, Truths
<1>10. ASSUME Restart PROVE HeldInv' /\ Truths'
  <2>1. UNCHANGED <<vbody, vserved, vlost>> /\ vbuy' = FALSE /\ vapply' = FALSE /\ vforget' = FALSE
    BY <1>10 DEF Restart
  <2>. QED  BY <2>1 DEF HeldInv, Truths
<1>11. ASSUME \/ Challenge \/ PeersAnswer \/ PeersVerify \/ ModelTurns \/ CacheExpires \/ GraceRuns
              \/ UNCHANGED vvars
       PROVE  HeldInv' /\ Truths'
  <2>1. UNCHANGED vdisk
    BY <1>11 DEF Challenge, PeersAnswer, PeersVerify, ModelTurns, CacheExpires, GraceRuns, vdisk, vvars
  <2>. QED  BY <2>1, BodyAlone
<1>. QED  BY <1>1, <1>2, <1>3, <1>4, <1>5, <1>6, <1>7, <1>8, <1>9, <1>10, <1>11 DEF VerNext

\* The body of a knowledge that the model serves is on disk (forgetBody, releaseBody,
\* gcRun), whatever buys, loads, forgets, collects or verifies it beside, unless the
\* owner let it go before the load was through.
THEOREM ServedBodyIsHeld == VerSpec => []ServedIsHeld
<1>1. VerInit => HeldInv /\ Truths
  BY DEF VerInit, HeldInv, Truths
<1>2. HeldInv /\ Truths /\ [VerNext]_vvars => (HeldInv /\ Truths)'
  BY HeldStep
<1>3. HeldInv => ServedIsHeld
  BY DEF HeldInv, ServedIsHeld
<1>. QED  BY <1>1, <1>2, <1>3, PTL DEF VerSpec

-----------------------------------------------------------------------------
(* Gossip: what the cursor of a peer has passed.                             *)

\* The rows of the peers have the fields the handlers write.
IsPeerRow(r) ==
  r = [source |-> r.source, failures |-> r.failures, seen |-> r.seen, cursor |-> r.cursor]
PeerRows == grow = [e \in Endpoints |-> grow[e]] /\ \A e \in Endpoints : IsPeerRow(grow[e])
\* What a peer took up to this time is here, or refused for ever, unless its times lose it.
HeldUpTo(e, c) ==
  c \in Nat /\ \A i \in 1..Len(Shelf[e]) :
                  Pullable(e, i) /\ Taken[e][i] <= c => Shelf[e][i] \in gledger \cup Refusable
PassedIsHeld == \A e \in Endpoints : HeldUpTo(e, grow[e].cursor)
GossipInv == PeerRows /\ PassedIsHeld

\* A call starts from the row of the peer, or from a fresh one.
LEMMA RowOfIs ==
  ASSUME GossipInv, NEW e \in Endpoints
  PROVE  IsPeerRow(RowOf(e)) /\ HeldUpTo(e, RowOf(e).cursor)
<1>1. IsPeerRow(FreshRow) /\ FreshRow.cursor = 0
  BY DEF IsPeerRow, FreshRow
<1>2. HeldUpTo(e, 0)
  BY GossipAssumption DEF HeldUpTo
<1>3. IsPeerRow(grow[e]) /\ HeldUpTo(e, grow[e].cursor)
  BY DEF GossipInv, PeerRows, PassedIsHeld
<1>. QED  BY <1>1, <1>2, <1>3 DEF RowOf

\* A row that keeps the cursor it had.
SameCursor(e, r) == IsPeerRow(r) /\ r.cursor = RowOf(e).cursor
LEMMA PeerRow ==
  ASSUME NEW so, NEW fa, NEW se, NEW cu
  PROVE  LET r == [source |-> so, failures |-> fa, seen |-> se, cursor |-> cu]
         IN  IsPeerRow(r) /\ r.cursor = cu
BY DEF IsPeerRow

LEMMA RowsWritten ==
  ASSUME GossipInv, NEW e \in Endpoints
  PROVE  /\ SameCursor(e, [RowOf(e) EXCEPT !.failures = 0, !.seen = TRUE])
         /\ \A f : SameCursor(e, [RowOf(e) EXCEPT !.failures = f])
         /\ \A f, s : SameCursor(e, [RowOf(e) EXCEPT !.failures = f, !.seen = s])
         /\ \A s : SameCursor(e, [RowOf(e) EXCEPT !.source = s])
         /\ \A c : LET r == [RowOf(e) EXCEPT !.cursor = c] IN IsPeerRow(r) /\ r.cursor = c
<1>. PICK r : r = RowOf(e)
  OBVIOUS
<1>1. PICK so, fa, se, cu : r = [source |-> so, failures |-> fa, seen |-> se, cursor |-> cu]
  BY RowOfIs DEF IsPeerRow
<1>2. r.cursor = cu
  BY <1>1
<1>3. \A f : [r EXCEPT !.failures = f] = [source |-> so, failures |-> f, seen |-> se, cursor |-> cu]
  BY <1>1
<1>4. \A f, s : [[source |-> so, failures |-> f, seen |-> se, cursor |-> cu] EXCEPT !.seen = s]
                = [source |-> so, failures |-> f, seen |-> s, cursor |-> cu]
  OBVIOUS
<1>5. \A s : [r EXCEPT !.source = s] = [source |-> s, failures |-> fa, seen |-> se, cursor |-> cu]
  BY <1>1
<1>6. \A c : [r EXCEPT !.cursor = c] = [source |-> so, failures |-> fa, seen |-> se, cursor |-> c]
  BY <1>1
<1>7. ASSUME NEW f, NEW s PROVE SameCursor(e, [r EXCEPT !.failures = f, !.seen = s])
  <2>. DEFINE q == [source |-> so, failures |-> f, seen |-> s, cursor |-> cu]
  <2>1. [r EXCEPT !.failures = f, !.seen = s] = q
    BY Zenon, <1>3, <1>4
  <2>2. IsPeerRow(q) /\ q.cursor = cu
    BY PeerRow
  <2>. QED  BY Zenon, <1>2, <2>1, <2>2 DEF SameCursor
<1>8. ASSUME NEW f PROVE SameCursor(e, [r EXCEPT !.failures = f])
  <2>. DEFINE q == [source |-> so, failures |-> f, seen |-> se, cursor |-> cu]
  <2>1. [r EXCEPT !.failures = f] = q
    BY Zenon, <1>3
  <2>2. IsPeerRow(q) /\ q.cursor = cu
    BY PeerRow
  <2>. QED  BY Zenon, <1>2, <2>1, <2>2 DEF SameCursor
<1>9. ASSUME NEW s PROVE SameCursor(e, [r EXCEPT !.source = s])
  <2>. DEFINE q == [source |-> s, failures |-> fa, seen |-> se, cursor |-> cu]
  <2>1. [r EXCEPT !.source = s] = q
    BY Zenon, <1>5
  <2>2. IsPeerRow(q) /\ q.cursor = cu
    BY PeerRow
  <2>. QED  BY Zenon, <1>2, <2>1, <2>2 DEF SameCursor
<1>10. ASSUME NEW c PROVE IsPeerRow([r EXCEPT !.cursor = c]) /\ [r EXCEPT !.cursor = c].cursor = c
  <2>. DEFINE q == [source |-> so, failures |-> fa, seen |-> se, cursor |-> c]
  <2>1. [r EXCEPT !.cursor = c] = q
    BY Zenon, <1>6
  <2>2. IsPeerRow(q) /\ q.cursor = c
    BY PeerRow
  <2>. QED  BY Zenon, <1>2, <2>1, <2>2 DEF SameCursor
<1>. QED  BY Zenon, <1>7, <1>8, <1>9, <1>10

\* Whatever else a step writes: rows with the cursor of the peer, or one it has reached,
\* while no record goes.
LEMMA PeerWritten ==
  ASSUME GossipInv, gledger \subseteq gledger',
         \/ grow' = grow
         \/ \E e, r : /\ grow' = [grow EXCEPT ![e] = r]
                      /\ e \in Endpoints => IsPeerRow(r) /\ HeldUpTo(e, r.cursor)'
  PROVE  GossipInv'
<1>1. \A e \in Endpoints : \A c : HeldUpTo(e, c) => HeldUpTo(e, c)'
  BY DEF HeldUpTo
<1>2. CASE grow' = grow
  BY <1>1, <1>2 DEF GossipInv, PeerRows, PassedIsHeld
<1>3. ASSUME NEW e, NEW r, grow' = [grow EXCEPT ![e] = r],
             e \in Endpoints => IsPeerRow(r) /\ HeldUpTo(e, r.cursor)'
      PROVE  GossipInv'
  <2>1. /\ grow' = [x \in Endpoints |-> grow'[x]]
        /\ \A x \in Endpoints : grow'[x] = IF x = e THEN r ELSE grow[x]
    BY <1>3 DEF GossipInv, PeerRows
  <2>2. ASSUME NEW x \in Endpoints PROVE IsPeerRow(grow'[x]) /\ HeldUpTo(x, grow[x].cursor)'
    BY <1>1, <1>3, <2>1 DEF GossipInv, PeerRows, PassedIsHeld
  <2>. QED  BY <2>1, <2>2 DEF GossipInv, PeerRows, PassedIsHeld, IsPeerRow
<1>. QED  BY <1>2, <1>3

\* The times in a row of the list of a peer.
LEMMA TimesAre ==
  ASSUME NEW e \in Endpoints, NEW i \in 1..Len(Shelf[e])
  PROVE  /\ Taken[e][i] \in Nat \ {0} /\ Dated[Shelf[e][i]] \in Nat
         /\ \A j \in 1..i : Taken[e][j] <= Taken[e][i]
BY GossipAssumption

\* A page that is taken whole: what lies between the cursor and its last time is in it,
\* unless another record of the list has the same time.
LEMMA WholePage ==
  ASSUME NEW e \in Endpoints, NEW c \in Nat, NEW n \in NewCursor(e, c, 0),
         NEW i \in 1..Len(Shelf[e]), Pullable(e, i), c < Taken[e][i], Taken[e][i] <= n
  PROVE  i \in PageFrom(e, c)
<1>1. PageSize \in Nat \ {0} /\ Len(Shelf[e]) \in Nat
  BY GossipAssumption
<1>2. PICK k \in PageFrom(e, c) : n = Taken[e][k]
  BY TimesAre DEF NewCursor
<1>3. /\ k \in 1..Len(Shelf[e]) /\ Taken[e][k] \in Nat /\ Taken[e][i] \in Nat
      /\ k > PageSize => Taken[e][k - PageSize] <= c
  BY <1>2, TimesAre DEF PageFrom
<1>4. i <= k
  <2>1. k < i => Taken[e][k] < Taken[e][i]
    BY <1>1, <1>3 DEF Pullable
  <2>. QED  BY <1>2, <1>3, <2>1
<1>5. i > PageSize => Taken[e][i - PageSize] <= c
  <2>. SUFFICES ASSUME i > PageSize PROVE Taken[e][i - PageSize] <= c
    OBVIOUS
  <2>1. /\ k - PageSize \in 1..Len(Shelf[e]) /\ i - PageSize \in 1..(k - PageSize) /\ k > PageSize
        /\ i - PageSize \in 1..Len(Shelf[e])
    BY <1>1, <1>3, <1>4
  <2>2. Taken[e][i - PageSize] <= Taken[e][k - PageSize] /\ Taken[e][k - PageSize] <= c
    BY <1>3, <2>1, TimesAre
  <2>3. Taken[e][i - PageSize] \in Nat /\ Taken[e][k - PageSize] \in Nat
    BY <2>1, TimesAre
  <2>. QED  BY <2>2, <2>3
<1>. QED  BY <1>5 DEF PageFrom

\* A page that stops at a record: what lies between the cursor and just before the time in
\* that record came before it in the page.
LEMMA CutPage ==
  ASSUME NEW e \in Endpoints, NEW c \in Nat, NEW stop \in PageFrom(e, c),
         NEW n \in NewCursor(e, c, stop),
         NEW i \in 1..Len(Shelf[e]), Pullable(e, i), c < Taken[e][i], Taken[e][i] <= n
  PROVE  i \in PageFrom(e, c) /\ i < stop
<1>1. PageSize \in Nat \ {0} /\ Len(Shelf[e]) \in Nat
  BY GossipAssumption
<1>2. /\ stop \in 1..Len(Shelf[e]) /\ Dated[Shelf[e][stop]] \in Nat
      /\ stop > PageSize => Taken[e][stop - PageSize] <= c
  BY TimesAre DEF PageFrom
<1>3. n = c \/ n = Dated[Shelf[e][stop]] - 1
  BY <1>1, <1>2 DEF NewCursor, AtLeast
<1>4. Taken[e][i] \in Nat /\ Taken[e][i] < Dated[Shelf[e][stop]]
  BY <1>2, <1>3, TimesAre
<1>5. i < stop
  <2>1. stop \in 1..i => Dated[Shelf[e][stop]] <= Taken[e][i]
    BY DEF Pullable
  <2>. QED  BY <1>1, <1>2, <1>4, <2>1
<1>6. i > PageSize => Taken[e][i - PageSize] <= c
  <2>. SUFFICES ASSUME i > PageSize PROVE Taken[e][i - PageSize] <= c
    OBVIOUS
  <2>1. /\ stop - PageSize \in 1..Len(Shelf[e]) /\ i - PageSize \in 1..(stop - PageSize) /\ stop > PageSize
        /\ i - PageSize \in 1..Len(Shelf[e])
    BY <1>1, <1>2, <1>5
  <2>2. Taken[e][i - PageSize] <= Taken[e][stop - PageSize] /\ Taken[e][stop - PageSize] <= c
    BY <1>2, <2>1, TimesAre
  <2>3. Taken[e][i - PageSize] \in Nat /\ Taken[e][stop - PageSize] \in Nat
    BY <2>1, TimesAre
  <2>. QED  BY <2>2, <2>3
<1>. QED  BY <1>5, <1>6 DEF PageFrom

\* A page moves the cursor over what went in with it, or is refused.
LEMMA SyncKeeps ==
  ASSUME GossipInv, Sync
  PROVE  GossipInv'
<1>. PICK c, e : c = RowOf(e).cursor /\ e = Peer
  OBVIOUS
<1>1. PICK stop :
        /\ stop = 0 \/ stop \in PageFrom(e, c)
        /\ gledger' = gledger \cup ({Shelf[e][i] : i \in {k \in PageFrom(e, c) : stop = 0 \/ k < stop}}
                                    \ Refusable)
        /\ \E n \in NewCursor(e, c, stop) : Written(e, [RowOf(e) EXCEPT !.cursor = n])
  BY DEF Sync
<1>2. PICK n \in NewCursor(e, c, stop) : Written(e, [RowOf(e) EXCEPT !.cursor = n])
  BY <1>1
<1>. PICK r : r = [RowOf(e) EXCEPT !.cursor = n]
  OBVIOUS
<1>3. gledger \subseteq gledger' /\ (grow' = grow \/ grow' = [grow EXCEPT ![e] = r])
  BY <1>1, <1>2 DEF Written
<1>4. ASSUME e \in Endpoints PROVE IsPeerRow(r) /\ HeldUpTo(e, r.cursor)'
  <2>1. IsPeerRow(r) /\ r.cursor = n /\ HeldUpTo(e, c)
    BY <1>4, RowsWritten, RowOfIs
  <2>2. c \in Nat
    BY <2>1 DEF HeldUpTo
  <2>3. n \in Nat
    <3>1. CASE stop = 0
      BY <1>2, <1>4, <2>2, <3>1, TimesAre DEF NewCursor, PageFrom
    <3>2. CASE stop \in PageFrom(e, c)
      <4>1. stop \in 1..Len(Shelf[e]) /\ Dated[Shelf[e][stop]] \in Nat
        BY <1>4, <3>2, TimesAre DEF PageFrom
      <4>. QED  BY <1>2, <2>2, <4>1 DEF NewCursor, AtLeast
    <3>. QED  BY <1>1, <3>1, <3>2
  <2>4. ASSUME NEW i \in 1..Len(Shelf[e]), Pullable(e, i), Taken[e][i] <= n
        PROVE  Shelf[e][i] \in gledger' \cup Refusable
    <3>1. CASE Taken[e][i] <= c
      BY <1>3, <2>1, <2>4, <3>1 DEF HeldUpTo
    <3>2. CASE c < Taken[e][i]
      <4>1. i \in PageFrom(e, c) /\ (stop = 0 \/ i < stop)
        BY <1>1, <1>2, <1>4, <2>2, <2>4, <3>2, WholePage, CutPage
      <4>. QED  BY <1>1, <4>1
    <3>. QED  BY <1>4, <2>2, <3>1, <3>2, TimesAre
  <2>5. HeldUpTo(e, n)'
    BY <2>3, <2>4 DEF HeldUpTo, Pullable
  <2>. QED  BY <2>1, <2>5
<1>. QED  BY <1>3, <1>4, PeerWritten

\* Every other call and handler leaves the cursor of a row, or starts a row afresh.
LEMMA GossipStep ==
  ASSUME GossipInv, [GossipNext]_gvars
  PROVE  GossipInv'
<1>0. ASSUME NEW e, NEW r, gledger \subseteq gledger', e \in Endpoints => SameCursor(e, r),
             grow' = grow \/ grow' = [grow EXCEPT ![e] = r]
      PROVE  GossipInv'
  <2>1. e \in Endpoints => IsPeerRow(r) /\ HeldUpTo(e, r.cursor)'
    BY <1>0, RowOfIs DEF SameCursor, HeldUpTo
  <2>. QED  BY <1>0, <2>1, PeerWritten
<1>1. ASSUME Hello PROVE GossipInv'
  <2>. PICK e : e = Peer
    OBVIOUS
  <2>1. /\ gledger' = gledger
        /\ \/ grow' = grow
           \/ grow' = [grow EXCEPT ![e] = [RowOf(e) EXCEPT !.failures = 0, !.seen = TRUE]]
    BY <1>1 DEF Hello, Written
  <2>. QED  BY <1>0, <2>1, RowsWritten
<1>2. ASSUME CallFails PROVE GossipInv'
  <2>. PICK e : e = Peer
    OBVIOUS
  <2>1. PICK f :
          /\ gledger' = gledger
          /\ grow' = grow \/ grow' = [grow EXCEPT ![e] = [RowOf(e) EXCEPT !.failures = f]]
    BY <1>2 DEF CallFails
  <2>2. e \in Endpoints => SameCursor(e, [RowOf(e) EXCEPT !.failures = f])
    BY RowsWritten
  <2>. QED  BY <1>0, <2>1, <2>2
<1>3. ASSUME Exchange PROVE GossipInv'
  <2>1. gledger' = gledger /\ (grow' = grow \/ \E e \in Endpoints : grow' = [grow EXCEPT ![e] = FreshRow])
    BY <1>3 DEF Exchange, LearnOne
  <2>2. \A e \in Endpoints : IsPeerRow(FreshRow) /\ HeldUpTo(e, FreshRow.cursor)'
    BY GossipAssumption DEF IsPeerRow, FreshRow, HeldUpTo
  <2>. QED  BY <2>1, <2>2, PeerWritten
<1>4. ASSUME InboundHello PROVE GossipInv'
  <2>1. PICK e \in Endpoints : \E f, s :
          /\ gledger' = gledger
          /\ grow' = grow \/ grow' = [grow EXCEPT ![e] = [RowOf(e) EXCEPT !.failures = f, !.seen = s]]
    BY <1>4 DEF InboundHello, Written
  <2>2. PICK f, s :
          /\ gledger' = gledger
          /\ grow' = grow \/ grow' = [grow EXCEPT ![e] = [RowOf(e) EXCEPT !.failures = f, !.seen = s]]
    BY <2>1
  <2>3. SameCursor(e, [RowOf(e) EXCEPT !.failures = f, !.seen = s])
    BY RowsWritten
  <2>. QED  BY <1>0, <2>2, <2>3
<1>5. ASSUME AddPeer PROVE GossipInv'
  <2>1. PICK e \in Endpoints :
          gledger' = gledger /\ grow' = [grow EXCEPT ![e] = [RowOf(e) EXCEPT !.source = "configured"]]
    BY <1>5 DEF AddPeer
  <2>. QED  BY <1>0, <2>1, RowsWritten
<1>6. ASSUME GossipRestart PROVE GossipInv'
  <2>1. /\ gledger' = gledger
        /\ grow' = [e \in Endpoints |->
                      [RowOf(e) EXCEPT !.source = IF e \in gconf THEN "configured" ELSE "learned"]]
    BY <1>6 DEF GossipRestart
  <2>2. ASSUME NEW e \in Endpoints PROVE IsPeerRow(grow'[e]) /\ HeldUpTo(e, grow[e].cursor)'
    <3>1. SameCursor(e, grow'[e])
      BY <2>1, RowsWritten
    <3>. QED  BY <2>1, <3>1, RowOfIs DEF SameCursor, HeldUpTo
  <2>. QED  BY <2>1, <2>2 DEF GossipInv, PeerRows, PassedIsHeld, IsPeerRow
<1>7. ASSUME RoundStart \/ Pushed \/ RemovePeer \/ UNCHANGED gvars PROVE GossipInv'
  <2>1. gledger \subseteq gledger' /\ grow' = grow
    BY <1>7 DEF RoundStart, Pushed, RemovePeer, gvars
  <2>. QED  BY <2>1, PeerWritten
<1>. QED  BY <1>1, <1>2, <1>3, <1>4, <1>5, <1>6, <1>7, SyncKeeps DEF GossipNext, RoundCalls

\* The cursor a node keeps for a peer passes only records it has, that its ledger refuses
\* for ever, or that the times of the peer's list lose: one taken at the same time as an
\* earlier one, or behind one dated later than it was taken (Pullable).  So the comment on
\* the cursor (p2p.ts:211) is right of the others, whatever fails in the middle of a page, is
\* pushed, added, removed or restarted meanwhile.
THEOREM CursorPassesWhatIsHeld == GossipSpec => []PassedIsHeld
<1>1. GossipInit => GossipInv
  BY GossipAssumption DEF GossipInit, GossipInv, PeerRows, PassedIsHeld, HeldUpTo, IsPeerRow, FreshRow
<1>2. GossipInv /\ [GossipNext]_gvars => GossipInv'
  BY GossipStep
<1>3. GossipInv => PassedIsHeld
  BY DEF GossipInv
<1>. QED  BY <1>1, <1>2, <1>3, PTL DEF GossipSpec

-----------------------------------------------------------------------------
(* Tracks: what a follower announces, serves and pays.                       *)

\* What is on the record as followed, and what the model serves of the track, is licensed.
TrackIsHeld == (Follows => trec.items \subseteq tlic) /\ tloaded \subseteq tlic
\* Each fee that left the node has a row of its own, which went in before it.
FeesAreOnRows == tsent \in Nat /\ tsent <= Len(trows)

FeeStatus == {"quoted", "paid", "settled"}
IsSubscription(c) == c = [pc |-> c.pc, want |-> c.want, todo |-> c.todo, failed |-> c.failed, stale |-> c.stale]
\* What a subscription wants is licensed, still to buy, or could not be bought; and a row
\* waits for the fee that is about to leave.
TracksInv ==
  /\ TrackIsHeld /\ FeesAreOnRows /\ trows \in Seq(FeeStatus) /\ IsSubscription(tsub)
  /\ tsub.pc \in {"quoted", "transfer", "present", "buy"} =>
       tsub.want \subseteq tlic \cup tsub.todo \cup tsub.failed
  /\ tsub.pc = "load" => tsub.want \subseteq tlic
  /\ tsub.pc = "transfer" => tsent < Len(trows)
  /\ tsub.pc = "present" => Len(trows) > 0

LEMMA TracksStep ==
  ASSUME TracksInv, [TracksNext]_tvars
  PROVE  TracksInv'
<1>1. IsSubscription(NoCall) /\ NoCall.pc = "idle"
  BY DEF IsSubscription, NoCall
<1>2. CASE SubscribeBegin
  BY <1>2 DEF SubscribeBegin, TracksInv, TrackIsHeld, FeesAreOnRows, IsSubscription, NoCall, Follows
<1>3. CASE FeeRow
  BY <1>3 DEF FeeRow, RowFirst, FeeStatus, TracksInv, TrackIsHeld, FeesAreOnRows, IsSubscription, Follows
<1>4. CASE FeeTransfer
  BY <1>4 DEF FeeTransfer, TracksInv, TrackIsHeld, FeesAreOnRows, IsSubscription, Follows, NoCall
<1>5. CASE FeeSettled \/ FeeFails
  <2>1. trows \in Seq(FeeStatus) /\ Len(trows) > 0
    BY <1>5 DEF FeeSettled, FeeFails, TracksInv
  <2>. PICK n : n = Len(trows)
    OBVIOUS
  <2>. n \in 1..Len(trows)
    BY <2>1
  <2>2. trows' \in Seq(FeeStatus) /\ Len(trows') = Len(trows)
    <3>1. trows' = trows \/ \E s \in FeeStatus : trows' = [trows EXCEPT ![n] = s]
      BY <1>5 DEF FeeSettled, FeeFails, FeeStatus
    <3>. QED  BY <2>1, <3>1, ExceptSeq
  <2>3. IsSubscription(tsub)' /\ tsub'.pc \in {"idle", "buy"} /\ (tsub'.pc = "buy" =>
          tsub'.want \subseteq tlic \cup tsub'.todo \cup tsub'.failed)
    BY <1>1, <1>5 DEF FeeSettled, FeeFails, TracksInv, IsSubscription
  <2>4. UNCHANGED <<tlic, tloaded, trec, tsent>>
    BY <1>5 DEF FeeSettled, FeeFails
  <2>. QED  BY <2>2, <2>3, <2>4 DEF TracksInv, TrackIsHeld, FeesAreOnRows, Follows
<1>6. CASE SubscribeBuys
  BY <1>6 DEF SubscribeBuys, TracksInv, TrackIsHeld, FeesAreOnRows, IsSubscription, Follows
<1>7. CASE SubscribeRecord
  BY <1>7 DEF SubscribeRecord, Acquired, TracksInv, TrackIsHeld, FeesAreOnRows, IsSubscription, Follows, NoCall
<1>8. CASE SubscribeLoads \/ Unsubscribe \/ UnsubscribeUnloads
  <2>1. IsSubscription(tsub)' /\ tsub'.pc \in {"idle", "unload"}
    <3>. DEFINE c == [pc |-> "unload", want |-> {}, todo |-> {}, failed |-> {}, stale |-> {}]
                d == [pc |-> "unload", want |-> {}, todo |-> {}, failed |-> {}, stale |-> tloaded]
    <3>1. [NoCall EXCEPT !.pc = "unload"] = c
      BY DEF NoCall
    <3>2. [c EXCEPT !.stale = tloaded] = d
      OBVIOUS
    <3>3. tsub' = NoCall \/ tsub' = [[NoCall EXCEPT !.pc = "unload"] EXCEPT !.stale = tloaded]
      BY Zenon, <1>8 DEF SubscribeLoads, Unsubscribe, UnsubscribeUnloads
    <3>4. tsub' = NoCall \/ tsub' = d
      BY Zenon, <3>1, <3>2, <3>3
    <3>. QED  BY <1>1, <3>4 DEF IsSubscription
  <2>2. tloaded' \subseteq tlic
    BY <1>8 DEF SubscribeLoads, Unsubscribe, UnsubscribeUnloads, Loadable, TracksInv, TrackIsHeld
  <2>3. UNCHANGED <<tlic, tsent, trows>> /\ (trec' = trec \/ ~trec'.follows)
    BY <1>8 DEF SubscribeLoads, Unsubscribe, UnsubscribeUnloads
  <2>. QED  BY <2>1, <2>2, <2>3 DEF TracksInv, TrackIsHeld, FeesAreOnRows, Follows
<1>9. CASE SyncBuys \/ SyncLoads
  BY <1>9 DEF SyncBuys, SyncLoads, Loadable, Ready, TracksInv, TrackIsHeld, FeesAreOnRows, IsSubscription, Follows
<1>10. CASE TracksCrash
  BY <1>1, <1>10 DEF TracksCrash, TracksInv, TrackIsHeld, FeesAreOnRows, Follows
<1>11. CASE \/ AddToBranch \/ SetBranchTerms \/ PeriodEnds \/ SyncBegin \/ SyncNow \/ ModelGoes
            \/ ModelComes \/ (\E i \in Items : BackoffRuns(i)) \/ UNCHANGED tvars
  BY <1>11 DEF AddToBranch, SetBranchTerms, PeriodEnds, SyncBegin, SyncNow, ModelGoes, ModelComes,
       BackoffRuns, tvars, TracksInv, TrackIsHeld, FeesAreOnRows, IsSubscription, Follows
<1>. QED  BY <1>2, <1>3, <1>4, <1>5, <1>6, <1>7, <1>8, <1>9, <1>10, <1>11 DEF TracksNext, Syncing

\* What a node says it follows, and what its model serves of a track, it has acquired,
\* whatever the curator, the sync, the model and a crash do in the middle of a subscription
\* (market.ts, subscribe: nothing is announced unless everything was acquired).
THEOREM FollowedIsAcquired == TracksSpec => []TrackIsHeld
<1>1. TracksInit => TracksInv
  BY DEF TracksInit, TracksInv, TrackIsHeld, FeesAreOnRows, IsSubscription, NoCall, Follows
<1>2. TracksInv /\ [TracksNext]_tvars => TracksInv'
  BY TracksStep
<1>3. TracksInv => TrackIsHeld
  BY DEF TracksInv
<1>. QED  BY <1>1, <1>2, <1>3, PTL DEF TracksSpec

\* No more fees leave the node than it has rows for, each row written before its fee leaves
\* (paySubscription), also when it stops between the two or gets no answer.
THEOREM FeesStayOnRecord == TracksSpec => []FeesAreOnRows
<1>1. TracksInit => TracksInv
  BY DEF TracksInit, TracksInv, TrackIsHeld, FeesAreOnRows, IsSubscription, NoCall, Follows
<1>2. TracksInv /\ [TracksNext]_tvars => TracksInv'
  BY TracksStep
<1>3. TracksInv => FeesAreOnRows
  BY DEF TracksInv
<1>. QED  BY <1>1, <1>2, <1>3, PTL DEF TracksSpec

-----------------------------------------------------------------------------
(* Listings: an older version gives way to a verified newer one.             *)

\* The same bytes, under another id of this author, came after j.
Ahead(j, i) == \A k \in Own \ {i} : Listed(k) /\ Bytes[k] = Bytes[i] => lsince[j] < lsince[k]
\* An older version, or one that the publisher named.
Candidate(j, i) == j \in Own /\ Listed(j) /\ (<<j, i>> \in ldecl \/ Ahead(j, i))
Supersedes(j, i) == i \in Own /\ i \in lverified /\ Candidate(j, i) /\ lsince[j] < lsince[i]
\* What a reconciliation has still to do: look at a verified listing, write a pair, clear a list.
Tasks == (Own \cup {"visit", "clear"}) \X Own
ToDo == {e \in Tasks : e[2] \in lverified /\ (e[1] \in {"visit", "clear"} \/ Supersedes(e[1], e[2]))}
\* The announcement under way retires what was listed before it.
AnnounceTyped == lann = [id |-> lann.id, at |-> lann.at, pc |-> lann.pc, retires |-> lann.retires,
                         declared |-> lann.declared]
Announcing ==
  lann.pc # "idle" =>
    /\ lann.id \in Own
    /\ \A j \in lann.retires : j \in Own /\ Listed(j) /\ (j \in lann.declared \/ Ahead(j, lann.id))
InTime ==
  /\ \A j \in Own : lsince[j] < lclock
  /\ lann.pc = "append" => /\ lann.at \in Nat /\ 0 < lann.at /\ lann.at < lclock
                           /\ \A j \in Own : lsince[j] < lann.at
Clocked == lclock \in Nat /\ 0 < lclock /\ lsince \in [Ids -> Nat]
Pending == lpend = [i \in Own |-> lpend[i]] /\ \A i \in Own : \A j \in lpend[i] : Candidate(j, i)
Recorded == \A p \in lsup : p \in Own \X Own /\ Supersedes(p[1], p[2])
ListSound ==
  /\ Clocked /\ InTime /\ AnnounceTyped /\ Announcing /\ ldraft \subseteq Own
  /\ Pending /\ lrec \in Seq(ToDo) /\ Recorded

\* A sequence of a finite set holds its members.
LEMMA SequenceOf ==
  ASSUME NEW S, IsFiniteSet(S)
  PROVE  SetToSeq(S) \in [1..Cardinality(S) -> S] /\ Cardinality(S) \in Nat
<1>1. Cardinality(S) \in Nat /\ ExistsBijection(1..Cardinality(S), S)
  BY FS_CardinalityType
<1>2. PICK f : f \in Bijection(1..Cardinality(S), S)
  BY <1>1 DEF ExistsBijection
<1>3. f \in [1..Cardinality(S) -> S] /\ IsInjective(f)
  BY <1>2 DEF Bijection, Injection, IsInjective
<1>. QED  BY <1>1, <1>3 DEF SetToSeq

LEMMA SequenceOfSet ==
  ASSUME NEW S, IsFiniteSet(S), NEW T, S \subseteq T
  PROVE  SetToSeq(S) \in Seq(T)
<1>1. SetToSeq(S) \in [1..Cardinality(S) -> T] /\ Cardinality(S) \in Nat
  BY SequenceOf
<1>. QED  BY <1>1, SeqDef

\* A listing keeps the time of its first anchor, and a new one comes after all others.
Grows ==
  /\ \A k \in Own : lsince'[k] = lsince[k] \/ (lsince[k] = 0 /\ \A j \in Own : lsince[j] < lsince'[k])
  /\ ldecl \subseteq ldecl' /\ lverified \subseteq lverified'

LEMMA StaysAhead ==
  ASSUME Clocked, Clocked', Grows, NEW i \in Own, NEW j \in Own, Listed(j), Ahead(j, i)
  PROVE  Listed(j)' /\ lsince'[j] = lsince[j] /\ Ahead(j, i)'
<1>1. /\ \A k \in Own : lsince[k] \in Nat /\ lsince'[k] \in Nat
      /\ \A k \in Own : lsince'[k] = lsince[k] \/ (lsince[k] = 0 /\ \A m \in Own : lsince[m] < lsince'[k])
  BY DEF Clocked, Ids, Grows
<1>2. lsince'[j] = lsince[j] /\ lsince[j] > 0
  BY <1>1 DEF Listed
<1>3. ASSUME NEW k \in Own \ {i}, lsince'[k] > 0, Bytes[k] = Bytes[i] PROVE lsince'[j] < lsince'[k]
  BY <1>1, <1>2, <1>3 DEF Ahead, Listed
<1>. QED  BY <1>2, <1>3 DEF Ahead, Listed

LEMMA CandidateStays ==
  ASSUME Clocked, Clocked', Grows, NEW i \in Own, NEW j, Candidate(j, i)
  PROVE  Candidate(j, i)' /\ lsince'[j] = lsince[j]
<1>1. j \in Own /\ Listed(j) /\ (<<j, i>> \in ldecl \/ Ahead(j, i))
  BY DEF Candidate
<1>2. Listed(j)' /\ lsince'[j] = lsince[j]
  <2>1. lsince[j] \in Nat /\ (lsince'[j] = lsince[j] \/ lsince[j] = 0)
    BY <1>1 DEF Clocked, Ids, Grows
  <2>. QED  BY <1>1, <2>1 DEF Listed
<1>3. CASE <<j, i>> \in ldecl
  BY <1>1, <1>2, <1>3 DEF Candidate, Grows
<1>4. CASE Ahead(j, i)
  BY <1>1, <1>2, <1>4, StaysAhead DEF Candidate
<1>. QED  BY <1>1, <1>2, <1>3, <1>4

LEMMA SupersedesStays ==
  ASSUME Clocked, Clocked', Grows, NEW i, NEW j, Supersedes(j, i)
  PROVE  Supersedes(j, i)'
<1>1. i \in Own /\ i \in lverified /\ Candidate(j, i) /\ lsince[j] < lsince[i]
  BY DEF Supersedes
<1>2. Candidate(j, i)' /\ lsince'[j] = lsince[j]
  BY <1>1, CandidateStays
<1>3. lsince'[i] = lsince[i]
  <2>1. lsince[i] \in Nat /\ lsince[j] \in Nat /\ (lsince'[i] = lsince[i] \/ lsince[i] = 0)
    BY <1>1 DEF Candidate, Clocked, Ids, Grows
  <2>. QED  BY <1>1, <2>1
<1>. QED  BY <1>1, <1>2, <1>3 DEF Supersedes, Grows

\* What a step leaves where it was.
LEMMA TasksStay ==
  ASSUME Clocked, Clocked', Grows, lrec' \in Seq(ToDo)
  PROVE  (lrec \in Seq(ToDo))'
<1>1. ASSUME NEW e \in ToDo PROVE e \in ToDo'
  <2>1. e \in Tasks /\ e[2] \in lverified /\ (e[1] \in {"visit", "clear"} \/ Supersedes(e[1], e[2]))
    BY DEF ToDo
  <2>2. e[2] \in lverified' /\ (e[1] \in {"visit", "clear"} \/ Supersedes(e[1], e[2])')
    BY <2>1, SupersedesStays DEF Grows
  <2>. QED  BY <2>1, <2>2 DEF ToDo, Tasks
<1>2. PICK n \in Nat : lrec' \in [1..n -> ToDo]
  BY SeqDef
<1>3. lrec' \in [1..n -> ToDo']
  BY <1>1, <1>2
<1>. QED  BY <1>3, SeqDef

LEMMA PendingStays ==
  ASSUME Clocked, Clocked', Grows, Pending, lpend' = lpend
  PROVE  Pending'
<1>1. ASSUME NEW i \in Own, NEW j \in lpend[i] PROVE Candidate(j, i)'
  BY CandidateStays DEF Pending
<1>. QED  BY <1>1 DEF Pending

LEMMA RecordedStays ==
  ASSUME Clocked, Clocked', Grows, Recorded, lsup' = lsup
  PROVE  Recorded'
<1>1. ASSUME NEW p \in lsup PROVE p \in Own \X Own /\ Supersedes(p[1], p[2])'
  BY SupersedesStays DEF Recorded
<1>. QED  BY <1>1 DEF Recorded

LEMMA AnnouncingStays ==
  ASSUME Clocked, Clocked', Grows, Announcing, lann' = lann
  PROVE  Announcing'
<1>1. ASSUME lann.pc # "idle", NEW j \in lann.retires
      PROVE  j \in Own /\ Listed(j)' /\ (j \in lann.declared \/ Ahead(j, lann.id)')
  <2>1. lann.id \in Own /\ j \in Own /\ Listed(j) /\ (j \in lann.declared \/ Ahead(j, lann.id))
    BY <1>1 DEF Announcing
  <2>2. Listed(j)'
    <3>1. lsince[j] \in Nat /\ (lsince'[j] = lsince[j] \/ lsince[j] = 0)
      BY <2>1 DEF Clocked, Ids, Grows
    <3>. QED  BY <2>1, <3>1 DEF Listed
  <2>3. Ahead(j, lann.id) => Ahead(j, lann.id)'
    BY <2>1, StaysAhead
  <2>. QED  BY <2>1, <2>2, <2>3
<1>. QED  BY <1>1 DEF Announcing

\* A step that announces nothing of this author and writes no pair.
LEMMA CalmStep ==
  ASSUME ListSound, Clocked', \A k \in Own : lsince'[k] = lsince[k],
         UNCHANGED <<ldecl, lsup, lpend>>, lverified \subseteq lverified',
         lclock <= lclock', lann' = lann \/ lann' = NoAnn, ldraft' \subseteq Own, lrec' \in Seq(ToDo)
  PROVE  ListSound'
<1>1. /\ Clocked /\ InTime /\ AnnounceTyped /\ Announcing /\ Pending /\ Recorded
  BY DEF ListSound
<1>2. Grows
  BY DEF Grows
<1>3. (lrec \in Seq(ToDo))' /\ Pending' /\ Recorded'
  BY <1>1, <1>2, TasksStay, PendingStays, RecordedStays
<1>4. AnnounceTyped' /\ Announcing'
  <2>1. CASE lann' = lann
    BY <1>1, <1>2, <2>1, AnnouncingStays DEF AnnounceTyped
  <2>2. CASE lann' = NoAnn
    BY <2>2 DEF AnnounceTyped, Announcing, NoAnn
  <2>. QED  BY <2>1, <2>2
<1>5. InTime'
  <2>1. \A k \in Own : lsince[k] \in Nat
    BY <1>1 DEF Clocked, Ids
  <2>2. lclock \in Nat /\ lclock' \in Nat
    BY <1>1 DEF Clocked
  <2>3. \A k \in Own : lsince'[k] < lclock'
    BY <1>1, <2>1, <2>2 DEF InTime
  <2>4. lann'.pc = "append" => lann' = lann
    BY DEF NoAnn
  <2>. QED  BY <1>1, <2>2, <2>3, <2>4 DEF InTime
<1>. QED  BY <1>3, <1>4, <1>5 DEF ListSound

LEMMA Untouched ==
  ASSUME ListSound, UNCHANGED <<lsince, ldecl, lsup, lpend, lrec>>, lverified \subseteq lverified',
         lclock' = lclock \/ lclock' = lclock + 1, lann' = lann \/ lann' = NoAnn, ldraft' \subseteq Own
  PROVE  ListSound'
<1>1. lclock \in Nat /\ lrec \in Seq(ToDo)
  BY DEF ListSound, Clocked
<1>2. Clocked' /\ lclock <= lclock'
  BY <1>1 DEF ListSound, Clocked, Ids
<1>. QED  BY <1>1, <1>2, CalmStep

LEMMA ForeignKeeps ==
  ASSUME ListSound, ForeignAnnounce
  PROVE  ListSound'
<1>1. PICK i \in Foreign : lsince' = [lsince EXCEPT ![i] = lclock]
  BY DEF ForeignAnnounce
<1>2. /\ lclock' = lclock + 1
      /\ UNCHANGED <<ldraft, lverified, lsup, lpend, ldecl, lann, lrec>>
  BY DEF ForeignAnnounce, Later
<1>3. lclock \in Nat /\ lsince \in [Ids -> Nat] /\ ldraft \subseteq Own /\ lrec \in Seq(ToDo)
  BY DEF ListSound, Clocked
<1>4. lsince' \in [Ids -> Nat] /\ \A k \in Own : lsince'[k] = lsince[k]
  BY <1>1, <1>3, ListingsAssumption DEF Ids
<1>5. Clocked' /\ lclock <= lclock'
  BY <1>2, <1>3, <1>4 DEF Clocked, Ids
<1>. QED  BY <1>2, <1>3, <1>4, <1>5, CalmStep

\* The first time these bytes were published, as of now.
LEMMA FirstSeenIsFirst ==
  ASSUME Clocked, NEW i \in Own, NEW now \in Nat
  PROVE  /\ FirstSeen(i, now) \in Nat /\ FirstSeen(i, now) <= now
         /\ \A k \in Own \ {i} : Listed(k) /\ Bytes[k] = Bytes[i] => FirstSeen(i, now) <= lsince[k]
<1>. DEFINE Older == {lsince[j] : j \in {k \in Own \ {i} : Listed(k) /\ Bytes[k] = Bytes[i]}} \cup {now}
<1>1. Older \in SUBSET Nat /\ Older # {}
  BY DEF Clocked, Ids
<1>2. \E t \in Older : \A u \in Older : t <= u
  <2>. HIDE DEF Older
  <2>. QED  BY <1>1, LeastNumber
<1>3. FirstSeen(i, now) = CHOOSE t \in Older : \A u \in Older : t <= u
  BY DEF FirstSeen
<1>4. FirstSeen(i, now) \in Older /\ \A u \in Older : FirstSeen(i, now) <= u
  <2>. HIDE DEF Older
  <2>. QED  BY <1>2, <1>3
<1>5. now \in Older /\ \A k \in Own \ {i} : Listed(k) /\ Bytes[k] = Bytes[i] => lsince[k] \in Older
  OBVIOUS
<1>. QED
  <2>. HIDE DEF Older
  <2>. QED  BY <1>1, <1>4, <1>5

LEMMA AnnounceBeginKeeps ==
  ASSUME ListSound, AnnounceBegin
  PROVE  ListSound'
<1>. PICK now : now = lclock
  OBVIOUS
<1>1. /\ Clocked /\ InTime /\ Pending /\ Recorded /\ now \in Nat /\ 0 < now /\ lrec \in Seq(ToDo)
      /\ ldraft \subseteq Own
  BY DEF ListSound, Clocked
<1>2. PICK i \in ldraft, auto \in BOOLEAN : \E declared \in {{}} \cup {{j} : j \in Declarable(i, now)} :
        lann' = [id |-> i, at |-> now, pc |-> "append", declared |-> declared,
                 retires |-> declared \cup IF auto THEN Supersedable(i, now) ELSE {}]
  BY DEF AnnounceBegin
<1>3. PICK declared \in {{}} \cup {{j} : j \in Declarable(i, now)} :
        lann' = [id |-> i, at |-> now, pc |-> "append", declared |-> declared,
                 retires |-> declared \cup IF auto THEN Supersedable(i, now) ELSE {}]
  BY <1>2
<1>. PICK retires : retires = declared \cup IF auto THEN Supersedable(i, now) ELSE {}
  OBVIOUS
<1>4. /\ lann'.id = i /\ lann'.at = now /\ lann'.pc = "append" /\ lann'.declared = declared
      /\ lann'.retires = retires /\ AnnounceTyped'
  BY <1>3 DEF AnnounceTyped
<1>5. /\ lclock' = lclock + 1 /\ UNCHANGED <<ldraft, lsince, lverified, lsup, lpend, ldecl, lrec>>
  BY DEF AnnounceBegin, Later
<1>6. Clocked' /\ Grows
  BY <1>1, <1>5 DEF Clocked, Grows, Ids
<1>7. (lrec \in Seq(ToDo))' /\ Pending' /\ Recorded'
  BY <1>1, <1>5, <1>6, TasksStay, PendingStays, RecordedStays
<1>8. InTime'
  <2>1. \A k \in Own : lsince[k] \in Nat /\ lsince[k] < now
    BY <1>1 DEF Clocked, Ids, InTime
  <2>. QED  BY <1>1, <1>4, <1>5, <2>1 DEF InTime
<1>9. i \in Own
  BY <1>1, <1>2
<1>10. ASSUME NEW j \in retires PROVE j \in Own /\ Listed(j) /\ (j \in declared \/ Ahead(j, i))
  <2>1. CASE j \in declared
    BY <1>3, <2>1 DEF Declarable, Tradeable
  <2>2. CASE j \in Supersedable(i, now)
    <3>1. j \in Own /\ Listed(j) /\ lsince[j] < FirstSeen(i, now)
      BY <2>2 DEF Supersedable, Tradeable
    <3>2. \A k \in Own : lsince[k] \in Nat
      BY <1>1 DEF Clocked, Ids
    <3>. PICK first : first = FirstSeen(i, now)
      OBVIOUS
    <3>3. first \in Nat /\ \A k \in Own \ {i} : Listed(k) /\ Bytes[k] = Bytes[i] => first <= lsince[k]
      BY <1>1, <1>9, FirstSeenIsFirst
    <3>4. Ahead(j, i)
      BY <3>1, <3>2, <3>3 DEF Ahead
    <3>. QED  BY <3>1, <3>4
  <2>. QED  BY <2>1, <2>2
<1>11. Announcing'
  BY <1>4, <1>5, <1>9, <1>10 DEF Announcing, Listed, Ahead
<1>. QED  BY <1>1, <1>4, <1>5, <1>6, <1>7, <1>8, <1>11 DEF ListSound

\* The anchor is on the record: it is later than all the others of this author.
LEMMA AnnounceAppendKeeps ==
  ASSUME ListSound, AnnounceAppend
  PROVE  ListSound'
<1>1. /\ lann.pc = "append"
      /\ UNCHANGED <<ldraft, lverified, lsup, lpend, ldecl, lrec, lclock>>
  BY DEF AnnounceAppend
<1>2. /\ Clocked /\ InTime /\ AnnounceTyped /\ Announcing /\ Pending /\ Recorded /\ lrec \in Seq(ToDo)
      /\ ldraft \subseteq Own
  BY DEF ListSound
<1>3. CASE lann' = NoAnn /\ UNCHANGED lsince
  BY <1>1, <1>2, <1>3, Untouched
<1>4. CASE /\ lsince' = IF Listed(lann.id) THEN lsince ELSE [lsince EXCEPT ![lann.id] = lann.at]
           /\ lann' = [lann EXCEPT !.pc = "finish"]
  <2>. PICK i, at : i = lann.id /\ at = lann.at
    OBVIOUS
  <2>1. i \in Own /\ at \in Nat /\ 0 < at /\ at < lclock /\ \A j \in Own : lsince[j] < at
    BY <1>1, <1>2 DEF Announcing, InTime
  <2>2. lsince \in [Ids -> Nat] /\ lclock \in Nat /\ 0 < lclock /\ i \in Ids /\ Own \subseteq Ids
    BY <1>2, <2>1 DEF Clocked, Ids
  <2>3. lsince' = lsince \/ (lsince[i] = 0 /\ lsince' = [lsince EXCEPT ![i] = at])
    BY <1>4, <2>2 DEF Listed
  <2>4. Clocked' /\ Grows
    BY <1>1, <2>1, <2>2, <2>3 DEF Clocked, Grows, Ids
  <2>5. (lrec \in Seq(ToDo))' /\ Pending' /\ Recorded'
    BY <1>1, <1>2, <2>4, TasksStay, PendingStays, RecordedStays
  <2>6. lann'.pc = "finish" /\ lann'.id = lann.id /\ lann'.retires = lann.retires
        /\ lann'.declared = lann.declared /\ AnnounceTyped'
    BY <1>2, <1>4 DEF AnnounceTyped
  <2>7. InTime'
    BY <1>1, <1>2, <2>1, <2>2, <2>3, <2>6 DEF InTime
  <2>8. Announcing'
    <3>1. ASSUME NEW j \in lann.retires
          PROVE  j \in Own /\ Listed(j)' /\ (j \in lann.declared \/ Ahead(j, i)')
      <4>1. j \in Own /\ Listed(j) /\ (j \in lann.declared \/ Ahead(j, i))
        BY <1>1, <1>2 DEF Announcing
      <4>2. Listed(j)'
        BY <2>1, <2>2, <2>3, <4>1 DEF Listed
      <4>3. Ahead(j, i) => Ahead(j, i)'
        BY <1>2, <2>1, <2>4, <4>1, StaysAhead
      <4>. QED  BY <4>1, <4>2, <4>3
    <3>. QED  BY <2>1, <2>6, <3>1 DEF Announcing
  <2>. QED  BY <1>1, <1>2, <2>4, <2>5, <2>6, <2>7, <2>8 DEF ListSound
<1>. QED  BY <1>3, <1>4 DEF AnnounceAppend

\* What the announcement retires is written to its row.
LEMMA AnnounceFinishKeeps ==
  ASSUME ListSound, AnnounceFinish
  PROVE  ListSound'
<1>. PICK id : id = lann.id
  OBVIOUS
<1>1. /\ lann.pc = "finish" /\ lann' = NoAnn /\ ldraft' = ldraft \ {id}
      /\ lpend' = [lpend EXCEPT ![id] = lann.retires]
      /\ ldecl' = ldecl \cup {<<j, id>> : j \in lann.declared}
      /\ UNCHANGED <<lsince, lverified, lsup, lrec, lclock>>
  BY DEF AnnounceFinish
<1>2. /\ Clocked /\ InTime /\ Announcing /\ Pending /\ Recorded /\ lrec \in Seq(ToDo)
      /\ ldraft \subseteq Own
  BY DEF ListSound
<1>3. Clocked' /\ Grows
  BY <1>1, <1>2 DEF Clocked, Grows, Ids
<1>4. (lrec \in Seq(ToDo))' /\ Recorded'
  BY <1>1, <1>2, <1>3, TasksStay, RecordedStays
<1>5. InTime' /\ AnnounceTyped' /\ Announcing'
  BY <1>1, <1>2 DEF InTime, AnnounceTyped, Announcing, NoAnn
<1>6. ASSUME NEW i \in Own, NEW j \in lpend'[i] PROVE Candidate(j, i)'
  <2>1. CASE i = id
    <3>1. j \in lann.retires
      BY <1>1, <1>2, <1>6, <2>1 DEF Pending
    <3>2. j \in Own /\ Listed(j) /\ (j \in lann.declared \/ Ahead(j, i))
      BY <1>1, <1>2, <2>1, <3>1 DEF Announcing
    <3>3. j \in lann.declared => <<j, i>> \in ldecl'
      BY <1>1, <2>1
    <3>. QED  BY <1>1, <3>2, <3>3 DEF Candidate, Ahead, Listed
  <2>2. CASE i # id
    <3>1. j \in lpend[i]
      BY <1>1, <1>2, <1>6, <2>2 DEF Pending
    <3>. QED  BY <1>2, <1>3, <3>1, CandidateStays DEF Pending
  <2>. QED  BY <2>1, <2>2
<1>7. Pending'
  BY <1>1, <1>2, <1>6 DEF Pending
<1>. QED  BY <1>1, <1>2, <1>3, <1>4, <1>5, <1>7 DEF ListSound

\* A reconciliation looks at listings that are verified ...
LEMMA RecBeginKeeps ==
  ASSUME ListSound, RecBegin
  PROVE  ListSound'
<1>. PICK S : S = VerifiedOwn
  OBVIOUS
<1>1. /\ lrec' = [n \in 1..Cardinality(S) |-> <<"visit", SetToSeq(S)[n]>>]
      /\ UNCHANGED <<ldraft, lsince, lverified, lsup, lpend, ldecl, lann, lclock>>
  BY DEF RecBegin
<1>2. IsFiniteSet(S) /\ S \subseteq Own /\ S \subseteq lverified
  BY FS_Subset, ListingsAssumption DEF VerifiedOwn, OnSale
<1>3. SetToSeq(S) \in [1..Cardinality(S) -> S] /\ Cardinality(S) \in Nat
  BY <1>2, SequenceOf
<1>4. ASSUME NEW i \in S PROVE <<"visit", i>> \in ToDo
  BY <1>2 DEF ToDo, Tasks
<1>5. lrec' \in [1..Cardinality(S) -> ToDo]
  <2>. PICK f : f = SetToSeq(S)
    OBVIOUS
  <2>1. \A n \in 1..Cardinality(S) : f[n] \in S
    BY <1>3
  <2>. QED  BY <1>1, <1>4, <2>1
<1>6. lrec' \in Seq(ToDo)
  BY <1>3, <1>5, SeqDef
<1>7. Clocked' /\ lclock <= lclock' /\ ldraft' \subseteq Own
  BY <1>1 DEF ListSound, Clocked, Ids
<1>. QED  BY <1>1, <1>6, <1>7, CalmStep

\* ... and at the list each of them has by then.
LEMMA RecVisitKeeps ==
  ASSUME ListSound, RecVisit
  PROVE  ListSound'
<1>. PICK i : i = Head(lrec)[2]
  OBVIOUS
<1>1. /\ lrec # <<>>
      /\ lrec' = (IF lpend[i] = {} THEN <<>> ELSE Append(Pairs(i), <<"clear", i>>)) \o Tail(lrec)
      /\ UNCHANGED <<ldraft, lsince, lverified, lsup, lpend, ldecl, lann, lclock>>
  BY DEF RecVisit
<1>2. Pending /\ lrec \in Seq(ToDo)
  BY DEF ListSound
<1>3. Head(lrec) \in ToDo /\ Tail(lrec) \in Seq(ToDo)
  BY <1>1, <1>2, HeadTailProperties
<1>4. i \in Own /\ i \in lverified
  BY <1>3 DEF ToDo, Tasks
<1>. PICK K : K = {k \in lpend[i] : Listed(k) /\ lsince[k] < lsince[i]}
  OBVIOUS
<1>. PICK P : P = {<<j, i>> : j \in K}
  OBVIOUS
<1>5. K \subseteq Own /\ IsFiniteSet(P)
  <2>1. K \subseteq Own
    BY <1>2, <1>4 DEF Pending, Candidate
  <2>2. IsFiniteSet(K)
    BY <2>1, FS_Subset, ListingsAssumption
  <2>3. [j \in K |-> <<j, i>>] \in Surjection(K, P)
    BY DEF Surjection
  <2>. QED  BY <2>1, <2>2, <2>3, FS_Surjection
<1>6. P \subseteq ToDo
  <2>1. ASSUME NEW j \in K PROVE <<j, i>> \in ToDo
    <3>1. j \in Own /\ Candidate(j, i) /\ lsince[j] < lsince[i]
      BY <1>2, <1>4, <1>5 DEF Pending
    <3>. QED  BY <1>4, <3>1 DEF ToDo, Tasks, Supersedes
  <2>. QED  BY <2>1
<1>7. Pairs(i) \in Seq(ToDo)
  BY <1>5, <1>6, SequenceOfSet DEF Pairs
<1>8. <<"clear", i>> \in ToDo
  BY <1>4 DEF ToDo, Tasks
<1>9. Append(Pairs(i), <<"clear", i>>) \in Seq(ToDo)
  BY <1>7, <1>8, AppendProperties
<1>10. <<>> \in Seq(ToDo)
  BY EmptySeq
<1>11. lrec' \in Seq(ToDo)
  <2>. PICK s : s = IF lpend[i] = {} THEN <<>> ELSE Append(Pairs(i), <<"clear", i>>)
    OBVIOUS
  <2>1. s \in Seq(ToDo)
    BY <1>9, <1>10
  <2>2. s \o Tail(lrec) \in Seq(ToDo)
    BY <1>3, <2>1, ConcatProperties
  <2>. QED  BY <1>1, <2>2
<1>12. Clocked' /\ lclock <= lclock' /\ ldraft' \subseteq Own
  BY <1>1 DEF ListSound, Clocked, Ids
<1>. QED  BY <1>1, <1>11, <1>12, CalmStep

\* A pair is written, a list is cleared, or the append fails and the rest is left.
LEMMA RecStepKeeps ==
  ASSUME ListSound, RecStep
  PROVE  ListSound'
<1>. PICK old, new : old = Head(lrec)[1] /\ new = Head(lrec)[2]
  OBVIOUS
<1>1. /\ lrec # <<>> /\ old # "visit"
      /\ UNCHANGED <<ldraft, lsince, lverified, ldecl, lann, lclock>>
      /\ \/ /\ lsup' = IF old = "clear" THEN lsup ELSE lsup \cup {<<old, new>>}
            /\ lpend' = AfterWrite(old, new) /\ lrec' = Tail(lrec)
         \/ /\ old # "clear" /\ lrec' = <<>> /\ UNCHANGED lsup
            /\ lpend' = [lpend EXCEPT ![new] = AfterWrite(old, new)[new]]
  BY DEF RecStep
<1>2. /\ Clocked /\ InTime /\ AnnounceTyped /\ Announcing /\ Pending /\ Recorded
      /\ lrec \in Seq(ToDo) /\ ldraft \subseteq Own
  BY DEF ListSound
<1>3. Head(lrec) \in ToDo /\ Tail(lrec) \in Seq(ToDo) /\ <<>> \in Seq(ToDo)
  BY <1>1, <1>2, HeadTailProperties, EmptySeq
<1>4. Clocked' /\ Grows
  BY <1>1, <1>2 DEF Clocked, Grows, Ids
<1>5. (lrec \in Seq(ToDo))' /\ InTime' /\ AnnounceTyped' /\ Announcing'
  <2>1. lrec' \in Seq(ToDo)
    BY <1>1, <1>3
  <2>2. (lrec \in Seq(ToDo))' /\ Announcing'
    BY <1>1, <1>2, <1>4, <2>1, TasksStay, AnnouncingStays
  <2>. QED  BY <1>1, <1>2, <2>2 DEF InTime, AnnounceTyped
<1>6. new \in Own /\ (old = "clear" \/ Supersedes(old, new))
  BY <1>1, <1>3 DEF ToDo, Tasks
<1>7. Pending'
  <2>1. lpend' = lpend \/ lpend' = [lpend EXCEPT ![new] = {}]
    BY <1>1, <1>2, <1>6 DEF AfterWrite, Pending
  <2>2. ASSUME NEW i \in Own, NEW j \in lpend'[i] PROVE Candidate(j, i)'
    <3>1. j \in lpend[i]
      BY <1>2, <2>1, <2>2 DEF Pending
    <3>. QED  BY <1>2, <1>4, <3>1, CandidateStays DEF Pending
  <2>. QED  BY <1>2, <2>1, <2>2 DEF Pending
<1>8. Recorded'
  <2>1. ASSUME NEW p \in lsup' PROVE p \in Own \X Own /\ Supersedes(p[1], p[2])
    <3>1. CASE p \in lsup
      BY <1>2, <3>1 DEF Recorded
    <3>2. CASE p = <<old, new>> /\ old # "clear"
      BY <1>6, <3>2 DEF Supersedes, Candidate
    <3>. QED  BY <1>1, <2>1, <3>1, <3>2
  <2>2. ASSUME NEW p \in lsup' PROVE p \in Own \X Own /\ Supersedes(p[1], p[2])'
    BY <1>2, <1>4, <2>1, <2>2, SupersedesStays
  <2>. QED  BY <2>2 DEF Recorded
<1>. QED  BY <1>1, <1>2, <1>4, <1>5, <1>7, <1>8 DEF ListSound

LEMMA ListSoundInit ==
  ASSUME ListInit
  PROVE  ListSound
<1>1. /\ ldraft = {} /\ lsince = [i \in Ids |-> IF i \in Already THEN 1 ELSE 0]
      /\ lsup = {} /\ lpend = [i \in Own |-> {}] /\ lann = NoAnn /\ lrec = <<>> /\ lclock = 2
  BY DEF ListInit
<1>2. Clocked /\ InTime
  BY <1>1 DEF Clocked, InTime, NoAnn, Ids
<1>3. AnnounceTyped /\ Announcing /\ Pending /\ Recorded
  BY <1>1 DEF AnnounceTyped, Announcing, NoAnn, Pending, Recorded
<1>4. lrec \in Seq(ToDo)
  BY <1>1, EmptySeq
<1>. QED  BY <1>1, <1>2, <1>3, <1>4 DEF ListSound

LEMMA ListSoundStep ==
  ASSUME ListSound, [ListNext]_lvars
  PROVE  ListSound'
<1>1. ldraft \subseteq Own
  BY DEF ListSound
<1>2. ASSUME \/ CreateDraft \/ DeleteDraft \/ QuorumPasses \/ SetPrice \/ Retire \/ Notice
             \/ UNCHANGED lvars
      PROVE  ListSound'
  <2>1. /\ UNCHANGED <<lsince, ldecl, lsup, lpend, lrec, lann>> /\ lverified \subseteq lverified'
        /\ lclock' = lclock \/ lclock' = lclock + 1
        /\ ldraft' \subseteq Own
    BY <1>1, <1>2 DEF CreateDraft, DeleteDraft, QuorumPasses, SetPrice, Retire, Notice, Later, lvars
  <2>. QED  BY <2>1, Untouched
<1>3. ASSUME ListCrash PROVE ListSound'
  <2>1. /\ UNCHANGED <<ldraft, lsince, lverified, lsup, lpend, ldecl, lclock>>
        /\ lann' = NoAnn /\ lrec' = <<>>
    BY <1>3 DEF ListCrash
  <2>2. Clocked' /\ lclock <= lclock'
    BY <2>1 DEF ListSound, Clocked, Ids
  <2>3. lrec' \in Seq(ToDo)
    BY <2>1, EmptySeq
  <2>. QED  BY <1>1, <2>1, <2>2, <2>3, CalmStep
<1>. QED  BY <1>2, <1>3, ForeignKeeps, AnnounceBeginKeeps, AnnounceAppendKeeps, AnnounceFinishKeeps,
           RecBeginKeeps, RecVisitKeeps, RecStepKeeps DEF ListNext, Reconciling

\* A listing is retired for a newer one only (announce, reconcileSupersedes): the
\* version that replaces it is this author's, verified and announced later, and its
\* bytes are not an old file baked again, whatever announcements, failed appends and
\* crashes came between the list and the record.
THEOREM NewerSupersedes == ListSpec => []SupersededByNewer
<1>1. ListInit => ListSound
  BY ListSoundInit
<1>2. ListSound /\ [ListNext]_lvars => ListSound'
  BY ListSoundStep
<1>3. ASSUME ListSound PROVE SupersededByNewer
  <2>1. ASSUME NEW p \in lsup
        PROVE  /\ p[1] \in Own /\ p[2] \in lverified /\ lsince[p[1]] < lsince[p[2]]
               /\ p \in ldecl \/ \A k \in Own : Listed(k) /\ Bytes[k] = Bytes[p[2]]
                                            => lsince[p[1]] < lsince[k]
    <3>1. p \in Own \X Own /\ Supersedes(p[1], p[2])
      BY <1>3, <2>1 DEF ListSound, Recorded
    <3>2. p = <<p[1], p[2]>> /\ p[1] \in Own /\ p[2] \in Own
      BY <3>1
    <3>3. /\ p[2] \in lverified /\ lsince[p[1]] < lsince[p[2]]
          /\ <<p[1], p[2]>> \in ldecl \/ Ahead(p[1], p[2])
      BY <3>1 DEF Supersedes, Candidate
    <3>. QED  BY <3>2, <3>3 DEF Ahead
  <2>. QED  BY <2>1 DEF SupersededByNewer
<1>. QED  BY <1>1, <1>2, <1>3, PTL DEF ListSpec

-----------------------------------------------------------------------------
(* Payouts: the rows a sale owes. *)

\* The rank of a row inserted by a sale is a natural number.
LEMMA RankType ==
  ASSUME rank \in [Row -> Nat], NEW new \in SUBSET Row, Insert(new)
  PROVE  rank' \in [Row -> Nat]
<1> DEFINE base == Cardinality({q \in Row : status[q] # "absent"})
<1>1. IsFiniteSet({q \in Row : status[q] # "absent"})
  BY RowAssumption, FS_Subset
<1>2. base \in Nat /\ Cardinality(Row) \in Nat
  BY <1>1, RowAssumption, FS_CardinalityType
<1>3. Place \in [Row -> Nat]
  BY RowAssumption, <1>2
<1>4. \A r \in Row : Place[r] + Cardinality(Row) * base \in Nat
  BY <1>2, <1>3
<1>5. rank' = [r \in Row |-> IF r \in new THEN Place[r] + Cardinality(Row) * base
                                          ELSE rank[r]]
  BY DEF Insert
<1> QED
  BY <1>4, <1>5

\* A stop leaves the memory of the process empty and counts once.
LEMMA LoseMemoryType ==
  ASSUME TypeOK, LoseMemory
  PROVE  /\ crashes' \in 0 .. MaxCrashes
         /\ phase' \in {"down", "listening", "started"} /\ again' \in BOOLEAN /\ pc' \in Pauses
         /\ todo' \in SUBSET Row /\ hand' \in SUBSET Row
         /\ sent' \in SUBSET Row /\ inFlight' \in SUBSET Row
         /\ forced' \in SUBSET Row /\ cooling' \in SUBSET Row
<1>1. crashes' \in 0 .. MaxCrashes
  BY BoundAssumption DEF TypeOK, LoseMemory, BoundAssumption
<1>2. pc' \in Pauses
  BY DEF LoseMemory, Pauses
<1> QED
  BY <1>1, <1>2 DEF LoseMemory

\* Every variable keeps its type, whatever stops, errors and retries happen.
THEOREM Typing == Spec => []TypeOK
<1> USE AttemptsAssumption, FlagsAssumption, BoundAssumption DEF AttemptsAssumption, FlagsAssumption, BoundAssumption
<1>1. Init => TypeOK
  <2> SUFFICES ASSUME Init PROVE TypeOK
    OBVIOUS
  <2>1. crashes \in 0 .. MaxCrashes /\ attempts \in [Row -> 0 .. MaxAttempts]
    BY DEF Init
  <2>2. phase \in {"down", "listening", "started"} /\ again \in BOOLEAN
    BY DEF Init
  <2>3. mempool \in SUBSET SUBSET Row /\ landed \in [Row -> Nat] /\ rank \in [Row -> Nat]
    BY DEF Init
  <2>4. status \in [Row -> Statuses]
    BY DEF Init, Statuses
  <2>5. interrupted \in SUBSET Row /\ recorded \in SUBSET Row /\ fresh \in SUBSET Row
      /\ todo \in SUBSET Row /\ hand \in SUBSET Row /\ sent \in SUBSET Row
      /\ inFlight \in SUBSET Row /\ forced \in SUBSET Row /\ cooling \in SUBSET Row
    BY DEF Init
  <2>6. pc \in Pauses
    BY DEF Init, Pauses
  <2> QED
    BY <2>1, <2>2, <2>3, <2>4, <2>5, <2>6 DEF TypeOK
<1>2. TypeOK /\ [Next]_vars => TypeOK'
  <2> SUFFICES ASSUME TypeOK, [Next]_vars
               PROVE  TypeOK'
    OBVIOUS
  <2> USE DEF TypeOK, Statuses, Pauses, ProcessPending, Yielded, Up, table, runner, chain
  <2>1. ASSUME NEW s \in Sale, Enqueue(s)
        PROVE  TypeOK'
    <3>1. Missing(s) \in SUBSET Row /\ Insert(Missing(s))
      BY <2>1 DEF Enqueue, Missing
    <3>2. rank' \in [Row -> Nat]
      BY <3>1, RankType
    <3> QED
      BY <2>1, <3>1, <3>2 DEF Enqueue, Insert, Put
  <2>2. ASSUME NEW s \in Sale, EnqueueInterrupted(s)
        PROVE  TypeOK'
    <3>1. PICK new \in SUBSET Missing(s) : Insert(new)
      BY <2>2 DEF EnqueueInterrupted
    <3>2. new \in SUBSET Row
      BY DEF Missing
    <3>3. rank' \in [Row -> Nat]
      BY <3>1, <3>2, RankType
    <3> QED
      BY <2>2, <3>1, <3>2, <3>3, LoseMemoryType DEF EnqueueInterrupted, Insert, Put
  <2>3. ASSUME NEW s \in Sale, ClaimGroup(s)
        PROVE  TypeOK'
    <3>1. attempts' \in [Row -> 0 .. MaxAttempts]
      BY <2>3 DEF ClaimGroup, Counted
    <3>2. status' \in [Row -> Statuses]
      BY <2>3 DEF ClaimGroup, Put, Fail
    <3>3. todo' \in SUBSET Row /\ hand' \in SUBSET Row /\ inFlight' \in SUBSET Row
      BY <2>3 DEF ClaimGroup, Claimable, Open
    <3>4. interrupted' \in SUBSET Row /\ fresh' \in SUBSET Row
      BY <2>3 DEF ClaimGroup, Claimable, Open, Fail
    <3>5. pc' \in Pauses
      BY <2>3 DEF ClaimGroup
    <3>6. sent' \in SUBSET Row
      BY <2>3 DEF ClaimGroup
    <3> QED
      BY <2>3, <3>1, <3>2, <3>3, <3>4, <3>5, <3>6 DEF ClaimGroup
  <2>4. CASE StartPass
    BY <2>4 DEF StartPass, Due, Window, Open
  <2>5. CASE EndRun
    BY <2>5 DEF EndRun
  <2>6. CASE Send
    BY <2>6 DEF Send
  <2>7. CASE ReplyOk
    BY <2>7 DEF ReplyOk, Apply
  <2>8. CASE ReplyError
    BY <2>8 DEF ReplyError, Fail, Finish, Put
  <2>9. CASE BookThrows
    BY <2>9 DEF BookThrows, Fail, Finish, Put
  <2>10. CASE TimerFires
    BY <2>10 DEF TimerFires
  <2>11. CASE Crash
    BY <2>11, LoseMemoryType DEF Crash
  <2>12. CASE Boot \/ Start
    BY <2>12 DEF Boot, Start, Put
  <2>13. ASSUME NEW r \in Row, Book(r)
         PROVE  TypeOK'
    BY <2>13 DEF Book
  <2>14. ASSUME NEW r \in Row, RecordOk(r) \/ RecordError(r)
         PROVE  TypeOK'
    BY <2>14 DEF RecordOk, RecordError, NextRow, Finish
  <2>15. ASSUME NEW r \in Row, OperatorRetry(r) \/ Nudge(r)
         PROVE  TypeOK'
    BY ZenonT(30), <2>15 DEF OperatorRetry, Nudge, Retry
  <2>16. ASSUME NEW r \in Row, Age(r) \/ CoolDown(r)
         PROVE  TypeOK'
    BY <2>16 DEF Age, CoolDown
  <2>17. ASSUME NEW tx \in mempool, LandOrphan(tx) \/ DropOrphan(tx)
         PROVE  TypeOK'
    BY <2>17 DEF LandOrphan, DropOrphan, Apply
  <2>18. CASE UNCHANGED vars
    BY <2>18 DEF vars
  <2> QED
    BY <2>1, <2>2, <2>3, <2>4, <2>5, <2>6, <2>7, <2>8, <2>9, <2>10, <2>11,
       <2>12, <2>13, <2>14, <2>15, <2>16, <2>17, <2>18 DEF Next
<1> QED
  BY <1>1, <1>2, PTL DEF Spec

-----------------------------------------------------------------------------
\* The runner's hold on the rows survives every step.
LEMMA RunnerInductive ==
  ASSUME TypeOK, RunnerInv, [Next]_vars
  PROVE  RunnerInv'
<1> USE DEF TypeOK, RunnerInv, ProcessPending, Yielded, Up, table, runner, chain
<1>1. ASSUME NEW s \in Sale, Enqueue(s)
      PROVE  RunnerInv'
  BY <1>1 DEF Enqueue, Insert, Missing, Put
<1>2. ASSUME NEW s \in Sale, EnqueueInterrupted(s)
      PROVE  RunnerInv'
  BY <1>2 DEF EnqueueInterrupted, Insert, LoseMemory
<1>3. ASSUME NEW s \in Sale, ClaimGroup(s)
      PROVE  RunnerInv'
  BY <1>3 DEF ClaimGroup, Claimable, Open, Put, Fail
<1>4. CASE StartPass
  BY <1>4 DEF StartPass
<1>5. CASE EndRun
  BY <1>5 DEF EndRun
<1>6. CASE Send
  BY <1>6 DEF Send
<1>7. CASE ReplyOk
  BY <1>7 DEF ReplyOk, Apply
<1>8. CASE ReplyError
  BY <1>8 DEF ReplyError, Fail, Finish, Put
<1>9. CASE BookThrows
  BY <1>9 DEF BookThrows, Fail, Finish, Put
<1>10. CASE TimerFires
  BY <1>10 DEF TimerFires
<1>11. CASE Crash
  BY <1>11 DEF Crash, LoseMemory
<1>12. CASE Boot \/ Start
  BY <1>12 DEF Boot, Start, Put
<1>13. ASSUME NEW r \in Row, Book(r)
       PROVE  RunnerInv'
  BY <1>13 DEF Book
<1>14. ASSUME NEW r \in Row, RecordOk(r) \/ RecordError(r)
       PROVE  RunnerInv'
  BY <1>14 DEF RecordOk, RecordError, NextRow, Finish
<1>15. ASSUME NEW r \in Row, OperatorRetry(r) \/ Nudge(r)
       PROVE  RunnerInv'
  BY <1>15 DEF OperatorRetry, Nudge, Retry
<1>16. ASSUME NEW r \in Row, Age(r) \/ CoolDown(r)
       PROVE  RunnerInv'
  BY <1>16 DEF Age, CoolDown
<1>17. ASSUME NEW tx \in mempool, LandOrphan(tx) \/ DropOrphan(tx)
       PROVE  RunnerInv'
  BY <1>17 DEF LandOrphan, DropOrphan, Apply
<1>18. CASE UNCHANGED vars
  BY <1>18 DEF vars
<1> QED
  BY <1>1, <1>2, <1>3, <1>4, <1>5, <1>6, <1>7, <1>8, <1>9, <1>10, <1>11,
     <1>12, <1>13, <1>14, <1>15, <1>16, <1>17, <1>18 DEF Next

\* So does what the table says of the chain.
LEMMA ChainInductive ==
  ASSUME TypeOK, RunnerInv, ChainInv, [Next]_vars
  PROVE  ChainInv'
<1> USE DEF TypeOK, RunnerInv, ChainInv, PaidMeansLanded, ProcessPending, Yielded, Up,
            table, runner, chain
<1>1. ASSUME NEW s \in Sale, Enqueue(s)
      PROVE  ChainInv'
  BY <1>1 DEF Enqueue, Insert, Missing, Put
<1>2. ASSUME NEW s \in Sale, EnqueueInterrupted(s)
      PROVE  ChainInv'
  BY <1>2 DEF EnqueueInterrupted, Insert, Missing, Put, LoseMemory
<1>3. ASSUME NEW s \in Sale, ClaimGroup(s)
      PROVE  ChainInv'
  BY <1>3 DEF ClaimGroup, Claimable, Open, Put, Fail
<1>4. CASE StartPass
  BY <1>4 DEF StartPass, Due, Window, Open
<1>5. CASE EndRun
  BY <1>5 DEF EndRun
<1>6. CASE Send
  BY <1>6 DEF Send
<1>7. CASE ReplyOk
  BY <1>7 DEF ReplyOk, Apply, Accepts
<1>8. CASE ReplyError
  BY <1>8 DEF ReplyError, Fail, Finish, Put
<1>9. CASE BookThrows
  BY <1>9 DEF BookThrows, Fail, Finish, Put
<1>10. CASE TimerFires
  BY <1>10 DEF TimerFires
<1>11. CASE Crash
  BY <1>11 DEF Crash, LoseMemory
<1>12. CASE Boot \/ Start
  BY <1>12 DEF Boot, Start, Put
<1>13. ASSUME NEW r \in Row, Book(r)
      PROVE  ChainInv'
  BY <1>13 DEF Book
<1>14. ASSUME NEW r \in Row, RecordOk(r) \/ RecordError(r)
      PROVE  ChainInv'
  BY <1>14 DEF RecordOk, RecordError, NextRow, Finish
<1>15. ASSUME NEW r \in Row, OperatorRetry(r) \/ Nudge(r)
      PROVE  ChainInv'
  BY <1>15 DEF OperatorRetry, Nudge, Retry
<1>16. ASSUME NEW r \in Row, Age(r) \/ CoolDown(r)
      PROVE  ChainInv'
  BY <1>16 DEF Age, CoolDown
<1>17. ASSUME NEW tx \in mempool, LandOrphan(tx) \/ DropOrphan(tx)
      PROVE  ChainInv'
  BY <1>17 DEF LandOrphan, DropOrphan, Orphan, Apply, Accepts
<1>18. CASE UNCHANGED vars
  BY <1>18 DEF vars
<1> QED
  BY <1>1, <1>2, <1>3, <1>4, <1>5, <1>6, <1>7, <1>8, <1>9, <1>10, <1>11,
     <1>12, <1>13, <1>14, <1>15, <1>16, <1>17, <1>18 DEF Next

\* The assumption under which the code alone never pays twice.
Careful == FaithfulErrors /\ ~StoreFaults /\ Nudged = {}

\* A row that may be claimed has no transfer, landed or on its way.
LEMMA MoneyInductive ==
  ASSUME TypeOK, RunnerInv, ChainInv, MoneyInv, Careful, [Next]_vars
  PROVE  MoneyInv'
<1> USE DEF TypeOK, RunnerInv, MoneyInv, PaidOnce, Careful, Unsent, ProcessPending,
            Yielded, Up, table, runner, chain
<1>1. ASSUME NEW s \in Sale, Enqueue(s)
      PROVE  MoneyInv'
  BY <1>1 DEF Enqueue, Insert, Missing, Put
<1>2. ASSUME NEW s \in Sale, EnqueueInterrupted(s)
      PROVE  MoneyInv'
  BY <1>2 DEF EnqueueInterrupted, Insert, Missing, Put, LoseMemory
<1>3. ASSUME NEW s \in Sale, ClaimGroup(s)
      PROVE  MoneyInv'
  BY <1>3 DEF ClaimGroup, Claimable, Open, Put, Fail
<1>4. CASE StartPass
  BY <1>4 DEF StartPass, Due, Window, Open
<1>5. CASE EndRun
  BY <1>5 DEF EndRun
<1>6. CASE Send
  BY <1>6 DEF Send
<1>7. CASE ReplyOk
  <2>1. \A r \in sent : landed[r] = 0 /\ landed'[r] = 1 /\ status[r] = "paying"
    BY <1>7 DEF ReplyOk, Apply, ChainInv
  <2>2. \A r \in Row \ sent : landed'[r] = landed[r]
    BY <1>7 DEF ReplyOk, Apply
  <2>3. \A r \in Row : Unsent(r) /\ r \notin sent => Unsent(r)'
    BY <1>7, <2>2 DEF ReplyOk
  <2>4. \A tx \in mempool' : \A r \in tx : r \notin sent
    BY <1>7 DEF ReplyOk, ChainInv
  <2> QED
    BY <1>7, <2>1, <2>2, <2>3, <2>4 DEF ReplyOk
<1>8. CASE ReplyError
  <2>1. \A r \in Row : Unsent(r) \/ r \in sent => Unsent(r)'
    BY <1>8 DEF ReplyError, ChainInv
  <2> QED
    BY <1>8, <2>1 DEF ReplyError, Fail, Finish, Put
<1>9. CASE BookThrows
  BY <1>9 DEF BookThrows, Fail, Finish, Put
<1>10. CASE TimerFires
  BY <1>10 DEF TimerFires
<1>11. CASE Crash
  BY <1>11 DEF Crash, LoseMemory
<1>12. CASE Boot \/ Start
  BY <1>12 DEF Boot, Start, Put
<1>13. ASSUME NEW r \in Row, Book(r)
      PROVE  MoneyInv'
  BY <1>13 DEF Book
<1>14. ASSUME NEW r \in Row, RecordOk(r) \/ RecordError(r)
      PROVE  MoneyInv'
  BY <1>14 DEF RecordOk, RecordError, NextRow, Finish
<1>15. ASSUME NEW r \in Row, OperatorRetry(r) \/ Nudge(r)
      PROVE  MoneyInv'
  <2>1. OperatorRetry(r)
    BY <1>15 DEF Nudge
  <2>2. status[r] = "paying" \/ Unsent(r)
    BY <2>1 DEF OperatorRetry, Retry, Statuses
  <2>3. \A q \in forced' : q \in forced \/ (q = r /\ status[r] # "paying")
    BY <2>1 DEF OperatorRetry, Retry
  <2> QED
    BY <2>1, <2>2, <2>3 DEF OperatorRetry
<1>16. ASSUME NEW r \in Row, Age(r) \/ CoolDown(r)
      PROVE  MoneyInv'
  BY <1>16 DEF Age, CoolDown
<1>17. ASSUME NEW tx \in mempool, LandOrphan(tx) \/ DropOrphan(tx)
      PROVE  MoneyInv'
  <2>1. \A r \in Row : Unsent(r) => Unsent(r)' /\ landed'[r] = landed[r]
    BY <1>17 DEF LandOrphan, DropOrphan, Orphan, Apply
  <2>2. \A r \in tx : landed[r] = 0 /\ landed'[r] \in {0, 1}
    BY <1>17 DEF LandOrphan, DropOrphan, Apply
  <2>3. \A r \in Row \ tx : landed'[r] = landed[r]
    BY <1>17 DEF LandOrphan, DropOrphan, Apply
  <2>4. mempool' = mempool \ {tx} /\ \A t \in mempool' : \A r \in t : r \notin tx
    BY <1>17 DEF LandOrphan, DropOrphan
  <2> QED
    BY <1>17, <2>1, <2>2, <2>3, <2>4 DEF LandOrphan, DropOrphan
<1>18. CASE UNCHANGED vars
  BY <1>18 DEF vars
<1> QED
  BY <1>1, <1>2, <1>3, <1>4, <1>5, <1>6, <1>7, <1>8, <1>9, <1>10, <1>11,
     <1>12, <1>13, <1>14, <1>15, <1>16, <1>17, <1>18 DEF Next
-----------------------------------------------------------------------------
\* The invariants hold initially.
LEMMA InitInv ==
  ASSUME Init
  PROVE  RunnerInv /\ ChainInv /\ MoneyInv
<1>1. RunnerInv
  BY DEF Init, RunnerInv
<1>2. ChainInv
  BY DEF Init, ChainInv, PaidMeansLanded
<1>3. MoneyInv
  BY DEF Init, MoneyInv, PaidOnce, Unsent
<1> QED
  BY <1>1, <1>2, <1>3

\* The runner and the table agree with each other and with the chain in every
\* reachable state, whatever the chain and the payees do.
LEMMA Agreement == Spec => [](TypeOK /\ RunnerInv /\ ChainInv)
<1>1. RunnerInv /\ TypeOK /\ [Next]_vars => RunnerInv'
  BY RunnerInductive
<1>2. RunnerInv /\ ChainInv /\ TypeOK /\ [Next]_vars => ChainInv'
  BY ChainInductive
<1> QED
  BY <1>1, <1>2, InitInv, Typing, PTL DEF Spec

\* A running node leaves no row in the state paying behind (attemptGroup,
\* recoverInterrupted): each is in the hands of the runner.
THEOREM NoRowIsLost == Spec => []NoneLeftPaying
<1>1. RunnerInv => NoneLeftPaying
  BY DEF RunnerInv, NoneLeftPaying
<1> QED
  BY <1>1, Agreement, PTL

\* No row is reported paid without a transfer on the chain, in every
\* configuration: lost replies, faulty bookings, crashes, nudges.
THEOREM PaidIsOnChain == Spec => []PaidMeansLanded
<1>1. ChainInv => PaidMeansLanded
  BY DEF ChainInv
<1> QED
  BY <1>1, Agreement, PTL

\* Under Careful, a row that may be claimed has no transfer to repeat.
LEMMA MoneyInvariant == Careful /\ Spec => []MoneyInv
<1> SUFFICES ASSUME Careful PROVE Spec => []MoneyInv
  OBVIOUS
<1>1. TypeOK /\ RunnerInv /\ ChainInv /\ MoneyInv /\ [Next]_vars => MoneyInv'
  BY MoneyInductive
<1> QED
  BY <1>1, InitInv, Agreement, PTL DEF Spec

\* A chain that refuses a key used before keeps every debt to one transfer.
LEMMA KeyedTransfers ==
  ASSUME KeyOnce, TypeOK, PaidOnce, [Next]_vars
  PROVE  PaidOnce'
<1>1. CASE landed' = landed
  BY <1>1 DEF PaidOnce
<1>2. ASSUME NEW tx \in SUBSET Row, Accepts(tx), Apply(tx)
      PROVE  PaidOnce'
  BY <1>2 DEF TypeOK, PaidOnce, Accepts, Apply
<1>3. CASE ReplyOk
  BY <1>2, <1>3 DEF TypeOK, ReplyOk
<1>4. ASSUME NEW tx \in mempool, LandOrphan(tx)
      PROVE  PaidOnce'
  BY <1>2, <1>4 DEF TypeOK, LandOrphan
<1>5. [Next]_vars => landed' = landed \/ ReplyOk \/ \E tx \in mempool : LandOrphan(tx)
  BY DEF Next, vars, table, runner, chain, Enqueue, EnqueueInterrupted, ClaimGroup,
     StartPass, EndRun, Send, ReplyError, BookThrows, TimerFires, Crash, Boot, Start, Book,
     RecordOk, RecordError, OperatorRetry, Nudge, Age, CoolDown, DropOrphan
<1> QED
  BY <1>1, <1>3, <1>4, <1>5

\* The double-payment guard: a debt is honoured by at most one transfer, when
\* the chain refuses a key used before, and also without its help when errors
\* are faithful, bookings do not throw and nobody but a careful operator
\* retries an interrupted row.
THEOREM NeverPaidTwice == (KeyOnce \/ Careful) /\ Spec => []PaidOnce
<1>1. ASSUME KeyOnce PROVE Spec => []PaidOnce
  <2>1. Init => PaidOnce
    BY DEF Init, PaidOnce
  <2>2. TypeOK /\ PaidOnce /\ [Next]_vars => PaidOnce'
    BY <1>1, KeyedTransfers
  <2> QED
    BY <2>1, <2>2, Typing, PTL DEF Spec
<1>2. ASSUME Careful PROVE Spec => []PaidOnce
  <2>1. MoneyInv => PaidOnce
    BY DEF MoneyInv
  <2>2. Spec => []MoneyInv
    BY <1>2, MoneyInvariant
  <2> QED
    BY <2>1, <2>2, PTL
<1> QED
  BY <1>1, <1>2

\* Under Careful a row the node was stopped in is transferred again only when
\* nothing of the first transfer landed or may land.
THEOREM InterruptedNeedsCheck == Careful /\ Spec => InterruptedIsChecked
<1> SUFFICES ASSUME Careful PROVE Spec => InterruptedIsChecked
  OBVIOUS
<1> DEFINE Checked == \A r \in Row :
      r \in interrupted /\ status[r] = "failed" /\ status'[r] = "paying" => Unsent(r)
<1>1. TypeOK /\ MoneyInv /\ [Next]_vars => [Checked]_vars
  <2> SUFFICES ASSUME TypeOK, MoneyInv, [Next]_vars, NEW r \in Row,
                      status[r] = "failed", status'[r] = "paying"
               PROVE  Unsent(r)
    OBVIOUS
  <2>1. PICK s \in Sale : ClaimGroup(s)
    BY DEF Next, vars, table, TypeOK, Put, Fail, Insert, Missing, Enqueue, EnqueueInterrupted,
       StartPass, EndRun, Send, ReplyOk, ReplyError, BookThrows, TimerFires, Crash, Boot, Start,
       Book, RecordOk, RecordError, OperatorRetry, Nudge, Age, CoolDown, LandOrphan, DropOrphan
  <2>2. r \in todo
    BY <2>1 DEF ClaimGroup, Claimable, Fail, Put, TypeOK
  <2> QED
    BY <2>2 DEF MoneyInv
<1>2. Spec => []MoneyInv
  BY MoneyInvariant
<1> QED
  BY <1>1, <1>2, Agreement, PTL DEF Spec, InterruptedIsChecked
-----------------------------------------------------------------------------
\* Only booking makes a row paid, only the chain moves money, and only a sale
\* adds debts.
LEMMA Footprint ==
  ASSUME TypeOK, RunnerInv, ~StoreFaults, [Next]_vars
  PROVE  \/ /\ landed' = landed
            /\ \A r \in Row : status'[r] = "paid" <=> status[r] = "paid"
            /\ \A r \in Row : status[r] # "absent" => status'[r] # "absent"
         \/ \E r \in Row : Book(r)
         \/ ReplyOk
         \/ \E tx \in mempool : LandOrphan(tx)
<1> USE DEF TypeOK, RunnerInv, table, runner, chain
<1>1. ASSUME NEW s \in Sale, Enqueue(s) \/ EnqueueInterrupted(s)
      PROVE  /\ landed' = landed
             /\ \A r \in Row : status'[r] = "paid" <=> status[r] = "paid"
             /\ \A r \in Row : status[r] # "absent" => status'[r] # "absent"
  BY <1>1 DEF Enqueue, EnqueueInterrupted, Insert, Missing, Put
<1>2. ASSUME NEW s \in Sale, ClaimGroup(s)
      PROVE  /\ landed' = landed
             /\ \A r \in Row : status'[r] = "paid" <=> status[r] = "paid"
             /\ \A r \in Row : status[r] # "absent" => status'[r] # "absent"
  BY <1>2 DEF ClaimGroup, Claimable, Open, Fail, Put
<1>3. ASSUME ReplyError \/ Boot \/ Start
      PROVE  /\ landed' = landed
             /\ \A r \in Row : status'[r] = "paid" <=> status[r] = "paid"
             /\ \A r \in Row : status[r] # "absent" => status'[r] # "absent"
  BY <1>3 DEF ReplyError, Boot, Start, Fail, Put
<1> QED
  BY <1>1, <1>2, <1>3 DEF Next, vars, StartPass, EndRun, Send, BookThrows, TimerFires,
     Crash, RecordOk, RecordError, OperatorRetry, Nudge, Age, CoolDown, DropOrphan

\* Absent a booking that throws, a paid row is never re-opened.
THEOREM PaidStays == ~StoreFaults /\ Spec => PaidIsFinal
<1> SUFFICES ASSUME ~StoreFaults PROVE Spec => PaidIsFinal
  OBVIOUS
<1>1. TypeOK /\ RunnerInv /\ [Next]_vars =>
        [\A r \in Row : status[r] = "paid" => status'[r] = "paid"]_vars
  <2> SUFFICES ASSUME TypeOK, RunnerInv, [Next]_vars, NEW r \in Row, status[r] = "paid"
               PROVE  status'[r] = "paid"
    OBVIOUS
  <2>1. CASE \E q \in Row : Book(q)
    BY <2>1 DEF Book, TypeOK
  <2>2. CASE ReplyOk \/ \E tx \in mempool : LandOrphan(tx)
    BY <2>2 DEF ReplyOk, LandOrphan, table
  <2> QED
    BY <2>1, <2>2, Footprint
<1> QED
  BY <1>1, Agreement, PTL DEF Spec, PaidIsFinal

\* The payouts implement RoyaltyDebt: every debt honoured once, never before it
\* is owed, and reported paid only after that and for good.
THEOREM PayoutsHonourDebts ==
  ~StoreFaults /\ (KeyOnce \/ Careful) /\ Spec => HonoursDebts
<1> SUFFICES ASSUME ~StoreFaults, KeyOnce \/ Careful PROVE Spec => HonoursDebts
  OBVIOUS
<1> DEFINE Inv  == TypeOK /\ RunnerInv /\ ChainInv /\ PaidOnce
           Once == Careful => MoneyInv
<1>1. Init => Debt!Init
  BY DEF Init, Debt!Init
<1>2. Inv /\ Once /\ [Next]_vars => [Debt!Next]_Debt!vars
  <2> SUFFICES ASSUME Inv, Once, [Next]_vars PROVE [Debt!Next]_Debt!vars
    OBVIOUS
  <2> DEFINE Owed == {r \in Row : status[r] # "absent"}
             Told == {r \in Row : status[r] = "paid"}
  <2>1. CASE /\ landed' = landed
             /\ \A r \in Row : status'[r] = "paid" <=> status[r] = "paid"
             /\ \A r \in Row : status[r] # "absent" => status'[r] # "absent"
    <3>1. Told' = Told /\ Owed \subseteq Owed'
      BY <2>1
    <3>2. CASE Owed' = Owed
      BY <2>1, <3>1, <3>2 DEF Debt!vars
    <3>3. CASE Owed' # Owed
      <4>1. Owed' \ Owed \in SUBSET (Row \ Owed) /\ Owed' = Owed \cup (Owed' \ Owed)
        BY <3>1
      <4> QED
        BY <2>1, <3>1, <3>3, <4>1 DEF Debt!Next, Debt!Owe
    <3> QED
      BY <3>2, <3>3
  <2>2. ASSUME NEW r \in Row, Book(r)
        PROVE  [Debt!Next]_Debt!vars
    <3>1. landed[r] = 1
      BY <2>2 DEF Book, ChainInv, PaidOnce, TypeOK
    <3>2. r \in Owed /\ Owed' = Owed /\ Told' = Told \cup {r} /\ landed' = landed
      BY <2>2 DEF Book, ChainInv, RunnerInv, TypeOK, chain
    <3> QED
      BY <3>1, <3>2 DEF Debt!Next, Debt!Tell, Debt!vars
  <2>3. ASSUME NEW tx \in mempool, Accepts(tx), Apply(tx), UNCHANGED status
        PROVE  [Debt!Next]_Debt!vars
    <3>1. tx \in SUBSET Owed
      BY DEF ChainInv, TypeOK
    <3>2. \A r \in tx : landed[r] = 0
      BY <2>3 DEF Accepts, MoneyInv
    <3>3. landed' = [r \in Row |-> IF r \in tx THEN 1 ELSE landed[r]]
      BY <2>3, <3>1, <3>2 DEF Apply
    <3> QED
      BY <2>3, <3>1, <3>2, <3>3 DEF Debt!Next, Debt!Transfer
  <2>4. CASE ReplyOk
    BY <2>3, <2>4 DEF ReplyOk, ChainInv, table
  <2>5. CASE \E tx \in mempool : LandOrphan(tx)
    BY <2>3, <2>5 DEF LandOrphan, table
  <2> QED
    BY <2>1, <2>2, <2>4, <2>5, Footprint
<1>3. Spec => []PaidOnce
  BY NeverPaidTwice
<1>4. Spec => []Once
  <2>1. CASE Careful
    BY <2>1, MoneyInvariant, PTL
  <2>2. CASE ~Careful
    <3>1. Once
      BY <2>2
    <3> QED
      BY <3>1, PTL
  <2> QED
    BY <2>1, <2>2
<1> QED
  BY <1>1, <1>2, <1>3, <1>4, Agreement, PTL DEF Spec, HonoursDebts, Debt!Spec

==============================================================================
