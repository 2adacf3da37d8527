------------------------------- MODULE Gossip -------------------------------
(* The peer table of a node and the gossip round that calls its peers one after
   the other: hello, peer exchange, and the pull of their records page by page,
   while the operator adds and removes peers, strangers say hello and records are
   pushed.  Source: src/src/p2p.ts, src/src/store.ts (peers), src/src/api.ts (/p2p).

   Abstractions.  A peer lists its records in the order it took them, with the time
   it took each (received_at), and answers with the first ones taken after the cursor
   (the ledger is a library); its list does not grow.  A record also carries the time
   its author wrote into it (ts), by a clock of its own.  Every call of the round is a
   step, the page it reads included; an answer names at most one endpoint this node
   has not got.  Peers do not age (staleDays), and a local ledger is in use.       *)
EXTENDS Integers, Sequences, FiniteSets, SequencesExt
CONSTANTS
    Endpoints, Seeds,     \* all endpoints; those of config.json
    Shelf, Taken,         \* the records each peer has, in its order; when it took each
    Dated,                \* the time in each record
    Refusable,            \* records the ledger refuses for ever
    PageSize,             \* the limit of a pull
    MaxPeers, EvictAfter, \* p2p.maxPeers, p2p.evictAfterFailures
    MaxTrouble            \* bound: calls of the operator, hellos of strangers, failed calls
ASSUME GossipAssumption ==
    /\ Seeds \subseteq Endpoints /\ MaxPeers \in Nat /\ EvictAfter \in Nat \ {0}
    /\ PageSize \in Nat \ {0} /\ MaxTrouble \in Nat
    /\ \A e \in Endpoints : \A i \in 1..Len(Shelf[e]) :
          /\ Taken[e][i] \in Nat \ {0} /\ Dated[Shelf[e][i]] \in Nat
          /\ \A j \in 1..i : Taken[e][j] <= Taken[e][i]
VARIABLES
    gpeers,    \* the table: a set of endpoints with a row
    grow,      \* their rows
    gconf,     \* the peers of config.json
    gblocked,  \* endpoints gossip may not add
    gledger,   \* records this node has
    gtodo,     \* the peers the round still calls, as listed when it began
    gstep,     \* the call under way: "idle", "hello", "exchange", "sync"
    gtrouble   \* how much MaxTrouble bounds has happened
gvars == <<gpeers, grow, gconf, gblocked, gledger, gtodo, gstep, gtrouble>>
FreshRow == [source |-> "learned", failures |-> 0, seen |-> FALSE, cursor |-> 0]
RowOf(e) == IF e \in gpeers THEN grow[e] ELSE FreshRow

(* upsertPeer: the row with these fields, unless the endpoint is blocked. *)
Written(e, row) ==
    IF e \in gblocked THEN UNCHANGED <<gpeers, grow>>
    ELSE gpeers' = gpeers \cup {e} /\ grow' = [grow EXCEPT ![e] = row]
Trouble == gtrouble < MaxTrouble /\ gtrouble' = gtrouble + 1
Peer == Head(gtodo)
NextPeer == gtodo' = Tail(gtodo) /\ gstep' = IF Len(gtodo) = 1 THEN "idle" ELSE "hello"
----------------------------------------------------------------------------
GossipInit ==
    /\ gpeers = Seeds /\ grow = [e \in Endpoints |->
                                 [FreshRow EXCEPT !.source = IF e \in Seeds THEN "configured" ELSE "learned"]]
    /\ gconf = Seeds /\ gblocked = {} /\ gledger = {} /\ gtodo = <<>> /\ gstep = "idle" /\ gtrouble = 0

Orders(S) == {o \in [1..Cardinality(S) -> S] : \A i, j \in DOMAIN o : i # j => o[i] # o[j]}
RoundStart ==
    /\ gstep = "idle" /\ gpeers # {}
    /\ gtodo' \in Orders(gpeers) /\ gstep' = "hello"
    /\ UNCHANGED <<gpeers, grow, gconf, gblocked, gledger, gtrouble>>

Hello ==
    /\ gstep = "hello"
    /\ Written(Peer, [RowOf(Peer) EXCEPT !.failures = 0, !.seen = TRUE])
    /\ gstep' = "exchange"
    /\ UNCHANGED <<gconf, gblocked, gledger, gtodo, gtrouble>>

(* A call failed: one failure more on the row, and a learned peer that fails too
   often is dropped.                                                              *)
Dead(row) == row.source = "learned" /\ row.failures >= EvictAfter
CallFails ==
    LET row == [RowOf(Peer) EXCEPT !.failures = IF @ < EvictAfter THEN @ + 1 ELSE @] IN
    /\ gstep # "idle" /\ Trouble
    /\ IF Peer \in gblocked THEN UNCHANGED <<gpeers, grow>>
       ELSE /\ gpeers' = IF Dead(row) THEN gpeers \ {Peer} ELSE gpeers \cup {Peer}
            /\ grow' = [grow EXCEPT ![Peer] = row]
    /\ NextPeer /\ UNCHANGED <<gconf, gblocked, gledger>>

(* The endpoints this peer knows: each new one that is not blocked is learned, in
   the place of a learned peer when the table is full.                            *)
Victims == {e \in gpeers : grow[e].source = "learned"}
LearnOne(e) ==
    /\ e \notin gpeers /\ e \notin gblocked
    /\ \/ /\ Cardinality(gpeers) < MaxPeers /\ gpeers' = gpeers \cup {e}
       \/ /\ Cardinality(gpeers) >= MaxPeers
          /\ \E v \in Victims : /\ grow[v].seen => \A w \in Victims : grow[w].seen
                                /\ gpeers' = (gpeers \ {v}) \cup {e}
    /\ grow' = [grow EXCEPT ![e] = FreshRow]
Exchange ==
    /\ gstep = "exchange" /\ gstep' = "sync"
    /\ \/ \E e \in Endpoints : LearnOne(e)
       \/ UNCHANGED <<gpeers, grow>>
    /\ UNCHANGED <<gconf, gblocked, gledger, gtodo, gtrouble>>

(* One page of records: the first that the peer took after the cursor.  A refused
   record is passed over, and the cursor goes to the time of the last; an unexpected
   failure ends the page, and the cursor goes to just before the time in that record. *)
PageFrom(e, c) ==
    {i \in 1..Len(Shelf[e]) : Taken[e][i] > c /\ (i > PageSize => Taken[e][i - PageSize] <= c)}
AtLeast(s, t) == IF s > t THEN s ELSE t
NewCursor(e, c, stop) ==
    IF stop > 0 THEN {AtLeast(c, Dated[Shelf[e][stop]] - 1)}
    ELSE {t \in {c} \cup {Taken[e][i] : i \in PageFrom(e, c)} : \A i \in PageFrom(e, c) : Taken[e][i] <= t}
(* Mutant: a record the ledger refuses stops the page as well. *)
NothingPassedOver(r) == FALSE
PassedOver(r) == r \in Refusable
Sync ==
    LET c == RowOf(Peer).cursor
        page == PageFrom(Peer, c)
        hard == {i \in page : Shelf[Peer][i] \in Refusable /\ ~PassedOver(Shelf[Peer][i])}
    IN
    /\ gstep = "sync"
    /\ \E stop \in page \cup {0} :
           /\ \A i \in hard : stop \in 1..i
           /\ IF stop \in page \ hard THEN Trouble ELSE UNCHANGED gtrouble
           /\ gledger' = gledger \cup ({Shelf[Peer][i] : i \in {k \in page : stop = 0 \/ k < stop}}
                                       \ Refusable)
           /\ \E t \in NewCursor(Peer, c, stop) : Written(Peer, [RowOf(Peer) EXCEPT !.cursor = t])
    /\ NextPeer /\ UNCHANGED <<gconf, gblocked>>
----------------------------------------------------------------------------
(* Meanwhile: a push of one record (lost as easily), a stranger's hello, and the
   operator.                                                                      *)
Pushed ==
    /\ Trouble
    /\ \E e \in Endpoints : \E i \in 1..Len(Shelf[e]) :
           gledger' = gledger \cup ({Shelf[e][i]} \ Refusable)
    /\ UNCHANGED <<gpeers, grow, gconf, gblocked, gtodo, gstep>>
InboundHello ==
    /\ Trouble
    /\ \E e \in Endpoints, signed \in BOOLEAN :
           Written(e, [RowOf(e) EXCEPT !.failures = IF signed THEN 0 ELSE @, !.seen = signed \/ @])
    /\ UNCHANGED <<gconf, gblocked, gledger, gtodo, gstep>>
AddPeer ==
    /\ Trouble
    /\ \E e \in Endpoints :
           /\ gblocked' = gblocked \ {e} /\ gpeers' = gpeers \cup {e} /\ gconf' = gconf \cup {e}
           /\ grow' = [grow EXCEPT ![e] = [RowOf(e) EXCEPT !.source = "configured"]]
    /\ UNCHANGED <<gledger, gtodo, gstep>>
RemovePeer ==
    /\ Trouble
    /\ \E e \in gpeers, keepOut \in BOOLEAN :
           /\ gpeers' = gpeers \ {e} /\ gconf' = gconf \ {e}
           /\ gblocked' = IF keepOut THEN gblocked \cup {e} ELSE gblocked
    /\ UNCHANGED <<grow, gledger, gtodo, gstep>>
\* stop() and a new start: the round is gone, the peers of config.json are added again
\* and every other row is learned.
GossipRestart ==
    /\ Trouble /\ gstep' = "idle" /\ gtodo' = <<>>
    /\ gpeers' = gpeers \cup gconf /\ gblocked' = gblocked \ gconf
    /\ grow' = [e \in Endpoints |->
                  [RowOf(e) EXCEPT !.source = IF e \in gconf THEN "configured" ELSE "learned"]]
    /\ UNCHANGED <<gconf, gledger>>

RoundCalls == RoundStart \/ Hello \/ Exchange \/ Sync
GossipNext == \/ RoundCalls \/ CallFails \/ Pushed \/ InboundHello
              \/ AddPeer \/ RemovePeer \/ GossipRestart
GossipSpec == GossipInit /\ [][GossipNext]_gvars
GossipFairSpec == GossipSpec /\ WF_gvars(RoundCalls)
----------------------------------------------------------------------------
\* The pull cannot lose this record: the peer took no earlier one at the same time (a
\* page may end between two of a time), and neither it nor an earlier one says it was
\* written later than the peer took this one (a failure at such a record moves the cursor
\* past what the page still held).
Pullable(e, i) ==
    /\ \A j \in 1..(i - 1) : Taken[e][j] < Taken[e][i]
    /\ \A j \in 1..i : Dated[Shelf[e][j]] <= Taken[e][i]

\* Every record of a configured peer that is not refused, and that its times do not lose,
\* arrives, when the calls to the peer succeed at last (round): the refused ones before it
\* do not hold it up, nor does a failure in the middle of a page.
RecordsArrive ==
    \A e \in Seeds : \A i \in {k \in 1..Len(Shelf[e]) : Pullable(e, k)} :
        []<>(Shelf[e][i] \in gledger \cup Refusable \/ e \notin gpeers)
=============================================================================
