------------------------------- MODULE Tracks -------------------------------
(* A track and a node that follows it: the curator's branch records, what
   following it takes (the fee of a period, the purchases, the public record, the
   load), and the 20-second sync that buys and loads what the track has added and
   unloads what it has retired.  Source: src/src/market.ts (branches), src/src/api.ts.

   Abstractions.  One track, whose owner is another node; a purchase is one step (the
   module Purchase has its inside) and leaves a licence and the body; the pins of the
   operator and the overlap check are left out (the stack is in RuntimeStack).        *)
EXTENDS Naturals, Sequences, FiniteSets
CONSTANTS
    Items,          \* knowledge that may be put on the track
    Verified,       \* those the network has verified
    NewerOf,        \* for each item, the items that supersede it
    Dear,           \* items whose purchase always fails: not enough funds
    TrackFirst,     \* what is on the track at first
    MaxTrack        \* bound: acts of the two operators, failures, outages and crashes
ASSUME TracksAssumption ==
    /\ Verified \subseteq Items /\ Dear \subseteq Items /\ TrackFirst \subseteq Items
    /\ NewerOf \in [Items -> SUBSET Items] /\ MaxTrack \in Nat
VARIABLES
    tline,     \* patch_ids of the newest branch record
    tfee,      \* the track has terms with a price
    tpaid,     \* a settlement covers the present period
    tlic,      \* items this node holds and has a licence for
    tloaded,   \* rows of applied with the reason subscription:<track>
    trec,      \* this node's newest subscribe record: whether it follows, and the items
    tfail,     \* syncFailures whose backoff has not run out
    tsub,      \* the call of subscribe under way
    tsync,     \* the sync under way
    trows,     \* pending_payments of the fee, by status
    tsent,     \* fees that left this node
    tmodel,    \* the serving model answers
    ttrack     \* how much MaxTrack bounds has happened
tvars == <<tline, tfee, tpaid, tlic, tloaded, trec, tfail, tsub, tsync, trows, tsent, tmodel, ttrack>>
NoCall == [pc |-> "idle", want |-> {}, todo |-> {}, failed |-> {}, stale |-> {}]
Act == ttrack < MaxTrack /\ ttrack' = ttrack + 1

(* resolveTrack: an item replaced by another member, or not verified, is left out. *)
resolveTrack == {i \in tline : i \in Verified /\ NewerOf[i] \cap tline = {}}
Follows == trec.follows
----------------------------------------------------------------------------
TracksInit ==
    /\ tline = TrackFirst /\ tfee = FALSE /\ tpaid = FALSE /\ tlic = {} /\ tloaded = {}
    /\ trec = [follows |-> FALSE, items |-> {}] /\ tfail = {} /\ tsub = NoCall /\ tsync = NoCall
    /\ trows = <<>> /\ tsent = 0 /\ tmodel = TRUE /\ ttrack = 0

(* The curator: only verified knowledge goes on a track, unless forced. *)
AddToBranch ==
    /\ Act
    /\ \E i \in Items, force \in BOOLEAN : (i \in Verified \/ force) /\ tline' = tline \cup {i}
    /\ UNCHANGED <<tfee, tpaid, tlic, tloaded, trec, tfail, tsub, tsync, trows, tsent, tmodel>>
SetBranchTerms ==
    /\ Act /\ tfee' = ~tfee
    /\ UNCHANGED <<tline, tpaid, tlic, tloaded, trec, tfail, tsub, tsync, trows, tsent, tmodel>>
PeriodEnds ==
    /\ tpaid /\ Act /\ tpaid' = FALSE
    /\ UNCHANGED <<tline, tfee, tlic, tloaded, trec, tfail, tsub, tsync, trows, tsent, tmodel>>
----------------------------------------------------------------------------
(* subscribe: quote; the fee, if it is due; the purchases; the record; the load. *)
SubscribeBegin ==
    /\ tsub.pc = "idle" /\ Act
    /\ tsub' = [NoCall EXCEPT !.pc = IF tfee /\ ~tpaid THEN "quoted" ELSE "buy",
                              !.want = resolveTrack, !.todo = resolveTrack \ tlic]
    /\ UNCHANGED <<tline, tfee, tpaid, tlic, tloaded, trec, tfail, tsync, trows, tsent, tmodel>>

(* paySubscription: the row goes in before the money moves. *)
RowFirst == trows' = Append(trows, "quoted")
FeeRow ==
    /\ tsub.pc = "quoted" /\ RowFirst /\ tsub' = [tsub EXCEPT !.pc = "transfer"]
    /\ UNCHANGED <<tline, tfee, tpaid, tlic, tloaded, trec, tfail, tsync, tsent, tmodel, ttrack>>
FeeTransfer ==
    /\ tsub.pc = "transfer"
    /\ \/ tsent' = tsent + 1 /\ tsub' = [tsub EXCEPT !.pc = "present"] /\ UNCHANGED ttrack
       \/ Act /\ tsub' = NoCall /\ UNCHANGED tsent
    /\ UNCHANGED <<tline, tfee, tpaid, tlic, tloaded, trec, tfail, tsync, trows, tmodel>>
FeeSettled ==
    /\ tsub.pc = "present" /\ tpaid' = TRUE
    /\ trows' = [trows EXCEPT ![Len(trows)] = "settled"] /\ tsub' = [tsub EXCEPT !.pc = "buy"]
    /\ UNCHANGED <<tline, tfee, tlic, tloaded, trec, tfail, tsync, tsent, tmodel, ttrack>>
\* Refused: the row keeps the payment.  No answer: the row stays as it was quoted, and the
\* curator may have settled.
FeeFails ==
    /\ tsub.pc = "present" /\ Act /\ tsub' = NoCall
    /\ \/ trows' = [trows EXCEPT ![Len(trows)] = "paid"] /\ UNCHANGED tpaid
       \/ UNCHANGED trows /\ tpaid' \in {tpaid, TRUE}
    /\ UNCHANGED <<tline, tfee, tlic, tloaded, trec, tfail, tsync, tsent, tmodel>>

Bought(i) == i \notin Dear
SubscribeBuys ==
    /\ tsub.pc = "buy"
    /\ \E i \in tsub.todo :
           \/ Bought(i) /\ tlic' = tlic \cup {i} /\ tsub' = [tsub EXCEPT !.todo = @ \ {i}] /\ UNCHANGED ttrack
           \/ /\ IF Bought(i) THEN Act ELSE UNCHANGED ttrack
              /\ UNCHANGED tlic /\ tsub' = [tsub EXCEPT !.todo = @ \ {i}, !.failed = @ \cup {i}]
    /\ UNCHANGED <<tline, tfee, tpaid, tloaded, trec, tfail, tsync, trows, tsent, tmodel>>

(* Nothing is announced unless everything was acquired. *)
Acquired(call) == call.failed = {}
SubscribeRecord ==
    /\ tsub.pc = "buy" /\ tsub.todo = {}
    /\ IF Acquired(tsub) THEN /\ trec' = [follows |-> TRUE, items |-> tsub.want]
                              /\ tsub' = [tsub EXCEPT !.pc = "load"]
       ELSE UNCHANGED trec /\ tsub' = NoCall
    /\ UNCHANGED <<tline, tfee, tpaid, tlic, tloaded, tfail, tsync, trows, tsent, tmodel, ttrack>>

(* layersFor refuses the whole list when one of it has no licence. *)
Loadable(ids) == ids \subseteq tlic
SubscribeLoads ==
    /\ tsub.pc = "load" /\ tsub' = NoCall
    /\ tloaded' = IF tmodel /\ Loadable(tsub.want) THEN tloaded \cup tsub.want ELSE tloaded
    /\ UNCHANGED <<tline, tfee, tpaid, tlic, trec, tfail, tsync, trows, tsent, tmodel, ttrack>>

(* The record first, then the layers of the track come off in one section. *)
Unsubscribe ==
    /\ tsub.pc = "idle" /\ Follows /\ Act
    /\ trec' = [follows |-> FALSE, items |-> tline]
    /\ tsub' = [NoCall EXCEPT !.pc = "unload", !.stale = tloaded]
    /\ UNCHANGED <<tline, tfee, tpaid, tlic, tloaded, tfail, tsync, trows, tsent, tmodel>>
UnsubscribeUnloads ==
    /\ tsub.pc = "unload" /\ tsub' = NoCall
    /\ tloaded' = IF tmodel THEN tloaded \ tsub.stale ELSE tloaded
    /\ UNCHANGED <<tline, tfee, tpaid, tlic, trec, tfail, tsync, trows, tsent, tmodel, ttrack>>
----------------------------------------------------------------------------
(* syncSubscription, from the tick (which a slow purchase makes overlap with nothing
   here: one sync at a time) or by hand, when no backoff counts.                     *)
Stale(want) == tloaded \ want
SyncBegin ==
    /\ tsync.pc = "idle" /\ Follows
    /\ resolveTrack # tloaded
    /\ tsync' = [NoCall EXCEPT !.pc = "buy", !.want = resolveTrack,
                 !.todo = (resolveTrack \ tloaded) \ tlic, !.stale = Stale(resolveTrack)]
    /\ UNCHANGED <<tline, tfee, tpaid, tlic, tloaded, trec, tfail, tsub, trows, tsent, tmodel, ttrack>>
SyncNow ==
    /\ tfail # {} /\ Act /\ tfail' = {}
    /\ UNCHANGED <<tline, tfee, tpaid, tlic, tloaded, trec, tsub, tsync, trows, tsent, tmodel>>
SyncBuys ==
    /\ tsync.pc = "buy"
    /\ \E i \in tsync.todo :
         \/ /\ i \in tfail /\ tsync' = [tsync EXCEPT !.todo = @ \ {i}] /\ UNCHANGED <<tlic, tfail, ttrack>>
         \/ /\ i \notin tfail /\ Bought(i)
            /\ tlic' = tlic \cup {i} /\ tsync' = [tsync EXCEPT !.todo = @ \ {i}] /\ UNCHANGED <<tfail, ttrack>>
         \/ /\ i \notin tfail /\ IF Bought(i) THEN Act ELSE UNCHANGED ttrack
            /\ tfail' = tfail \cup {i} /\ UNCHANGED tlic
            /\ tsync' = [tsync EXCEPT !.todo = @ \ {i}, !.failed = @ \cup {i}]
    /\ UNCHANGED <<tline, tfee, tpaid, tloaded, trec, tsub, trows, tsent, tmodel>>

(* Mutant: what could not be bought is loaded as well. *)
AllReady(call) == call.want
Ready(call) == call.want \ call.failed
SyncLoads ==
    /\ tsync.pc = "buy" /\ tsync.todo = {} /\ tsync' = NoCall
    /\ tloaded' = IF tmodel /\ Loadable(Ready(tsync))
                  THEN (tloaded \ tsync.stale) \cup Ready(tsync) ELSE tloaded
    /\ UNCHANGED <<tline, tfee, tpaid, tlic, trec, tfail, tsub, trows, tsent, tmodel, ttrack>>

BackoffRuns(i) ==
    /\ i \in tfail /\ tfail' = tfail \ {i}
    /\ UNCHANGED <<tline, tfee, tpaid, tlic, tloaded, trec, tsub, tsync, trows, tsent, tmodel, ttrack>>
ModelGoes ==
    /\ tmodel /\ Act /\ tmodel' = FALSE
    /\ UNCHANGED <<tline, tfee, tpaid, tlic, tloaded, trec, tfail, tsub, tsync, trows, tsent>>
ModelComes ==
    /\ ~tmodel /\ tmodel' = TRUE
    /\ UNCHANGED <<tline, tfee, tpaid, tlic, tloaded, trec, tfail, tsub, tsync, trows, tsent, ttrack>>
\* The node stops and starts: the calls and the backoffs are gone.
TracksCrash ==
    /\ Act /\ tsub' = NoCall /\ tsync' = NoCall /\ tfail' = {}
    /\ UNCHANGED <<tline, tfee, tpaid, tlic, tloaded, trec, trows, tsent, tmodel>>

Syncing == SyncBegin \/ SyncBuys \/ SyncLoads
TracksNext ==
    \/ AddToBranch \/ SetBranchTerms \/ PeriodEnds
    \/ SubscribeBegin \/ FeeRow \/ FeeTransfer \/ FeeSettled \/ FeeFails
    \/ SubscribeBuys \/ SubscribeRecord \/ SubscribeLoads \/ Unsubscribe \/ UnsubscribeUnloads
    \/ Syncing \/ SyncNow \/ (\E i \in Items : BackoffRuns(i)) \/ ModelGoes \/ ModelComes \/ TracksCrash
TracksSpec == TracksInit /\ [][TracksNext]_tvars
TracksFairSpec ==
    /\ TracksSpec /\ WF_tvars(Syncing) /\ WF_tvars(ModelComes)
    /\ \A i \in Items : WF_tvars(BackoffRuns(i))
----------------------------------------------------------------------------
\* A node that goes on following the track comes to serve exactly what is current on it,
\* save the one item it cannot buy: that holds up neither the others nor the removal of a
\* retired one.  With two such items nothing may ever load: a tick that tries one of them
\* while the other's backoff runs asks layersFor for the other, and layersFor refuses the
\* list (syncSubscription, item 255).
CannotBuy == resolveTrack \cap Dear
KeepsUp == []<>(~Follows \/ tloaded = resolveTrack \ Dear \/ Cardinality(CannotBuy) > 1)
=============================================================================
