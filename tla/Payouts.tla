------------------------------ MODULE Payouts ------------------------------
(***************************************************************************)
(* The royalty payouts of one node: src/src/payouts.ts over the payouts    *)
(* table of src/src/store.ts.                                              *)
(*                                                                         *)
(* A row of the table is one person owed money for one sale.  All the      *)
(* transfers go through one runner (processPending): a pass collects the   *)
(* due rows, groups them by sale, and for each group claims the rows, asks *)
(* the wallet for one transaction (or one per row), books the outcome and  *)
(* puts the payment on the public record.  The node may stop anywhere; the *)
(* table survives it, the runner's memory does not, and a transaction      *)
(* already handed to the chain may still land.                             *)
(*                                                                         *)
(* JavaScript runs a handler to its next await: the states in which the    *)
(* runner has not reached one ("grouped", "claimed") admit no other        *)
(* handler (operator Yielded), only a crash and the chain.                 *)
(***************************************************************************)
EXTENDS Naturals, FiniteSets

CONSTANTS
  Row,             \* the rows the payouts table may come to hold
  SaleOf,          \* the settle_hash of a row
  Place,           \* the place of a row's person in its sale's royalty map
  MaxAttempts,     \* automatic attempts of a row
  DueLimit,        \* how many open rows due() looks at, newest first
  CanBatch,        \* the wallet has transferMany
  HasWallet,       \* the node has a chain wallet
  KeyOnce,         \* the chain refuses a second transfer under one key
  FaithfulErrors,  \* a transfer that reports an error never lands
  StoreFaults,     \* booking a landed transfer may throw
  Nudged,          \* the rows whose payee may ask for a retry
  MaxCrashes       \* bound: how often the node stops

ASSUME RowAssumption ==
  IsFiniteSet(Row) /\ Place \in [Row -> 1 .. Cardinality(Row)]
ASSUME AttemptsAssumption == MaxAttempts \in Nat \ {0}
ASSUME FlagsAssumption ==
  {CanBatch, HasWallet, KeyOnce, FaithfulErrors, StoreFaults} \subseteq BOOLEAN
ASSUME BoundAssumption == MaxCrashes \in Nat /\ DueLimit \in Nat

VARIABLES
  \* the payouts table
  status, attempts, interrupted, recorded, fresh, rank,
  \* the memory of the process
  phase, pc, todo, hand, sent, inFlight, again, forced, cooling,
  \* the chain, and the crashes so far
  landed, mempool, crashes

table  == <<status, attempts, interrupted, recorded, fresh, rank>>
runner == <<pc, todo, hand, sent, inFlight>>
chain  == <<landed, mempool>>
vars   == <<table, phase, runner, again, forced, cooling, chain, crashes>>

Sale == {SaleOf[r] : r \in Row}

Statuses == {"absent", "pending", "paying", "paid", "failed"}
Pauses   == {"idle", "starting", "grouped", "between",
             "claimed", "sending", "booking", "recording"}

TypeOK ==
  /\ status \in [Row -> Statuses]
  /\ attempts \in [Row -> 0 .. MaxAttempts]
  /\ interrupted \in SUBSET Row
  /\ recorded \in SUBSET Row
  /\ fresh \in SUBSET Row
  /\ rank \in [Row -> Nat]
  /\ phase \in {"down", "listening", "started"}
  /\ pc \in Pauses
  /\ todo \in SUBSET Row
  /\ hand \in SUBSET Row
  /\ sent \in SUBSET Row
  /\ inFlight \in SUBSET Row
  /\ again \in BOOLEAN
  /\ forced \in SUBSET Row
  /\ cooling \in SUBSET Row
  /\ landed \in [Row -> Nat]
  /\ mempool \in SUBSET SUBSET Row
  /\ crashes \in 0 .. MaxCrashes

Init ==
  /\ status = [r \in Row |-> "absent"]
  /\ attempts = [r \in Row |-> 0]
  /\ interrupted = {}
  /\ recorded = {}
  /\ fresh = {}
  /\ rank = [r \in Row |-> 0]
  /\ phase = "started"
  /\ pc = "idle"
  /\ todo = {} /\ hand = {} /\ sent = {} /\ inFlight = {}
  /\ again = FALSE
  /\ forced = {} /\ cooling = {}
  /\ landed = [r \in Row |-> 0]
  /\ mempool = {}
  /\ crashes = 0

-----------------------------------------------------------------------------
(* Helpers *)

\* f with the value v at every row of S.
Put(f, S, v) == [r \in Row |-> IF r \in S THEN v ELSE f[r]]

Open == {r \in Row : status[r] \in {"pending", "failed"}}

\* The rows due() sees: the DueLimit open rows inserted last.
Window ==
  {r \in Open : Cardinality({q \in Open : rank[q] > rank[r]}) < DueLimit}

\* Mutant of Due: a failed row is left to the operator.
DuePending == {r \in Window : status[r] = "pending"}

\* due(): never attempted, or failed with attempts left, long enough ago,
\* and not for the reason that the node stopped during the transfer.
Due ==
  {r \in Window : \/ status[r] = "pending"
                  \/ /\ attempts[r] < MaxAttempts
                     /\ r \notin fresh
                     /\ r \notin interrupted}

\* No transfer of row r has landed or may still land.
Unsent(r) == landed[r] = 0 /\ \A tx \in mempool : r \notin tx

\* The process runs.
Up == phase # "down"

\* The runner has reached an await, so another handler may run.
Yielded == pc \notin {"grouped", "claimed"}

\* The call of processPending by another handler: start the runner, or
\* have it do one more pass.
ProcessPending ==
  IF pc = "idle" THEN pc' = "starting" /\ UNCHANGED again
                 ELSE again' = TRUE /\ UNCHANGED pc

\* What a stop of the process loses.
LoseMemory ==
  /\ crashes < MaxCrashes
  /\ crashes' = crashes + 1
  /\ phase' = "down"
  /\ pc' = "idle"
  /\ todo' = {} /\ hand' = {} /\ sent' = {} /\ inFlight' = {}
  /\ again' = FALSE
  /\ forced' = {} /\ cooling' = {}

\* The rows of S have no further step in this group.  A group that is
\* over releases its rows and yields; otherwise the next row is sent.
Finish(S) ==
  /\ hand' = hand \ S
  /\ sent' = {}
  /\ inFlight' = IF hand \ S = {} THEN {} ELSE inFlight
  /\ pc' = IF hand \ S = {} THEN "between" ELSE "claimed"

\* failed(): the rows of S are failed, for another reason than a restart.
Fail(S) ==
  /\ status' = Put(status, S, "failed")
  /\ interrupted' = interrupted \ S
  /\ fresh' = fresh \cup S
-----------------------------------------------------------------------------
(* The table grows *)

\* A pending row for each person of new.  The rank follows the row id: later
\* than every row there is, and in the order of the sale's royalty map.
Insert(new) ==
  LET base == Cardinality({q \in Row : status[q] # "absent"})
  IN  /\ status' = Put(status, new, "pending")
      /\ rank' = [r \in Row |-> IF r \in new
                                  THEN Place[r] + Cardinality(Row) * base
                                  ELSE rank[r]]
      /\ UNCHANGED <<attempts, interrupted, recorded, fresh>>

Missing(s) == {r \in Row : SaleOf[r] = s /\ status[r] = "absent"}

\* A sale is settled, or reconcilePayouts finds one whose rows are missing.
Enqueue(s) ==
  /\ Up /\ Yielded
  /\ Missing(s) # {}
  /\ Insert(Missing(s))
  /\ ProcessPending
  /\ UNCHANGED <<phase, todo, hand, sent, inFlight, forced, cooling, chain, crashes>>

\* The node stops between the inserts of a sale's rows.
EnqueueInterrupted(s) ==
  /\ Up /\ Yielded
  /\ \E new \in SUBSET Missing(s) :
       /\ new # {} /\ new # Missing(s)
       /\ \A r \in new, q \in Missing(s) : Place[q] < Place[r] => q \in new
       /\ Insert(new)
  /\ LoseMemory
  /\ UNCHANGED chain
-----------------------------------------------------------------------------
(* The runner *)

\* A new pass: what was forced, and what is due.
StartPass ==
  /\ Up
  /\ \/ pc = "starting"
     \/ pc = "between" /\ todo = {} /\ (again \/ forced # {})
  /\ again' = FALSE
  /\ forced' = {}
  /\ todo' = forced \cup Due
  /\ pc' = "grouped"
  /\ UNCHANGED <<table, phase, hand, sent, inFlight, cooling, chain, crashes>>

EndRun ==
  /\ Up
  /\ pc \in {"grouped", "between"}
  /\ todo = {} /\ ~again /\ forced = {}
  /\ pc' = "idle"
  /\ UNCHANGED <<table, phase, todo, hand, sent, inFlight, again, forced,
                 cooling, chain, crashes>>

\* The rows of a group the runner may claim.
Claimable(group) == (group \cap Open) \ inFlight

Counted(S) ==
  [r \in Row |-> IF r \in S /\ attempts[r] < MaxAttempts
                   THEN attempts[r] + 1 ELSE attempts[r]]

\* The claim of one sale's rows.  attempts is only ever compared with
\* MaxAttempts, so it is counted up to there.
ClaimGroup(s) ==
  LET group == {r \in todo : SaleOf[r] = s}
      mine  == Claimable(group)
  IN  /\ Up
      /\ pc \in {"grouped", "between"}
      /\ group # {}
      /\ todo' = todo \ group
      /\ attempts' = Counted(mine)
      /\ IF mine # {} /\ HasWallet
           THEN /\ status' = Put(status, mine, "paying")
                /\ hand' = mine
                /\ inFlight' = inFlight \cup mine
                /\ pc' = "claimed"
                /\ UNCHANGED <<interrupted, fresh>>
           ELSE /\ Fail(mine)
                /\ pc' = "between"
                /\ UNCHANGED <<hand, inFlight>>
      /\ UNCHANGED <<recorded, rank, phase, sent, again, forced, cooling,
                     chain, crashes>>

\* The wallet is asked for one transaction: of the whole group, or of one row.
Send ==
  /\ Up
  /\ pc = "claimed"
  /\ \E tx \in IF CanBatch THEN {hand} ELSE {{r} : r \in hand} :
       /\ sent' = tx
       /\ mempool' = mempool \cup {tx}
  /\ pc' = "sending"
  /\ UNCHANGED <<table, phase, todo, hand, inFlight, again, forced, cooling,
                 landed, crashes>>

\* The chain accepts a transaction: all of its writes, or none of them.
Accepts(tx) == KeyOnce => \A r \in tx : landed[r] = 0

Apply(tx) == landed' = [r \in Row |-> IF r \in tx THEN landed[r] + 1 ELSE landed[r]]

ReplyOk ==
  /\ Up
  /\ pc = "sending"
  /\ Accepts(sent)
  /\ Apply(sent)
  /\ mempool' = mempool \ {sent}
  /\ pc' = "booking"
  /\ UNCHANGED <<table, phase, todo, hand, sent, inFlight, again, forced,
                 cooling, crashes>>

\* Mutant of ReplyError: a timeout is taken for an answer.
ReplyAssumed ==
  /\ Up
  /\ pc = "sending"
  /\ pc' = "booking"
  /\ UNCHANGED <<table, phase, todo, hand, sent, inFlight, again, forced, cooling,
                 chain, crashes>>

\* The wallet reports an error; the transaction may be on its way all the same.
ReplyError ==
  /\ Up
  /\ pc = "sending"
  /\ Fail(sent)
  /\ \/ mempool' = mempool \ {sent}
     \/ ~FaithfulErrors /\ UNCHANGED mempool
  /\ Finish(sent)
  /\ UNCHANGED <<attempts, recorded, rank, phase, todo, again, forced, cooling,
                 landed, crashes>>

\* A row of the landed transaction is booked as paid.
Book(r) ==
  /\ Up
  /\ pc = "booking"
  /\ r \in sent
  /\ status' = [status EXCEPT ![r] = "paid"]
  /\ interrupted' = interrupted \ {r}
  /\ fresh' = fresh \ {r}
  /\ pc' = "recording"
  /\ UNCHANGED <<attempts, recorded, rank, phase, todo, hand, sent, inFlight,
                 again, forced, cooling, chain, crashes>>

\* Booking throws: the catch clause fails the row, and in a batch every row.
BookThrows ==
  /\ StoreFaults
  /\ Up
  /\ pc = "booking"
  /\ \E S \in IF CanBatch THEN {hand} ELSE {sent} : Fail(S) /\ Finish(S)
  /\ UNCHANGED <<attempts, recorded, rank, phase, todo, again, forced, cooling,
                 chain, crashes>>

\* The next row of the transaction, or the end of it.
NextRow(r) ==
  IF sent \ {r} # {}
    THEN sent' = sent \ {r} /\ pc' = "booking" /\ UNCHANGED <<hand, inFlight>>
    ELSE Finish(IF CanBatch THEN hand ELSE {r})

\* putOnRecord(): the payment of r is written on the shared ledger.
RecordOk(r) ==
  /\ Up
  /\ pc = "recording"
  /\ r \in sent /\ status[r] = "paid"
  /\ recorded' = recorded \cup {r}
  /\ NextRow(r)
  /\ UNCHANGED <<status, attempts, interrupted, fresh, rank, phase, todo, again,
                 forced, cooling, chain, crashes>>

\* The write fails: it is logged.
RecordError(r) ==
  /\ Up
  /\ pc = "recording"
  /\ r \in sent /\ status[r] = "paid"
  /\ NextRow(r)
  /\ UNCHANGED <<table, phase, todo, again, forced, cooling, chain, crashes>>
-----------------------------------------------------------------------------
(* The timer, the operator, the payee *)

TimerFires ==
  /\ phase = "started" /\ Yielded
  /\ ProcessPending
  /\ UNCHANGED <<table, phase, todo, hand, sent, inFlight, forced, cooling,
                 chain, crashes>>

\* retry(): a row that is in the runner's hands is not queued again.
Retry(r) ==
  /\ status[r] \notin {"absent", "paid"}
  /\ forced' = IF status[r] # "paying" /\ r \notin inFlight
                 THEN forced \cup {r} ELSE forced
  /\ ProcessPending

\* The operator retries; a row that says the node restarted during its
\* transfer only after finding on the chain that nothing was sent.
OperatorRetry(r) ==
  /\ Up /\ Yielded
  /\ r \in interrupted => Unsent(r)
  /\ Retry(r)
  /\ UNCHANGED <<table, phase, todo, hand, sent, inFlight, cooling, chain, crashes>>

\* nudge(): the person owed the money asks, at most once per cool-down.
Nudge(r) ==
  /\ Up /\ Yielded
  /\ r \in Nudged \ cooling
  /\ cooling' = cooling \cup {r}
  /\ Retry(r)
  /\ UNCHANGED <<table, phase, todo, hand, sent, inFlight, chain, crashes>>

\* Time passes: a failure is older than the retry interval, a nudge older
\* than its cool-down.
Age(r) ==
  /\ r \in fresh
  /\ fresh' = fresh \ {r}
  /\ UNCHANGED <<status, attempts, interrupted, recorded, rank, phase, runner,
                 again, forced, cooling, chain, crashes>>

CoolDown(r) ==
  /\ r \in cooling
  /\ cooling' = cooling \ {r}
  /\ UNCHANGED <<table, phase, runner, again, forced, chain, crashes>>
-----------------------------------------------------------------------------
(* Stops, restarts, and transactions nobody waits for *)

Crash ==
  /\ Up
  /\ LoseMemory
  /\ UNCHANGED <<table, chain>>

\* The API listens before the payouts are started, so a sale or a retry may
\* already set the runner to work.
Boot ==
  /\ phase = "down"
  /\ phase' = "listening"
  /\ UNCHANGED <<table, runner, again, forced, cooling, chain, crashes>>

\* Mutants of Start: the rows in transfer become pending, or paid.
StartAs(to) ==
  LET cut == {r \in Row : status[r] = "paying"} \ inFlight
  IN  /\ phase = "listening" /\ Yielded
      /\ phase' = "started"
      /\ status' = Put(status, cut, to)
      /\ UNCHANGED <<attempts, interrupted, recorded, fresh, rank, runner,
                     again, forced, cooling, chain, crashes>>
StartPending == StartAs("pending")
StartPaid    == StartAs("paid")

\* start(): recoverInterrupted, then the timer.
Start ==
  LET cut == {r \in Row : status[r] = "paying"} \ inFlight
  IN  /\ phase = "listening" /\ Yielded
      /\ phase' = "started"
      /\ status' = Put(status, cut, "failed")
      /\ attempts' = Put(attempts, cut, MaxAttempts)
      /\ interrupted' = interrupted \cup cut
      /\ fresh' = fresh \cup cut
      /\ UNCHANGED <<recorded, rank, runner, again, forced, cooling, chain,
                     crashes>>

Orphan(tx) == tx \in mempool /\ ~(pc = "sending" /\ sent = tx)

LandOrphan(tx) ==
  /\ Orphan(tx)
  /\ Accepts(tx)
  /\ Apply(tx)
  /\ mempool' = mempool \ {tx}
  /\ UNCHANGED <<table, phase, runner, again, forced, cooling, crashes>>

DropOrphan(tx) ==
  /\ Orphan(tx)
  /\ mempool' = mempool \ {tx}
  /\ UNCHANGED <<table, phase, runner, again, forced, cooling, landed, crashes>>
-----------------------------------------------------------------------------
Next ==
  \/ \E s \in Sale : Enqueue(s) \/ EnqueueInterrupted(s) \/ ClaimGroup(s)
  \/ StartPass \/ EndRun
  \/ Send \/ ReplyOk \/ ReplyError \/ BookThrows
  \/ TimerFires \/ Crash \/ Boot \/ Start
  \/ \E r \in Row : \/ Book(r) \/ RecordOk(r) \/ RecordError(r)
                    \/ OperatorRetry(r) \/ Nudge(r)
                    \/ Age(r) \/ CoolDown(r)
  \/ \E tx \in mempool : LandOrphan(tx) \/ DropOrphan(tx)

Spec == Init /\ [][Next]_vars

\* The runner's promises resolve (the wallet and the ledger answer, with a
\* result or an error), the timer fires, a stopped node is started again and
\* time passes.  Nothing is assumed of the operator, the payees or the chain.
RunnerStep ==
  \/ StartPass \/ EndRun \/ \E s \in Sale : ClaimGroup(s)
  \/ Send \/ ReplyOk \/ ReplyError
  \/ \E r \in Row : Book(r) \/ RecordOk(r) \/ RecordError(r)

Fairness ==
  /\ WF_vars(RunnerStep)
  /\ WF_vars(TimerFires)
  /\ WF_vars(Boot) /\ SF_vars(Start)
  /\ \A r \in Row : WF_vars(Age(r))

FairSpec == Spec /\ Fairness
-----------------------------------------------------------------------------
(* Properties *)

\* A debt is honoured by at most one transfer, whatever crashes, lost
\* replies and retries come between (claimPayout, recoverInterrupted, due).
PaidOnce == \A r \in Row : landed[r] <= 1

\* A row says paid only when its transfer is on the chain: no error path
\* and no restart reports money that did not move.
PaidMeansLanded == \A r \in Row : status[r] = "paid" => landed[r] > 0

\* In a started node a row is paying only while the runner holds it: none is
\* left behind in a state that neither due() nor retry() would pick up.
NoneLeftPaying ==
  phase = "started" => \A r \in Row : status[r] = "paying" => r \in inFlight

\* A paid row is never re-opened, by a failed record, a retry or a restart.
PaidIsFinal == [][\A r \in Row : status[r] = "paid" => status'[r] = "paid"]_vars

\* A row cut off by a restart is transferred again only when nothing of the
\* first transfer is on the chain or on its way there: the module comment
\* leaves it to an operator who has checked the chain.
InterruptedIsChecked ==
  [][\A r \in Row :
       r \in interrupted /\ status[r] = "failed" /\ status'[r] = "paying"
         => Unsent(r)]_vars

\* What the payouts promise: the states and steps of RoyaltyDebt.
Debt == INSTANCE RoyaltyDebt WITH
          owed  <- {r \in Row : status[r] # "absent"},
          moved <- landed,
          told  <- {r \in Row : status[r] = "paid"}
HonoursDebts == Debt!Spec

\* A debt comes to rest: paid, or all its automatic attempts used up.
DebtSettles(r) == status[r] = "pending" ~> status[r] = "paid" \/ attempts[r] = MaxAttempts

-----------------------------------------------------------------------------
(* The inductive invariants behind the properties *)

\* The rows in the runner's hands are exactly the rows in transfer, but for
\* the rows of the landed transaction that are booked already.
RunnerInv ==
  /\ phase = "started" => \A r \in Row : status[r] = "paying" => r \in hand
  /\ sent \subseteq hand /\ hand \subseteq inFlight
  /\ \A r \in inFlight \ hand : status[r] # "paying"
  /\ pc \in {"idle", "starting", "grouped", "between"} => hand = {} /\ inFlight = {}
  /\ pc = "claimed" => sent = {}
  /\ \A r \in hand : status[r] = "paying" \/ status[r] = "paid"
  /\ \A r \in hand : status[r] = "paid" =>
       pc \in {"booking", "recording"} /\ (CanBatch \/ r \in sent)
  /\ CanBatch /\ pc \in {"sending", "booking", "recording"} =>
       \A r \in hand \ sent : status[r] = "paid"
  /\ ~CanBatch => \A q, r \in sent : q = r
  /\ ~Up => pc = "idle" /\ todo = {} /\ forced = {}
  /\ todo \cap hand = {}

\* What the table says of the money, whatever the chain guarantees.
ChainInv ==
  /\ pc = "sending" => sent \in mempool
  /\ pc \in {"booking", "recording"} => \A r \in sent : landed[r] > 0
  /\ PaidMeansLanded
  /\ \A tx \in mempool : \A r \in tx : status[r] # "absent"
  /\ \A r \in Row : status[r] = "absent" => landed[r] = 0

\* With faithful errors and no nudge, a row that may be claimed is unsent.
MoneyInv ==
  /\ PaidOnce
  /\ \A tx \in mempool : \A r \in tx : landed[r] = 0
  /\ \A t1, t2 \in mempool : \A r \in t1 : r \in t2 => t1 = t2
  /\ \A r \in Row : status[r] \in {"absent", "pending"} => Unsent(r)
  /\ \A r \in Row : status[r] = "failed" /\ r \notin interrupted => Unsent(r)
  /\ \A r \in todo : status[r] = "paid" \/ Unsent(r)
  /\ \A r \in forced :
       status[r] = "paid" \/ (status[r] = "paying" /\ r \in hand) \/ Unsent(r)
  /\ \A r \in hand \ sent : status[r] = "paying" => Unsent(r)
=============================================================================
