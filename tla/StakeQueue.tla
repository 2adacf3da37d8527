---------------------------- MODULE StakeQueue ----------------------------
(***************************************************************************)
(* Who runs next: the one-at-a-time section of the shared model (serial,   *)
(* pump and exclusiveTry of src/src/runtime.ts), the gates before the      *)
(* other backends (src/src/modality-gate.ts) and the stake-weighted fair   *)
(* queue they all share (src/src/stake-fair-queue.ts; one instance, made   *)
(* in src/src/server.ts).                                                  *)
(*                                                                         *)
(* A request costs its work divided by the weight of its caller's deposit; *)
(* only the quotient matters, so it is given as one number.                *)
(***************************************************************************)
EXTENDS Naturals, FiniteSets, FiniteSetsExt

CONSTANTS
  Queue, Slots,   \* the queues, and how many requests each runs at once
  Leased,         \* the queues whose section needs the cross-process lease
  Req, CallerOf, Work,  \* the requests; the caller and the weighted cost of each
  Polite,         \* the requests made by exclusiveTry
  Lines,          \* the assignments of queue and priority class to consider
  Scheduling      \* whether the node sells throughput: a set of Booleans

Caller == {CallerOf[r] : r \in Req}

ASSUME QueueAssumption == Slots \in [Queue -> Nat \ {0}] /\ Leased \subseteq Queue
ASSUME RequestAssumption ==
  /\ IsFiniteSet(Req) /\ Work \in [Req -> Nat \ {0}]
  /\ DOMAIN CallerOf = Req /\ Polite \subseteq Req
ASSUME LineAssumption ==
  /\ Lines \subseteq [Req -> [queue : Queue, priority : Nat]]
  /\ Scheduling \subseteq BOOLEAN

VARIABLES
  line, staked,  \* the assignment, and whether there is a scheduler
  st,      \* where each request is
  seq,     \* its arrival number
  tag,     \* its virtual finish time (virtualFinish)
  last,    \* of a caller: lastVirtualFinish
  virtualTime,
  fresh,   \* history: the waiting requests whose caller had no claim on the queue
  passed   \* history: whom a waiting request saw served before it

clock == <<tag, last, virtualTime>>
queueVars  == <<line, staked, st, seq, clock, fresh, passed>>

Running == {"leasing", "running"}

Waiting(s, q) == {r \in Req : line[r].queue = q /\ s[r] = "waiting"}
Active(s, q)  == {r \in Req : line[r].queue = q /\ s[r] \in Running}

QueueInit ==
  /\ line \in Lines /\ staked \in Scheduling
  /\ st = [r \in Req |-> "new"]
  /\ seq = [r \in Req |-> 0] /\ tag = [r \in Req |-> 0]
  /\ last = [a \in Caller |-> 0] /\ virtualTime = 0
  /\ fresh = {} /\ passed = [r \in Req |-> {}]
-----------------------------------------------------------------------------
(* StakeFairQueue *)

\* Mutant of StartTag: a caller goes on from where it left off.
StartTagOwn(a) == last[a]

StartTag(a) == Max({virtualTime, last[a]})

\* admit: the request's place is decided by when it asked.
Tagged(r) ==
  IF staked THEN [tag EXCEPT ![r] = StartTag(CallerOf[r]) + Work[r]] ELSE tag

\* take: the class first, then the virtual finish time (equal for all without
\* a scheduler), then the arrival.
Before(r, o, t, n) ==
  \/ line[r].priority < line[o].priority
  \/ /\ line[r].priority = line[o].priority
     /\ t[r] < t[o] \/ (t[r] = t[o] /\ n[r] < n[o])

Advance(t, starts) ==
  virtualTime' = IF staked /\ starts # {} THEN Max({t[r] : r \in starts}) ELSE virtualTime

\* Mutant of First: a free slot is left to the next request that asks.
FirstNone(waiting, t, n) == {}

First(waiting, t, n) ==
  {r \in waiting : \A o \in waiting \ {r} : Before(r, o, t, n)}

\* pump: the queue starts the first of its waiters if it has a slot for it
\* (requests at places s, with tags t and arrival numbers n;
\* f are the fresh ones).
Pump(s, t, n, f, q) ==
  LET waiting == Waiting(s, q)
      starts  == IF Cardinality(Active(s, q)) < Slots[q] THEN First(waiting, t, n) ELSE {}
  IN  /\ st' = [r \in Req |-> IF r \notin starts THEN s[r]
                              ELSE IF q \in Leased THEN "leasing" ELSE "running"]
      /\ Advance(t, starts)
      /\ fresh' = f \ starts
      /\ passed' = [r \in Req |->
                      IF r \in starts THEN {}
                      ELSE IF r \in waiting THEN passed[r] \cup starts ELSE passed[r]]
-----------------------------------------------------------------------------
(* Runtime and ModalityGate *)

\* serial, ModalityGate.run: the request is admitted and the queue pumped.
Enter(r) ==
  /\ seq' = [seq EXCEPT ![r] = Max({seq[o] : o \in Req}) + 1]
  /\ tag' = Tagged(r)
  /\ last' = IF staked THEN [last EXCEPT ![CallerOf[r]] = tag'[r]] ELSE last
  /\ \E s \in {[st EXCEPT ![r] = "waiting"]},
        f \in {{o \in {r} : last[CallerOf[o]] <= virtualTime}} :
       Pump(s, tag', seq', fresh \cup f, line[r].queue)
  /\ UNCHANGED <<line, staked>>

Ask(r) == st[r] = "new" /\ r \notin Polite /\ Enter(r)

\* exclusiveTry looks at busy, which is set under the lease only, and at the
\* waiters; it looks again until its time is up.
Free(q) == \A r \in Req : line[r].queue = q => st[r] \notin {"waiting", "running"}

AskPolitely(r) ==
  /\ st[r] = "new" /\ r \in Polite
  /\ st' = [st EXCEPT ![r] = "polling"]
  /\ UNCHANGED <<line, staked, seq, clock, fresh, passed>>

Poll(r) == st[r] = "polling" /\ Free(line[r].queue) /\ Enter(r)

GiveUp(r) ==
  /\ st[r] = "polling" /\ ~Free(line[r].queue)
  /\ st' = [st EXCEPT ![r] = "busy"]
  /\ UNCHANGED <<line, staked, seq, clock, fresh, passed>>

\* The lease is taken.
Hold(r) ==
  /\ st[r] = "leasing" /\ st' = [st EXCEPT ![r] = "running"]
  /\ UNCHANGED <<line, staked, seq, clock, fresh, passed>>

\* The section is over, done or failed, or the lease was not to be had in time;
\* the queue is pumped.  The entry is gone (and its number free again: only
\* the order of the waiters counts).
End(r) ==
  /\ st[r] \in Running
  /\ \E s \in {[st EXCEPT ![r] = "done"]} : Pump(s, tag, seq, fresh, line[r].queue)
  /\ tag' = [tag EXCEPT ![r] = 0] /\ seq' = [seq EXCEPT ![r] = 0]
  /\ UNCHANGED <<line, staked, last>>

\* forgetIdle: nothing was heard of the caller for half an hour.  Assumed: no
\* request waits that long.
Forget(a) ==
  /\ last[a] > 0
  /\ \A r \in Req : CallerOf[r] = a => st[r] # "waiting"
  /\ last' = [last EXCEPT ![a] = 0]
  /\ UNCHANGED <<line, staked, st, seq, tag, virtualTime, fresh, passed>>

Section(r) == AskPolitely(r) \/ Poll(r) \/ GiveUp(r) \/ Hold(r) \/ End(r)

QueueNext ==
  \/ \E r \in Req : Ask(r) \/ Section(r)
  \/ \E a \in Caller : Forget(a)

QueueSpec == QueueInit /\ [][QueueNext]_queueVars
-----------------------------------------------------------------------------
(* Properties *)

\* Mixed: requests of more than one class, or of more than one queue, share
\* the one scheduler.
Mixed == Cardinality({line[r] : r \in Req}) > 1

\* No waiter is forgotten: a queue with a free slot has nobody waiting.
NobodyWaitsForNothing ==
  \A q \in Queue : Waiting(st, q) # {} => Cardinality(Active(st, q)) = Slots[q]

\* Among equals, what a deposit is for: while a request waits whose caller had
\* no claim on the queue, no other caller is served more than the request's
\* own (weighted) cost and one request beyond it.
FairShare ==
  staked /\ ~Mixed =>
    \A r \in fresh : \A a \in Caller \ {CallerOf[r]} :
      LET theirs == {o \in passed[r] : CallerOf[o] = a}
      IN  theirs # {} =>
            SumFunctionOnSet(Work, theirs) <= Work[r] + Max({Work[o] : o \in theirs})

=============================================================================
