---------------------------- MODULE LessonMaking ----------------------------
(***************************************************************************)
(* How a lesson is asked for and made (teach.ts, teach-merge.ts): the gate *)
(* of the queue and the daily quota around the awaits of createJob and     *)
(* createMergeJob, the bases a lesson stands on, the trainer slot, the     *)
(* trainer process with its docker client, the combine without a trainer,  *)
(* and the record of the lesson on the chain.  A lesson's life after its   *)
(* file is written is in Teaching.  The trainer, docker and the chain are  *)
(* outside.                                                                *)
(***************************************************************************)
EXTENDS Naturals, FiniteSets, Sequences

CONSTANTS
  Asks,           \* requests that may be under way at once
  TeachKey,       \* the keys people teach with
  Lessons,        \* lessons, in all
  Knows,          \* knowledges a lesson may stand on
  StackUnder,     \* StackUnder[k]: the knowledges k was itself trained on
  Hidden,         \* knowledges whose questions are private
  QueueMax, ActivePerKey, PerDay,
  MaxLost,        \* bound: bodies that leave the node, files that change
  MaxStops        \* bound: restarts of the node

ASSUME MakingAssumption ==
  /\ Lessons \subseteq Nat \ {0} /\ IsFiniteSet(Lessons)
  /\ QueueMax \in Nat /\ ActivePerKey \in Nat

VARIABLES
  bodies,    \* bodies on this node with a licence for them
  alike,     \* the two files of a merge: "apart", "same", "differ", "far"
  asks,      \* asks[a]: a request between its first gate and its answer
  lessons,   \* lessons[l]: the row, or NoLesson
  used,      \* lessons counted today, by key
  worker,    \* the lesson the worker has, or none
  trainer,   \* its trainer's client: [client, saw, why], or NoTrainer
  procs,     \* procs[l]: trainer processes of l in the container
  kills,     \* kills of a process sent and not landed
  notes,     \* notes[l]: states on their way to the chain
  chain,     \* chain[l]: the number of the note the chain holds
  lost, stops

mvars == <<bodies, alike, asks, lessons, used, worker, trainer, procs, kills,
          notes, chain, lost, stops>>

NoAsk == [tier |-> "none"]
NoLesson == [status |-> "none"]
NoOneAtWork == 0
NoTrainer == [client |-> "none"]
ActiveState == {"QUEUED", "TRAINING", "EXPORTED"}

Exists(l) == lessons[l] # NoLesson
ActiveLessons == {l \in Lessons : Exists(l) /\ lessons[l].status \in ActiveState}

MakingInit ==
  /\ bodies = Knows /\ alike \in {"apart", "same", "differ", "far"}
  /\ asks = [a \in Asks |-> NoAsk]
  /\ lessons = [l \in Lessons |-> NoLesson]
  /\ used = [k \in TeachKey |-> 0]
  /\ worker = NoOneAtWork /\ trainer = NoTrainer
  /\ procs = [l \in Lessons |-> 0] /\ kills = {}
  /\ notes = [l \in Lessons |-> <<>>] /\ chain = [l \in Lessons |-> 0]
  /\ lost = 0 /\ stops = 0

-----------------------------------------------------------------------------
(* The chain. *)

(* noteOnChain: the submissions of a lesson follow one another. *)
Lands(l) == {i \in 1..Len(notes[l]) : i = 1}

(* Each note is numbered by its place in the lesson's life. *)
Noted(l) == Append(notes[l], lessons[l].noted + 1)

ChainTakes(l) ==
  \E i \in Lands(l), ok \in BOOLEAN :
    /\ notes' = [notes EXCEPT ![l] =
                   SubSeq(@, 1, i - 1) \o SubSeq(@, i + 1, Len(@))]
    /\ chain' = IF ok THEN [chain EXCEPT ![l] = notes[l][i]] ELSE chain
    /\ UNCHANGED <<bodies, alike, asks, lessons, used, worker, trainer, procs,
                   kills, lost, stops>>

(* A row's new status, with its note: finish, and the start of training.   *)
SetNoted(l, row) ==
  /\ lessons' = [lessons EXCEPT ![l] = [row EXCEPT !.noted = @ + 1]]
  /\ notes' = [notes EXCEPT ![l] = Noted(l)]

finish(l, status) == SetNoted(l, [lessons[l] EXCEPT !.status = status])

-----------------------------------------------------------------------------
(* Asking. *)

(* queueGate: room in the queue, and for this key. *)
queueGate(k) ==
  /\ Cardinality(ActiveLessons) < QueueMax
  /\ Cardinality({l \in ActiveLessons : lessons[l].key = k}) < ActivePerKey

(* Mutant: the gate is passed once, before the awaits. *)
GateOnce(k) == TRUE

(* The same gate, synchronously before the insert. *)
queueGateAgain(k) == queueGate(k)

(* quota: the day's lessons of the key. *)
quota(k) == used[k] < PerDay

(* resolveBases: a base stands on its own stack, and every member of it is *)
(* on the node with a licence.                                             *)
Stack(bs) == bs \union UNION {StackUnder[b] : b \in bs}
resolveBases(bs) == Stack(bs) \subseteq bodies

(* mergeTiers, over the files' rows and the questions: whose questions are *)
(* hidden cannot be taught again, rows that differ cannot be combined, and *)
(* rows that differ by more than a fifth have to be rebuilt.               *)
mergeTiers(bs, tier) ==
  LET secret == bs \intersect Hidden # {} IN
  CASE tier = "union"   -> alike \in (IF secret THEN {"apart"}
                                      ELSE {"apart", "same"})
    [] tier = "retrain" -> ~secret /\ alike = "differ"
    [] tier = "rebuild" -> ~secret

(* POST /api/teach/jobs, /merge: the first gate, then the awaits.          *)
Ask(a, k, bs, tier) ==
  /\ asks[a] = NoAsk /\ queueGate(k)
  /\ IF tier = "train" THEN Cardinality(bs) < 2 ELSE Cardinality(bs) = 2
  /\ asks' = [asks EXCEPT ![a] = [key |-> k, bases |-> bs, tier |-> tier]]
  /\ UNCHANGED <<bodies, alike, lessons, used, worker, trainer, procs, kills,
                 notes, chain, lost, stops>>

Allowed(q) ==
  /\ resolveBases(q.bases)
  /\ q.tier # "train" => mergeTiers(q.bases, q.tier)

(* createJob, createMergeJob: the insert and the count in one turn. *)
Insert(a, l) ==
  /\ asks[a] # NoAsk /\ ~Exists(l)
  /\ \A m \in Lessons : ~Exists(m) => l <= m
  /\ LET q == asks[a] IN
       /\ Allowed(q) /\ quota(q.key) /\ queueGateAgain(q.key)
       /\ lessons' = [lessons EXCEPT ![l] =
            [status |-> "QUEUED", key |-> q.key, bases |-> Stack(q.bases),
             tier |-> q.tier, cancel |-> FALSE, restarted |-> FALSE,
             noted |-> 0]]
       /\ used' = [used EXCEPT ![q.key] = @ + 1]
  /\ asks' = [asks EXCEPT ![a] = NoAsk]
  /\ UNCHANGED <<bodies, alike, worker, trainer, procs, kills, notes, chain,
                 lost, stops>>

(* Any of the checks refuses, or a fetch of a base's questions fails. *)
RefuseAsk(a) ==
  /\ asks[a] # NoAsk /\ asks' = [asks EXCEPT ![a] = NoAsk]
  /\ UNCHANGED <<bodies, alike, lessons, used, worker, trainer, procs, kills,
                 notes, chain, lost, stops>>

(* The day turns over. *)
NewDay ==
  /\ \E k \in TeachKey : used[k] > 0
  /\ used' = [k \in TeachKey |-> 0]
  /\ UNCHANGED <<bodies, alike, asks, lessons, worker, trainer, procs, kills,
                 notes, chain, lost, stops>>

(* A body leaves the node, or the files of a merge are replaced. *)
Lose ==
  /\ lost < MaxLost /\ lost' = lost + 1
  /\ \/ /\ \E k \in bodies : bodies' = bodies \ {k}
        /\ UNCHANGED alike
     \/ /\ alike' = "differ" /\ alike # "differ" /\ UNCHANGED bodies
  /\ UNCHANGED <<asks, lessons, used, worker, trainer, procs, kills, notes,
                 chain, stops>>

-----------------------------------------------------------------------------
(* The worker. *)

(* acquireSlot: pgrep in the container finds no trainer; the lease and the *)
(* memory of the GPUs are asked for besides.                               *)
acquireSlot == \A l \in Lessons : procs[l] = 0

(* stackFiles: the stack is copied beside the job while it is all here; a  *)
(* rebuild loads none of it.                                               *)
stackFiles(l) == lessons[l].tier = "rebuild" \/ lessons[l].bases \subseteq bodies

(* tick, runJob, train up to the start of the trainer. *)
TrainBegin(l) ==
  /\ worker = NoOneAtWork /\ Exists(l) /\ lessons[l].status = "QUEUED"
  /\ IF lessons[l].cancel
     THEN finish(l, "CANCELLED") /\ UNCHANGED <<worker, trainer, procs>>
     ELSE /\ acquireSlot
          /\ IF ~stackFiles(l)
             THEN finish(l, "FAILED") /\ UNCHANGED <<worker, trainer, procs>>
             ELSE /\ SetNoted(l, [lessons[l] EXCEPT !.status = "TRAINING"])
                  /\ worker' = l
                  /\ IF lessons[l].tier = "union"
                     THEN UNCHANGED <<trainer, procs>>
                     ELSE /\ trainer' = [client |-> "alive", saw |-> "load",
                                         why |-> "none"]
                          /\ procs' = [procs EXCEPT ![l] = @ + 1]
  /\ UNCHANGED <<bodies, alike, asks, used, kills, chain, lost, stops>>

(* runUnion: the bytes are compared again before the rows are put together. *)
runUnion(l) ==
  /\ worker = l /\ lessons[l].status = "TRAINING" /\ lessons[l].tier = "union"
  /\ worker' = NoOneAtWork
  /\ IF lessons[l].cancel THEN finish(l, "CANCELLED")
     ELSE IF alike \in {"apart", "same"}
          THEN /\ lessons' = [lessons EXCEPT ![l].status = "EXPORTED"]
               /\ UNCHANGED notes
          ELSE finish(l, "FAILED")
  /\ UNCHANGED <<bodies, alike, asks, used, trainer, procs, kills, chain, lost,
                 stops>>

(* handleEvent: what the trainer's lines say, in their order. *)
handleEvent(e) ==
  /\ trainer.client = "alive" /\ procs[worker] > 0
  /\ <<trainer.saw, e>> \in {<<"load", "parents">>, <<"load", "step">>,
       <<"parents", "step">>, <<"step", "done">>, <<"load", "error">>,
       <<"parents", "error">>, <<"step", "error">>}
  /\ trainer' = [trainer EXCEPT !.saw = e]
  /\ UNCHANGED <<bodies, alike, asks, lessons, used, worker, procs, kills, notes,
                 chain, lost, stops>>

(* The trainer's process ends, by itself or with its last line. *)
ProcEnds(l) ==
  /\ procs[l] > 0 /\ procs' = [procs EXCEPT ![l] = @ - 1]
  /\ UNCHANGED <<bodies, alike, asks, lessons, used, worker, trainer, kills,
                 notes, chain, lost, stops>>

(* killChild: the process in the container by its number, then the client. *)
killChild(why) ==
  /\ trainer.client = "alive" /\ trainer.why = "none"
  /\ trainer' = [trainer EXCEPT !.why = why]
  /\ kills' = kills \union {worker}

(* The poll sees the flag; the timer fires. *)
CancelPoll ==
  /\ trainer.client = "alive" /\ lessons[worker].cancel /\ killChild("cancel")
  /\ UNCHANGED <<bodies, alike, asks, lessons, used, worker, procs, notes, chain,
                 lost, stops>>

TrainTimeout ==
  /\ killChild("timeout")
  /\ UNCHANGED <<bodies, alike, asks, lessons, used, worker, procs, notes, chain,
                 lost, stops>>

(* killStray: docker exec kill -TERM, which may fail. *)
killStray(l) ==
  /\ l \in kills /\ kills' = kills \ {l}
  /\ procs' \in {procs, [procs EXCEPT ![l] = 0]}
  /\ UNCHANGED <<bodies, alike, asks, lessons, used, worker, trainer, notes,
                 chain, lost, stops>>

(* The client ends with its process, or is killed after ten seconds. *)
ClientEnds ==
  /\ trainer.client = "alive"
  /\ procs[worker] = 0 \/ trainer.why # "none"
  /\ trainer' = [trainer EXCEPT !.client = "closed"]
  /\ UNCHANGED <<bodies, alike, asks, lessons, used, worker, procs, kills, notes,
                 chain, lost, stops>>

(* train: a lesson on bases counts only when the trainer says it loaded    *)
(* them; a rebuild loads none.                                             *)
LoadedBases(l) ==
  lessons[l].bases = {} \/ lessons[l].tier = "rebuild" \/ trainer.saw = "done"

(* runProcess after the close, and runJob: cancelled, timed out, failed or *)
(* written.                                                                *)
TrainEnd ==
  /\ trainer.client = "closed"
  /\ LET l == worker IN
       IF lessons[l].cancel THEN finish(l, "CANCELLED")
       ELSE IF trainer.why = "timeout" \/ trainer.saw # "done" \/ ~LoadedBases(l)
            THEN finish(l, "FAILED")
            ELSE /\ lessons' = [lessons EXCEPT ![l].status = "EXPORTED"]
                 /\ UNCHANGED notes
  /\ worker' = NoOneAtWork /\ trainer' = NoTrainer
  /\ UNCHANGED <<bodies, alike, asks, used, procs, kills, chain, lost, stops>>

(* The checks that follow end the lesson. *)
Checked(l) ==
  /\ Exists(l) /\ lessons[l].status = "EXPORTED" /\ worker = NoOneAtWork
  /\ \E s \in {"READY", "FAILED"} : finish(l, s)
  /\ UNCHANGED <<bodies, alike, asks, used, worker, trainer, procs, kills, chain,
                 lost, stops>>

(* DELETE of a lesson: one that runs is flagged and its process killed.    *)
CancelLesson(l) ==
  /\ Exists(l) /\ ~lessons[l].cancel
  /\ \/ /\ lessons[l].status = "QUEUED"
        /\ SetNoted(l, [lessons[l] EXCEPT !.cancel = TRUE,
                                          !.status = "CANCELLED"])
        /\ UNCHANGED kills
     \/ /\ lessons[l].status = "TRAINING"
        /\ lessons' = [lessons EXCEPT ![l].cancel = TRUE]
        /\ kills' = kills \union {l} /\ UNCHANGED notes
  /\ UNCHANGED <<bodies, alike, asks, used, worker, trainer, procs, chain, lost,
                 stops>>

(* The node dies, and recoverAfterRestart: the lesson in training goes     *)
(* back to the queue once, with a kill of its process; the second time it  *)
(* fails, and nothing is killed.  Notes under way are lost.                *)
DieAndRecover ==
  /\ stops < MaxStops /\ stops' = stops + 1
  /\ asks' = [a \in Asks |-> NoAsk]
  /\ worker' = NoOneAtWork /\ trainer' = NoTrainer
  /\ LET l == worker IN
       IF l = NoOneAtWork
       THEN /\ UNCHANGED lessons /\ kills' = {}
            /\ notes' = [m \in Lessons |-> <<>>]
       ELSE IF lessons[l].restarted
       THEN /\ lessons' = [lessons EXCEPT ![l].status = "FAILED",
                                          ![l].noted = @ + 1]
            /\ kills' = {}
            /\ notes' = [m \in Lessons |->
                 IF m = l THEN <<lessons[l].noted + 1>> ELSE <<>>]
       ELSE /\ lessons' = [lessons EXCEPT ![l].status = "QUEUED",
                                          ![l].restarted = TRUE]
            /\ kills' = {l}
            /\ notes' = [m \in Lessons |-> <<>>]
  /\ UNCHANGED <<bodies, alike, used, procs, chain, lost>>

MakingNext ==
  \/ \E a \in Asks : RefuseAsk(a)
  \/ \E a \in Asks, k \in TeachKey, bs \in SUBSET Knows,
        tier \in {"train", "union", "retrain", "rebuild"} : Ask(a, k, bs, tier)
  \/ \E a \in Asks, l \in Lessons : Insert(a, l)
  \/ NewDay \/ Lose \/ CancelPoll \/ TrainTimeout \/ ClientEnds \/ TrainEnd
  \/ DieAndRecover
  \/ \E e \in {"parents", "step", "done", "error"} : handleEvent(e)
  \/ \E l \in Lessons :
       \/ TrainBegin(l) \/ runUnion(l) \/ ProcEnds(l) \/ killStray(l)
       \/ Checked(l) \/ CancelLesson(l) \/ ChainTakes(l)

MakingSpec == MakingInit /\ [][MakingNext]_mvars

-----------------------------------------------------------------------------
(* However many requests await at once, the queue and the share of one key *)
(* in it stay within their limits (teach.ts queueGate, "checked twice:     *)
(* before the awaits and right before the insert").                        *)
QueueIsBounded ==
  /\ Cardinality(ActiveLessons) <= QueueMax
  /\ \A k \in TeachKey :
       Cardinality({l \in ActiveLessons : lessons[l].key = k}) <= ActivePerKey

=============================================================================
