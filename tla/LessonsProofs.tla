----------------------------- MODULE LessonsProofs -----------------------------
(* Proofs about what a lesson needs: the queue of the teaching worker             *)
(* (LessonMaking), the questions kept between lessons (Datasets), the trial of the  *)
(* model on them (Preflight), and the lease of the trainer (SharedLease).             *)
EXTENDS SharedLease, LessonMaking, Datasets, Preflight, FiniteSums, SequenceTheorems, TLAPS

------------------------------------------------------------------------------
(* LessonMaking: the queue of lessons *)

\* The rows of the lessons and what the trainer's client shows have the fields the
\* operations write.
IsLessonRow(r) ==
  r = [status |-> r.status, key |-> r.key, bases |-> r.bases, tier |-> r.tier,
       cancel |-> r.cancel, restarted |-> r.restarted, noted |-> r.noted]
LessonRows ==
  /\ lessons = [l \in Lessons |-> lessons[l]]
  /\ \A l \in Lessons : lessons[l] = NoLesson \/ IsLessonRow(lessons[l])
TrainerShape ==
  trainer = NoTrainer
    \/ trainer = [client |-> trainer.client, saw |-> trainer.saw, why |-> trainer.why]
\* The lesson the worker holds is in training, and a client runs for it only where the
\* lesson needs a trainer.
WorkerTrains ==
  /\ worker # NoOneAtWork => worker \in Lessons /\ lessons[worker].status = "TRAINING"
  /\ trainer.client # "none" => worker # NoOneAtWork /\ lessons[worker].tier # "union"
MakingSound == LessonRows /\ TrainerShape /\ WorkerTrains

\* A step after which no lesson is in the queue that was not, each with its key.
NoneAdded ==
  \A l \in Lessons : lessons'[l].status \in ActiveState =>
    lessons[l].status \in ActiveState /\ lessons'[l].key = lessons[l].key

\* The lesson of a row that is written has the status and the rest of that row.
LEMMA WrittenRow ==
  ASSUME LessonRows, NEW l \in Lessons, NEW row, IsLessonRow(row),
         lessons' = [lessons EXCEPT ![l] = row]
  PROVE  LessonRows' /\ lessons'[l] = row
         /\ \A m \in Lessons : m # l => lessons'[m] = lessons[m]
BY DEF LessonRows

\* A row with one field changed.
LEMMA RowStatus ==
  ASSUME NEW r, IsLessonRow(r), NEW s
  PROVE  /\ IsLessonRow([r EXCEPT !.status = s]) /\ [r EXCEPT !.status = s].status = s
         /\ [r EXCEPT !.status = s].key = r.key /\ [r EXCEPT !.status = s].tier = r.tier
         /\ [r EXCEPT !.status = s].noted = r.noted
BY DEF IsLessonRow

LEMMA RowNoted ==
  ASSUME NEW r, IsLessonRow(r), NEW n
  PROVE  /\ IsLessonRow([r EXCEPT !.noted = n]) /\ [r EXCEPT !.noted = n].status = r.status
         /\ [r EXCEPT !.noted = n].key = r.key /\ [r EXCEPT !.noted = n].tier = r.tier
BY DEF IsLessonRow

LEMMA RowFlagged ==
  ASSUME NEW r, IsLessonRow(r), NEW b
  PROVE  /\ IsLessonRow([r EXCEPT !.cancel = b]) /\ [r EXCEPT !.cancel = b].status = r.status
         /\ [r EXCEPT !.cancel = b].key = r.key /\ [r EXCEPT !.cancel = b].tier = r.tier
         /\ [r EXCEPT !.cancel = b].noted = r.noted
BY DEF IsLessonRow

LEMMA RowRestarted ==
  ASSUME NEW r, IsLessonRow(r), NEW b
  PROVE  /\ IsLessonRow([r EXCEPT !.restarted = b])
         /\ [r EXCEPT !.restarted = b].status = r.status
         /\ [r EXCEPT !.restarted = b].key = r.key /\ [r EXCEPT !.restarted = b].tier = r.tier
BY DEF IsLessonRow

\* SetNoted and finish write one row.
LEMMA SetNotedRow ==
  ASSUME LessonRows, NEW l \in Lessons, NEW row, IsLessonRow(row), SetNoted(l, row)
  PROVE  /\ LessonRows' /\ \A m \in Lessons : m # l => lessons'[m] = lessons[m]
         /\ lessons'[l].status = row.status /\ lessons'[l].key = row.key
         /\ lessons'[l].tier = row.tier
<1>. PICK q : q = [row EXCEPT !.noted = @ + 1]
  OBVIOUS
<1>1. IsLessonRow(q) /\ q.status = row.status /\ q.key = row.key /\ q.tier = row.tier
  BY RowNoted
<1>2. lessons' = [lessons EXCEPT ![l] = q]
  BY DEF SetNoted
<1>. QED  BY <1>1, <1>2, WrittenRow

LEMMA FinishRow ==
  ASSUME LessonRows, NEW l \in Lessons, lessons[l] # NoLesson, NEW s, finish(l, s)
  PROVE  /\ LessonRows' /\ \A m \in Lessons : m # l => lessons'[m] = lessons[m]
         /\ lessons'[l].status = s /\ lessons'[l].key = lessons[l].key
         /\ lessons'[l].tier = lessons[l].tier
<1>. PICK q : q = [lessons[l] EXCEPT !.status = s]
  OBVIOUS
<1>1. IsLessonRow(lessons[l])
  BY DEF LessonRows
<1>2. IsLessonRow(q) /\ q.status = s /\ q.key = lessons[l].key /\ q.tier = lessons[l].tier
  BY <1>1, RowStatus
<1>3. SetNoted(l, q)
  BY DEF finish
<1>. QED  BY <1>2, <1>3, SetNotedRow

\* A field of a row is written in place.
LEMMA StatusRow ==
  ASSUME LessonRows, NEW l \in Lessons, lessons[l] # NoLesson, NEW s,
         lessons' = [lessons EXCEPT ![l].status = s]
  PROVE  /\ LessonRows' /\ \A m \in Lessons : m # l => lessons'[m] = lessons[m]
         /\ lessons'[l].status = s /\ lessons'[l].key = lessons[l].key
         /\ lessons'[l].tier = lessons[l].tier
<1>. PICK q : q = [lessons[l] EXCEPT !.status = s]
  OBVIOUS
<1>1. IsLessonRow(lessons[l])
  BY DEF LessonRows
<1>2. IsLessonRow(q) /\ q.status = s /\ q.key = lessons[l].key /\ q.tier = lessons[l].tier
  BY <1>1, RowStatus
<1>3. lessons' = [lessons EXCEPT ![l] = q]
  OBVIOUS
<1>. QED  BY <1>2, <1>3, WrittenRow

LEMMA FlagRow ==
  ASSUME LessonRows, NEW l \in Lessons, lessons[l] # NoLesson,
         lessons' = [lessons EXCEPT ![l].cancel = TRUE]
  PROVE  /\ LessonRows' /\ \A m \in Lessons : m # l => lessons'[m] = lessons[m]
         /\ lessons'[l].status = lessons[l].status /\ lessons'[l].key = lessons[l].key
         /\ lessons'[l].tier = lessons[l].tier
<1>. PICK q : q = [lessons[l] EXCEPT !.cancel = TRUE]
  OBVIOUS
<1>1. IsLessonRow(lessons[l])
  BY DEF LessonRows
<1>2. IsLessonRow(q) /\ q.status = lessons[l].status /\ q.key = lessons[l].key
      /\ q.tier = lessons[l].tier
  BY <1>1, RowFlagged
<1>3. lessons' = [lessons EXCEPT ![l] = q]
  OBVIOUS
<1>. QED  BY <1>2, <1>3, WrittenRow

\* What every such write means for the queue and for the worker, where the row's new
\* status is not one of the queue that its old one was not.
LEMMA OneRowWritten ==
  ASSUME NEW l \in Lessons, \A m \in Lessons : m # l => lessons'[m] = lessons[m],
         lessons'[l].key = lessons[l].key,
         lessons'[l].status \in ActiveState => lessons[l].status \in ActiveState
  PROVE  NoneAdded
BY DEF NoneAdded

\* The steps that leave the lessons, the worker and its client alone.
LEMMA MakingQuiet ==
  ASSUME MakingSound, UNCHANGED <<lessons, worker, trainer>>
  PROVE  MakingSound' /\ NoneAdded
BY DEF MakingSound, LessonRows, TrainerShape, WorkerTrains, NoneAdded

\* The steps of the client alone.
LEMMA MakingClient ==
  ASSUME MakingSound, trainer.client # "none", UNCHANGED <<lessons, worker>>,
         TrainerShape'
  PROVE  MakingSound' /\ NoneAdded
BY DEF MakingSound, LessonRows, WorkerTrains, NoneAdded

LEMMA ClientFields ==
  ASSUME TrainerShape, trainer.client # "none", NEW x
  PROVE  /\ trainer' = [trainer EXCEPT !.saw = x] => TrainerShape'
         /\ trainer' = [trainer EXCEPT !.why = x] => TrainerShape'
         /\ trainer' = [trainer EXCEPT !.client = x] => TrainerShape'
<1>1. trainer = [client |-> trainer.client, saw |-> trainer.saw, why |-> trainer.why]
  BY DEF TrainerShape, NoTrainer
<1>2. trainer' = [trainer EXCEPT !.saw = x] => TrainerShape'
  BY <1>1 DEF TrainerShape
<1>3. trainer' = [trainer EXCEPT !.why = x] => TrainerShape'
  BY <1>1 DEF TrainerShape
<1>4. trainer' = [trainer EXCEPT !.client = x] => TrainerShape'
  BY <1>1 DEF TrainerShape
<1>. QED  BY <1>2, <1>3, <1>4

\* The trainer starts, or the lesson ends before it does.
LEMMA TrainBeginKeeps ==
  ASSUME MakingSound, NEW l \in Lessons, TrainBegin(l)
  PROVE  MakingSound' /\ NoneAdded
<1>0. LessonRows /\ TrainerShape /\ WorkerTrains /\ l # NoOneAtWork
  BY MakingAssumption DEF MakingSound, NoOneAtWork
<1>1. worker = NoOneAtWork /\ lessons[l] # NoLesson /\ lessons[l].status = "QUEUED"
      /\ trainer.client = "none"
  BY <1>0 DEF TrainBegin, Exists, WorkerTrains
<1>2. ASSUME NEW s, finish(l, s), UNCHANGED <<worker, trainer>>
      PROVE  MakingSound' /\ NoneAdded
  <2>1. LessonRows' /\ \A m \in Lessons : m # l => lessons'[m] = lessons[m]
    BY <1>0, <1>1, <1>2, FinishRow
  <2>2. lessons'[l].key = lessons[l].key
    BY <1>0, <1>1, <1>2, FinishRow
  <2>3. NoneAdded
    BY <2>1, <2>2, <1>1, OneRowWritten DEF ActiveState
  <2>4. TrainerShape' /\ WorkerTrains'
    BY <1>0, <1>1, <1>2 DEF TrainerShape, WorkerTrains
  <2>. QED  BY <2>1, <2>3, <2>4 DEF MakingSound
<1>3. CASE lessons[l].cancel
  BY <1>2, <1>3 DEF TrainBegin
<1>4. CASE ~lessons[l].cancel /\ ~stackFiles(l)
  BY <1>2, <1>4 DEF TrainBegin
<1>5. CASE ~lessons[l].cancel /\ stackFiles(l)
  <2>. PICK q : q = [lessons[l] EXCEPT !.status = "TRAINING"]
    OBVIOUS
  <2>1. IsLessonRow(lessons[l])
    BY <1>0, <1>1 DEF LessonRows
  <2>2. IsLessonRow(q) /\ q.status = "TRAINING" /\ q.key = lessons[l].key
        /\ q.tier = lessons[l].tier
    BY <2>1, RowStatus
  <2>3. SetNoted(l, q) /\ worker' = l
    BY <1>5 DEF TrainBegin
  <2>4. /\ LessonRows' /\ \A m \in Lessons : m # l => lessons'[m] = lessons[m]
        /\ lessons'[l].status = "TRAINING" /\ lessons'[l].key = lessons[l].key
        /\ lessons'[l].tier = lessons[l].tier
    BY <1>0, <2>2, <2>3, SetNotedRow
  <2>5. NoneAdded
    BY <2>4, <1>1, OneRowWritten DEF ActiveState
  <2>6. TrainerShape' /\ (trainer'.client # "none" => lessons[l].tier # "union")
    BY <1>0, <1>1, <1>5 DEF TrainBegin, TrainerShape
  <2>7. WorkerTrains'
    BY <1>0, <2>3, <2>4, <2>6 DEF WorkerTrains
  <2>. QED  BY <2>4, <2>5, <2>6, <2>7 DEF MakingSound
<1>. QED  BY <1>3, <1>4, <1>5

\* What the worker holds ends: written, failed or cancelled.
LEMMA WorkerDone ==
  ASSUME MakingSound, NEW l \in Lessons, worker = l, worker' = NoOneAtWork,
         trainer'.client = "none", TrainerShape', NEW s,
         finish(l, s) \/ lessons' = [lessons EXCEPT ![l].status = s]
  PROVE  MakingSound' /\ NoneAdded
<1>1. LessonRows /\ worker # NoOneAtWork /\ lessons[l].status = "TRAINING"
  BY MakingAssumption DEF MakingSound, WorkerTrains, NoOneAtWork
<1>2. lessons[l] # NoLesson
  BY <1>1 DEF NoLesson
<1>3. /\ LessonRows' /\ \A m \in Lessons : m # l => lessons'[m] = lessons[m]
      /\ lessons'[l].key = lessons[l].key
  BY <1>1, <1>2, FinishRow, StatusRow
<1>4. NoneAdded
  BY <1>3, <1>1, OneRowWritten DEF ActiveState
<1>5. WorkerTrains'
  BY DEF WorkerTrains
<1>. QED  BY <1>3, <1>4, <1>5 DEF MakingSound

LEMMA RunUnionKeeps ==
  ASSUME MakingSound, NEW l \in Lessons, runUnion(l)
  PROVE  MakingSound' /\ NoneAdded
<1>1. worker = l /\ worker' = NoOneAtWork /\ lessons[l].tier = "union" /\ UNCHANGED trainer
  BY DEF runUnion
<1>2. trainer.client = "none" /\ TrainerShape
  BY <1>1 DEF MakingSound, WorkerTrains
<1>3. trainer'.client = "none" /\ TrainerShape'
  BY <1>1, <1>2 DEF TrainerShape
<1>4. \E s \in {"CANCELLED", "FAILED", "EXPORTED"} :
        finish(l, s) \/ lessons' = [lessons EXCEPT ![l].status = s]
  BY DEF runUnion
<1>. QED  BY <1>1, <1>3, <1>4, WorkerDone

LEMMA TrainEndKeeps ==
  ASSUME MakingSound, TrainEnd
  PROVE  MakingSound' /\ NoneAdded
<1>1. trainer.client = "closed" /\ worker' = NoOneAtWork /\ trainer' = NoTrainer
  BY DEF TrainEnd
<1>2. worker \in Lessons
  BY <1>1 DEF MakingSound, WorkerTrains
<1>3. trainer'.client = "none" /\ TrainerShape'
  BY <1>1 DEF TrainerShape, NoTrainer
<1>4. \E s \in {"CANCELLED", "FAILED", "EXPORTED"} :
        finish(worker, s) \/ lessons' = [lessons EXCEPT ![worker].status = s]
  BY DEF TrainEnd
<1>. QED  BY <1>1, <1>2, <1>3, <1>4, WorkerDone

LEMMA CheckedKeeps ==
  ASSUME MakingSound, NEW l \in Lessons, Checked(l)
  PROVE  MakingSound' /\ NoneAdded
<1>1. /\ lessons[l] # NoLesson /\ lessons[l].status = "EXPORTED" /\ worker = NoOneAtWork
      /\ UNCHANGED <<worker, trainer>>
  BY DEF Checked, Exists
<1>2. LessonRows /\ TrainerShape /\ WorkerTrains
  BY DEF MakingSound
<1>3. PICK s \in {"READY", "FAILED"} : finish(l, s)
  BY DEF Checked
<1>4. /\ LessonRows' /\ \A m \in Lessons : m # l => lessons'[m] = lessons[m]
      /\ lessons'[l].key = lessons[l].key
  BY <1>1, <1>2, <1>3, FinishRow
<1>5. NoneAdded
  BY <1>4, <1>1, OneRowWritten DEF ActiveState
<1>6. TrainerShape' /\ WorkerTrains'
  BY <1>1, <1>2 DEF TrainerShape, WorkerTrains
<1>. QED  BY <1>4, <1>5, <1>6 DEF MakingSound

LEMMA CancelKeeps ==
  ASSUME MakingSound, NEW l \in Lessons, CancelLesson(l)
  PROVE  MakingSound' /\ NoneAdded
<1>1. lessons[l] # NoLesson /\ UNCHANGED <<worker, trainer>>
  BY DEF CancelLesson, Exists
<1>2. LessonRows /\ TrainerShape /\ WorkerTrains /\ IsLessonRow(lessons[l])
  BY <1>1 DEF MakingSound, LessonRows
<1>3. CASE lessons[l].status = "QUEUED"
           /\ SetNoted(l, [lessons[l] EXCEPT !.cancel = TRUE, !.status = "CANCELLED"])
  <2>. PICK r : r = lessons[l] /\ IsLessonRow(r)
    BY <1>2
  <2>. PICK c, b : c = "CANCELLED" /\ b = TRUE
    OBVIOUS
  <2>. PICK q : q = [r EXCEPT !.cancel = b, !.status = c]
    OBVIOUS
  <2>1. IsLessonRow(q) /\ q.status = c /\ q.key = r.key
    <3>1. r = [status |-> r.status, key |-> r.key, bases |-> r.bases, tier |-> r.tier,
              cancel |-> r.cancel, restarted |-> r.restarted, noted |-> r.noted]
      BY DEF IsLessonRow
    <3>2. q.status = c /\ q.key = r.key
      BY <3>1
    <3>3. IsLessonRow(q)
      BY <3>1 DEF IsLessonRow
    <3>. QED  BY <3>2, <3>3
  <2>2. IsLessonRow(q) /\ q.status = "CANCELLED" /\ q.key = lessons[l].key
    BY <2>1
  <2>3. SetNoted(l, q)
    BY <1>3
  <2>4. /\ LessonRows' /\ \A m \in Lessons : m # l => lessons'[m] = lessons[m]
        /\ lessons'[l].status = "CANCELLED" /\ lessons'[l].key = lessons[l].key
    BY <1>2, <2>2, <2>3, SetNotedRow
  <2>5. NoneAdded
    BY <2>4, OneRowWritten DEF ActiveState
  <2>6. TrainerShape' /\ WorkerTrains'
    BY <1>1, <1>2, <1>3, <2>4 DEF TrainerShape, WorkerTrains
  <2>. QED  BY <2>4, <2>5, <2>6 DEF MakingSound
<1>4. CASE lessons' = [lessons EXCEPT ![l].cancel = TRUE]
  <2>1. /\ LessonRows' /\ \A m \in Lessons : m # l => lessons'[m] = lessons[m]
        /\ lessons'[l].status = lessons[l].status /\ lessons'[l].key = lessons[l].key
        /\ lessons'[l].tier = lessons[l].tier
    BY <1>1, <1>2, <1>4, FlagRow
  <2>2. NoneAdded
    BY <2>1, OneRowWritten
  <2>3. TrainerShape' /\ WorkerTrains'
    BY <1>1, <1>2, <2>1 DEF TrainerShape, WorkerTrains
  <2>. QED  BY <2>1, <2>2, <2>3 DEF MakingSound
<1>. QED  BY <1>3, <1>4 DEF CancelLesson

\* A restart puts the lesson in training back into the queue it never left, or fails it.
LEMMA RecoverKeeps ==
  ASSUME MakingSound, DieAndRecover
  PROVE  MakingSound' /\ NoneAdded
<1>1. worker' = NoOneAtWork /\ trainer' = NoTrainer
  BY DEF DieAndRecover
<1>2. TrainerShape' /\ WorkerTrains' /\ trainer'.client = "none"
  BY <1>1 DEF TrainerShape, WorkerTrains, NoTrainer
<1>3. CASE worker = NoOneAtWork
  <2>1. UNCHANGED lessons
    BY <1>3 DEF DieAndRecover
  <2>. QED  BY <2>1, <1>2 DEF MakingSound, LessonRows, NoneAdded
<1>4. CASE worker # NoOneAtWork
  <2>. PICK l \in Lessons : l = worker
    BY <1>4 DEF MakingSound, WorkerTrains
  <2>1. LessonRows /\ lessons[l].status = "TRAINING"
    BY <1>4 DEF MakingSound, WorkerTrains
  <2>2. IsLessonRow(lessons[l]) /\ lessons[l] # NoLesson
    BY <2>1 DEF LessonRows, NoLesson
  <2>3. CASE lessons[l].restarted
    <3>. PICK r : r = lessons[l] /\ IsLessonRow(r)
      BY <2>2
    <3>. PICK c, n : c = "FAILED" /\ n = lessons[l].noted + 1
      OBVIOUS
    <3>. PICK q : q = [r EXCEPT !.status = c, !.noted = n]
      OBVIOUS
    <3>1. IsLessonRow(q) /\ q.status = c /\ q.key = r.key
      <4>1. r = [status |-> r.status, key |-> r.key, bases |-> r.bases, tier |-> r.tier,
                cancel |-> r.cancel, restarted |-> r.restarted, noted |-> r.noted]
        BY DEF IsLessonRow
      <4>2. q.status = c /\ q.key = r.key
        BY <4>1
      <4>3. IsLessonRow(q)
        BY <4>1 DEF IsLessonRow
      <4>. QED  BY <4>2, <4>3
    <3>2. IsLessonRow(q) /\ q.status = "FAILED" /\ q.key = lessons[l].key
      BY <3>1
    <3>3. lessons' = [lessons EXCEPT ![l] = q]
      <4>1. lessons' = [lessons EXCEPT ![l].status = "FAILED", ![l].noted = @ + 1]
        BY <1>4, <2>3 DEF DieAndRecover
      <4>. QED  BY <4>1, <3>1, <2>1 DEF LessonRows
    <3>4. LessonRows' /\ lessons'[l] = q /\ \A m \in Lessons : m # l => lessons'[m] = lessons[m]
      BY <2>1, <3>2, <3>3, WrittenRow
    <3>5. NoneAdded
      BY <3>1, <3>2, <3>4, OneRowWritten DEF ActiveState
    <3>. QED  BY <1>2, <3>4, <3>5 DEF MakingSound
  <2>4. CASE ~lessons[l].restarted
    <3>. PICK r : r = lessons[l] /\ IsLessonRow(r)
      BY <2>2
    <3>. PICK c, b : c = "QUEUED" /\ b = TRUE
      OBVIOUS
    <3>. PICK q : q = [r EXCEPT !.status = c, !.restarted = b]
      OBVIOUS
    <3>1. IsLessonRow(q) /\ q.status = c /\ q.key = r.key
      <4>1. r = [status |-> r.status, key |-> r.key, bases |-> r.bases, tier |-> r.tier,
                cancel |-> r.cancel, restarted |-> r.restarted, noted |-> r.noted]
        BY DEF IsLessonRow
      <4>2. q.status = c /\ q.key = r.key
        BY <4>1
      <4>3. IsLessonRow(q)
        BY <4>1 DEF IsLessonRow
      <4>. QED  BY <4>2, <4>3
    <3>2. IsLessonRow(q) /\ q.key = lessons[l].key
      BY <3>1
    <3>3. lessons' = [lessons EXCEPT ![l] = q]
      <4>1. lessons' = [lessons EXCEPT ![l].status = "QUEUED", ![l].restarted = TRUE]
        BY <1>4, <2>4 DEF DieAndRecover
      <4>. QED  BY <4>1, <2>1 DEF LessonRows
    <3>4. LessonRows' /\ lessons'[l] = q /\ \A m \in Lessons : m # l => lessons'[m] = lessons[m]
      BY ZenonT(30), <2>1, <3>2, <3>3, WrittenRow
    <3>5. NoneAdded
      BY <2>1, <3>1, <3>2, <3>4, OneRowWritten DEF ActiveState
    <3>. QED  BY <1>2, <3>4, <3>5 DEF MakingSound
  <2>. QED  BY <2>3, <2>4
<1>. QED  BY <1>3, <1>4

\* A lesson is inserted: its key had room in the queue, and the queue had.
LEMMA InsertKeeps ==
  ASSUME MakingSound, NEW a \in Asks, NEW l \in Lessons, Insert(a, l)
  PROVE  /\ MakingSound'
         /\ \A m \in Lessons : m # l => lessons'[m] = lessons[m]
         /\ queueGate(lessons'[l].key)
<1>1. LessonRows /\ TrainerShape /\ WorkerTrains
  BY DEF MakingSound
<1>2. lessons[l] = NoLesson /\ UNCHANGED <<worker, trainer>>
  BY DEF Insert, Exists
<1>3. PICK row : /\ lessons' = [lessons EXCEPT ![l] = row] /\ IsLessonRow(row)
                 /\ row.key = asks[a].key
  <2>. PICK k, bs, t, no : k = asks[a].key /\ bs = Stack(asks[a].bases) /\ t = asks[a].tier
                         /\ no = FALSE
    OBVIOUS
  <2>. PICK row : row = [status |-> "QUEUED", key |-> k, bases |-> bs, tier |-> t,
                         cancel |-> no, restarted |-> no, noted |-> 0]
    OBVIOUS
  <2>1. IsLessonRow(row) /\ row.key = k
    BY DEF IsLessonRow
  <2>2. lessons' = [lessons EXCEPT ![l] = row]
    BY DEF Insert
  <2>. QED  BY <2>1, <2>2
<1>4. queueGate(asks[a].key)
  BY DEF Insert, queueGateAgain
<1>5. LessonRows' /\ lessons'[l] = row /\ \A m \in Lessons : m # l => lessons'[m] = lessons[m]
  BY <1>1, <1>3, WrittenRow
<1>6. worker # NoOneAtWork => worker # l
  BY <1>1, <1>2 DEF WorkerTrains, NoLesson
<1>7. TrainerShape' /\ WorkerTrains'
  BY <1>1, <1>2, <1>5, <1>6 DEF TrainerShape, WorkerTrains
<1>. QED  BY <1>3, <1>4, <1>5, <1>7 DEF MakingSound

\* Every step but an insert adds nothing to the queue.
LEMMA MakingStep ==
  ASSUME MakingSound, [MakingNext]_mvars,
         \A a \in Asks, l \in Lessons : ~Insert(a, l)
  PROVE  MakingSound' /\ NoneAdded
<1>1. CASE \/ UNCHANGED mvars \/ NewDay \/ Lose \/ \E a \in Asks : RefuseAsk(a)
           \/ \E a \in Asks, k \in TeachKey, bs \in SUBSET Knows,
                 tier \in {"train", "union", "retrain", "rebuild"} : Ask(a, k, bs, tier)
           \/ \E l \in Lessons : ProcEnds(l) \/ killStray(l) \/ ChainTakes(l)
  <2>1. UNCHANGED <<lessons, worker, trainer>>
    BY <1>1 DEF mvars, NewDay, Lose, RefuseAsk, Ask, ProcEnds, killStray, ChainTakes
  <2>. QED  BY <2>1, MakingQuiet
<1>2. CASE CancelPoll \/ TrainTimeout \/ ClientEnds
           \/ \E e \in {"parents", "step", "done", "error"} : handleEvent(e)
  <2>1. trainer.client # "none" /\ UNCHANGED <<lessons, worker>> /\ TrainerShape
    BY <1>2 DEF CancelPoll, TrainTimeout, ClientEnds, handleEvent, killChild, MakingSound
  <2>2. \E x : \/ trainer' = [trainer EXCEPT !.saw = x] \/ trainer' = [trainer EXCEPT !.why = x]
               \/ trainer' = [trainer EXCEPT !.client = x]
    BY <1>2 DEF CancelPoll, TrainTimeout, ClientEnds, handleEvent, killChild
  <2>3. TrainerShape'
    BY <2>1, <2>2, ClientFields
  <2>. QED  BY <2>1, <2>3, MakingClient
<1>3. CASE \E l \in Lessons : TrainBegin(l) \/ runUnion(l) \/ Checked(l) \/ CancelLesson(l)
  BY <1>3, TrainBeginKeeps, RunUnionKeeps, CheckedKeeps, CancelKeeps
<1>4. CASE TrainEnd \/ DieAndRecover
  BY <1>4, TrainEndKeeps, RecoverKeeps
<1>. QED  BY <1>1, <1>2, <1>3, <1>4 DEF MakingNext

\* What is counted: the lessons in the queue, and those of one key among them.
LEMMA QueueShrinks ==
  ASSUME NoneAdded, QueueIsBounded
  PROVE  QueueIsBounded'
<1>. DEFINE Of(k) == {l \in ActiveLessons : lessons[l].key = k}
<1>1. IsFiniteSet(Lessons)
  BY MakingAssumption
<1>2. ActiveLessons \subseteq Lessons /\ ActiveLessons' \subseteq ActiveLessons
  BY DEF NoneAdded, ActiveLessons, Exists, NoLesson, ActiveState
<1>3. IsFiniteSet(ActiveLessons)
  BY <1>1, <1>2, FS_Subset
<1>4. IsFiniteSet(ActiveLessons') /\ Cardinality(ActiveLessons') <= Cardinality(ActiveLessons)
  BY <1>2, <1>3, FS_Subset
<1>5. ASSUME NEW k \in TeachKey
      PROVE  Cardinality(Of(k)') <= Cardinality(Of(k)) /\ IsFiniteSet(Of(k))
             /\ IsFiniteSet(Of(k)')
  <2>1. Of(k) \subseteq ActiveLessons
    OBVIOUS
  <2>2. Of(k)' \subseteq Of(k)
    BY <1>2 DEF NoneAdded, ActiveLessons
  <2>3. IsFiniteSet(Of(k))
    BY <2>1, <1>3, FS_Subset
  <2>. QED  BY <2>2, <2>3, FS_Subset
<1>6. /\ Cardinality(ActiveLessons) \in Nat /\ Cardinality(ActiveLessons') \in Nat
      /\ \A k \in TeachKey : Cardinality(Of(k)) \in Nat /\ Cardinality(Of(k)') \in Nat
  BY <1>3, <1>4, <1>5, FS_CardinalityType
<1>7. Cardinality(ActiveLessons') <= QueueMax
  BY <1>4, <1>6, MakingAssumption DEF QueueIsBounded
<1>8. ASSUME NEW k \in TeachKey PROVE Cardinality(Of(k)') <= ActivePerKey
  <2>1. Cardinality(Of(k)) <= ActivePerKey
    BY DEF QueueIsBounded
  <2>. HIDE DEF Of
  <2>. QED  BY <1>5, <1>6, <2>1, MakingAssumption
<1>. QED  BY <1>7, <1>8 DEF QueueIsBounded

\* One lesson more, which its gate allowed.
LEMMA QueueGrows ==
  ASSUME QueueIsBounded, NEW l \in Lessons,
         \A m \in Lessons : m # l => lessons'[m] = lessons[m],
         queueGate(lessons'[l].key)
  PROVE  QueueIsBounded'
<1>. DEFINE Of(k) == {m \in ActiveLessons : lessons[m].key = k}
<1>1. IsFiniteSet(Lessons)
  BY MakingAssumption
<1>2. ActiveLessons \subseteq Lessons
  BY DEF ActiveLessons
<1>3. ActiveLessons' \subseteq ActiveLessons \cup {l}
  BY DEF ActiveLessons, Exists
<1>4. IsFiniteSet(ActiveLessons)
  BY <1>1, <1>2, FS_Subset
<1>5. ASSUME NEW A, NEW B, IsFiniteSet(A), B \subseteq A \cup {l}, NEW n \in Nat,
             Cardinality(A) < n
      PROVE  Cardinality(B) <= n
  <2>1. IsFiniteSet(A \cup {l})
        /\ (Cardinality(A \cup {l}) = Cardinality(A) \/ Cardinality(A \cup {l}) = Cardinality(A) + 1)
    BY <1>5, FS_AddElement
  <2>2. IsFiniteSet(B) /\ Cardinality(B) <= Cardinality(A \cup {l})
    BY <1>5, <2>1, FS_Subset
  <2>3. Cardinality(A) \in Nat /\ Cardinality(B) \in Nat
    BY <1>5, <2>2, FS_CardinalityType
  <2>. QED  BY <1>5, <2>1, <2>2, <2>3
<1>6. Cardinality(ActiveLessons') <= QueueMax
  <2>1. Cardinality(ActiveLessons) < QueueMax
    BY DEF queueGate
  <2>. QED  BY <1>3, <1>4, <1>5, <2>1, MakingAssumption
<1>7. ASSUME NEW k \in TeachKey PROVE Cardinality(Of(k)') <= ActivePerKey
  <2>1. IsFiniteSet(Of(k))
    <3>1. Of(k) \subseteq ActiveLessons
      OBVIOUS
    <3>. QED  BY <3>1, <1>4, FS_Subset
  <2>2. CASE lessons'[l].key = k
    <3>1. Cardinality(Of(k)) < ActivePerKey
      BY <2>2 DEF queueGate
    <3>2. Of(k)' \subseteq Of(k) \cup {l}
      BY <1>2, <1>3 DEF ActiveLessons
    <3>. HIDE DEF Of
    <3>. QED  BY <2>1, <3>1, <3>2, <1>5, MakingAssumption
  <2>3. CASE lessons'[l].key # k
    <3>1. Of(k)' \subseteq Of(k)
      BY <1>2, <1>3, <2>3 DEF ActiveLessons
    <3>2. Cardinality(Of(k)) <= ActivePerKey
      BY DEF QueueIsBounded
    <3>. HIDE DEF Of
    <3>3. IsFiniteSet(Of(k)') /\ Cardinality(Of(k)') <= Cardinality(Of(k))
      BY <2>1, <3>1, FS_Subset
    <3>4. Cardinality(Of(k)) \in Nat /\ Cardinality(Of(k)') \in Nat
      BY <2>1, <3>3, FS_CardinalityType
    <3>. QED  BY <3>2, <3>3, <3>4, MakingAssumption
  <2>. QED  BY <2>2, <2>3
<1>. QED  BY <1>6, <1>7 DEF QueueIsBounded

LEMMA MakingStart == MakingInit => MakingSound /\ QueueIsBounded
<1>. SUFFICES ASSUME MakingInit PROVE MakingSound /\ QueueIsBounded
  OBVIOUS
<1>1. lessons = [l \in Lessons |-> NoLesson] /\ worker = NoOneAtWork /\ trainer = NoTrainer
  BY DEF MakingInit
<1>2. MakingSound
  BY <1>1 DEF MakingSound, LessonRows, TrainerShape, WorkerTrains, NoTrainer
<1>3. ActiveLessons = {}
  BY <1>1 DEF ActiveLessons, Exists
<1>4. Cardinality({}) = 0
  BY FS_EmptySet
<1>5. \A k \in TeachKey : {l \in ActiveLessons : lessons[l].key = k} = {}
  BY <1>3
<1>6. 0 <= QueueMax /\ 0 <= ActivePerKey
  BY MakingAssumption
<1>. QED  BY <1>2, <1>3, <1>4, <1>5, <1>6 DEF QueueIsBounded

\* QueueIsBounded: however many requests wait for the catalogue or the trainer between
\* their two gates, however lessons end, are cancelled or put back by a restart, the queue
\* and each key's share of it stay within their limits.
THEOREM QueueStaysBounded == MakingSpec => []QueueIsBounded
<1>1. MakingInit => MakingSound /\ QueueIsBounded
  BY MakingStart
<1>2. MakingSound /\ QueueIsBounded /\ [MakingNext]_mvars => (MakingSound /\ QueueIsBounded)'
  <2>. SUFFICES ASSUME MakingSound, QueueIsBounded, [MakingNext]_mvars
                PROVE  (MakingSound /\ QueueIsBounded)'
    OBVIOUS
  <2>1. CASE \E a \in Asks, l \in Lessons : Insert(a, l)
    BY <2>1, InsertKeeps, QueueGrows
  <2>2. CASE \A a \in Asks, l \in Lessons : ~Insert(a, l)
    BY <2>2, MakingStep, QueueShrinks
  <2>. QED  BY <2>1, <2>2
<1>. QED  BY <1>1, <1>2, PTL DEF MakingSpec

------------------------------------------------------------------------------
(* Datasets: copies of published questions *)

\* A list is given by its length and its places.
IsList(s) == Len(s) \in Nat /\ s = [i \in 1..Len(s) |-> s[i]]

LEMMA ListInSeq ==
  ASSUME NEW s, IsList(s), NEW x
  PROVE  \E S : s \in Seq(S) /\ x \in S
<1>. DEFINE S == {s[i] : i \in 1..Len(s)} \cup {x}
<1>. PICK n \in Nat : n = Len(s)
  BY DEF IsList
<1>1. s = [i \in 1..n |-> s[i]]
  BY DEF IsList
<1>2. \A i \in 1..n : s[i] \in S
  OBVIOUS
<1>. HIDE DEF S
<1>3. s \in [1..n -> S]
  BY <1>1, <1>2
<1>4. s \in Seq(S)
  BY <1>3, SeqDef
<1>5. x \in S
  BY DEF S
<1>. QED  BY <1>4, <1>5

\* A list with one element more, and one with another element at a place.
Longer(s, x, t) ==
  /\ IsList(t) /\ Len(t) = Len(s) + 1 /\ t[Len(s) + 1] = x
  /\ \A i \in 1..Len(s) : t[i] = s[i]
Swapped(s, d, x, t) ==
  /\ IsList(t) /\ Len(t) = Len(s) /\ t[d] = x
  /\ \A i \in 1..Len(s) : i # d => t[i] = s[i]

LEMMA ListAppend ==
  ASSUME NEW s, IsList(s), NEW x
  PROVE  Longer(s, x, Append(s, x))
<1>. PICK t : t = Append(s, x)
  OBVIOUS
<1>. PICK S : s \in Seq(S) /\ x \in S
  BY ListInSeq
<1>1. /\ t \in Seq(S) /\ Len(t) = Len(s) + 1 /\ t[Len(s) + 1] = x
      /\ \A i \in 1..Len(s) : t[i] = s[i]
  BY AppendProperties
<1>2. Len(t) \in Nat /\ t \in [1..Len(t) -> S]
  BY <1>1, LenProperties
<1>. QED  BY <1>1, <1>2 DEF IsList, Longer

LEMMA ListExcept ==
  ASSUME NEW s, IsList(s), NEW d \in 1..Len(s), NEW x
  PROVE  Swapped(s, d, x, [s EXCEPT ![d] = x])
<1>. PICK t : t = [s EXCEPT ![d] = x]
  OBVIOUS
<1>. PICK S : s \in Seq(S) /\ x \in S
  BY ListInSeq
<1>1. t \in Seq(S) /\ Len(t) = Len(s)
  BY ExceptSeq
<1>2. Len(t) \in Nat /\ t \in [1..Len(t) -> S]
  BY <1>1, LenProperties
<1>3. t[d] = x /\ \A i \in 1..Len(s) : i # d => t[i] = s[i]
  BY DEF IsList
<1>. QED  BY <1>1, <1>2, <1>3 DEF IsList, Swapped

LEMMA ListEmpty == IsList(<<>>) /\ Len(<<>>) = 0
BY DEF IsList

\* A kept set and a lesson have the fields the operations write.
IsSetRow(s) ==
  s = [owner |-> s.owner, status |-> s.status, rows |-> s.rows, report |-> s.report,
       source |-> s.source, parent |-> s.parent, revision |-> s.revision, file |-> s.file,
       keep |-> s.keep, born |-> s.born]
IsTaught(l) == l = [set |-> l.set, rows |-> l.rows, base |-> l.base, state |-> l.state]

\* A set that named one knowledge when it was made has it as its parent.
ParentTold(s) == \A k \in Knowledge : s.born = {k} => s.parent = k
KeptSets == IsList(sets) /\ \A d \in 1..Len(sets) : IsSetRow(sets[d]) /\ ParentTold(sets[d])

\* Every lesson is of a set that is there, and a published one was made on its parent.
PublishedOnParent(l) ==
  l.state = "published" /\ sets[l.set].parent # None => l.base = sets[l.set].parent
TaughtSound ==
  /\ IsList(taught) /\ (asking # NobodyAsks => asking.set \in 1..Len(sets))
  /\ \A i \in 1..Len(taught) :
       IsTaught(taught[i]) /\ taught[i].set \in 1..Len(sets) /\ PublishedOnParent(taught[i])
CopySound == KeptSets /\ TaughtSound

\* What every operation does to the sets: none goes, and none gets another parent.
ParentsStay ==
  Len(sets) <= Len(sets') /\ \A d \in 1..Len(sets) : sets'[d].parent = sets[d].parent

LEMMA SoleParent ==
  ASSUME NEW rows, NEW k, Named(rows) = {k}
  PROVE  soleParentPatch(rows) = k
<1>1. Cardinality({k}) = 1
  BY FS_Singleton
<1>. QED  BY <1>1 DEF soleParentPatch

LEMMA NewIsTold ==
  ASSUME NEW o, NEW raw, NEW src, NEW parent, NEW keep, NEW p,
         p = IF parent # None THEN parent ELSE soleParentPatch(Accepted(raw)),
         NEW s, s = NewSet(o, raw, src, p, keep)
  PROVE  IsSetRow(s) /\ ParentTold(s)
<1>1. /\ s.parent = p /\ s.born = Named(Accepted(raw)) \cup ({p} \ {None})
      /\ IsSetRow(s)
  BY DEF NewSet, IsSetRow
<1>2. ASSUME NEW k \in Knowledge, s.born = {k} PROVE s.parent = k
  <2>. k # None
    BY NoneIsNothing
  <2>1. CASE p # None
    BY <1>1, <1>2, <2>1
  <2>2. CASE p = None
    <3>1. Named(Accepted(raw)) = {k}
      BY <1>1, <1>2, <2>2
    <3>. QED  BY <2>2, <3>1, SoleParent
  <2>. QED  BY <2>1, <2>2
<1>. QED  BY <1>1, <1>2 DEF ParentTold

LEMMA Created ==
  ASSUME KeptSets, NEW o, NEW raw, NEW src, NEW parent, NEW keep,
         createSet(o, raw, src, parent, keep)
  PROVE  KeptSets' /\ ParentsStay
<1>. PICK p : p = IF parent # None THEN parent ELSE soleParentPatch(Accepted(raw))
  OBVIOUS
<1>. PICK s : s = NewSet(o, raw, src, p, keep)
  OBVIOUS
<1>1. IsSetRow(s) /\ ParentTold(s)
  BY NewIsTold
<1>2. sets' = Append(sets, s)
  BY DEF createSet
<1>3. /\ IsList(sets') /\ Len(sets') = Len(sets) + 1 /\ sets'[Len(sets) + 1] = s
      /\ \A i \in 1..Len(sets) : sets'[i] = sets[i]
  <2>1. IsList(sets)
    BY DEF KeptSets
  <2>2. Longer(sets, s, sets')
    BY <1>2, <2>1, ListAppend
  <2>. QED  BY <2>2 DEF Longer
<1>. PICK n \in Nat : n = Len(sets)
  BY DEF KeptSets, IsList
<1>4. \A d \in 1..(n + 1) : d \in 1..n \/ d = n + 1
  OBVIOUS
<1>5. \A d \in 1..Len(sets') : IsSetRow(sets'[d]) /\ ParentTold(sets'[d])
  BY <1>1, <1>3, <1>4 DEF KeptSets
<1>6. KeptSets'
  BY <1>3, <1>5 DEF KeptSets, ParentTold, IsSetRow, IsList
<1>. QED  BY <1>3, <1>6 DEF ParentsStay

\* One set is written again, and keeps its parent.
LEMMA Rewritten ==
  ASSUME KeptSets, NEW d \in 1..Len(sets), NEW r, sets' = [sets EXCEPT ![d] = r],
         IsSetRow(r), r.parent = sets[d].parent, r.born = sets[d].born
  PROVE  KeptSets' /\ ParentsStay
<1>1. /\ IsList(sets') /\ Len(sets') = Len(sets) /\ sets'[d] = r
      /\ \A i \in 1..Len(sets) : i # d => sets'[i] = sets[i]
  <2>1. IsList(sets)
    BY DEF KeptSets
  <2>2. Swapped(sets, d, r, sets')
    BY <2>1, ListExcept
  <2>. QED  BY <2>2 DEF Swapped
<1>2. \A i \in 1..Len(sets) : IsSetRow(sets'[i]) /\ ParentTold(sets'[i])
  BY <1>1 DEF KeptSets, ParentTold
<1>3. \A i \in 1..Len(sets) : sets'[i].parent = sets[i].parent
  BY <1>1
<1>4. Len(sets) \in Nat
  BY DEF KeptSets, IsList
<1>. QED  BY <1>1, <1>2, <1>3, <1>4 DEF KeptSets, ParentsStay, ParentTold, IsSetRow, IsList

LEMMA ListDomain ==
  ASSUME NEW s, IsList(s)
  PROVE  DOMAIN s = 1..Len(s)
BY DEF IsList

\* A row of the same set: with the parent and the past of the other.
Kin(r, q) == IsSetRow(r) /\ r.parent = q.parent /\ r.born = q.born

LEMMA RowKept ==
  ASSUME NEW q, IsSetRow(q), NEW a
  PROVE  Kin([q EXCEPT !.keep = a], q) /\ Kin([q EXCEPT !.status = a], q)
<1>1. Kin([q EXCEPT !.keep = a], q)
  BY DEF IsSetRow, Kin
<1>2. Kin([q EXCEPT !.status = a], q)
  BY DEF IsSetRow, Kin
<1>. QED  BY <1>1, <1>2

LEMMA RowRewritten ==
  ASSUME NEW q, IsSetRow(q), NEW a, NEW b, NEW c, NEW e
  PROVE  Kin([q EXCEPT !.rows = a, !.report = b, !.revision = c, !.file = e], q)
<1>. PICK r : r = [q EXCEPT !.rows = a, !.report = b, !.revision = c, !.file = e]
  OBVIOUS
<1>1. r.parent = q.parent /\ r.born = q.born
  BY DEF IsSetRow
<1>2. IsSetRow(r)
  BY DEF IsSetRow
<1>. QED  BY <1>1, <1>2 DEF Kin

LEMMA RowEmptied ==
  ASSUME NEW q, IsSetRow(q), NEW a, NEW b
  PROVE  Kin([q EXCEPT !.file = a, !.source = b], q)
<1>. PICK r : r = [q EXCEPT !.file = a, !.source = b]
  OBVIOUS
<1>1. r.parent = q.parent /\ r.born = q.born
  BY DEF IsSetRow
<1>2. IsSetRow(r)
  BY DEF IsSetRow
<1>. QED  BY <1>1, <1>2 DEF Kin

LEMMA RowBuried ==
  ASSUME NEW q, IsSetRow(q)
  PROVE  Kin(Tombstone(q), q)
<1>. PICK r : r = Tombstone(q)
  OBVIOUS
<1>1. r.parent = q.parent /\ r.born = q.born
  BY DEF IsSetRow, Tombstone, removeFiles
<1>2. IsSetRow(r)
  BY DEF IsSetRow, Tombstone, removeFiles
<1>. QED  BY <1>1, <1>2 DEF Kin

\* One row of a set that is there becomes its kin.
LEMMA OneWritten ==
  ASSUME KeptSets, NEW d \in 1..Len(sets), NEW r, Kin(r, sets[d]),
         sets' = [sets EXCEPT ![d] = r]
  PROVE  KeptSets' /\ ParentsStay
BY Rewritten DEF Kin

LEMMA SameSets ==
  ASSUME KeptSets, UNCHANGED sets
  PROVE  KeptSets' /\ ParentsStay
<1>1. Len(sets) \in Nat
  BY DEF KeptSets, IsList
<1>. QED  BY <1>1 DEF KeptSets, ParentsStay, ParentTold, IsSetRow, IsList

LEMMA RewriteKeeps ==
  ASSUME KeptSets, NEW d \in 1..Len(sets), NEW rows, NEW report, rewrite(d, rows, report)
  PROVE  KeptSets' /\ ParentsStay
<1>. PICK q : q = sets[d]
  OBVIOUS
<1>. PICK n, f : n = q.revision + 1 /\ f = TRUE
  OBVIOUS
<1>. PICK r : r = [q EXCEPT !.rows = rows, !.report = report, !.revision = n, !.file = f]
  OBVIOUS
<1>1. IsSetRow(q)
  BY DEF KeptSets
<1>2. Kin(r, q)
  BY <1>1, RowRewritten
<1>3. sets' = [sets EXCEPT ![d] = r]
  <2>1. sets' = [sets EXCEPT ![d].rows = rows, ![d].report = report,
                             ![d].revision = @ + 1, ![d].file = TRUE]
    BY DEF rewrite
  <2>2. IsList(sets)
    BY DEF KeptSets
  <2>. QED  BY <2>1, <2>2, <1>1 DEF IsList, IsSetRow
<1>. QED  BY <1>2, <1>3, OneWritten

LEMMA MarkKeeps ==
  ASSUME KeptSets, NEW d \in 1..Len(sets), NEW s, sets' = markStatus(d, s)
  PROVE  KeptSets' /\ ParentsStay
<1>1. CASE Live(d)
  <2>. PICK r : r = [sets[d] EXCEPT !.status = s]
    OBVIOUS
  <2>1. IsSetRow(sets[d])
    BY DEF KeptSets
  <2>2. Kin(r, sets[d])
    BY <2>1, RowKept
  <2>3. sets' = [sets EXCEPT ![d] = r]
    BY <1>1 DEF markStatus
  <2>. QED  BY <2>2, <2>3, OneWritten
<1>2. CASE ~Live(d)
  BY <1>2, SameSets DEF markStatus
<1>. QED  BY <1>1, <1>2

\* The end of a lesson marks the set and may remove its questions.
LEMMA FinishSets ==
  ASSUME CopySound, NEW l \in 1..Len(taught), FinishLesson(l)
  PROVE  KeptSets' /\ ParentsStay
<1>. PICK d \in 1..Len(sets) : d = taught[l].set
  BY DEF CopySound, TaughtSound
<1>. DEFINE others == \E m \in DOMAIN taught \ {l} : taught[m].set = d /\ taught[m].state = "active"
<1>1. KeptSets
  BY SMTT(30) DEF CopySound
<1>2. CASE others
  BY <1>1, <1>2, SameSets DEF FinishLesson
<1>3. CASE ~others /\ (~Live(d) \/ sets[d].keep)
  <2>1. sets' = markStatus(d, "ready")
    BY <1>3 DEF FinishLesson
  <2>. QED  BY <1>1, <2>1, MarkKeeps
<1>4. CASE ~others /\ Live(d) /\ ~sets[d].keep
  <2>. PICK q : q = [sets[d] EXCEPT !.status = "ready"]
    OBVIOUS
  <2>. PICK a, b : a = FALSE /\ b = None
    OBVIOUS
  <2>. PICK r : r = [q EXCEPT !.file = a, !.source = b]
    OBVIOUS
  <2>. PICK back : back = [sets EXCEPT ![d] = q]
    OBVIOUS
  <2>1. IsSetRow(sets[d]) /\ IsList(sets)
    BY <1>1 DEF KeptSets
  <2>2. IsSetRow(q) /\ q.parent = sets[d].parent /\ q.born = sets[d].born
    BY <2>1, RowKept DEF Kin
  <2>3. Kin(r, q)
    BY <2>2, RowEmptied
  <2>4. Kin(r, sets[d])
    BY Zenon, <2>2, <2>3 DEF Kin
  <2>5. sets' = [back EXCEPT ![d].file = FALSE, ![d].source = None]
    BY Zenon, <1>4 DEF FinishLesson, markStatus
  <2>6. sets' = [sets EXCEPT ![d] = r]
    BY Zenon, <2>1, <2>2, <2>5 DEF IsList, IsSetRow
  <2>. QED  BY <1>1, <2>4, <2>6, OneWritten
<1>. QED  BY <1>2, <1>3, <1>4

\* The operations of a person on the sets.
LEMMA EditorKeeps ==
  ASSUME CopySound,
         \/ \E o \in Teacher, f \in File, k \in BOOLEAN : Upload(o, f, k)
         \/ \E o \in Teacher, k \in BOOLEAN : TypeIn(o, k)
         \/ \E o \in Teacher, k \in Knowledge : forkFromPatch(o, k)
         \/ \E d \in SetIds : Reread(d)
         \/ \E d \in SetIds : \E op \in RowsOps(d) : Edit(d, op)
         \/ \E d \in SetIds, k \in BOOLEAN : Retain(d, k)
         \/ \E d \in SetIds : \E op \in RowsOps(d) \cup {NoOp} : Fork(d, op)
         \/ sweep
  PROVE  KeptSets' /\ ParentsStay /\ UNCHANGED <<asking, taught>>
<1>0. KeptSets
  BY DEF CopySound
<1>1. CASE \E o, raw, src, parent, keep : createSet(o, raw, src, parent, keep)
                                           /\ UNCHANGED <<asking, taught>>
  BY <1>0, <1>1, Created
<1>2. CASE \E d \in SetIds : \E rows, report : rewrite(d, rows, report)
                                                /\ UNCHANGED <<asking, taught>>
  BY <1>0, <1>2, RewriteKeeps DEF SetIds
<1>3. CASE \E d \in SetIds, k \in BOOLEAN : Retain(d, k)
  <2>. PICK d \in SetIds, k \in BOOLEAN : Retain(d, k)
    BY <1>3
  <2>. PICK r : r = [sets[d] EXCEPT !.keep = k]
    OBVIOUS
  <2>1. IsSetRow(sets[d])
    BY <1>0 DEF KeptSets, SetIds
  <2>2. Kin(r, sets[d])
    BY <2>1, RowKept
  <2>3. sets' = [sets EXCEPT ![d] = r] /\ UNCHANGED <<asking, taught>>
    BY DEF Retain
  <2>. QED  BY <1>0, <2>2, <2>3, OneWritten DEF SetIds
<1>4. CASE sweep
  <2>. PICK d \in SetIds : remove(d)
    BY <1>4 DEF sweep
  <2>. PICK r : r = Tombstone(sets[d])
    OBVIOUS
  <2>1. IsSetRow(sets[d])
    BY <1>0 DEF KeptSets, SetIds
  <2>2. Kin(r, sets[d])
    BY <2>1, RowBuried
  <2>3. sets' = [sets EXCEPT ![d] = r] /\ UNCHANGED <<asking, taught>>
    BY DEF remove
  <2>. QED  BY <1>0, <2>2, <2>3, OneWritten DEF SetIds
<1>5. CASE \/ \E o \in Teacher, f \in File, k \in BOOLEAN : Upload(o, f, k)
           \/ \E o \in Teacher, k \in BOOLEAN : TypeIn(o, k)
           \/ \E o \in Teacher, k \in Knowledge : forkFromPatch(o, k)
           \/ \E d \in SetIds : \E op \in RowsOps(d) \cup {NoOp} : Fork(d, op)
  BY <1>1, <1>5 DEF Upload, TypeIn, forkFromPatch, Fork
<1>6. CASE \/ \E d \in SetIds : Reread(d)
           \/ \E d \in SetIds : \E op \in RowsOps(d) : Edit(d, op)
  BY <1>2, <1>6 DEF Reread, Edit
<1>. QED  BY <1>3, <1>4, <1>5, <1>6

\* The lessons stay what they were while the sets are worked on.
LEMMA LessonsStand ==
  ASSUME CopySound, ParentsStay, KeptSets', taught' = taught,
         asking' # NobodyAsks => asking'.set \in 1..Len(sets)
  PROVE  CopySound'
<1>1. Len(sets) \in Nat /\ Len(sets') \in Nat /\ Len(sets) <= Len(sets')
  BY DEF CopySound, KeptSets, IsList, ParentsStay
<1>2. \A d \in 1..Len(sets) : d \in 1..Len(sets') /\ sets'[d].parent = sets[d].parent
  BY <1>1 DEF ParentsStay
<1>3. IsList(taught)' /\ Len(taught') = Len(taught)
  BY DEF CopySound, TaughtSound, IsList
<1>4. ASSUME NEW i \in 1..Len(taught)
      PROVE  IsTaught(taught[i])' /\ taught[i].set \in 1..Len(sets') /\ PublishedOnParent(taught[i])'
  <2>1. IsTaught(taught[i]) /\ taught[i].set \in 1..Len(sets) /\ PublishedOnParent(taught[i])
    BY DEF CopySound, TaughtSound
  <2>. QED  BY <2>1, <1>2 DEF IsTaught, PublishedOnParent
<1>5. asking' # NobodyAsks => asking'.set \in 1..Len(sets')
  BY <1>2
<1>. QED  BY <1>3, <1>4, <1>5 DEF CopySound, TaughtSound

\* One lesson comes or is written again while its set is marked.
LEMMA LessonsMove ==
  ASSUME CopySound, ParentsStay, KeptSets', asking' = NobodyAsks \/ UNCHANGED asking,
         NEW r, IsTaught(r), r.set \in 1..Len(sets),
         r.state = "published" /\ sets[r.set].parent # None => r.base = sets[r.set].parent,
         \/ Longer(taught, r, taught')
         \/ \E l \in 1..Len(taught) : Swapped(taught, l, r, taught')
  PROVE  CopySound'
<1>1. Len(sets) \in Nat /\ Len(sets') \in Nat /\ Len(sets) <= Len(sets')
  BY DEF CopySound, KeptSets, IsList, ParentsStay
<1>2. \A d \in 1..Len(sets) : d \in 1..Len(sets') /\ sets'[d].parent = sets[d].parent
  BY <1>1 DEF ParentsStay
<1>. PICK n \in Nat : n = Len(taught)
  BY DEF CopySound, TaughtSound, IsList
<1>. DEFINE Fine(x) == /\ IsTaught(x) /\ x.set \in 1..Len(sets')
                       /\ (x.state = "published" /\ sets'[x.set].parent # None
                             => x.base = sets'[x.set].parent)
<1>3. ASSUME NEW i \in 1..n PROVE Fine(taught[i])
  <2>1. IsTaught(taught[i]) /\ taught[i].set \in 1..Len(sets) /\ PublishedOnParent(taught[i])
    BY DEF CopySound, TaughtSound
  <2>. QED  BY <2>1, <1>2 DEF PublishedOnParent
<1>4. Fine(r)
  BY <1>2
<1>5. IsList(taught')
  BY DEF Longer, Swapped
<1>6. \A i \in 1..(n + 1) : i \in 1..n \/ i = n + 1
  OBVIOUS
<1>7. ASSUME NEW i \in 1..Len(taught') PROVE Fine(taught'[i])
  <2>. HIDE DEF Fine
  <2>1. CASE Longer(taught, r, taught')
    BY <2>1, <1>3, <1>4, <1>6, <1>7 DEF Longer
  <2>2. CASE \E l \in 1..Len(taught) : Swapped(taught, l, r, taught')
    BY <2>2, <1>3, <1>4, <1>7 DEF Swapped
  <2>. QED  BY <2>1, <2>2
<1>8. \A i \in 1..Len(taught') : /\ IsTaught(taught[i])' /\ taught'[i].set \in 1..Len(sets')
                                 /\ PublishedOnParent(taught[i])'
  BY <1>7 DEF IsTaught, PublishedOnParent
<1>9. asking' # NobodyAsks => asking'.set \in 1..Len(sets')
  BY <1>2 DEF CopySound, TaughtSound
<1>. QED  BY <1>5, <1>8, <1>9 DEF CopySound, TaughtSound, IsList

LEMMA InsertLessonKeeps ==
  ASSUME CopySound, InsertLesson
  PROVE  CopySound'
<1>. PICK a : a = "active"
  OBVIOUS
<1>. PICK r : r = [set |-> asking.set, rows |-> asking.rows, base |-> asking.base, state |-> a]
  OBVIOUS
<1>1. IsTaught(r) /\ r.set = asking.set /\ r.state = "active"
  BY DEF IsTaught
<1>2. taught' = Append(taught, r) /\ asking' = NobodyAsks
  BY DEF InsertLesson
<1>3. KeptSets /\ IsList(taught) /\ asking.set \in 1..Len(sets)
  BY DEF CopySound, TaughtSound, InsertLesson
<1>. PICK s : s = "in_use"
  OBVIOUS
<1>4. sets' = markStatus(asking.set, s)
  BY DEF InsertLesson
<1>5. KeptSets' /\ ParentsStay
  BY <1>3, <1>4, MarkKeeps
<1>6. Longer(taught, r, taught')
  BY <1>2, <1>3, ListAppend
<1>. QED  BY <1>1, <1>2, <1>3, <1>5, <1>6, LessonsMove

LEMMA FinishKeeps ==
  ASSUME CopySound, NEW l \in DOMAIN taught, FinishLesson(l) \/ PublishLesson(l)
  PROVE  CopySound'
<1>0. KeptSets /\ IsList(taught)
  BY DEF CopySound, TaughtSound
<1>1. l \in 1..Len(taught)
  BY <1>0, ListDomain
<1>2. IsTaught(taught[l]) /\ taught[l].set \in 1..Len(sets)
  BY <1>1 DEF CopySound, TaughtSound
<1>3. KeptSets' /\ ParentsStay
  <2>1. CASE FinishLesson(l)
    BY <1>1, <2>1, FinishSets
  <2>2. CASE PublishLesson(l)
    BY <1>0, <2>2, SameSets DEF PublishLesson
  <2>. QED  BY <2>1, <2>2
<1>4. UNCHANGED asking
  BY DEF FinishLesson, PublishLesson
<1>. PICK s : /\ s \in {"ready", "published"} /\ taught' = [taught EXCEPT ![l].state = s]
              /\ (s = "published" => PublishLesson(l))
  BY DEF FinishLesson, PublishLesson
<1>. PICK r : r = [taught[l] EXCEPT !.state = s]
  OBVIOUS
<1>5. IsTaught(r) /\ r.set = taught[l].set /\ r.state = s /\ r.base = taught[l].base
  BY <1>2 DEF IsTaught
<1>6. Swapped(taught, l, r, taught')
  <2>1. taught' = [taught EXCEPT ![l] = r]
    OBVIOUS
  <2>2. Swapped(taught, l, r, [taught EXCEPT ![l] = r])
    BY <1>0, <1>1, ListExcept
  <2>. QED  BY <2>1, <2>2
<1>7. r.state = "published" /\ sets[r.set].parent # None => r.base = sets[r.set].parent
  BY <1>5 DEF PublishLesson
<1>. QED  BY <1>1, <1>2, <1>3, <1>4, <1>5, <1>6, <1>7, LessonsMove

LEMMA CopyStart == DatasetsInit => CopySound
<1>. SUFFICES ASSUME DatasetsInit PROVE CopySound
  OBVIOUS
<1>1. sets = <<>> /\ taught = <<>> /\ asking = NobodyAsks
  BY DEF DatasetsInit
<1>. QED  BY <1>1, ListEmpty DEF CopySound, KeptSets, TaughtSound

LEMMA CopyStep == CopySound /\ [DatasetsNext]_datasetVars => CopySound'
<1>. SUFFICES ASSUME CopySound, [DatasetsNext]_datasetVars PROVE CopySound'
  OBVIOUS
<1>0. KeptSets /\ (asking # NobodyAsks => asking.set \in 1..Len(sets))
  BY DEF CopySound, TaughtSound
<1>1. CASE UNCHANGED datasetVars
  BY <1>0, <1>1, SameSets, LessonsStand DEF datasetVars
<1>2. CASE \/ \E o \in Teacher, f \in File, k \in BOOLEAN : Upload(o, f, k)
           \/ \E o \in Teacher, k \in BOOLEAN : TypeIn(o, k)
           \/ \E o \in Teacher, k \in Knowledge : forkFromPatch(o, k)
           \/ \E d \in SetIds : Reread(d)
           \/ \E d \in SetIds : \E op \in RowsOps(d) : Edit(d, op)
           \/ \E d \in SetIds, k \in BOOLEAN : Retain(d, k)
           \/ \E d \in SetIds : \E op \in RowsOps(d) \cup {NoOp} : Fork(d, op)
           \/ sweep
  <2>1. KeptSets' /\ ParentsStay /\ UNCHANGED <<asking, taught>>
    BY <1>2, EditorKeeps
  <2>. QED  BY <1>0, <2>1, LessonsStand
<1>3. CASE \E d \in SetIds, b \in Knowledge \cup {None} : AskLesson(d, b)
  <2>1. UNCHANGED <<sets, taught>> /\ asking'.set \in 1..Len(sets)
    BY <1>3 DEF AskLesson, SetIds
  <2>. QED  BY <1>0, <2>1, SameSets, LessonsStand
<1>4. CASE InsertLesson
  BY <1>4, InsertLessonKeeps
<1>5. CASE \E l \in DOMAIN taught : FinishLesson(l) \/ PublishLesson(l)
  BY <1>5, FinishKeeps
<1>. QED  BY <1>1, <1>2, <1>3, <1>4, <1>5 DEF DatasetsNext

\* CopyIsDeclared: a published lesson from questions of one knowledge, in a set that named
\* only it when it was made, stands on that knowledge, whatever was edited, read again or
\* copied, and whatever became of the set while the lesson was made.
THEOREM CopiesAreDeclared == DatasetsSpec => []CopyIsDeclared
<1>1. CopySound => CopyIsDeclared
  <2>. SUFFICES ASSUME CopySound, NEW l \in DOMAIN taught, NEW k \in Knowledge,
                       taught[l].state = "published", sets[taught[l].set].born = {k}
                PROVE  taught[l].base = k
    BY DEF CopyIsDeclared
  <2>1. l \in 1..Len(taught)
    BY ListDomain DEF CopySound, TaughtSound
  <2>2. taught[l].set \in 1..Len(sets) /\ PublishedOnParent(taught[l])
    BY <2>1 DEF CopySound, TaughtSound
  <2>3. sets[taught[l].set].parent = k
    BY <2>2 DEF CopySound, KeptSets, ParentTold
  <2>. QED  BY <2>2, <2>3, NoneIsNothing DEF PublishedOnParent
<1>. QED  BY <1>1, CopyStart, CopyStep, PTL DEF DatasetsSpec

------------------------------------------------------------------------------
(* Preflight: the model is as it was when a probe has left it *)

\* A list of bodies put on a table, bottom first.
Overlay(list, t) ==
  [s \in Spots |-> IF Writers(list, s) = {} THEN t[s] ELSE list[Max(Writers(list, s))]]

HasLock(p) == p.at \in {"loading", "asking", "leaving"}
InSection(v) == HasLock(probe[v])
IsProbe(p) ==
  p = [at |-> p.at, offer |-> p.offer, asked |-> p.asked, units |-> p.units,
       stack |-> p.stack, added |-> p.added, ok |-> p.ok]

\* A probe adds nothing before it has the lock.
ProbeTyped(p) ==
  \/ p = NoProbe
  \/ IsProbe(p) /\ p.at # "idle" /\ IsList(p.added) /\ (~HasLock(p) => p.added = <<>>)
ProbesTyped ==
  /\ probe = [v \in Visitor |-> probe[v]]
  /\ \A v \in Visitor : ProbeTyped(probe[v])
OneInside == \A v, w \in Visitor : InSection(v) /\ InSection(w) => v = w

\* The bodies of the operator's stack stay with their licence.
PinsHeld ==
  /\ IsList(pins) /\ rights = [k \in KnownItems |-> rights[k]]
  /\ \A i \in 1..Len(pins) : pins[i] \in KnownItems /\ rights[pins[i]] = "bought"

\* In a section the sound cells show what was added on top of the operator's stack, and of
\* a cell that nothing of that stack writes the first addition noted it was unwritten.
LayeredOn(list, t) ==
  \A s \in Spots \ torn :
    /\ t[s] = Overlay(list, PinnedTable(pins))[s]
    /\ Writers(list, s) # {} /\ Writers(pins, s) = {} =>
         HeldBefore(list[Min(Writers(list, s))], s) = "base"
Layered(list) == LayeredOn(list, cells)
SectionShown == ~bare => \A v \in Visitor : InSection(v) => Layered(probe[v].added)
PutBackInv == ProbesTyped /\ OneInside /\ PinsHeld /\ SectionShown /\ ModelIsPutBack

LEMMA FirstPlace ==
  ASSUME NEW n \in Nat, NEW S \in SUBSET (1..n), S # {}
  PROVE  Min(S) \in S /\ \A i \in S : Min(S) <= i
<1>0. \A i \in 1..n : i \in Nat
  OBVIOUS
<1>1. S \in SUBSET Nat
  BY <1>0, Zenon
<1>2. \E i \in S : \A j \in S : i <= j
  BY <1>1, LeastNumber
<1>. QED  BY <1>2 DEF Min

LEMMA LastPlace ==
  ASSUME NEW n \in Nat, NEW S \in SUBSET (1..n), S # {}
  PROVE  Max(S) \in S /\ \A i \in S : i <= Max(S)
<1>. DEFINE Below0 == {n - i : i \in S}
<1>0. \A d \in Below0 : d \in Nat
  OBVIOUS
<1>a. Below0 # {}
  OBVIOUS
<1>. HIDE DEF Below0
<1>1. Below0 \in SUBSET Nat
  BY <1>0, Zenon
<1>2. PICK m \in Below0 : \A d \in Below0 : m <= d
  BY <1>1, <1>a, LeastNumber
<1>3. PICK i \in S : m = n - i
  BY DEF Below0
<1>4. \A j \in S : n - j \in Below0
  BY DEF Below0
<1>5. \A j \in S : n - i <= n - j
  BY <1>2, <1>3, <1>4
<1>6. \A j \in S : j <= i
  BY <1>5
<1>7. \E k \in S : \A j \in S : k >= j
  BY <1>6
<1>. QED  BY <1>7 DEF Max

\* The writers of a cell are places of the list.
LEMMA WritersPlaces ==
  ASSUME NEW list, IsList(list), NEW s
  PROVE  Writers(list, s) = {i \in 1..Len(list) : s \in Spans[list[i]]}
BY DEF Writers, IsList

\* The place of the last knowledge of a list that writes a cell, and of the first one.
LEMMA Extremes ==
  ASSUME NEW list, IsList(list), NEW s, Writers(list, s) # {}
  PROVE  /\ Max(Writers(list, s)) \in Writers(list, s)
         /\ \A i \in Writers(list, s) : i <= Max(Writers(list, s))
         /\ Min(Writers(list, s)) \in Writers(list, s)
         /\ \A i \in Writers(list, s) : Min(Writers(list, s)) <= i
<1>. PICK n \in Nat : n = Len(list)
  BY DEF IsList
<1>. PICK W : W = Writers(list, s)
  OBVIOUS
<1>1. W \in SUBSET (1..n) /\ W # {}
  BY WritersPlaces
<1>2. Max(W) \in W /\ \A i \in W : i <= Max(W)
  BY <1>1, LastPlace
<1>3. Min(W) \in W /\ \A i \in W : Min(W) <= i
  BY <1>1, FirstPlace
<1>. QED  BY <1>2, <1>3

LEMMA WritersAppend ==
  ASSUME NEW list, IsList(list), NEW k, NEW s
  PROVE  /\ s \in Spans[k] => Writers(Append(list, k), s) = Writers(list, s) \cup {Len(list) + 1}
         /\ s \notin Spans[k] => Writers(Append(list, k), s) = Writers(list, s)
<1>. PICK t : t = Append(list, k)
  OBVIOUS
<1>. PICK n \in Nat : n = Len(list)
  BY DEF IsList
<1>1. Longer(list, k, Append(list, k))
  BY ListAppend
<1>2. IsList(t) /\ Len(t) = n + 1 /\ t[n + 1] = k /\ \A i \in 1..n : t[i] = list[i]
  BY <1>1 DEF Longer
<1>b. IsList(t)
  BY <1>2
<1>a. Writers(t, s) = {i \in 1..Len(t) : s \in Spans[t[i]]}
  BY <1>b DEF Writers, IsList
<1>3. Writers(t, s) = {i \in 1..(n + 1) : s \in Spans[t[i]]}
  BY <1>2, <1>a
<1>4. Writers(list, s) = {i \in 1..n : s \in Spans[list[i]]}
  BY WritersPlaces
<1>5. 1..(n + 1) = (1..n) \cup {n + 1}
  OBVIOUS
<1>6. ASSUME s \in Spans[k] PROVE Writers(t, s) = Writers(list, s) \cup {n + 1}
  BY <1>2, <1>3, <1>4, <1>5, <1>6
<1>7. ASSUME s \notin Spans[k] PROVE Writers(t, s) = Writers(list, s)
  BY <1>2, <1>3, <1>4, <1>5, <1>7
<1>. QED  BY <1>6, <1>7

\* A knowledge put on a list is what its cells show, and changes no other cell.
LEMMA OnePutOn ==
  ASSUME NEW list, IsList(list), NEW k, NEW t, NEW s \in Spots
  PROVE  Overlay(Append(list, k), t)[s] = IF s \in Spans[k] THEN k ELSE Overlay(list, t)[s]
<1>. PICK more : more = Append(list, k)
  OBVIOUS
<1>. PICK n \in Nat : n = Len(list)
  BY DEF IsList
<1>1. Longer(list, k, Append(list, k))
  BY ListAppend
<1>2. IsList(more) /\ more[n + 1] = k /\ \A i \in 1..n : more[i] = list[i]
  BY <1>1 DEF Longer
<1>3. Writers(list, s) \subseteq 1..n
  BY WritersPlaces
<1>4. Overlay(more, t)[s] = IF Writers(more, s) = {} THEN t[s] ELSE more[Max(Writers(more, s))]
  BY DEF Overlay
<1>5. Overlay(list, t)[s] = IF Writers(list, s) = {} THEN t[s] ELSE list[Max(Writers(list, s))]
  BY DEF Overlay
<1>6. CASE s \in Spans[k]
  <2>1. Writers(more, s) = Writers(list, s) \cup {n + 1}
    BY <1>6, WritersAppend
  <2>2. /\ Max(Writers(more, s)) \in Writers(more, s)
        /\ \A i \in Writers(more, s) : i <= Max(Writers(more, s))
    BY <1>2, <2>1, Extremes
  <2>3. Max(Writers(more, s)) = n + 1
    <3>. PICK m : m = Max(Writers(more, s))
      OBVIOUS
    <3>1. m \in Writers(list, s) \cup {n + 1} /\ n + 1 <= m
      BY <2>1, <2>2
    <3>2. ASSUME m \in Writers(list, s) PROVE FALSE
      <4>1. m \in 1..n
        BY <1>3, <3>2, Zenon
      <4>. QED  BY <3>1, <4>1
    <3>. QED  BY <3>1, <3>2
  <2>. QED  BY <1>2, <1>4, <1>6, <2>1, <2>3
<1>7. CASE s \notin Spans[k]
  <2>1. Writers(more, s) = Writers(list, s)
    BY <1>7, WritersAppend
  <2>2. ASSUME Writers(list, s) # {}
        PROVE  more[Max(Writers(list, s))] = list[Max(Writers(list, s))]
    <3>1. Max(Writers(list, s)) \in Writers(list, s)
      BY <2>2, Extremes
    <3>. QED  BY <1>2, <1>3, <3>1, Zenon
  <2>. QED  BY <1>4, <1>5, <1>7, <2>1, <2>2
<1>. QED  BY <1>6, <1>7

\* The first knowledge of a list to write a cell stays the first when one more is put on.
LEMMA FirstStays ==
  ASSUME NEW list, IsList(list), NEW k, NEW s, Writers(list, s) # {}
  PROVE  Append(list, k)[Min(Writers(Append(list, k), s))] = list[Min(Writers(list, s))]
<1>. PICK more : more = Append(list, k)
  OBVIOUS
<1>. PICK n \in Nat : n = Len(list)
  BY DEF IsList
<1>1. Longer(list, k, Append(list, k))
  BY ListAppend
<1>2. IsList(more) /\ \A i \in 1..n : more[i] = list[i]
  BY <1>1 DEF Longer
<1>3. Writers(list, s) \subseteq 1..n
  BY WritersPlaces
<1>4. \/ Writers(more, s) = Writers(list, s)
      \/ Writers(more, s) = Writers(list, s) \cup {n + 1}
  BY WritersAppend
<1>. PICK m : m = Min(Writers(list, s))
  OBVIOUS
<1>. PICK o : o = Min(Writers(more, s))
  OBVIOUS
<1>5. m \in Writers(list, s) /\ \A i \in Writers(list, s) : m <= i
  BY Extremes
<1>6. o \in Writers(more, s) /\ \A i \in Writers(more, s) : o <= i
  BY <1>2, <1>4, Extremes
<1>7. m \in 1..n
  BY <1>3, <1>5, Zenon
<1>8. o <= m
  BY <1>4, <1>5, <1>6
<1>9. o \in Writers(list, s)
  BY <1>4, <1>6, <1>7, <1>8
<1>10. m <= o
  BY <1>5, <1>9
<1>11. o \in 1..n
  BY <1>3, <1>9, Zenon
<1>12. o = m
  BY <1>7, <1>8, <1>10, <1>11
<1>. QED  BY <1>2, <1>7, <1>12

\* The first to write a cell that nothing wrote is the one put on.
LEMMA FirstIsNew ==
  ASSUME NEW list, IsList(list), NEW k, NEW s, s \in Spans[k], Writers(list, s) = {}
  PROVE  Append(list, k)[Min(Writers(Append(list, k), s))] = k
<1>. PICK more : more = Append(list, k)
  OBVIOUS
<1>. PICK n \in Nat : n = Len(list)
  BY DEF IsList
<1>1. Longer(list, k, Append(list, k))
  BY ListAppend
<1>2. IsList(more) /\ more[n + 1] = k
  BY <1>1 DEF Longer
<1>3. Writers(more, s) = {n + 1}
  BY WritersAppend
<1>4. Min(Writers(more, s)) \in Writers(more, s)
  BY <1>2, <1>3, Extremes
<1>. QED  BY <1>2, <1>3, <1>4

\* A list of nothing changes no cell.
LEMMA NothingOn ==
  ASSUME NEW t
  PROVE  /\ \A s \in Spots : Overlay(<<>>, t)[s] = t[s]
         /\ \A s : Writers(<<>>, s) = {}
<1>1. IsList(<<>>) /\ Len(<<>>) = 0
  BY ListEmpty
<1>2. \A s : Writers(<<>>, s) = {}
  BY <1>1, WritersPlaces
<1>. QED  BY <1>2 DEF Overlay

\* A sound cell that neither a failing removal nor a failing write concerns is taken off
\* and written again with everything else.
LEMMA TakenOffIsPinned ==
  ASSUME NEW list, IsList(list), Layered(list), PinsHeld,
         NEW off \in SUBSET DOMAIN list, NEW on \in SUBSET DOMAIN pins,
         NEW s \in Spots, s \notin torn, s \notin LeftBy(list, off, on)
  PROVE  reassertPinned(on, TakenOff(list, off, cells))[s] = PinnedTable(pins)[s]
<1>1. Writers(list, s) \cap off = Writers(list, s)
  BY DEF LeftBy, Writers
<1>2. Writers(pins, s) \cap on = Writers(pins, s)
  BY DEF LeftBy, Writers
<1>3. {i \in Writers(pins, s) \cap on : rights[pins[i]] # "none"} = Writers(pins, s)
  <2>1. Writers(pins, s) = {i \in 1..Len(pins) : s \in Spans[pins[i]]}
    BY WritersPlaces DEF PinsHeld
  <2>2. \A i \in 1..Len(pins) : rights[pins[i]] = "bought"
    BY DEF PinsHeld
  <2>. QED  BY <1>2, <2>1, <2>2
<1>. PICK t : t = TakenOff(list, off, cells)
  OBVIOUS
<1>4. reassertPinned(on, t)[s] = IF Writers(pins, s) = {} THEN t[s] ELSE pins[Max(Writers(pins, s))]
  BY <1>3 DEF reassertPinned
<1>5. PinnedTable(pins)[s] = IF Writers(pins, s) = {} THEN "base" ELSE pins[Max(Writers(pins, s))]
  BY DEF PinnedTable
<1>6. ASSUME Writers(pins, s) = {} PROVE t[s] = "base"
  <2>1. t[s] = IF Writers(list, s) = {} THEN cells[s] ELSE HeldBefore(list[Min(Writers(list, s))], s)
    BY <1>1 DEF TakenOff
  <2>2. cells[s] = IF Writers(list, s) = {} THEN PinnedTable(pins)[s] ELSE list[Max(Writers(list, s))]
    BY DEF Layered, LayeredOn, Overlay
  <2>3. Writers(list, s) # {} => HeldBefore(list[Min(Writers(list, s))], s) = "base"
    BY <1>6 DEF Layered, LayeredOn
  <2>. QED  BY <1>5, <1>6, <2>1, <2>2, <2>3
<1>. QED  BY <1>4, <1>5, <1>6

\* One more knowledge on top: what is laid on the stack is one longer, if a delta among
\* what nothing of the stack writes found the rows it was trained on.
LEMMA OneMoreLaid ==
  ASSUME NEW list, IsList(list), Layered(list), NEW k,
         k \in Delta => \A s \in Spans[k] \ torn : cells[s] = HeldBefore(k, s)
  PROVE  LayeredOn(Append(list, k), Put(k, cells))
<1>. PICK more : more = Append(list, k)
  OBVIOUS
<1>1. ASSUME NEW s \in Spots \ torn
      PROVE  Put(k, cells)[s] = Overlay(more, PinnedTable(pins))[s]
  <2>1. Overlay(more, PinnedTable(pins))[s]
          = IF s \in Spans[k] THEN k ELSE Overlay(list, PinnedTable(pins))[s]
    BY OnePutOn
  <2>2. cells[s] = Overlay(list, PinnedTable(pins))[s]
    BY DEF Layered, LayeredOn
  <2>3. Put(k, cells)[s] = IF s \in Spans[k] THEN k ELSE cells[s]
    BY DEF Put
  <2>. QED  BY <2>1, <2>2, <2>3
<1>2. ASSUME NEW s \in Spots \ torn, Writers(more, s) # {}, Writers(pins, s) = {}
      PROVE  HeldBefore(more[Min(Writers(more, s))], s) = "base"
  <2>1. CASE Writers(list, s) # {}
    <3>1. more[Min(Writers(more, s))] = list[Min(Writers(list, s))]
      BY <2>1, FirstStays
    <3>2. HeldBefore(list[Min(Writers(list, s))], s) = "base"
      BY <1>2, <2>1 DEF Layered, LayeredOn
    <3>. QED  BY <3>1, <3>2
  <2>2. CASE Writers(list, s) = {}
    <3>1. s \in Spans[k]
      BY <1>2, <2>2, WritersAppend
    <3>2. more[Min(Writers(more, s))] = k
      BY <2>2, <3>1, FirstIsNew
    <3>3. HeldBefore(k, s) = "base"
      <4>1. CASE k \in Delta
        <5>1. cells[s] = HeldBefore(k, s)
          BY <3>1, <4>1
        <5>2. cells[s] = "base"
          BY <1>2, <2>2 DEF Layered, LayeredOn, Overlay, PinnedTable
        <5>. QED  BY <5>1, <5>2
      <4>2. CASE k \notin Delta
        BY <4>2 DEF HeldBefore
      <4>. QED  BY <4>1, <4>2
    <3>. QED  BY <3>2, <3>3
  <2>. QED  BY <2>1, <2>2
<1>. QED  BY <1>1, <1>2 DEF LayeredOn

LEMMA PutBackInit ==
  ASSUME PreflightInit
  PROVE  PutBackInv
<1>1. probe = [v \in Visitor |-> NoProbe] /\ pins = <<>> /\ cells = [s \in Spots |-> "base"]
  BY DEF PreflightInit
<1>2. IsList(pins) /\ Len(pins) = 0
  BY <1>1, ListEmpty
<1>3. ProbesTyped
  BY <1>1 DEF ProbesTyped, ProbeTyped
<1>4. \A v \in Visitor : ~InSection(v)
  BY <1>1 DEF InSection, HasLock, NoProbe
<1>5. OneInside /\ SectionShown
  BY <1>4 DEF OneInside, SectionShown
<1>6. PinsHeld
  <2>1. rights = [k \in KnownItems |-> rights[k]]
    BY DEF PreflightInit
  <2>. QED  BY <1>2, <2>1 DEF PinsHeld
<1>7. ModelIsPutBack
  <2>1. \A s : Writers(pins, s) = {}
    BY <1>2, WritersPlaces
  <2>. QED  BY <1>1, <2>1 DEF ModelIsPutBack, PinnedTable
<1>. QED  BY <1>3, <1>5, <1>6, <1>7 DEF PutBackInv

\* What the operator's stack and the model are, as the steps of a probe leave them.
Kept == UNCHANGED <<rights, pins>>
LEMMA PinsStay ==
  ASSUME PinsHeld, Kept
  PROVE  PinsHeld' /\ PinnedTable(pins)' = PinnedTable(pins)
<1>1. pins' = pins /\ rights' = rights
  BY DEF Kept
<1>. QED  BY <1>1 DEF PinsHeld, PinnedTable, Writers, IsList

LEMMA LayeredStays ==
  ASSUME pins' = pins, torn \subseteq torn', NEW list, NEW t, LayeredOn(list, t)
  PROVE  LayeredOn(list, t)'
<1>1. \A s \in Spots \ torn' :
        /\ t[s] = Overlay(list, PinnedTable(pins'))[s]
        /\ Writers(list, s) # {} /\ Writers(pins', s) = {} =>
             HeldBefore(list[Min(Writers(list, s))], s) = "base"
  BY DEF LayeredOn
<1>. QED  BY <1>1 DEF LayeredOn

\* A probe that steps: in the section it is alone, and the model shows what it has added;
\* when it leaves, the model is as the operator has it.
LEMMA ProbeTo ==
  ASSUME PutBackInv, NEW v \in Visitor, NEW p, probe' = [probe EXCEPT ![v] = p], Kept,
         ProbeTyped(p), bare => bare', torn \subseteq torn',
         HasLock(p) => \A w \in Visitor : w # v => ~InSection(w),
         HasLock(p) /\ ~bare' => LayeredOn(p.added, cells'),
         ~HasLock(p) /\ InSection(v) /\ ~bare' =>
           \A s \in Spots \ torn' : cells'[s] = PinnedTable(pins)[s],
         ~HasLock(p) /\ ~InSection(v) => cells' = cells
  PROVE  PutBackInv'
<1>1. probe = [w \in Visitor |-> probe[w]] /\ \A w \in Visitor : ProbeTyped(probe[w])
  BY DEF PutBackInv, ProbesTyped
<1>2. probe'[v] = p /\ \A w \in Visitor : w # v => probe'[w] = probe[w]
  BY <1>1
<1>3. \A w \in Visitor : InSection(w)' <=> HasLock(probe'[w])
  BY DEF InSection, HasLock
<1>4. \A w \in Visitor : w # v => (InSection(w)' <=> InSection(w))
  BY <1>2, <1>3 DEF InSection
<1>5. InSection(v)' <=> HasLock(p)
  BY <1>2, <1>3
<1>6. ProbesTyped'
  <2>1. probe' = [w \in Visitor |-> probe'[w]]
    BY <1>1
  <2>2. \A w \in Visitor : ProbeTyped(probe'[w])
    BY <1>1, <1>2
  <2>3. \A w \in Visitor : ProbeTyped(probe[w])' <=> ProbeTyped(probe'[w])
    BY DEF ProbeTyped, IsProbe, HasLock, IsList, NoProbe
  <2>. QED  BY <2>1, <2>2, <2>3 DEF ProbesTyped
<1>7. OneInside'
  BY <1>4, <1>5 DEF PutBackInv, OneInside
<1>8. PinsHeld' /\ PinnedTable(pins)' = PinnedTable(pins) /\ pins' = pins
  BY PinsStay DEF PutBackInv, Kept
<1>9. \A list, t : LayeredOn(list, t) => LayeredOn(list, t)'
  BY <1>8, LayeredStays
<1>10. SectionShown'
  <2>1. ASSUME ~bare', NEW w \in Visitor, InSection(w)'
        PROVE  LayeredOn(probe'[w].added, cells')
    <3>1. CASE w = v
      BY <1>2, <1>5, <2>1, <3>1
    <3>2. CASE w # v
      <4>1. InSection(w) /\ ~HasLock(p)
        BY <1>4, <2>1, <3>2
      <4>2. ~InSection(v)
        BY <3>2, <4>1 DEF PutBackInv, OneInside
      <4>3. LayeredOn(probe[w].added, cells)
        BY <2>1, <4>1 DEF PutBackInv, SectionShown, Layered
      <4>. QED  BY <1>2, <3>2, <4>1, <4>2, <4>3
    <3>. QED  BY <3>1, <3>2
  <2>2. ASSUME ~bare', NEW w \in Visitor, InSection(w)'
        PROVE  Layered(probe[w].added)'
    <3>. PICK list, t : list = probe'[w].added /\ t = cells'
      OBVIOUS
    <3>1. LayeredOn(list, t)'
      BY <1>9, <2>1, <2>2
    <3>. QED  BY <3>1 DEF Layered
  <2>. QED  BY <2>2 DEF SectionShown
<1>11. ModelIsPutBack'
  <2>1. ASSUME ~Locks', ~bare' PROVE \A s \in Spots \ torn' : cells'[s] = PinnedTable(pins)[s]
    <3>1. \A w \in Visitor : ~InSection(w)'
      BY <1>3, <2>1 DEF Locks, HasLock
    <3>2. ~HasLock(p)
      BY <1>5, <3>1
    <3>3. CASE InSection(v)
      BY <2>1, <3>2, <3>3
    <3>4. CASE ~InSection(v)
      <4>1. \A w \in Visitor : ~InSection(w)
        BY <1>4, <3>1, <3>4
      <4>2. ~Locks
        BY <4>1 DEF Locks, InSection, HasLock
      <4>. QED  BY <2>1, <3>2, <3>4, <4>2 DEF PutBackInv, ModelIsPutBack
    <3>. QED  BY <3>3, <3>4
  <2>. QED  BY <1>8, <2>1 DEF ModelIsPutBack
<1>. QED  BY <1>6, <1>7, <1>8, <1>10, <1>11 DEF PutBackInv

\* A probe of which the fields are known, and what it is when some of them change.
LEMMA ProbeShape ==
  ASSUME PutBackInv, NEW v \in Visitor, probe[v].at # "idle"
  PROVE  IsProbe(probe[v]) /\ IsList(probe[v].added) /\ (~InSection(v) => probe[v].added = <<>>)
BY DEF PutBackInv, ProbesTyped, ProbeTyped, NoProbe, InSection

LEMMA QuietKeeps ==
  ASSUME PutBackInv, Kept, UNCHANGED <<probe, cells, bare, torn>>
  PROVE  PutBackInv'
<1>. USE DEF Kept
<1>1. ProbesTyped' /\ OneInside' /\ PinsHeld'
  BY DEF PutBackInv, ProbesTyped, ProbeTyped, OneInside, PinsHeld, IsProbe, IsList, HasLock, InSection, NoProbe
<1>2. SectionShown'
  <2>1. ASSUME ~bare', NEW v \in Visitor, InSection(v)' PROVE Layered(probe[v].added)'
    <3>. PICK list, t : list = probe[v].added /\ t = cells
      OBVIOUS
    <3>1. LayeredOn(list, t)
      BY <2>1 DEF PutBackInv, SectionShown, Layered, InSection, HasLock
    <3>2. LayeredOn(list, t)'
      BY <3>1, LayeredStays
    <3>. QED  BY <3>2 DEF Layered
  <2>. QED  BY <2>1 DEF SectionShown
<1>3. ModelIsPutBack'
  BY PinsStay DEF PutBackInv, ModelIsPutBack, Locks
<1>. QED  BY <1>1, <1>2, <1>3 DEF PutBackInv

LEMMA AskKeeps ==
  ASSUME PutBackInv, NEW v \in Visitor, NEW o, NEW n, AskPreflight(v, o, n)
  PROVE  PutBackInv'
<1>. PICK p : p = [at |-> "resolving", offer |-> o, asked |-> preflightSlice(Rows[o], n),
                   units |-> preflightUnits(o, preflightSlice(Rows[o], n)),
                   stack |-> <<>>, added |-> <<>>, ok |-> FALSE]
  OBVIOUS
<1>1. probe' = [probe EXCEPT ![v] = p] /\ UNCHANGED <<rights, pins, cells, bare, torn>>
  BY DEF AskPreflight
<1>2. Kept
  BY <1>1 DEF Kept
<1>3. p.at = "resolving" /\ p.added = <<>>
  OBVIOUS
<1>4. ProbeTyped(p) /\ ~HasLock(p)
  BY <1>3, ListEmpty DEF ProbeTyped, HasLock, IsProbe
<1>5. ~InSection(v)
  BY DEF AskPreflight, InSection, HasLock, NoProbe
<1>. QED  BY <1>1, <1>2, <1>4, <1>5, ProbeTo

\* A probe that waits is turned away, or goes on waiting.
LEMMA WaitKeeps ==
  ASSUME PutBackInv, NEW v \in Visitor, NEW p, ~InSection(v), probe[v].at # "idle",
         probe' = [probe EXCEPT ![v] = p], UNCHANGED <<rights, pins, cells, bare, torn>>,
         p = NoProbe \/ (IsProbe(p) /\ p.at \in {"resolving", "queued"} /\ p.added = probe[v].added)
  PROVE  PutBackInv'
<1>1. Kept
  BY DEF Kept
<1>2. probe[v].added = <<>>
  BY ProbeShape
<1>3. ProbeTyped(p) /\ ~HasLock(p)
  BY <1>2, ListEmpty DEF ProbeTyped, HasLock, NoProbe
<1>. QED  BY <1>1, <1>3, ProbeTo

LEMMA ResolveKeeps ==
  ASSUME PutBackInv, NEW v \in Visitor, ResolveTargets(v)
  PROVE  PutBackInv'
<1>1. probe[v].at = "resolving" /\ UNCHANGED <<rights, pins, cells, bare, torn>>
  BY DEF ResolveTargets
<1>2. ~InSection(v) /\ IsProbe(probe[v])
  BY <1>1, ProbeShape DEF InSection, HasLock
<1>3. PICK stack : \/ probe' = [probe EXCEPT ![v] = [@ EXCEPT !.at = "queued", !.stack = stack]]
                   \/ probe' = [probe EXCEPT ![v] = NoProbe]
  BY DEF ResolveTargets
<1>4. CASE probe' = [probe EXCEPT ![v] = NoProbe]
  BY <1>1, <1>2, <1>4, WaitKeeps
<1>5. CASE probe' = [probe EXCEPT ![v] = [@ EXCEPT !.at = "queued", !.stack = stack]]
  <2>. PICK q : q = probe[v]
    OBVIOUS
  <2>. PICK p : p = [q EXCEPT !.at = "queued", !.stack = stack]
    OBVIOUS
  <2>1. q = [at |-> q.at, offer |-> q.offer, asked |-> q.asked, units |-> q.units,
             stack |-> q.stack, added |-> q.added, ok |-> q.ok]
    BY <1>2 DEF IsProbe
  <2>2. p = [at |-> "queued", offer |-> q.offer, asked |-> q.asked, units |-> q.units,
             stack |-> stack, added |-> q.added, ok |-> q.ok]
    BY <2>1
  <2>3. p.at = "queued" /\ p.added = q.added /\ IsProbe(p)
    BY <2>2 DEF IsProbe
  <2>4. probe' = [probe EXCEPT ![v] = p]
    BY <1>5, PutBackInv DEF PutBackInv, ProbesTyped
  <2>. QED  BY <1>1, <1>2, <2>3, <2>4, WaitKeeps
<1>. QED  BY <1>3, <1>4, <1>5

LEMMA EnterKeeps ==
  ASSUME PutBackInv, NEW v \in Visitor, EnterSection(v)
  PROVE  PutBackInv'
<1>1. probe[v].at = "queued" /\ ~Locks /\ UNCHANGED <<rights, pins, cells, bare, torn>>
  BY DEF EnterSection
<1>2. ~InSection(v) /\ IsProbe(probe[v]) /\ probe[v].added = <<>>
  BY <1>1, ProbeShape DEF InSection, HasLock
<1>3. \A w \in Visitor : ~InSection(w)
  BY <1>1 DEF Locks, InSection, HasLock
<1>. PICK q : q = probe[v]
  OBVIOUS
<1>. PICK p : p = [q EXCEPT !.at = "loading"]
  OBVIOUS
<1>4. p.at = "loading" /\ p.added = <<>> /\ IsProbe(p)
  BY <1>2 DEF IsProbe
<1>5. probe' = [probe EXCEPT ![v] = p]
  BY DEF EnterSection
<1>6. ProbeTyped(p) /\ HasLock(p)
  BY <1>4, ListEmpty DEF ProbeTyped, HasLock
<1>7. ~bare' => LayeredOn(p.added, cells')
  <2>1. ~bare => \A s \in Spots \ torn : cells[s] = PinnedTable(pins)[s]
    BY <1>1 DEF PutBackInv, ModelIsPutBack
  <2>. PICK t : t = PinnedTable(pins)
    OBVIOUS
  <2>2. /\ \A s \in Spots : Overlay(<<>>, t)[s] = t[s]
        /\ \A s : Writers(<<>>, s) = {}
    BY NothingOn
  <2>3. ~bare => \A s \in Spots \ torn : cells[s] = Overlay(<<>>, PinnedTable(pins))[s]
    BY <2>1, <2>2
  <2>4. ~bare => LayeredOn(<<>>, cells)
    BY <2>2, <2>3 DEF LayeredOn
  <2>. QED  BY <1>1, <1>4, <2>4
<1>8. Kept /\ (bare => bare')
  BY <1>1 DEF Kept
<1>. QED  BY <1>1, <1>3, <1>5, <1>6, <1>7, <1>8, ProbeTo

LEMMA TurnedAwayKeeps ==
  ASSUME PutBackInv, NEW v \in Visitor, TurnedAway(v)
  PROVE  PutBackInv'
<1>1. probe[v].at = "queued" /\ UNCHANGED <<rights, pins, cells, bare, torn>>
      /\ probe' = [probe EXCEPT ![v] = NoProbe]
  BY DEF TurnedAway
<1>. QED  BY <1>1, WaitKeeps DEF InSection, HasLock

LEMMA LoadKeeps ==
  ASSUME PutBackInv, NEW v \in Visitor, NEW works, LoadTarget(v, works)
  PROVE  PutBackInv'
<1>1. probe[v].at = "loading" /\ UNCHANGED <<rights, pins, torn>>
  BY DEF LoadTarget
<1>2. InSection(v) /\ IsProbe(probe[v]) /\ IsList(probe[v].added)
  BY <1>1, ProbeShape DEF InSection, HasLock
<1>3. Kept /\ torn' = torn /\ \A w \in Visitor : w # v => ~InSection(w)
  BY <1>1, <1>2 DEF Kept, PutBackInv, OneInside
<1>4. ~bare => LayeredOn(probe[v].added, cells)
  BY <1>2 DEF PutBackInv, SectionShown, Layered
<1>. PICK q : q = probe[v]
  OBVIOUS
<1>. PICK rest, k : rest = Tail(q.stack) /\ k = Head(q.stack)
  OBVIOUS
<1>5. q = [at |-> q.at, offer |-> q.offer, asked |-> q.asked, units |-> q.units,
           stack |-> q.stack, added |-> q.added, ok |-> q.ok]
  BY <1>2 DEF IsProbe
<1>6. CASE isApplied(k)
  <2>. PICK p : p = [q EXCEPT !.stack = rest]
    OBVIOUS
  <2>1. p = [at |-> q.at, offer |-> q.offer, asked |-> q.asked, units |-> q.units,
             stack |-> rest, added |-> q.added, ok |-> q.ok]
    BY <1>5
  <2>2. p.at = "loading" /\ p.added = q.added /\ IsProbe(p)
    BY <1>1, <2>1 DEF IsProbe
  <2>3. probe' = [probe EXCEPT ![v] = p] /\ UNCHANGED <<cells, bare>>
    BY <1>6 DEF LoadTarget
  <2>4. ProbeTyped(p) /\ HasLock(p)
    BY <1>2, <2>2 DEF ProbeTyped, HasLock
  <2>5. HasLock(p) /\ ~bare' => LayeredOn(p.added, cells')
    BY <1>4, <2>2, <2>3
  <2>. QED  BY <1>3, <2>3, <2>4, <2>5, ProbeTo
<1>7. CASE ~isApplied(k) /\ works
  <2>. PICK more : more = Append(q.added, k)
    OBVIOUS
  <2>. PICK p : p = [q EXCEPT !.stack = rest, !.added = more]
    OBVIOUS
  <2>1. p = [at |-> q.at, offer |-> q.offer, asked |-> q.asked, units |-> q.units,
             stack |-> rest, added |-> more, ok |-> q.ok]
    BY <1>5
  <2>2. p.at = "loading" /\ p.added = more /\ IsProbe(p)
    BY <1>1, <2>1 DEF IsProbe
  <2>b. probe' = [probe EXCEPT ![v] = p] /\ cells' = Put(k, cells)
    BY <1>7 DEF LoadTarget
  <2>c. bare' = (bare \/ (k \in Delta /\ \E s \in Spans[k] \ torn : cells[s] # HeldBefore(k, s)))
    BY <1>7, Zenon DEF LoadTarget
  <2>3. /\ probe' = [probe EXCEPT ![v] = p] /\ cells' = Put(k, cells)
        /\ (~bare' => ~bare /\ (k \in Delta => \A s \in Spans[k] \ torn : cells[s] = HeldBefore(k, s)))
        /\ (bare => bare')
    BY <2>b, <2>c, Zenon
  <2>4. IsList(more)
    <3>1. Longer(q.added, k, Append(q.added, k))
      BY <1>2, ListAppend
    <3>. QED  BY <3>1 DEF Longer
  <2>5. ProbeTyped(p) /\ HasLock(p)
    BY <2>2, <2>4 DEF ProbeTyped, HasLock
  <2>6. ASSUME ~bare' PROVE LayeredOn(p.added, cells')
    <3>. PICK list : list = q.added
      OBVIOUS
    <3>1. ~bare /\ (k \in Delta => \A s \in Spans[k] \ torn : cells[s] = HeldBefore(k, s))
      BY <2>3, <2>6
    <3>2. IsList(list) /\ Layered(list)
      BY <1>2, <1>4, <3>1 DEF Layered
    <3>3. LayeredOn(Append(list, k), Put(k, cells))
      BY <3>1, <3>2, OneMoreLaid
    <3>. QED  BY <2>2, <2>3, <3>3
  <2>. QED  BY <1>3, <2>3, <2>5, <2>6, ProbeTo
<1>8. CASE ~isApplied(k) /\ ~works
  <2>. PICK p : p = [q EXCEPT !.at = "leaving"]
    OBVIOUS
  <2>1. p.at = "leaving" /\ p.added = q.added /\ IsProbe(p)
    BY <1>5 DEF IsProbe
  <2>2. probe' = [probe EXCEPT ![v] = p] /\ UNCHANGED <<cells, bare>>
    BY <1>8 DEF LoadTarget
  <2>3. ProbeTyped(p) /\ HasLock(p)
    BY <1>2, <2>1 DEF ProbeTyped, HasLock
  <2>4. HasLock(p) /\ ~bare' => LayeredOn(p.added, cells')
    BY <1>4, <2>1, <2>2
  <2>. QED  BY <1>3, <2>2, <2>3, <2>4, ProbeTo
<1>. QED  BY <1>6, <1>7, <1>8

LEMMA AnswerKeeps ==
  ASSUME PutBackInv, NEW v \in Visitor, NEW answers, AskModel(v, answers)
  PROVE  PutBackInv'
<1>1. probe[v].at = "loading" /\ UNCHANGED <<rights, pins, cells, bare, torn>>
  BY DEF AskModel
<1>2. InSection(v) /\ IsProbe(probe[v]) /\ IsList(probe[v].added)
  BY <1>1, ProbeShape DEF InSection, HasLock
<1>3. Kept /\ torn' = torn /\ \A w \in Visitor : w # v => ~InSection(w)
  BY <1>1, <1>2 DEF Kept, PutBackInv, OneInside
<1>4. ~bare => LayeredOn(probe[v].added, cells)
  BY <1>2 DEF PutBackInv, SectionShown, Layered
<1>. PICK q : q = probe[v]
  OBVIOUS
<1>5. q = [at |-> q.at, offer |-> q.offer, asked |-> q.asked, units |-> q.units,
           stack |-> q.stack, added |-> q.added, ok |-> q.ok]
  BY <1>2 DEF IsProbe
<1>. PICK p : p = [q EXCEPT !.at = "leaving", !.ok = answers]
  OBVIOUS
<1>6. p = [at |-> "leaving", offer |-> q.offer, asked |-> q.asked, units |-> q.units,
           stack |-> q.stack, added |-> q.added, ok |-> answers]
  BY <1>5
<1>7. p.at = "leaving" /\ p.added = q.added /\ IsProbe(p)
  BY <1>6 DEF IsProbe
<1>8. probe' = [probe EXCEPT ![v] = p]
  BY DEF AskModel
<1>9. ProbeTyped(p) /\ HasLock(p)
  BY <1>2, <1>7 DEF ProbeTyped, HasLock
<1>10. HasLock(p) /\ ~bare' => LayeredOn(p.added, cells')
  BY <1>1, <1>4, <1>7
<1>. QED  BY <1>1, <1>3, <1>8, <1>9, <1>10, ProbeTo

LEMMA LeaveKeeps ==
  ASSUME PutBackInv, NEW v \in Visitor, LeaveSection(v)
  PROVE  PutBackInv'
<1>. PICK list : list = probe[v].added
  OBVIOUS
<1>1. /\ probe[v].at = "leaving" /\ UNCHANGED <<rights, pins, bare>>
      /\ probe' = [probe EXCEPT ![v] = NoProbe]
  BY DEF LeaveSection
<1>2. PICK off \in SUBSET DOMAIN list, on \in SUBSET DOMAIN pins :
        IF list = <<>>
        THEN UNCHANGED <<cells, torn>>
        ELSE /\ cells' = reassertPinned(on, TakenOff(list, off, cells))
             /\ torn' = torn \cup LeftBy(list, off, on)
  BY DEF LeaveSection
<1>3. InSection(v) /\ IsList(list)
  BY <1>1, ProbeShape DEF InSection, HasLock
<1>4. Kept /\ ProbeTyped(NoProbe) /\ ~HasLock(NoProbe)
  BY <1>1 DEF Kept, ProbeTyped, HasLock, NoProbe
<1>5. torn \subseteq torn'
  BY <1>2
<1>6. ASSUME ~bare', NEW s \in Spots \ torn' PROVE cells'[s] = PinnedTable(pins)[s]
  <2>1. Layered(list)
    BY <1>1, <1>3, <1>6 DEF PutBackInv, SectionShown
  <2>2. CASE list = <<>>
    <3>. PICK t : t = PinnedTable(pins)
      OBVIOUS
    <3>1. Overlay(<<>>, t)[s] = t[s]
      BY NothingOn
    <3>. QED  BY <1>2, <1>6, <2>1, <2>2, <3>1 DEF Layered, LayeredOn
  <2>3. CASE list # <<>>
    <3>1. s \notin torn /\ s \notin LeftBy(list, off, on)
      BY <1>2, <1>6, <2>3
    <3>2. reassertPinned(on, TakenOff(list, off, cells))[s] = PinnedTable(pins)[s]
      BY <1>3, <2>1, <3>1, TakenOffIsPinned DEF PutBackInv
    <3>. QED  BY <1>2, <2>3, <3>2
  <2>. QED  BY <2>2, <2>3
<1>. QED  BY <1>1, <1>3, <1>4, <1>5, <1>6, ProbeTo

LEMMA StopKeeps ==
  ASSUME PutBackInv, NodeStops
  PROVE  PutBackInv'
<1>1. /\ probe' = [v \in Visitor |-> NoProbe] /\ UNCHANGED <<rights, pins, cells, torn>>
      /\ ~bare' => ~bare /\ \A v \in Visitor : probe[v].at # "idle" => probe[v].added = <<>>
  BY DEF NodeStops
<1>2. PinsHeld' /\ PinnedTable(pins)' = PinnedTable(pins)
  BY <1>1, PinsStay DEF PutBackInv, Kept
<1>3. \A v \in Visitor : probe'[v] = NoProbe
  BY <1>1
<1>4. ProbesTyped'
  <2>1. \A v \in Visitor : ProbeTyped(probe[v])'
    BY <1>3 DEF ProbeTyped, NoProbe
  <2>. QED  BY <1>1, <2>1 DEF ProbesTyped
<1>5. \A v \in Visitor : ~InSection(v)'
  BY <1>3 DEF InSection, HasLock, NoProbe
<1>6. OneInside' /\ SectionShown'
  BY <1>5 DEF OneInside, SectionShown
<1>7. ModelIsPutBack'
  <2>1. ASSUME ~bare', NEW s \in Spots \ torn PROVE cells[s] = PinnedTable(pins)[s]
    <3>1. CASE \E v \in Visitor : InSection(v)
      <4>. PICK v \in Visitor : InSection(v)
        BY <3>1
      <4>1. probe[v].added = <<>>
        BY <1>1, <2>1 DEF InSection, HasLock
      <4>2. LayeredOn(<<>>, cells)
        BY <1>1, <2>1, <4>1 DEF PutBackInv, SectionShown, Layered
      <4>. PICK t : t = PinnedTable(pins)
        OBVIOUS
      <4>3. Overlay(<<>>, t)[s] = t[s]
        BY NothingOn
      <4>. QED  BY <4>2, <4>3 DEF LayeredOn
    <3>2. CASE \A v \in Visitor : ~InSection(v)
      <4>1. ~Locks
        BY <3>2 DEF Locks, InSection, HasLock
      <4>. QED  BY <1>1, <2>1, <4>1 DEF PutBackInv, ModelIsPutBack
    <3>. QED  BY <3>1, <3>2
  <2>. QED  BY <1>1, <1>2, <2>1 DEF ModelIsPutBack
<1>. QED  BY <1>2, <1>4, <1>6, <1>7 DEF PutBackInv

LEMMA RightsKeep ==
  ASSUME PutBackInv, NEW k \in KnownItems, NEW r, RightsChange(k, r)
  PROVE  PutBackInv'
<1>1. /\ rights' = [rights EXCEPT ![k] = r] /\ UNCHANGED <<pins, cells, probe, bare, torn>>
      /\ r # "bought" => \A i \in DOMAIN pins : pins[i] # k
  BY DEF RightsChange
<1>2. ProbesTyped' /\ OneInside'
  BY <1>1 DEF PutBackInv, ProbesTyped, ProbeTyped, OneInside, IsProbe, IsList, HasLock, InSection, NoProbe
<1>3. PinsHeld'
  <2>1. PinsHeld /\ DOMAIN pins = 1..Len(pins)
    BY DEF PutBackInv, PinsHeld, IsList
  <2>2. rights' = [j \in KnownItems |-> rights'[j]]
    BY <1>1, <2>1 DEF PinsHeld
  <2>3. \A i \in 1..Len(pins) : pins[i] \in KnownItems /\ rights'[pins[i]] = "bought"
    BY <1>1, <2>1 DEF PinsHeld
  <2>. QED  BY <1>1, <2>1, <2>2, <2>3 DEF PinsHeld, IsList
<1>4. SectionShown'
  <2>1. ASSUME ~bare', NEW v \in Visitor, InSection(v)' PROVE Layered(probe[v].added)'
    <3>. PICK list, t : list = probe[v].added /\ t = cells
      OBVIOUS
    <3>1. LayeredOn(list, t)
      BY <1>1, <2>1 DEF PutBackInv, SectionShown, Layered, InSection, HasLock
    <3>2. LayeredOn(list, t)'
      BY <1>1, <3>1, LayeredStays
    <3>. QED  BY <1>1, <3>2 DEF Layered
  <2>. QED  BY <2>1 DEF SectionShown
<1>5. ModelIsPutBack'
  <2>1. PinnedTable(pins)' = PinnedTable(pins)
    BY <1>1
  <2>. QED  BY <1>1, <2>1 DEF PutBackInv, ModelIsPutBack, Locks
<1>. QED  BY <1>2, <1>3, <1>4, <1>5 DEF PutBackInv

\* The operator's stack changes outside every section, and the model with it.
LEMMA StackChanges ==
  ASSUME PutBackInv, NEW k, NEW stack, PinChanges(k, stack), IsList(stack),
         \A i \in 1..Len(stack) : stack[i] \in KnownItems /\ rights[stack[i]] = "bought"
  PROVE  PutBackInv'
<1>1. /\ ~Locks /\ pins' = stack /\ UNCHANGED <<rights, probe, bare, torn>>
      /\ \A s \in Spots \ torn : cells'[s] = PinnedTable(stack)[s]
  BY DEF PinChanges
<1>2. ProbesTyped' /\ OneInside'
  BY <1>1 DEF PutBackInv, ProbesTyped, ProbeTyped, OneInside, IsProbe, IsList, HasLock, InSection, NoProbe
<1>3. PinsHeld'
  BY <1>1 DEF PutBackInv, PinsHeld, IsList
<1>4. SectionShown'
  BY <1>1 DEF SectionShown, InSection, HasLock, Locks
<1>5. ModelIsPutBack'
  <2>1. PinnedTable(pins)' = PinnedTable(stack)
    BY <1>1
  <2>. QED  BY <1>1, <2>1 DEF ModelIsPutBack
<1>. QED  BY <1>2, <1>3, <1>4, <1>5 DEF PutBackInv

LEMMA PinKeeps ==
  ASSUME PutBackInv, NEW k \in KnownItems, Pin(k)
  PROVE  PutBackInv'
<1>. PICK stack : stack = Append(pins, k)
  OBVIOUS
<1>1. IsList(pins) /\ rights[k] = "bought" /\ PinChanges(k, stack)
  BY DEF Pin, PutBackInv, PinsHeld
<1>2. Longer(pins, k, Append(pins, k))
  BY <1>1, ListAppend
<1>3. IsList(stack) /\ Len(stack) = Len(pins) + 1 /\ stack[Len(pins) + 1] = k
      /\ \A i \in 1..Len(pins) : stack[i] = pins[i]
  BY <1>2 DEF Longer
<1>4. \A i \in 1..Len(stack) : stack[i] \in KnownItems /\ rights[stack[i]] = "bought"
  <2>1. ASSUME NEW i \in 1..Len(stack) PROVE stack[i] \in KnownItems /\ rights[stack[i]] = "bought"
    <3>. PICK n \in Nat : n = Len(pins)
      BY <1>1 DEF IsList
    <3>1. i \in 1..n \/ i = n + 1
      BY <1>3, <2>1
    <3>. QED  BY <1>1, <1>3, <3>1 DEF PutBackInv, PinsHeld
  <2>. QED  BY <2>1
<1>. QED  BY <1>1, <1>3, <1>4, StackChanges

LEMMA UnpinKeeps ==
  ASSUME PutBackInv, Unpin
  PROVE  PutBackInv'
<1>. PICK stack : stack = Front(pins)
  OBVIOUS
<1>1. IsList(pins) /\ pins # <<>> /\ PinChanges(Last(pins), stack)
  BY DEF Unpin, PutBackInv, PinsHeld
<1>. PICK n \in Nat : n = Len(pins)
  BY <1>1 DEF IsList
<1>. PICK S : pins \in Seq(S)
  BY <1>1, ListInSeq
<1>2. n # 0
  BY <1>1, EmptySeq
<1>3. /\ SubSeq(pins, 1, n - 1) \in Seq(S) /\ Len(SubSeq(pins, 1, n - 1)) = n - 1
      /\ \A i \in 1..(n - 1) : SubSeq(pins, 1, n - 1)[i] = pins[i]
  <2>1. \A i \in 1..(n - 1) : pins[i] \in S
    BY ElementOfSeq
  <2>2. n - 1 \in Int /\ 1 \in Int
    OBVIOUS
  <2>. PICK m \in Int : m = n - 1
    BY <2>2
  <2>3. /\ SubSeq(pins, 1, m) \in Seq(S)
        /\ Len(SubSeq(pins, 1, m)) = IF 1 <= m THEN m - 1 + 1 ELSE 0
        /\ \A i \in 1..(m - 1 + 1) : SubSeq(pins, 1, m)[i] = pins[1 + i - 1]
    BY <2>1, SubSeqProperties
  <2>. QED  BY <1>2, <2>3
<1>4. stack \in Seq(S) /\ Len(stack) = n - 1 /\ \A i \in 1..(n - 1) : stack[i] = pins[i]
  BY <1>3 DEF Front
<1>5. IsList(stack)
  <2>1. Len(stack) \in Nat /\ stack \in [1..Len(stack) -> S]
    BY <1>4, LenProperties
  <2>. QED  BY <2>1 DEF IsList
<1>6. \A i \in 1..Len(stack) : stack[i] \in KnownItems /\ rights[stack[i]] = "bought"
  <2>1. \A i \in 1..n : pins[i] \in KnownItems /\ rights[pins[i]] = "bought"
    BY DEF PutBackInv, PinsHeld
  <2>2. \A i \in 1..(n - 1) : i \in 1..n
    OBVIOUS
  <2>. QED  BY <1>4, <2>1, <2>2
<1>. QED  BY <1>1, <1>5, <1>6, StackChanges

\* Whatever knowledges overlap, fail to load or lose their body under way, the model serves
\* the operator's stack again when a probe of what the model knows has left it (teach.ts
\* withStack): in every cell but those of a body whose removal, or writing again, has failed,
\* and unless a delta went on without its base or the node stopped inside.
THEOREM ModelIsServedAgain == PreflightSpec => []ModelIsPutBack
<1>1. ASSUME PutBackInv, PreflightNext PROVE PutBackInv'
  <2>1. CASE \E v \in Visitor, o \in Offer : Throttled(v, o)
    BY <1>1, <2>1, QuietKeeps DEF Throttled, Kept
  <2>2. CASE \E v \in Visitor, o \in Offer : \E n \in 0..Len(Rows[o]) : AskPreflight(v, o, n)
    BY <1>1, <2>2, AskKeeps
  <2>3. CASE \E v \in Visitor : ResolveTargets(v) \/ EnterSection(v) \/ TurnedAway(v) \/ LeaveSection(v)
    BY <1>1, <2>3, ResolveKeeps, EnterKeeps, TurnedAwayKeeps, LeaveKeeps
  <2>4. CASE \E v \in Visitor, works \in BOOLEAN : LoadTarget(v, works) \/ AskModel(v, works)
    BY <1>1, <2>4, LoadKeeps, AnswerKeeps
  <2>5. CASE \E k \in KnownItems, v \in Visitor : requestPatch(k, v)
    BY <1>1, <2>5, QuietKeeps DEF requestPatch, Kept
  <2>6. CASE \E k \in KnownItems : Pin(k)
    BY <1>1, <2>6, PinKeeps
  <2>7. CASE \E k \in KnownItems : \E r \in {"none", "scored", "bought"} : RightsChange(k, r)
    BY <1>1, <2>7, RightsKeep
  <2>8. CASE \E b \in Bucket : HourEnds(b)
    BY <1>1, <2>8, QuietKeeps DEF HourEnds, Kept
  <2>9. CASE Unpin
    BY <1>1, <2>9, UnpinKeeps
  <2>10. CASE NodeStops
    BY <1>1, <2>10, StopKeeps
  <2>. QED  BY <1>1, <2>1, <2>2, <2>3, <2>4, <2>5, <2>6, <2>7, <2>8, <2>9, <2>10 DEF PreflightNext
<1>2. ASSUME PutBackInv, UNCHANGED preVars PROVE PutBackInv'
  BY <1>2, QuietKeeps DEF preVars, Kept
<1>3. PutBackInv => ModelIsPutBack
  BY DEF PutBackInv
<1>. QED  BY PutBackInit, <1>1, <1>2, <1>3, PTL DEF PreflightSpec

------------------------------------------------------------------------------
(* SharedLease: the holders of the trainer's lease *)

USE SeesAssumption, BoundAssumption DEF At, Go, path, Places, Owner, Mine

\* What IInv says before any process has asked for the lease.
LEMMA InitInvariant == LeaseInit => IInv
<1> SUFFICES ASSUME LeaseInit PROVE IInv
  OBVIOUS
<1>1. Displaced = {}
  BY DEF LeaseInit, Displaced
<1>2. DisplacedInv
  BY <1>1, FS_EmptySet DEF LeaseInit, DisplacedInv
<1>3. TypeOK /\ ClaimsInv /\ ReadInv /\ StraightInv
  BY DEF LeaseInit, TypeOK, ClaimsInv, ReadInv, StraightInv, Lease, NoLease
<1>. QED  BY <1>2, <1>3 DEF IInv

\* Every step leaves the variables in their types.
LEMMA TypeStep == TypeOK /\ ClaimsInv /\ [LeaseNext]_leaseVars => TypeOK'
<1> SUFFICES ASSUME TypeOK, ClaimsInv, [LeaseNext]_leaseVars PROVE TypeOK'
  OBVIOUS
<1> USE DEF TypeOK
<1>0. CASE UNCHANGED leaseVars
  BY <1>0 DEF leaseVars
<1>1. CASE \E p \in Proc : Enter(p) \/ Die(p) \/ WriteHolder(p) \/ Release(p)
                            \/ Unlink(p) \/ Rmdir(p)
  <2>1. ASSUME NEW p \in Proc, claims[p] > 0 PROVE Mine(p) \in Lease
    BY <2>1 DEF Lease
  <2>. QED  BY <1>1, <2>1 DEF Enter, Die, WriteHolder, Release, Unlink, Rmdir, ClaimsInv
<1>2. CASE \E p \in Proc : Mkdir(p)
  <2>1. ASSUME NEW p \in Proc, claims[p] < MaxClaims
        PROVE  claims[p] + 1 \in 0 .. MaxClaims
    BY <2>1
  <2>. QED  BY <1>2, <2>1 DEF Mkdir, ClaimsInv
<1>3. CASE \E p \in Proc : Look(p) \/ Move(p) \/ Discard(p) \/ PutBack(p)
  BY <1>3 DEF Look, Move, Discard, PutBack
<1>. QED  BY <1>0, <1>1, <1>2, <1>3 DEF LeaseNext, Step

\* A process has claims left until its mkdir succeeds, and has made one then.
LEMMA ClaimsStep == TypeOK /\ ClaimsInv /\ [LeaseNext]_leaseVars => ClaimsInv'
<1> SUFFICES ASSUME TypeOK, ClaimsInv, [LeaseNext]_leaseVars PROVE ClaimsInv'
  OBVIOUS
<1> USE DEF TypeOK, ClaimsInv
<1>0. CASE UNCHANGED leaseVars
  BY <1>0 DEF leaseVars
<1>1. CASE \E p \in Proc : Enter(p) \/ Die(p) \/ WriteHolder(p) \/ Release(p)
                            \/ Unlink(p) \/ Rmdir(p)
  BY <1>1 DEF Enter, Die, WriteHolder, Release, Unlink, Rmdir
<1>2. CASE \E p \in Proc : Mkdir(p)
  BY <1>2 DEF Mkdir
<1>3. CASE \E p \in Proc : Look(p) \/ Move(p) \/ Discard(p) \/ PutBack(p)
  BY <1>3 DEF Look, Move, Discard, PutBack
<1>. QED  BY <1>0, <1>1, <1>2, <1>3 DEF LeaseNext, Step

\* The lease at the path is somebody's, and what a process is about to move was dead
\* when it read it: who is dead stays dead.
LEMMA ReadStep ==
  ASSUME TypeOK, ClaimsInv, ReadInv, [LeaseNext]_leaseVars
  PROVE  ReadInv'
<1> USE DEF TypeOK, ReadInv, DeadFor
<1>0. CASE UNCHANGED leaseVars
  BY <1>0 DEF leaseVars
<1>1. CASE \E p \in Proc : Enter(p) \/ Mkdir(p) \/ Release(p) \/ Unlink(p) \/ Rmdir(p)
  BY <1>1 DEF Enter, Mkdir, Release, Unlink, Rmdir
<1>2. CASE \E p \in Proc : WriteHolder(p)
  <2>1. \A p \in Proc : pc[p] = "making" => Mine(p) \in Lease
    BY DEF ClaimsInv, Lease
  <2>. QED  BY <1>2, <2>1 DEF WriteHolder
<1>3. CASE \E p \in Proc : Look(p) \/ Move(p) \/ Discard(p) \/ Die(p)
  BY <1>3 DEF Look, Move, Discard, Die
<1>4. CASE \E p \in Proc : PutBack(p)
  BY <1>4 DEF PutBack
<1>. QED  BY <1>0, <1>1, <1>2, <1>3, <1>4 DEF LeaseNext, Step

\* The processes displaced after a step are displaced before it, but for one whose
\* lease a reclaiming process moves, or a displaced process deletes as it leaves.
LEMMA DisplacedMove ==
  ASSUME TypeOK, ReadInv, LeaseNext
  PROVE  \/ astray' = astray /\ Displaced' \subseteq Displaced
         \/ astray' = astray + 1 /\ Displaced' \subseteq Displaced \cup {Owner(holder)}
         \/ /\ astray' = astray
            /\ \E p \in Displaced : Displaced' \subseteq (Displaced \ {p}) \cup {Owner(holder)}
<1> USE DEF TypeOK, Displaced
<1>1. PICK p \in Proc : Enter(p) \/ Step(p) \/ Die(p)
  BY DEF LeaseNext
<1>2. CASE Enter(p) \/ Die(p)
  BY <1>2 DEF Enter, Die
<1>3. CASE Mkdir(p)
  BY <1>3 DEF Mkdir
<1>4. CASE WriteHolder(p)
  BY <1>4 DEF WriteHolder
<1>5. CASE Release(p)
  BY <1>5 DEF Release
<1>6. CASE Unlink(p)
  <2>1. astray' = astray /\ alive' = alive /\ claims' = claims /\ pc' = [pc EXCEPT ![p] = "removing"]
        /\ p \in alive /\ pc[p] = "unlinking"
    BY <1>6 DEF Unlink
  <2>2. p \notin Displaced'
    BY <2>1
  <2>3. \A q \in Displaced' : q \in Displaced \/ q = Owner(holder)
    BY <1>6 DEF Unlink
  <2>4. CASE p \in Displaced
    BY <2>1, <2>2, <2>3, <2>4
  <2>5. CASE p \notin Displaced
    <3>1. Owner(holder) = p
      BY <2>1, <2>5
    <3>. QED  BY <2>1, <2>2, <2>3, <3>1
  <2>. QED  BY <2>4, <2>5
<1>7. CASE Rmdir(p)
  BY <1>7 DEF Rmdir
<1>8. CASE Look(p)
  BY <1>8 DEF Look
<1>9. CASE Move(p)
  <2>1. \A q \in Displaced' : q \in Displaced \/ (slot = "named" /\ q = Owner(holder) /\ q \in alive)
    BY <1>9 DEF Move
  <2>2. CASE slot = "named" /\ holder # seen[p]
    BY <1>9, <2>1, <2>2 DEF Move
  <2>3. CASE ~(slot = "named" /\ holder # seen[p])
    <3>1. astray' = astray
      BY <1>9, <2>3 DEF Move
    <3>2. slot = "named" => Owner(holder) \notin alive
      BY <1>9, <2>3 DEF Move, ReadInv, DeadFor
    <3>. QED  BY <2>1, <3>1, <3>2
  <2>. QED  BY <2>2, <2>3
<1>10. CASE Discard(p)
  BY <1>10 DEF Discard
<1>11. CASE PutBack(p)
  BY <1>11 DEF PutBack
<1>. QED  BY <1>1, <1>2, <1>3, <1>4, <1>5, <1>6, <1>7, <1>8, <1>9, <1>10, <1>11 DEF Step

\* A set with one more element has at most one more.
LEMMA OneMore ==
  ASSUME NEW S, IsFiniteSet(S), NEW x
  PROVE  /\ IsFiniteSet(S \cup {x}) /\ Cardinality(S) \in Nat /\ Cardinality(S \cup {x}) \in Nat
         /\ Cardinality(S \cup {x}) <= Cardinality(S) + 1
<1>1. Cardinality(S) \in Nat
  BY FS_CardinalityType
<1>2. IsFiniteSet(S \cup {x})
  BY FS_AddElement
<1>3. Cardinality(S \cup {x}) = IF x \in S THEN Cardinality(S) ELSE Cardinality(S) + 1
  BY FS_AddElement
<1>. QED  BY <1>1, <1>2, <1>3

\* No more processes are displaced than leases were moved astray.
LEMMA DisplacedStep ==
  ASSUME TypeOK, ReadInv, DisplacedInv, [LeaseNext]_leaseVars
  PROVE  DisplacedInv'
<1> USE DEF TypeOK, DisplacedInv
<1> DEFINE o == Owner(holder)
<1>0. CASE UNCHANGED leaseVars
  BY <1>0 DEF leaseVars, Displaced
<1>1. Cardinality(Displaced) \in Nat
  BY FS_CardinalityType
<1>2. CASE astray' = astray /\ Displaced' \subseteq Displaced
  <2>1. IsFiniteSet(Displaced') /\ Cardinality(Displaced') <= Cardinality(Displaced)
    BY <1>2, FS_Subset
  <2>2. Cardinality(Displaced') \in Nat
    BY <2>1, FS_CardinalityType
  <2>. QED  BY <1>1, <1>2, <2>1, <2>2
<1>3. CASE astray' = astray + 1 /\ Displaced' \subseteq Displaced \cup {o}
  <2>1. IsFiniteSet(Displaced \cup {o}) /\ Cardinality(Displaced \cup {o}) <= Cardinality(Displaced) + 1
        /\ Cardinality(Displaced \cup {o}) \in Nat
    BY OneMore
  <2>2. IsFiniteSet(Displaced') /\ Cardinality(Displaced') <= Cardinality(Displaced \cup {o})
    BY <1>3, <2>1, FS_Subset
  <2>3. Cardinality(Displaced') \in Nat
    BY <2>2, FS_CardinalityType
  <2>. QED  BY <1>1, <1>3, <2>1, <2>2, <2>3
<1>4. ASSUME astray' = astray, NEW p \in Displaced, Displaced' \subseteq (Displaced \ {p}) \cup {o}
      PROVE  DisplacedInv'
  <2>1. IsFiniteSet(Displaced \ {p}) /\ Cardinality(Displaced \ {p}) = Cardinality(Displaced) - 1
    BY FS_RemoveElement
  <2>2. Cardinality(Displaced \ {p}) \in Nat
    BY <2>1, FS_CardinalityType
  <2>3. /\ IsFiniteSet((Displaced \ {p}) \cup {o})
        /\ Cardinality((Displaced \ {p}) \cup {o}) \in Nat
        /\ Cardinality((Displaced \ {p}) \cup {o}) <= Cardinality(Displaced \ {p}) + 1
    BY <2>1, OneMore
  <2>4. /\ IsFiniteSet(Displaced')
        /\ Cardinality(Displaced') <= Cardinality((Displaced \ {p}) \cup {o})
    BY <1>4, <2>3, FS_Subset
  <2>5. Cardinality(Displaced') \in Nat
    BY <2>4, FS_CardinalityType
  <2>. QED  BY <1>1, <1>4, <2>1, <2>3, <2>4, <2>5
<1>. QED  BY <1>0, <1>2, <1>3, <1>4, DisplacedMove

\* A step that moves nothing astray, when nothing was before, keeps what the lease
\* at the path and the one moved aside are.
LEMMA StraightStep ==
  ASSUME IInv, [LeaseNext]_leaseVars
  PROVE  StraightInv'
<1> USE DEF IInv, TypeOK, StraightInv
<1>0. CASE UNCHANGED leaseVars
  BY <1>0 DEF leaseVars
<1>1. SUFFICES ASSUME LeaseNext, astray' = 0 PROVE StraightInv'
  BY <1>0
<1>2. PICK p \in Proc : Enter(p) \/ Step(p) \/ Die(p)
  BY <1>1 DEF LeaseNext
<1>3. astray = 0
  BY <1>1, <1>2 DEF Enter, Step, Die, Mkdir, WriteHolder, Release, Unlink, Rmdir, Look, Move, Discard, PutBack
<1>4. CASE Enter(p) \/ Mkdir(p) \/ Look(p) \/ Discard(p) \/ Rmdir(p)
  BY <1>3, <1>4 DEF Enter, Mkdir, Look, Discard, Rmdir
<1>5. CASE WriteHolder(p)
  BY <1>3, <1>5 DEF WriteHolder
<1>6. CASE Release(p)
  BY <1>3, <1>6 DEF Release
<1>7. CASE Unlink(p)
  BY <1>3, <1>7 DEF Unlink
<1>8. CASE Move(p)
  <2>1. slot # "named" => holder = NoLease
    BY DEF ReadInv
  <2>2. slot = "named" => holder = seen[p] \/ slot' = slot
    BY <1>1, <1>3, <1>8 DEF Move
  <2>. QED  BY <1>3, <1>8, <2>1, <2>2 DEF Move
<1>9. CASE PutBack(p)
  BY <1>3, <1>9 DEF PutBack
<1>10. CASE Die(p)
  BY <1>3, <1>10 DEF Die
<1>. QED  BY <1>2, <1>4, <1>5, <1>6, <1>7, <1>8, <1>9, <1>10 DEF Step

\* The inductive invariant holds in every reachable state.
THEOREM Invariant == LeaseSpec => []IInv
<1>1. LeaseInit => IInv
  BY InitInvariant
<1>2. IInv /\ [LeaseNext]_leaseVars => IInv'
  BY TypeStep, ClaimsStep, ReadStep, DisplacedStep, StraightStep DEF IInv
<1>. QED  BY <1>1, <1>2, PTL DEF LeaseSpec

\* No more running processes hold the lease than one and the leases that were moved
\* although another was read (claimSharedLease and reclaimDeadSharedLease).
THEOREM HoldersStayCounted == LeaseSpec => []HoldersAreCounted
<1>1. ASSUME IInv PROVE HoldersAreCounted
  <2> DEFINE Holders == {p \in Proc : At(p, "held")}
             o == Owner(holder)
  <2>1. Holders \subseteq Displaced \cup {o}
    BY DEF Displaced
  <2>2. IsFiniteSet(Displaced) /\ Cardinality(Displaced) \in Nat
    BY <1>1, FS_CardinalityType DEF IInv, DisplacedInv
  <2>3. /\ IsFiniteSet(Displaced \cup {o})
        /\ Cardinality(Displaced \cup {o}) <= Cardinality(Displaced) + 1
        /\ Cardinality(Displaced \cup {o}) \in Nat
    BY <2>2, OneMore
  <2>4. IsFiniteSet(Holders) /\ Cardinality(Holders) <= Cardinality(Displaced \cup {o})
    BY <2>1, <2>3, FS_Subset
  <2>5. Cardinality(Holders) \in Nat
    BY <2>4, FS_CardinalityType
  <2>. QED  BY <1>1, <2>2, <2>3, <2>4, <2>5 DEF IInv, TypeOK, DisplacedInv, HoldersAreCounted
<1>. QED  BY <1>1, Invariant, PTL

\* Until a lease is moved astray, a lease left at the path by its holder's death is a
\* dead process's.
THEOREM NoneLeft == LeaseSpec => []LeaseIsHeld
<1>1. IInv => LeaseIsHeld
  BY DEF IInv, StraightInv, LeaseIsHeld
<1>. QED  BY <1>1, Invariant, PTL

\* A displaced process has a lease moved astray to thank for it.
LEMMA NoneDisplaced == IInv /\ astray = 0 => Displaced = {}
<1> SUFFICES ASSUME IInv, astray = 0 PROVE Displaced = {}
  OBVIOUS
<1>1. Cardinality(Displaced) = 0
  BY FS_CardinalityType DEF IInv, DisplacedInv
<1>. QED  BY <1>1, FS_EmptySet DEF IInv, DisplacedInv

\* A step that changes the holder at the path, with no lease moved astray so far, is
\* the holder's own release, a claim, or takes back the dead lease that was read.
LEMMA HolderChanges ==
  ASSUME IInv, LeaseNext, slot = "named", holder' # holder, astray' = 0
  PROVE  \/ \E q \in Proc : Unlink(q) /\ q \in alive /\ Owner(holder) = q
         \/ \E q \in Proc : DeadFor(q, holder)
<1> USE DEF IInv, TypeOK
<1>1. PICK q \in Proc : Step(q)
  BY DEF LeaseNext, Enter, Die
<1>2. astray = 0
  BY <1>1 DEF Step, Mkdir, WriteHolder, Release, Unlink, Rmdir, Look, Move, Discard, PutBack
<1>3. CASE Unlink(q)
  <2>1. Displaced = {}
    BY <1>2, NoneDisplaced
  <2>2. q \in alive /\ holder = Mine(q)
    BY <1>3, <2>1 DEF Unlink, Displaced
  <2>. QED  BY <1>3, <2>2
<1>4. CASE Move(q)
  BY <1>2, <1>4 DEF Move, ReadInv, DeadFor
<1>5. CASE WriteHolder(q) \/ PutBack(q)
  BY <1>5 DEF WriteHolder, PutBack
<1>. QED  BY <1>1, <1>3, <1>4, <1>5 DEF Step, Mkdir, Release, Rmdir, Look, Discard

\* A live lease is not broken (the comment on exclusiveTry) until a lease was moved
\* that was not the one read.
THEOREM NeverBroken == LeaseSpec => LiveLeaseStays
<1>1. IInv /\ [LeaseNext]_leaseVars =>
        [\A p \in Proc :
           slot = "named" /\ Owner(holder) = p /\ p \in alive /\ holder' # holder
             => \/ pc[p] = "unlinking" /\ pc'[p] = "removing"
                \/ astray' > 0]_leaseVars
  <2> SUFFICES ASSUME IInv, LeaseNext, NEW p \in Proc, slot = "named",
                      Owner(holder) = p, p \in alive, holder' # holder, ~(astray' > 0)
               PROVE  pc[p] = "unlinking" /\ pc'[p] = "removing"
    BY DEF leaseVars
  <2>1. astray' = 0
    BY TypeStep DEF IInv, TypeOK
  <2>2. PICK q \in Proc : Unlink(q) /\ q = p
    BY <2>1, HolderChanges DEF DeadFor
  <2>. QED  BY <2>2 DEF Unlink, IInv, TypeOK
<1>. QED  BY <1>1, Invariant, PTL DEF LeaseSpec, LiveLeaseStays

\* Until then a dead lease nobody may judge stays where it is (leaseLiveness 'unknown').
THEOREM UnknownKept == LeaseSpec => UnknownStays
<1>1. IInv /\ [LeaseNext]_leaseVars =>
        [slot = "named" /\ Owner(holder) \notin alive
           /\ (\A p \in Proc : Owner(holder) \notin Sees[p])
         => holder' = holder \/ astray' > 0]_leaseVars
  <2> SUFFICES ASSUME IInv, LeaseNext, slot = "named", Owner(holder) \notin alive,
                      \A p \in Proc : Owner(holder) \notin Sees[p],
                      ~(astray' > 0), holder' # holder
               PROVE  FALSE
    BY DEF leaseVars
  <2>1. astray' = 0
    BY TypeStep DEF IInv, TypeOK
  <2>. QED  BY <2>1, HolderChanges DEF DeadFor
<1>. QED  BY <1>1, Invariant, PTL DEF LeaseSpec, UnknownStays
==============================================================================
