--------------------------- MODULE TeachingProofs ---------------------------
(* Machine-checked theorems about Teaching, for any set of jobs, any number of
   drafts, stops and restarts, and every way to publish.                      *)
EXTENDS Teaching, FiniteSums, SequenceTheorems, TLAPS

-----------------------------------------------------------------------------
(* Teaching: the file of a lesson, and the word given to who cancelled it.   *)

\* The rows, the publishing calls and the worker have the fields the handlers write.
IsRow(r) ==
  r = [st |-> r.st, cancel |-> r.cancel, applied |-> r.applied, blocked |-> r.blocked,
       waited |-> r.waited, files |-> r.files, side |-> r.side, draft |-> r.draft,
       pub |-> r.pub, checks |-> r.checks, restarted |-> r.restarted, snap |-> r.snap]
IsCall(p) == p = [at |-> p.at, draft |-> p.draft]
WorkerShape(w) ==
  /\ w = [pc |-> w.pc, job |-> w.job, res |-> w.res, draft |-> w.draft]
  /\ IF w.pc = "idle" THEN w.job = NoJob ELSE w.job \in Jobs
RowsTyped == job = [j \in Jobs |-> job[j]] /\ \A j \in Jobs : IsRow(job[j])
CallsTyped ==
  /\ asked = [j \in Jobs |-> asked[j]] /\ publishing = [j \in Jobs |-> publishing[j]]
  /\ \A j \in Jobs : IsCall(publishing[j])
TeachTyped == RowsTyped /\ CallsTyped /\ WorkerShape(worker)

\* The worker holds a lesson, or takes off one whose check a crash cut short.
Busy(j) == worker.job = j /\ (worker.pc = "restore" => worker.res = "bad")
\* Its owner was told CANCELLED, and nothing excuses the worker.
Told(j) == j \in told \ (Excused("late") \cup Excused("undone"))
Ending == {"drafting", "drafted"}
Offered == {"READY", "NEEDS_MORE", "PENDING_REVIEW", "ANNOUNCED"}

\* A row that is new was seen by nobody.
NewIsNew(j) ==
  /\ asked[j] # 0 => job[j].st = "NEW"
  /\ job[j].st = "NEW" =>
       ~job[j].applied /\ worker.job # j /\ j \notin restore /\ j \notin told
         /\ publishing[j].at = "no"
\* What is on the shared model is flagged in its row, and its file is there.
FlaggedOnTable(j) ==
  /\ Lesson(j) \in table => job[j].files = "npz" /\ job[j].applied
  /\ worker.job = j /\ worker.pc = "flagged" => job[j].applied
\* The lesson the worker holds is under way, or was cancelled with the flag the worker reads.
HeldIsActive(j) ==
  Busy(j) => job[j].st \in Active \/ (job[j].st = "CANCELLED" /\ job[j].cancel)
\* A lesson is published only after it was measured, and is not measured again meanwhile.
PublishedWasChecked(j) ==
  /\ publishing[j].at # "no" => job[j].checks = "ok" /\ job[j].st \notin Active /\ ~Busy(j)
  /\ job[j].st = "PENDING_REVIEW" => job[j].checks = "ok"
\* A lesson that was cancelled is not offered, and carries the flag while a step may come.
CancelledStays(j) ==
  Told(j) =>
    /\ publishing[j].at = "no" /\ job[j].st \notin Offered
    /\ job[j].st \in Active \/ Busy(j) => job[j].cancel
    /\ ~(worker.job = j /\ worker.pc \in Ending)
LessonSound(j) ==
  NewIsNew(j) /\ FlaggedOnTable(j) /\ HeldIsActive(j) /\ PublishedWasChecked(j) /\ CancelledStays(j)
TeachSound == TeachTyped /\ \A j \in Jobs : LessonSound(j)

LEMMA TeachSoundInit ==
  ASSUME TeachInit
  PROVE  TeachSound
<1>1. /\ job = [j \in Jobs |-> NewRow] /\ asked = [j \in Jobs |-> 0] /\ worker = Idle
      /\ publishing = [j \in Jobs |-> NotPublishing] /\ restore = {} /\ table = {} /\ told = {}
  BY DEF TeachInit
<1>2. TeachTyped
  BY <1>1 DEF TeachTyped, RowsTyped, CallsTyped, WorkerShape, IsRow, IsCall, NewRow, NotPublishing, Idle
<1>3. ASSUME NEW j \in Jobs PROVE LessonSound(j)
  <2>1. job[j].st = "NEW" /\ ~job[j].applied /\ asked[j] = 0 /\ publishing[j].at = "no"
    BY <1>1 DEF NewRow, NotPublishing
  <2>2. worker.job = NoJob /\ worker.job # j /\ ~Told(j)
    BY <1>1, TeachAssumption DEF Idle, Told
  <2>. QED  BY <1>1, <2>1, <2>2 DEF LessonSound, NewIsNew, FlaggedOnTable, HeldIsActive,
              PublishedWasChecked, CancelledStays, Busy
<1>. QED  BY <1>2, <1>3 DEF TeachSound

\* What a step leaves of a lesson it is not about.
Elsewhere(k) ==
  /\ asked'[k] \in {asked[k], 0} /\ publishing'[k] \in {publishing[k], NotPublishing}
  /\ Lesson(k) \in table' => Lesson(k) \in table
  /\ k \in restore' => k \in restore
  /\ k \in told' => k \in told
  /\ astray \subseteq astray'
  /\ worker'.job = k => worker' = worker

LEMMA ElsewhereSound ==
  ASSUME NEW k \in Jobs, LessonSound(k), job'[k] = job[k], Elsewhere(k)
  PROVE  LessonSound(k)'
<1>1. publishing'[k].at = "no" \/ publishing'[k] = publishing[k]
  BY DEF Elsewhere, NotPublishing
<1>2. Told(k)' => Told(k)
  BY DEF Told, Excused, Elsewhere
<1>3. /\ Busy(k)' => Busy(k)
      /\ worker'.job = k => worker' = worker
  BY DEF Busy, Elsewhere
<1>4. NewIsNew(k)'
  BY <1>1, <1>3 DEF LessonSound, NewIsNew, Elsewhere
<1>5. FlaggedOnTable(k)'
  BY <1>3 DEF LessonSound, FlaggedOnTable, Elsewhere, Lesson
<1>6. HeldIsActive(k)' /\ PublishedWasChecked(k)'
  BY <1>1, <1>3 DEF LessonSound, HeldIsActive, PublishedWasChecked
<1>7. CancelledStays(k)'
  BY <1>1, <1>2, <1>3 DEF LessonSound, CancelledStays
<1>. QED  BY <1>4, <1>5, <1>6, <1>7 DEF LessonSound

LEMMA RowPut ==
  ASSUME RowsTyped, NEW j \in Jobs, NEW r, IsRow(r), job' = [job EXCEPT ![j] = r]
  PROVE  RowsTyped' /\ job'[j] = r /\ \A k \in Jobs : k # j => job'[k] = job[k]
BY DEF RowsTyped, IsRow

\* A step about one lesson.
LEMMA OneLesson ==
  ASSUME TeachSound, NEW j \in Jobs, RowsTyped', CallsTyped', WorkerShape(worker)',
         \A k \in Jobs : k # j => job'[k] = job[k] /\ Elsewhere(k), LessonSound(j)'
  PROVE  TeachSound'
<1>1. \A k \in Jobs : k # j => LessonSound(k)'
  BY ElsewhereSound DEF TeachSound
<1>. QED  BY <1>1 DEF TeachSound, TeachTyped

\* A step about none.
LEMMA NoLesson ==
  ASSUME TeachSound, job' = job, CallsTyped', WorkerShape(worker)', \A k \in Jobs : Elsewhere(k)
  PROVE  TeachSound'
<1>1. \A k \in Jobs : LessonSound(k)'
  BY ElsewhereSound DEF TeachSound
<1>2. RowsTyped'
  BY DEF TeachSound, TeachTyped, RowsTyped, IsRow
<1>. QED  BY <1>1, <1>2 DEF TeachSound, TeachTyped

\* A row that a step rewrites: its status, and what the lesson is not about.
Moved(r, q, s) ==
  /\ IsRow(r) /\ r.st = s /\ r.cancel = q.cancel /\ r.applied = q.applied /\ r.checks = q.checks
  /\ q.applied => r.files = q.files

LEMMA EndedRow ==
  ASSUME NEW q, IsRow(q), NEW s
  PROVE  Moved(Ended(q, s), q, s)
<1>. PICK r : r = Ended(q, s)
  OBVIOUS
<1>1. r = [st |-> s, cancel |-> q.cancel, applied |-> q.applied, blocked |-> FALSE,
           waited |-> FALSE, files |-> q.files, side |-> q.side, draft |-> q.draft,
           pub |-> q.pub, checks |-> q.checks, restarted |-> q.restarted, snap |-> q.snap]
  BY DEF Ended, IsRow
<1>2. Moved(r, q, s)
  BY <1>1 DEF Moved, IsRow
<1>. QED  BY <1>2

LEMMA CleanedRow ==
  ASSUME NEW q, IsRow(q)
  PROVE  Moved(Cleaned(q), q, q.st)
<1>1. CASE q.applied
  BY <1>1 DEF Cleaned, Moved
<1>2. CASE ~q.applied
  <2>. PICK r : r = [q EXCEPT !.files = "none"]
    OBVIOUS
  <2>1. r = [st |-> q.st, cancel |-> q.cancel, applied |-> q.applied, blocked |-> q.blocked,
             waited |-> q.waited, files |-> "none", side |-> q.side, draft |-> q.draft,
             pub |-> q.pub, checks |-> q.checks, restarted |-> q.restarted, snap |-> q.snap]
    BY DEF IsRow
  <2>2. Moved(r, q, q.st)
    BY <1>2, <2>1 DEF Moved, IsRow
  <2>. QED  BY <1>2, <2>2 DEF Cleaned
<1>. QED  BY <1>1, <1>2

LEMMA EndedCleanedRow ==
  ASSUME NEW q, IsRow(q), NEW s
  PROVE  Moved(Ended(Cleaned(q), s), q, s)
<1>. PICK c : c = Cleaned(q)
  OBVIOUS
<1>1. Moved(c, q, q.st)
  BY CleanedRow
<1>2. Moved(Ended(c, s), c, s)
  BY <1>1, EndedRow DEF Moved
<1>. QED  BY <1>1, <1>2 DEF Moved

LEMMA RequeuedRow ==
  ASSUME NEW q, IsRow(q)
  PROVE  Moved(Requeued(q), q, "QUEUED")
<1>. PICK r : r = Requeued(q)
  OBVIOUS
<1>1. r = [st |-> "QUEUED", cancel |-> q.cancel, applied |-> q.applied, blocked |-> FALSE,
           waited |-> q.waited, files |-> q.files, side |-> q.side, draft |-> q.draft,
           pub |-> q.pub, checks |-> q.checks, restarted |-> q.restarted, snap |-> q.snap]
  BY DEF Requeued, IsRow
<1>2. Moved(r, q, "QUEUED")
  BY <1>1 DEF Moved, IsRow
<1>. QED  BY <1>2

LEMMA WaitingRow ==
  ASSUME NEW q, IsRow(q), NEW s
  PROVE  Moved(Waiting(q, s), q, s)
<1>. PICK r : r = Waiting(q, s)
  OBVIOUS
<1>1. r = [st |-> s, cancel |-> q.cancel, applied |-> q.applied, blocked |-> TRUE,
           waited |-> TRUE, files |-> q.files, side |-> q.side, draft |-> q.draft,
           pub |-> q.pub, checks |-> q.checks, restarted |-> q.restarted, snap |-> q.snap]
  BY DEF Waiting, IsRow
<1>2. Moved(r, q, s)
  BY <1>1 DEF Moved, IsRow
<1>. QED  BY <1>2

LEMMA UnblockedRow ==
  ASSUME NEW q, IsRow(q), NEW s
  PROVE  Moved([q EXCEPT !.st = s, !.blocked = FALSE], q, s)
<1>. PICK r : r = [q EXCEPT !.st = s, !.blocked = FALSE]
  OBVIOUS
<1>1. r = [st |-> s, cancel |-> q.cancel, applied |-> q.applied, blocked |-> FALSE,
           waited |-> q.waited, files |-> q.files, side |-> q.side, draft |-> q.draft,
           pub |-> q.pub, checks |-> q.checks, restarted |-> q.restarted, snap |-> q.snap]
  BY DEF IsRow
<1>2. Moved(r, q, s)
  BY <1>1 DEF Moved, IsRow
<1>. QED  BY <1>2

\* What the worker's step leaves: the row it writes fits where the worker goes, and the model.
Fits(j, r) ==
  /\ IsRow(r) /\ r.cancel = job[j].cancel /\ r.st \notin {"NEW", "PENDING_REVIEW"}
  /\ Lesson(j) \in table' => r.files = "npz" /\ r.applied
  /\ worker'.job = j =>
       /\ worker'.pc = "flagged" => r.applied
       /\ worker'.pc # "restore"
       /\ r.st \in Active \/ (r.st = "CANCELLED" /\ r.cancel)
       /\ worker'.pc \in Ending => worker.pc \in Ending \/ ~r.cancel
  /\ r.st \in Offered => worker.pc \in Ending
WorkerOnly(j) ==
  /\ UNCHANGED <<asked, publishing, told, astray>>
  /\ WorkerShape(worker') /\ (worker'.job = j \/ worker' = Idle)
  /\ \A k \in Jobs : k # j => (Lesson(k) \in table' => Lesson(k) \in table) /\ (k \in restore' => k \in restore)

LEMMA WorkerWrites ==
  ASSUME TeachSound, NEW j \in Jobs, worker.job = j, Busy(j), WorkerOnly(j),
         NEW r, job' = [job EXCEPT ![j] = r], Fits(j, r)
  PROVE  TeachSound'
<1>1. RowsTyped' /\ job'[j] = r /\ \A k \in Jobs : k # j => job'[k] = job[k]
  BY RowPut DEF TeachSound, TeachTyped, Fits
<1>2. CallsTyped' /\ WorkerShape(worker)'
  BY DEF TeachSound, TeachTyped, CallsTyped, WorkerOnly, WorkerShape, IsCall
<1>3. ASSUME NEW k \in Jobs, k # j PROVE Elsewhere(k)
  <2>1. asked' = asked /\ publishing' = publishing /\ told' = told /\ astray' = astray
    BY DEF WorkerOnly
  <2>2. worker'.job # k
    BY <1>3, TeachAssumption DEF WorkerOnly, Idle
  <2>. QED  BY <1>3, <2>1, <2>2 DEF Elsewhere, WorkerOnly
<1>4. /\ LessonSound(j) /\ asked' = asked /\ publishing' = publishing /\ told' = told /\ astray' = astray
  BY DEF TeachSound, WorkerOnly
<1>5. publishing[j].at = "no" /\ asked[j] = 0
  BY <1>4, TeachAssumption DEF LessonSound, PublishedWasChecked, NewIsNew
<1>6. Told(j)' <=> Told(j)
  BY <1>4 DEF Told, Excused
<1>7. NewIsNew(j)'
  BY <1>1, <1>4, <1>5 DEF NewIsNew, Fits
<1>8. FlaggedOnTable(j)' /\ HeldIsActive(j)'
  BY <1>1 DEF FlaggedOnTable, HeldIsActive, Fits, Busy, Lesson
<1>9. PublishedWasChecked(j)'
  BY <1>1, <1>4, <1>5 DEF PublishedWasChecked, Fits
<1>10. CancelledStays(j)'
  <2>1. ASSUME Told(j) PROVE job[j].cancel /\ worker.pc \notin Ending
    BY <1>4, <2>1 DEF LessonSound, CancelledStays
  <2>. QED  BY <1>1, <1>4, <1>5, <1>6, <2>1 DEF CancelledStays, Fits
<1>11. LessonSound(j)'
  BY <1>7, <1>8, <1>9, <1>10 DEF LessonSound
<1>. QED  BY <1>1, <1>2, <1>3, <1>11, OneLesson

LEMMA HeldLesson ==
  ASSUME TeachSound, worker.pc # "idle"
  PROVE  /\ worker.job \in Jobs /\ IsRow(job[worker.job]) /\ LessonSound(worker.job)
         /\ worker.pc # "restore" => Busy(worker.job)
BY DEF TeachSound, TeachTyped, RowsTyped, WorkerShape, Busy

\* Only what one lesson put on the model, or owes it, may change.
TableOnly(j) ==
  /\ \A k \in Jobs : (k # j => (Lesson(k) \in table' => Lesson(k) \in table) /\ (k \in restore' => k \in restore))
  /\ UNCHANGED <<asked, publishing, told, astray>>

\* The worker leaves a lesson with a status nobody is offered.
LEMMA LeaveKeepsLesson ==
  ASSUME TeachSound, NEW j \in Jobs, worker.job = j, Busy(j), TableOnly(j),
         NEW r, NEW s, Moved(r, job[j], s), Leave(j, r),
         s \notin Offered \cup {"NEW"}, Lesson(j) \in table' => Lesson(j) \in table
  PROVE  TeachSound'
<1>1. job' = [job EXCEPT ![j] = r] /\ worker' = Idle
  BY DEF Leave, WorkerIdle
<1>2. WorkerShape(worker') /\ worker'.job # j
  BY <1>1, TeachAssumption DEF Idle, WorkerShape
<1>3. WorkerOnly(j)
  BY <1>1, <1>2 DEF WorkerOnly, TableOnly
<1>4. LessonSound(j)
  BY DEF TeachSound
<1>5. Fits(j, r)
  BY <1>2, <1>4 DEF Fits, Moved, Offered, LessonSound, FlaggedOnTable
<1>. QED  BY <1>1, <1>3, <1>5, WorkerWrites

\* ... or goes on with it, which an offered lesson does not allow.
LEMMA GoesOn ==
  ASSUME TeachSound, NEW j \in Jobs, worker.job = j, Busy(j), TableOnly(j), WorkerShape(worker'),
         worker'.job = j, worker'.pc \notin {"restore", "flagged"},
         worker'.pc \in Ending => worker.pc \in Ending \/ ~job[j].cancel,
         NEW r, NEW s, Moved(r, job[j], s), job' = [job EXCEPT ![j] = r],
         s \in Active \/ (s = "CANCELLED" /\ job[j].cancel),
         Lesson(j) \in table' => Lesson(j) \in table
  PROVE  TeachSound'
<1>1. WorkerOnly(j)
  BY DEF WorkerOnly, TableOnly
<1>2. LessonSound(j)
  BY DEF TeachSound
<1>3. Fits(j, r)
  BY <1>2 DEF Fits, Moved, Offered, LessonSound, FlaggedOnTable, Active
<1>. QED  BY <1>1, <1>3, WorkerWrites

\* The lesson keeps its row, where the worker goes on.
LEMMA SameRow ==
  ASSUME TeachSound, NEW j \in Jobs, job' = job
  PROVE  /\ job' = [job EXCEPT ![j] = job[j]] /\ Moved(job[j], job[j], job[j].st)
         /\ Busy(j) => job[j].st \in Active \/ (job[j].st = "CANCELLED" /\ job[j].cancel)
<1>1. RowsTyped /\ IsRow(job[j]) /\ HeldIsActive(j)
  BY DEF TeachSound, TeachTyped, RowsTyped, LessonSound
<1>2. job' = [job EXCEPT ![j] = job[j]]
  BY <1>1 DEF RowsTyped
<1>. QED  BY <1>1, <1>2 DEF Moved, HeldIsActive

\* A cancelled lesson is left.
LEMMA CancelledMoved ==
  ASSUME TeachSound, NEW j \in Jobs
  PROVE  Moved(CancelledRow(j), job[j], "CANCELLED")
<1>. PICK q : q = job[j]
  OBVIOUS
<1>1. IsRow(q)
  BY DEF TeachSound, TeachTyped, RowsTyped
<1>2. Moved(Ended(Cleaned(q), "CANCELLED"), q, "CANCELLED") /\ Moved(q, q, q.st)
  BY <1>1, EndedCleanedRow DEF Moved
<1>3. CASE q.st = "CANCELLED"
  BY <1>2, <1>3 DEF CancelledRow
<1>4. CASE q.st # "CANCELLED"
  BY <1>2, <1>4 DEF CancelledRow
<1>. QED  BY <1>3, <1>4

LEMMA SlotKeeps ==
  ASSUME TeachSound, SlotTaken
  PROVE  TeachSound'
<1>. PICK j : j = worker.job
  OBVIOUS
<1>1. worker.pc = "slot"
  BY DEF SlotTaken
<1>2. j \in Jobs /\ IsRow(job[j]) /\ Busy(j) /\ LessonSound(j) /\ WorkerShape(worker)
  BY <1>1, HeldLesson DEF TeachSound, TeachTyped
<1>3. CASE Cancelled(j)
  <2>1. Leave(j, CancelledRow(j)) /\ UNCHANGED <<asked, publishing, told, astray, table, restore>>
    BY <1>3 DEF SlotTaken
  <2>2. TableOnly(j)
    BY <2>1 DEF TableOnly
  <2>. PICK r, s : r = CancelledRow(j) /\ s = "CANCELLED"
    OBVIOUS
  <2>3. Moved(r, job[j], s)
    BY <1>2, CancelledMoved
  <2>. QED  BY <1>2, <2>1, <2>2, <2>3, LeaveKeepsLesson DEF Offered
<1>4. CASE ~Cancelled(j)
  <2>. PICK r, s : r = [job[j] EXCEPT !.st = s, !.blocked = FALSE] /\ s = "PREFLIGHT"
    OBVIOUS
  <2>1. Moved(r, job[j], s)
    BY <1>2, UnblockedRow
  <2>2. /\ job' = [job EXCEPT ![j].st = "PREFLIGHT", ![j].blocked = FALSE]
        /\ worker' = [worker EXCEPT !.pc = "preflight"]
        /\ table' = table \/ table' = table \cup {Context(j)}
        /\ UNCHANGED <<asked, publishing, told, astray, restore>>
    BY <1>4 DEF SlotTaken
  <2>3. job' = [job EXCEPT ![j] = r]
    BY <1>2, <2>2 DEF TeachSound, TeachTyped, RowsTyped, IsRow
  <2>4. worker'.pc = "preflight" /\ worker'.job = j /\ WorkerShape(worker')
    BY <1>2, <2>2 DEF WorkerShape
  <2>5. TableOnly(j) /\ (Lesson(j) \in table' => Lesson(j) \in table)
    BY <2>2 DEF TableOnly, Lesson, Context
  <2>. QED  BY <1>2, <2>1, <2>3, <2>4, <2>5, GoesOn DEF Active, Ending
<1>. QED  BY <1>3, <1>4

LEMMA PreflightKeeps ==
  ASSUME TeachSound, PreflightDone
  PROVE  TeachSound'
<1>. PICK j : j = worker.job
  OBVIOUS
<1>. PICK q : q = job[j]
  OBVIOUS
<1>1. /\ worker.pc = "preflight" /\ table' = table \ {Context(j)}
      /\ UNCHANGED <<asked, publishing, told, astray, restore>>
  BY DEF PreflightDone
<1>2. j \in Jobs /\ IsRow(q) /\ Busy(j) /\ LessonSound(j) /\ WorkerShape(worker)
  BY <1>1, HeldLesson DEF TeachSound, TeachTyped
<1>3. TableOnly(j) /\ (Lesson(j) \in table' => Lesson(j) \in table)
  BY <1>1 DEF TableOnly
<1>4. CASE job' = [job EXCEPT ![j].st = "TRAINING"] /\ worker' = [worker EXCEPT !.pc = "training"]
  <2>. PICK s : s = "TRAINING"
    OBVIOUS
  <2>. PICK r : r = [q EXCEPT !.st = s]
    OBVIOUS
  <2>1. Moved(r, q, s)
    BY <1>2 DEF Moved, IsRow
  <2>2. job' = [job EXCEPT ![j] = r]
    BY <1>2, <1>4 DEF TeachSound, TeachTyped, RowsTyped, IsRow
  <2>3. worker'.pc = "training" /\ worker'.job = j /\ WorkerShape(worker')
    BY <1>2, <1>4 DEF WorkerShape
  <2>. QED  BY <1>2, <1>3, <2>1, <2>2, <2>3, GoesOn DEF Active, Ending
<1>5. CASE Leave(j, CancelledRow(j))
  <2>. PICK r, s : r = CancelledRow(j) /\ s = "CANCELLED"
    OBVIOUS
  <2>1. Moved(r, q, s)
    BY <1>2, CancelledMoved
  <2>. QED  BY <1>2, <1>3, <1>5, <2>1, LeaveKeepsLesson DEF Offered
<1>6. CASE Leave(j, Ended(q, "FAILED"))
  <2>. PICK r, s : r = Ended(q, s) /\ s = "FAILED"
    OBVIOUS
  <2>1. Moved(r, q, s)
    BY <1>2, EndedRow
  <2>. QED  BY <1>2, <1>3, <1>6, <2>1, LeaveKeepsLesson DEF Offered
<1>7. CASE Leave(j, Waiting(q, "QUEUED"))
  <2>. PICK r, s : r = Waiting(q, s) /\ s = "QUEUED"
    OBVIOUS
  <2>1. Moved(r, q, s)
    BY <1>2, WaitingRow
  <2>. QED  BY <1>2, <1>3, <1>7, <2>1, LeaveKeepsLesson DEF Offered
<1>8. CASE Leave(j, Requeued(q))
  <2>. PICK r, s : r = Requeued(q) /\ s = "QUEUED"
    OBVIOUS
  <2>1. Moved(r, q, s)
    BY <1>2, RequeuedRow
  <2>. QED  BY <1>2, <1>3, <1>8, <2>1, LeaveKeepsLesson DEF Offered
<1>. QED  BY <1>4, <1>5, <1>6, <1>7, <1>8 DEF PreflightDone

LEMMA TrainKeeps ==
  ASSUME TeachSound, TrainDone
  PROVE  TeachSound'
<1>. PICK j : j = worker.job
  OBVIOUS
<1>. PICK q : q = job[j]
  OBVIOUS
<1>1. worker.pc = "training" /\ UNCHANGED <<asked, publishing, told, astray, restore, table>>
  BY DEF TrainDone
<1>2. j \in Jobs /\ IsRow(q) /\ Busy(j) /\ LessonSound(j) /\ WorkerShape(worker)
  BY <1>1, HeldLesson DEF TeachSound, TeachTyped
<1>3. TableOnly(j) /\ (Lesson(j) \in table' => Lesson(j) \in table)
  BY <1>1 DEF TableOnly
<1>4. CASE /\ job' = [job EXCEPT ![j].st = "EXPORTED", ![j].files = "npz", ![j].blocked = FALSE]
           /\ worker' = [worker EXCEPT !.pc = "asking"]
  <2>. PICK r : r = [q EXCEPT !.st = "EXPORTED", !.files = "npz", !.blocked = FALSE]
    OBVIOUS
  <2>1. r = [st |-> "EXPORTED", cancel |-> q.cancel, applied |-> q.applied, blocked |-> FALSE,
             waited |-> q.waited, files |-> "npz", side |-> q.side, draft |-> q.draft,
             pub |-> q.pub, checks |-> q.checks, restarted |-> q.restarted, snap |-> q.snap]
    BY <1>2 DEF IsRow
  <2>2. IsRow(r) /\ r.st = "EXPORTED" /\ r.cancel = q.cancel /\ r.applied = q.applied /\ r.files = "npz"
    BY <2>1 DEF IsRow
  <2>3. job' = [job EXCEPT ![j] = r]
    BY <1>2, <1>4, <2>1 DEF TeachSound, TeachTyped, RowsTyped, IsRow
  <2>4. worker'.pc = "asking" /\ worker'.job = j /\ WorkerShape(worker')
    BY <1>2, <1>4 DEF WorkerShape
  <2>5. WorkerOnly(j)
    BY <1>3, <2>4 DEF WorkerOnly, TableOnly
  <2>6. Fits(j, r)
    BY <1>2, <1>3, <2>2, <2>4 DEF Fits, LessonSound, FlaggedOnTable, Active, Ending, Offered
  <2>. QED  BY <1>2, <2>3, <2>5, <2>6, WorkerWrites
<1>5. CASE Leave(j, CancelledRow(j))
  <2>. PICK r, s : r = CancelledRow(j) /\ s = "CANCELLED"
    OBVIOUS
  <2>1. Moved(r, q, s)
    BY <1>2, CancelledMoved
  <2>. QED  BY <1>2, <1>3, <1>5, <2>1, LeaveKeepsLesson DEF Offered
<1>6. CASE Leave(j, Ended(q, "FAILED"))
  <2>. PICK r, s : r = Ended(q, s) /\ s = "FAILED"
    OBVIOUS
  <2>1. Moved(r, q, s)
    BY <1>2, EndedRow
  <2>. QED  BY <1>2, <1>3, <1>6, <2>1, LeaveKeepsLesson DEF Offered
<1>7. CASE Leave(j, Requeued(q))
  <2>. PICK r, s : r = Requeued(q) /\ s = "QUEUED"
    OBVIOUS
  <2>1. Moved(r, q, s)
    BY <1>2, RequeuedRow
  <2>. QED  BY <1>2, <1>3, <1>7, <2>1, LeaveKeepsLesson DEF Offered
<1>. QED  BY <1>4, <1>5, <1>6, <1>7 DEF TrainDone

\* The answer of a check that measured nothing.
LEMMA AnsweredKeeps ==
  ASSUME TeachSound, NEW j \in Jobs, worker.job = j, worker.pc \in {"asking", "checking"},
         NEW res, Answered(j, res), TableOnly(j), table' = table
  PROVE  TeachSound'
<1>1. IsRow(job[j]) /\ Busy(j) /\ WorkerShape(worker)
  BY HeldLesson DEF TeachSound, TeachTyped
<1>2. CASE Cancelled(j)
  <2>. PICK r, s : r = CancelledRow(j) /\ s = "CANCELLED"
    OBVIOUS
  <2>1. Moved(r, job[j], s)
    BY CancelledMoved
  <2>2. Leave(j, r)
    BY <1>2 DEF Answered
  <2>. QED  BY <1>1, <2>1, <2>2, LeaveKeepsLesson DEF Offered
<1>3. CASE ~Cancelled(j)
  <2>1. job' = job /\ worker' = [worker EXCEPT !.pc = "drafting", !.res = res]
    BY <1>3 DEF Answered
  <2>2. worker'.pc = "drafting" /\ worker'.job = j /\ WorkerShape(worker')
    BY <1>1, <2>1 DEF WorkerShape
  <2>3. ~job[j].cancel
    BY <1>3 DEF Cancelled
  <2>. PICK r, s : r = job[j] /\ s = job[j].st
    OBVIOUS
  <2>4. /\ job' = [job EXCEPT ![j] = r] /\ Moved(r, job[j], s)
        /\ s \in Active \/ (s = "CANCELLED" /\ job[j].cancel)
    BY <1>1, <2>1, SameRow
  <2>. QED  BY <1>1, <2>2, <2>3, <2>4, GoesOn
<1>. QED  BY <1>2, <1>3

LEMMA AskServerKeeps ==
  ASSUME TeachSound, AskServer
  PROVE  TeachSound'
<1>. PICK j : j = worker.job
  OBVIOUS
<1>. PICK q : q = job[j]
  OBVIOUS
<1>1. worker.pc = "asking" /\ UNCHANGED <<asked, publishing, told, astray, table>>
      /\ (restore' = restore \/ restore' = restore \cup KeptForRestore(j))
  BY DEF AskServer
<1>2. j \in Jobs /\ IsRow(q) /\ Busy(j) /\ LessonSound(j) /\ WorkerShape(worker)
  BY <1>1, HeldLesson DEF TeachSound, TeachTyped
<1>3. TableOnly(j) /\ (Lesson(j) \in table' => Lesson(j) \in table)
  BY <1>1 DEF TableOnly, KeptForRestore
<1>4. CASE /\ job' = [job EXCEPT ![j].st = "CHECKING", ![j].blocked = FALSE]
           /\ worker' = [worker EXCEPT !.pc = "checking"]
  <2>. PICK r, s : r = [q EXCEPT !.st = s, !.blocked = FALSE] /\ s = "CHECKING"
    OBVIOUS
  <2>1. Moved(r, q, s)
    BY <1>2, UnblockedRow
  <2>2. job' = [job EXCEPT ![j] = r]
    BY <1>2, <1>4 DEF TeachSound, TeachTyped, RowsTyped, IsRow
  <2>3. worker'.pc = "checking" /\ worker'.job = j /\ WorkerShape(worker')
    BY <1>2, <1>4 DEF WorkerShape
  <2>. QED  BY <1>2, <1>3, <2>1, <2>2, <2>3, GoesOn DEF Active, Ending
<1>5. CASE Leave(j, Waiting(q, "EXPORTED"))
  <2>. PICK r, s : r = Waiting(q, s) /\ s = "EXPORTED"
    OBVIOUS
  <2>1. Moved(r, q, s)
    BY <1>2, WaitingRow
  <2>. QED  BY <1>2, <1>3, <1>5, <2>1, LeaveKeepsLesson DEF Offered
<1>6. CASE Answered(j, "unmeasured")
  BY <1>1, <1>2, <1>3, <1>6, AnsweredKeeps
<1>. QED  BY <1>4, <1>5, <1>6 DEF AskServer

LEMMA CheckBusyKeeps ==
  ASSUME TeachSound, CheckBusy
  PROVE  TeachSound'
<1>. PICK j : j = worker.job
  OBVIOUS
<1>. PICK q : q = job[j]
  OBVIOUS
<1>1. worker.pc = "checking" /\ UNCHANGED <<asked, publishing, told, astray, restore, table>>
  BY DEF CheckBusy
<1>2. j \in Jobs /\ IsRow(q) /\ Busy(j)
  BY <1>1, HeldLesson
<1>3. TableOnly(j) /\ (Lesson(j) \in table' => Lesson(j) \in table)
  BY <1>1 DEF TableOnly
<1>4. CASE Leave(j, Waiting(q, "EXPORTED"))
  <2>. PICK r, s : r = Waiting(q, s) /\ s = "EXPORTED"
    OBVIOUS
  <2>1. Moved(r, q, s)
    BY <1>2, WaitingRow
  <2>. QED  BY <1>2, <1>3, <1>4, <2>1, LeaveKeepsLesson DEF Offered
<1>5. CASE Answered(j, "unmeasured")
  BY <1>1, <1>2, <1>3, <1>5, AnsweredKeeps
<1>. QED  BY <1>4, <1>5 DEF CheckBusy

LEMMA FlagKeeps ==
  ASSUME TeachSound, FlagLesson
  PROVE  TeachSound'
<1>. PICK j : j = worker.job
  OBVIOUS
<1>. PICK q : q = job[j]
  OBVIOUS
<1>1. /\ worker.pc = "checking" /\ UNCHANGED <<asked, publishing, told, astray, restore, table>>
      /\ worker' = [worker EXCEPT !.pc = "flagged"]
      /\ job' = [job EXCEPT ![j] = FlaggedRow(q)]
  BY DEF FlagLesson
<1>2. j \in Jobs /\ IsRow(q) /\ Busy(j) /\ LessonSound(j) /\ WorkerShape(worker)
  BY <1>1, HeldLesson DEF TeachSound, TeachTyped
<1>3. worker'.pc = "flagged" /\ worker'.job = j /\ WorkerShape(worker')
  BY <1>1, <1>2 DEF WorkerShape
<1>. PICK r : r = FlaggedRow(q)
  OBVIOUS
<1>4. r = [st |-> q.st, cancel |-> q.cancel, applied |-> TRUE, blocked |-> q.blocked,
           waited |-> q.waited, files |-> q.files, side |-> q.side, draft |-> q.draft,
           pub |-> q.pub, checks |-> q.checks, restarted |-> q.restarted, snap |-> q.snap]
  BY <1>2 DEF FlaggedRow, IsRow
<1>5. IsRow(r) /\ r.st = q.st /\ r.cancel = q.cancel /\ r.applied /\ r.files = q.files
  BY <1>4 DEF IsRow
<1>6. WorkerOnly(j)
  BY <1>1, <1>3 DEF WorkerOnly
<1>7. Fits(j, r)
  BY <1>1, <1>2, <1>3, <1>5 DEF Fits, LessonSound, FlaggedOnTable, HeldIsActive, Active, Ending, Offered
<1>. QED  BY <1>1, <1>2, <1>6, <1>7, WorkerWrites

LEMMA ApplyKeeps ==
  ASSUME TeachSound, ApplyLesson
  PROVE  TeachSound'
<1>. PICK j : j = worker.job
  OBVIOUS
<1>. PICK r : r = job[j]
  OBVIOUS
<1>1. worker.pc = "flagged" /\ UNCHANGED <<asked, publishing, told, astray, restore, job>>
  BY DEF ApplyLesson
<1>2. j \in Jobs /\ IsRow(r) /\ Busy(j) /\ LessonSound(j) /\ WorkerShape(worker)
  BY <1>1, HeldLesson DEF TeachSound, TeachTyped
<1>3. PICK res : worker' = [worker EXCEPT !.pc = "measuring", !.res = res]
  BY DEF ApplyLesson
<1>4. worker'.pc = "measuring" /\ worker'.job = j /\ WorkerShape(worker')
  BY <1>2, <1>3 DEF WorkerShape
<1>5. /\ \A k \in Jobs : k # j => (Lesson(k) \in table' => Lesson(k) \in table)
      /\ Lesson(j) \in table' => Lesson(j) \in table \/ r.files = "npz"
  <2>1. \A k \in Jobs : Lesson(k) # Context(j) /\ (k # j => Lesson(k) # Lesson(j))
    BY DEF Lesson, Context
  <2>2. \/ table' = table
        \/ table' = table \cup {Context(j)}
        \/ table' = table \cup {Context(j)} \cup {Lesson(j)} /\ r.files = "npz"
    BY DEF ApplyLesson
  <2>. QED  BY <1>2, <2>1, <2>2
<1>6. WorkerOnly(j)
  BY <1>1, <1>4, <1>5 DEF WorkerOnly
<1>7. r.applied
  BY <1>1, <1>2 DEF LessonSound, FlaggedOnTable
<1>8. job' = [job EXCEPT ![j] = r]
  BY <1>1, <1>2, SameRow
<1>9. Fits(j, r)
  BY <1>1, <1>2, <1>4, <1>5, <1>7 DEF Fits, LessonSound, FlaggedOnTable, HeldIsActive, Active, Ending, Offered
<1>. QED  BY <1>2, <1>6, <1>8, <1>9, WorkerWrites

\* The measured lesson is off the model, or its row says that it may not be.
LEMMA MeasureKeeps ==
  ASSUME TeachSound, NEW off \in BOOLEAN, MeasureDone(off)
  PROVE  TeachSound'
<1>. PICK j : j = worker.job
  OBVIOUS
<1>. PICK q : q = job[j]
  OBVIOUS
<1>. PICK row : row = [q EXCEPT !.applied = ~off]
  OBVIOUS
<1>1. worker.pc = "measuring" /\ UNCHANGED <<asked, publishing, told, astray>>
  BY DEF MeasureDone
<1>2. j \in Jobs /\ IsRow(q) /\ Busy(j) /\ LessonSound(j) /\ WorkerShape(worker)
  BY <1>1, HeldLesson DEF TeachSound, TeachTyped
<1>3. row = [st |-> q.st, cancel |-> q.cancel, applied |-> ~off, blocked |-> q.blocked,
             waited |-> q.waited, files |-> q.files, side |-> q.side, draft |-> q.draft,
             pub |-> q.pub, checks |-> q.checks, restarted |-> q.restarted, snap |-> q.snap]
  BY <1>2 DEF IsRow
<1>4. IsRow(row) /\ row.st = q.st /\ row.cancel = q.cancel /\ row.applied = ~off /\ row.files = q.files
  BY <1>3 DEF IsRow
<1>5. /\ table' = IF off THEN table \ {Lesson(j), Context(j)} ELSE table
      /\ restore' = IF off THEN restore ELSE restore \cup {j}
  BY DEF MeasureDone
<1>6. /\ \A k \in Jobs : k # j => (Lesson(k) \in table' => Lesson(k) \in table) /\ (k \in restore' => k \in restore)
      /\ Lesson(j) \in table' => ~off /\ q.files = "npz"
  BY <1>2, <1>5 DEF LessonSound, FlaggedOnTable
<1>7. ASSUME NEW r, NEW s, Moved(r, row, s), s \notin Offered \cup {"NEW"}, Leave(j, r)
      PROVE  TeachSound'
  <2>1. job' = [job EXCEPT ![j] = r] /\ worker' = Idle
    BY <1>7 DEF Leave, WorkerIdle
  <2>2. WorkerShape(worker') /\ worker'.job # j
    BY <1>2, <2>1, TeachAssumption DEF Idle, WorkerShape
  <2>3. WorkerOnly(j)
    BY <1>1, <1>6, <2>1, <2>2 DEF WorkerOnly
  <2>4. Fits(j, r)
    BY <1>4, <1>6, <1>7, <2>2 DEF Fits, Moved, Offered
  <2>. QED  BY <1>2, <2>1, <2>3, <2>4, WorkerWrites
<1>8. CASE Leave(j, Ended(Cleaned(row), "CANCELLED"))
  <2>. PICK r, s : r = Ended(Cleaned(row), s) /\ s = "CANCELLED"
    OBVIOUS
  <2>1. Moved(r, row, s)
    BY <1>4, EndedCleanedRow
  <2>. QED  BY <1>7, <1>8, <2>1 DEF Offered
<1>9. CASE Leave(j, Waiting(row, "EXPORTED"))
  <2>. PICK r, s : r = Waiting(row, s) /\ s = "EXPORTED"
    OBVIOUS
  <2>1. Moved(r, row, s)
    BY <1>4, WaitingRow
  <2>. QED  BY <1>7, <1>9, <2>1 DEF Offered
<1>10. CASE Leave(j, [row EXCEPT !.st = "EXPORTED", !.blocked = FALSE])
  <2>. PICK r, s : r = [row EXCEPT !.st = s, !.blocked = FALSE] /\ s = "EXPORTED"
    OBVIOUS
  <2>1. Moved(r, row, s)
    BY <1>4, UnblockedRow
  <2>. QED  BY <1>7, <1>10, <2>1 DEF Offered
<1>11. CASE Leave(j, Ended(row, "FAILED"))
  <2>. PICK r, s : r = Ended(row, s) /\ s = "FAILED"
    OBVIOUS
  <2>1. Moved(r, row, s)
    BY <1>4, EndedRow
  <2>. QED  BY <1>7, <1>11, <2>1 DEF Offered
<1>12. CASE ~Cancelled(j) /\ job' = [job EXCEPT ![j] = row]
            /\ \E res : worker' = [worker EXCEPT !.pc = "drafting", !.res = res]
  <2>1. worker'.pc = "drafting" /\ worker'.job = j /\ WorkerShape(worker')
    BY <1>2, <1>12 DEF WorkerShape
  <2>2. ~q.cancel
    BY <1>12 DEF Cancelled
  <2>3. WorkerOnly(j)
    BY <1>1, <1>6, <2>1 DEF WorkerOnly
  <2>4. Fits(j, row)
    BY <1>1, <1>2, <1>4, <1>6, <2>1, <2>2 DEF Fits, LessonSound, HeldIsActive, Active, Ending, Offered
  <2>. QED  BY <1>2, <1>12, <2>3, <2>4, WorkerWrites
<1>13. \/ Leave(j, Ended(Cleaned(row), "CANCELLED")) \/ Leave(j, Waiting(row, "EXPORTED"))
       \/ Leave(j, [row EXCEPT !.st = "EXPORTED", !.blocked = FALSE]) \/ Leave(j, Ended(row, "FAILED"))
       \/ (~Cancelled(j) /\ job' = [job EXCEPT ![j] = row]
            /\ \E res : worker' = [worker EXCEPT !.pc = "drafting", !.res = res])
  BY DEF MeasureDone
<1>. QED  BY <1>8, <1>9, <1>10, <1>11, <1>12, <1>13

LEMMA MakeDraftKeeps ==
  ASSUME TeachSound, MakeDraft
  PROVE  TeachSound'
<1>. PICK j : j = worker.job
  OBVIOUS
<1>1. worker.pc = "drafting" /\ UNCHANGED <<asked, publishing, told, astray, restore, table, job>>
  BY DEF MakeDraft
<1>2. j \in Jobs /\ IsRow(job[j]) /\ Busy(j) /\ WorkerShape(worker)
  BY <1>1, HeldLesson DEF TeachSound, TeachTyped
<1>3. PICK d : worker' = [worker EXCEPT !.pc = "drafted", !.draft = d]
  BY DEF MakeDraft
<1>4. worker'.pc = "drafted" /\ worker'.job = j /\ WorkerShape(worker')
  BY <1>2, <1>3 DEF WorkerShape
<1>. PICK r, s : r = job[j] /\ s = job[j].st
  OBVIOUS
<1>5. /\ job' = [job EXCEPT ![j] = r] /\ Moved(r, job[j], s)
      /\ s \in Active \/ (s = "CANCELLED" /\ job[j].cancel)
  BY <1>1, <1>2, SameRow
<1>6. TableOnly(j)
  BY <1>1 DEF TableOnly
<1>. QED  BY <1>1, <1>2, <1>4, <1>5, <1>6, GoesOn DEF Ending

LEMMA DraftFailsKeeps ==
  ASSUME TeachSound, DraftFails
  PROVE  TeachSound'
<1>. PICK j : j = worker.job
  OBVIOUS
<1>. PICK q : q = job[j]
  OBVIOUS
<1>1. worker.pc = "drafting" /\ UNCHANGED <<asked, publishing, told, astray, restore, table>>
  BY DEF DraftFails
<1>2. j \in Jobs /\ IsRow(q) /\ Busy(j)
  BY <1>1, HeldLesson DEF TeachSound, TeachTyped
<1>3. TableOnly(j) /\ (Lesson(j) \in table' => Lesson(j) \in table)
  BY <1>1 DEF TableOnly
<1>. PICK r, s : r = Ended(q, s) /\ s = "FAILED"
  OBVIOUS
<1>4. Moved(r, q, s) /\ Leave(j, r)
  BY <1>2, EndedRow DEF DraftFails
<1>. QED  BY <1>2, <1>3, <1>4, LeaveKeepsLesson DEF Offered

LEMMA FinishDraftKeeps ==
  ASSUME TeachSound, FinishDraft
  PROVE  TeachSound'
<1>. PICK j : j = worker.job
  OBVIOUS
<1>. PICK q : q = job[j]
  OBVIOUS
<1>1. worker.pc = "drafted" /\ UNCHANGED <<asked, publishing, told, astray, restore, table>>
  BY DEF FinishDraft
<1>2. j \in Jobs /\ IsRow(q) /\ Busy(j) /\ LessonSound(j) /\ WorkerShape(worker)
  BY <1>1, HeldLesson DEF TeachSound, TeachTyped
<1>3. PICK st \in {"READY", "NEEDS_MORE"} :
        Leave(j, [Ended(q, st) EXCEPT !.draft = worker.draft, !.checks = worker.res])
  BY DEF FinishDraft
<1>. PICK e : e = Ended(q, st)
  OBVIOUS
<1>4. Moved(e, q, st)
  BY <1>2, EndedRow
<1>. PICK d, c : d = worker.draft /\ c = worker.res
  OBVIOUS
<1>. PICK r : r = [e EXCEPT !.draft = d, !.checks = c]
  OBVIOUS
<1>5. r = [st |-> e.st, cancel |-> e.cancel, applied |-> e.applied, blocked |-> e.blocked,
           waited |-> e.waited, files |-> e.files, side |-> e.side, draft |-> d,
           pub |-> e.pub, checks |-> c, restarted |-> e.restarted, snap |-> e.snap]
  BY ZenonT(30), <1>4 DEF Moved, IsRow
<1>6. IsRow(r) /\ r.st = st /\ r.cancel = q.cancel /\ r.applied = q.applied
      /\ (q.applied => r.files = q.files)
  BY ZenonT(30), <1>4, <1>5 DEF Moved, IsRow
<1>7. job' = [job EXCEPT ![j] = r] /\ worker' = Idle
  BY <1>3 DEF Leave, WorkerIdle
<1>8. WorkerShape(worker') /\ worker'.job # j
  BY <1>2, <1>7, TeachAssumption DEF Idle, WorkerShape
<1>9. WorkerOnly(j)
  BY <1>1, <1>7, <1>8 DEF WorkerOnly
<1>10. Fits(j, r)
  BY <1>1, <1>2, <1>6, <1>8 DEF Fits, LessonSound, FlaggedOnTable, Ending
<1>. QED  BY <1>2, <1>7, <1>9, <1>10, WorkerWrites

\* The worker takes up a lesson it may work on.
LEMMA TakenUp ==
  ASSUME TeachSound, NEW j \in Jobs, worker = Idle, WorkerShape(worker'), worker'.job = j,
         worker'.pc \in {"slot", "asking", "restore"},
         UNCHANGED <<job, asked, publishing, told, astray, table, restore>>,
         job[j].st # "NEW", Busy(j)' => job[j].st \in Active, Busy(j)' /\ Told(j) => job[j].cancel
  PROVE  TeachSound'
<1>1. LessonSound(j) /\ RowsTyped /\ CallsTyped
  BY DEF TeachSound, TeachTyped
<1>2. RowsTyped' /\ CallsTyped' /\ WorkerShape(worker)'
  BY <1>1 DEF RowsTyped, CallsTyped, WorkerShape, IsRow, IsCall
<1>3. ASSUME NEW k \in Jobs, k # j PROVE job'[k] = job[k] /\ Elsewhere(k)
  BY <1>3 DEF Elsewhere
<1>4. worker.job = NoJob /\ worker.job # j
  BY TeachAssumption DEF Idle
<1>5. Told(j)' <=> Told(j)
  BY DEF Told, Excused
<1>6. NewIsNew(j)' /\ FlaggedOnTable(j)' /\ HeldIsActive(j)'
  BY <1>1, <1>4 DEF LessonSound, NewIsNew, FlaggedOnTable, HeldIsActive, Lesson
<1>7. PublishedWasChecked(j)'
  BY <1>1, <1>4 DEF LessonSound, PublishedWasChecked
<1>8. CancelledStays(j)'
  BY <1>1, <1>4, <1>5 DEF LessonSound, CancelledStays, Ending
<1>9. LessonSound(j)'
  BY <1>6, <1>7, <1>8 DEF LessonSound
<1>. QED  BY <1>2, <1>3, <1>9, OneLesson

\* Somebody else writes the row of a lesson: the owner, the operator, the sweep.
OwnStep(j) ==
  /\ worker' = worker /\ asked' = asked /\ CallsTyped'
  /\ table' = table /\ told' \subseteq told \cup {j} /\ astray \subseteq astray'
  /\ \A k \in Jobs : k # j => publishing'[k] = publishing[k] /\ (k \in restore' => k \in restore)
Settles(j, r) ==
  /\ IsRow(r) /\ job[j].st # "NEW" /\ r.st # "NEW" /\ r.applied = job[j].applied
  /\ job[j].applied => r.files = job[j].files
  /\ Busy(j) => r.st \in Active \/ (r.st = "CANCELLED" /\ r.cancel)
  /\ publishing'[j].at # "no" => r.checks = "ok" /\ r.st \notin Active /\ ~Busy(j)
  /\ r.st = "PENDING_REVIEW" => r.checks = "ok"
StaysCancelled(j, r) ==
  /\ publishing'[j].at = "no" /\ r.st \notin Offered
  /\ r.st \in Active \/ Busy(j) => r.cancel
  /\ ~(worker.job = j /\ worker.pc \in Ending)

LEMMA OwnerWrites ==
  ASSUME TeachSound, NEW j \in Jobs, NEW r, job' = [job EXCEPT ![j] = r],
         OwnStep(j), Settles(j, r), Told(j)' => StaysCancelled(j, r)
  PROVE  TeachSound'
<1>1. LessonSound(j) /\ RowsTyped /\ WorkerShape(worker)
  BY DEF TeachSound, TeachTyped
<1>2. RowsTyped' /\ job'[j] = r /\ \A k \in Jobs : k # j => job'[k] = job[k]
  BY <1>1, RowPut DEF Settles
<1>3. CallsTyped' /\ WorkerShape(worker)'
  BY <1>1 DEF OwnStep, WorkerShape
<1>4. ASSUME NEW k \in Jobs, k # j PROVE Elsewhere(k)
  BY <1>4 DEF Elsewhere, OwnStep
<1>5. Busy(j)' <=> Busy(j)
  BY DEF Busy, OwnStep
<1>6. NewIsNew(j)'
  BY <1>1, <1>2 DEF LessonSound, NewIsNew, OwnStep, Settles
<1>7. FlaggedOnTable(j)'
  BY <1>1, <1>2 DEF LessonSound, FlaggedOnTable, OwnStep, Settles, Lesson
<1>8. HeldIsActive(j)' /\ PublishedWasChecked(j)'
  BY <1>2, <1>5 DEF HeldIsActive, PublishedWasChecked, Settles
<1>9. CancelledStays(j)'
  BY <1>2, <1>5 DEF CancelledStays, StaysCancelled, OwnStep
<1>10. LessonSound(j)'
  BY <1>6, <1>7, <1>8, <1>9 DEF LessonSound
<1>. QED  BY <1>2, <1>3, <1>4, <1>10, OneLesson

\* The calls that a row's step leaves alone.
LEMMA SameCalls ==
  ASSUME TeachSound, UNCHANGED <<asked, publishing>>
  PROVE  CallsTyped'
BY DEF TeachSound, TeachTyped, CallsTyped, IsCall

LEMMA RestoreBeginKeeps ==
  ASSUME TeachSound, NEW j \in Jobs, RestoreBegin(j)
  PROVE  TeachSound'
<1>1. /\ worker = Idle /\ j \in restore
      /\ UNCHANGED <<job, asked, publishing, told, astray, table, restore>>
  BY DEF RestoreBegin
<1>. PICK res : res = IF job[j].st = "CHECKING" THEN "bad" ELSE "none"
  OBVIOUS
<1>2. worker' = [Idle EXCEPT !.pc = "restore", !.job = j, !.res = res]
  BY DEF RestoreBegin
<1>3. worker'.pc = "restore" /\ worker'.job = j /\ worker'.res = res /\ WorkerShape(worker')
  BY <1>2 DEF Idle, WorkerShape
<1>4. LessonSound(j)
  BY DEF TeachSound
<1>5. job[j].st # "NEW"
  BY <1>1, <1>4 DEF LessonSound, NewIsNew
<1>6. Busy(j)' => job[j].st = "CHECKING"
  BY <1>3 DEF Busy
<1>7. Busy(j)' /\ Told(j) => job[j].cancel
  BY <1>4, <1>6 DEF LessonSound, CancelledStays, Active
<1>. QED  BY <1>1, <1>3, <1>5, <1>6, <1>7, TakenUp DEF Active

LEMMA RestoreEndKeeps ==
  ASSUME TeachSound, RestoreEnd
  PROVE  TeachSound'
<1>. PICK j : j = worker.job
  OBVIOUS
<1>. PICK q : q = job[j]
  OBVIOUS
<1>1. /\ worker.pc = "restore" /\ table' = Restored(j) /\ restore' = restore \ {j} /\ worker' = Idle
      /\ UNCHANGED <<asked, publishing, told, astray>>
  BY DEF RestoreEnd, WorkerIdle
<1>2. j \in Jobs /\ IsRow(q) /\ LessonSound(j) /\ WorkerShape(worker)
  BY <1>1, HeldLesson DEF TeachSound, TeachTyped
<1>. PICK b, s : /\ b = IF worker.res = "bad" THEN FALSE ELSE q.blocked
                 /\ s = IF worker.res = "bad" THEN "EXPORTED" ELSE q.st
  OBVIOUS
<1>. PICK r : r = [q EXCEPT !.applied = FALSE, !.blocked = b, !.st = s]
  OBVIOUS
<1>3. r = [st |-> s, cancel |-> q.cancel, applied |-> FALSE, blocked |-> b,
           waited |-> q.waited, files |-> q.files, side |-> q.side, draft |-> q.draft,
           pub |-> q.pub, checks |-> q.checks, restarted |-> q.restarted, snap |-> q.snap]
  BY ZenonT(30), <1>2 DEF IsRow
<1>4. IsRow(r) /\ r.st = s /\ r.cancel = q.cancel /\ ~r.applied /\ r.checks = q.checks /\ r.files = q.files
  BY ZenonT(30), <1>3 DEF IsRow
<1>5. job' = [job EXCEPT ![j] = r]
  <2>1. job' = [job EXCEPT ![j].applied = FALSE,
                           ![j].blocked = IF worker.res = "bad" THEN FALSE ELSE @,
                           ![j].st = IF worker.res = "bad" THEN "EXPORTED" ELSE @]
    BY DEF RestoreEnd
  <2>. QED  BY <1>2, <1>3, <2>1 DEF TeachSound, TeachTyped, RowsTyped, IsRow
<1>6. RowsTyped' /\ job'[j] = r /\ \A k \in Jobs : k # j => job'[k] = job[k]
  <2>1. RowsTyped
    BY DEF TeachSound, TeachTyped
  <2>. QED  BY Zenon, <1>2, <1>4, <1>5, <2>1, RowPut
<1>7. CallsTyped' /\ WorkerShape(worker)' /\ worker'.job = NoJob
  BY <1>1, SameCalls DEF WorkerShape, Idle
<1>8. ASSUME NEW k \in Jobs, k # j PROVE Elsewhere(k)
  <2>1. worker'.job # k /\ (Lesson(k) \in table' => Lesson(k) \in table)
    BY <1>1, <1>7, TeachAssumption DEF Restored
  <2>. QED  BY <1>1, <2>1 DEF Elsewhere
<1>9. Lesson(j) \notin table'
  BY <1>1, <1>2 DEF LessonSound, FlaggedOnTable, Restored
<1>10. (s = "EXPORTED" /\ Busy(j)) \/ s = q.st
  BY <1>1 DEF Busy
<1>11. q.st # "NEW" /\ worker'.job # j
  BY <1>2, <1>7, TeachAssumption DEF LessonSound, NewIsNew
<1>12. Told(j)' <=> Told(j)
  BY <1>1 DEF Told, Excused
<1>13. NewIsNew(j)' /\ FlaggedOnTable(j)' /\ HeldIsActive(j)'
  BY <1>1, <1>2, <1>4, <1>6, <1>9, <1>10, <1>11
     DEF LessonSound, NewIsNew, FlaggedOnTable, HeldIsActive, Busy, Lesson
<1>14. PublishedWasChecked(j)'
  BY <1>1, <1>2, <1>4, <1>6, <1>10, <1>11 DEF LessonSound, PublishedWasChecked, Busy
<1>15. CancelledStays(j)'
  BY <1>1, <1>2, <1>4, <1>6, <1>10, <1>11, <1>12 DEF LessonSound, CancelledStays, Busy, Offered
<1>16. LessonSound(j)'
  BY <1>13, <1>14, <1>15 DEF LessonSound
<1>. QED  BY <1>2, <1>6, <1>7, <1>8, <1>16, OneLesson

\* The worker lets go of a lesson, and the row stays.
LEMMA LetGo ==
  ASSUME TeachSound, worker' = Idle, UNCHANGED <<job, asked, publishing, told, astray, table, restore>>
  PROVE  TeachSound'
<1>1. CallsTyped' /\ WorkerShape(worker)'
  BY SameCalls DEF WorkerShape, Idle
<1>2. \A k \in Jobs : Elsewhere(k)
  BY TeachAssumption DEF Elsewhere, Idle
<1>. QED  BY <1>1, <1>2, NoLesson

\* A row whose status moves as somebody other than the worker wants it.
LEMMA OwnerMoves ==
  ASSUME TeachSound, NEW j \in Jobs, NEW r, NEW s, Moved(r, job[j], s), job' = [job EXCEPT ![j] = r],
         worker' = worker, UNCHANGED <<asked, publishing, told, table>>, astray \subseteq astray',
         \A k \in Jobs : k # j => (k \in restore' => k \in restore),
         job[j].st # "NEW", s # "NEW", s \in Offered => s = job[j].st,
         Busy(j) => s \in Active \/ (s = "CANCELLED" /\ job[j].cancel),
         publishing[j].at # "no" => s \notin Active, s \in Active /\ Told(j) => job[j].cancel
  PROVE  TeachSound'
<1>1. LessonSound(j) /\ CallsTyped'
  BY SameCalls DEF TeachSound
<1>2. OwnStep(j)
  BY <1>1 DEF OwnStep
<1>3. Told(j)' => Told(j)
  BY DEF Told, Excused
<1>4. Settles(j, r)
  BY <1>1 DEF Settles, Moved, LessonSound, PublishedWasChecked, Offered
<1>5. Told(j)' => StaysCancelled(j, r)
  BY <1>1, <1>3 DEF StaysCancelled, Moved, LessonSound, CancelledStays
<1>. QED  BY <1>2, <1>4, <1>5, OwnerWrites

LEMMA DraftlessRow ==
  ASSUME NEW q, NEW s, NEW p, Moved(p, q, s)
  PROVE  Moved([p EXCEPT !.draft = 0], q, s)
<1>. PICK r : r = [p EXCEPT !.draft = 0]
  OBVIOUS
<1>1. r = [st |-> p.st, cancel |-> p.cancel, applied |-> p.applied, blocked |-> p.blocked,
           waited |-> p.waited, files |-> p.files, side |-> p.side, draft |-> 0,
           pub |-> p.pub, checks |-> p.checks, restarted |-> p.restarted, snap |-> p.snap]
  BY DEF Moved, IsRow
<1>2. Moved(r, q, s)
  BY <1>1 DEF Moved, IsRow
<1>. QED  BY <1>2

LEMMA PublicRow ==
  ASSUME NEW q, IsRow(q), NEW s, NEW p
  PROVE  Moved([q EXCEPT !.st = s, !.pub = p], q, s)
<1>. PICK r : r = [q EXCEPT !.st = s, !.pub = p]
  OBVIOUS
<1>1. r = [st |-> s, cancel |-> q.cancel, applied |-> q.applied, blocked |-> q.blocked,
           waited |-> q.waited, files |-> q.files, side |-> q.side, draft |-> q.draft,
           pub |-> p, checks |-> q.checks, restarted |-> q.restarted, snap |-> q.snap]
  BY DEF IsRow
<1>2. Moved(r, q, s)
  BY <1>1 DEF Moved, IsRow
<1>. QED  BY <1>2

LEMMA PickExportedKeeps ==
  ASSUME TeachSound, NEW j \in Jobs, PickExported(j)
  PROVE  TeachSound'
<1>1. /\ worker = Idle /\ job[j].st = "EXPORTED" /\ UNCHANGED <<asked, publishing, told, astray, table>>
  BY DEF PickExported, TickFree
<1>2. LessonSound(j) /\ ~Busy(j)
  BY <1>1, TeachAssumption DEF TeachSound, Busy, Idle
<1>3. CASE Cancelled(j)
  <2>1. job' = [job EXCEPT ![j] = CancelledRow(j)] /\ restore' = restore \cup KeptForRestore(j) /\ worker' = worker
    BY <1>1, <1>3 DEF PickExported, WorkerIdle
  <2>2. \A k \in Jobs : k # j => (k \in restore' => k \in restore)
    BY <2>1 DEF KeptForRestore
  <2>. PICK r, s : r = CancelledRow(j) /\ s = "CANCELLED"
    OBVIOUS
  <2>3. Moved(r, job[j], s)
    BY CancelledMoved
  <2>. QED  BY <1>1, <1>2, <2>1, <2>2, <2>3, OwnerMoves DEF Offered, Active
<1>4. CASE ~Cancelled(j)
  <2>1. worker' = [Idle EXCEPT !.pc = "asking", !.job = j] /\ UNCHANGED <<job, restore>>
    BY <1>4 DEF PickExported
  <2>2. worker'.pc = "asking" /\ worker'.job = j /\ WorkerShape(worker')
    BY <2>1 DEF Idle, WorkerShape
  <2>3. ~Told(j)
    BY <1>1, <1>2, <1>4 DEF LessonSound, CancelledStays, Cancelled, Active
  <2>. QED  BY <1>1, <2>1, <2>2, <2>3, TakenUp DEF Active
<1>. QED  BY <1>3, <1>4

LEMMA PickQueuedKeeps ==
  ASSUME TeachSound, NEW j \in Jobs, PickQueued(j)
  PROVE  TeachSound'
<1>1. /\ worker = Idle /\ job[j].st = "QUEUED"
      /\ UNCHANGED <<asked, publishing, told, astray, table, restore>>
  BY DEF PickQueued, TickFree
<1>2. LessonSound(j) /\ ~Busy(j) /\ IsRow(job[j])
  BY <1>1, TeachAssumption DEF TeachSound, TeachTyped, RowsTyped, Busy, Idle
<1>3. CASE job[j].cancel
  <2>. PICK r, s : r = Ended(job[j], s) /\ s = "CANCELLED"
    OBVIOUS
  <2>1. job' = [job EXCEPT ![j] = r] /\ worker' = worker
    BY <1>1, <1>3 DEF PickQueued, WorkerIdle
  <2>2. Moved(r, job[j], s)
    BY <1>2, EndedRow
  <2>. QED  BY <1>1, <1>2, <2>1, <2>2, OwnerMoves DEF Offered, Active
<1>4. CASE ~job[j].cancel
  <2>1. worker' = [Idle EXCEPT !.pc = "slot", !.job = j] /\ UNCHANGED job
    BY <1>4 DEF PickQueued
  <2>2. worker'.pc = "slot" /\ worker'.job = j /\ WorkerShape(worker')
    BY <2>1 DEF Idle, WorkerShape
  <2>3. ~Told(j)
    BY <1>1, <1>2, <1>4 DEF LessonSound, CancelledStays, Active
  <2>. QED  BY <1>1, <2>1, <2>2, <2>3, TakenUp DEF Active
<1>. QED  BY <1>3, <1>4

LEMMA ExpireKeeps ==
  ASSUME TeachSound, NEW j \in Jobs, Expire(j)
  PROVE  TeachSound'
<1>1. /\ worker = Idle /\ job[j].st \in {"READY", "NEEDS_MORE", "REJECTED"}
      /\ UNCHANGED <<asked, publishing, told, table, worker>> /\ astray \subseteq astray'
      /\ restore' = restore \cup KeptForRestore(j)
  BY DEF Expire, TickFree
<1>2. ~Busy(j) /\ IsRow(job[j])
  BY <1>1, TeachAssumption DEF TeachSound, TeachTyped, RowsTyped, Busy, Idle
<1>3. \A k \in Jobs : k # j => (k \in restore' => k \in restore)
  BY <1>1 DEF KeptForRestore
<1>. PICK s : s = "EXPIRED"
  OBVIOUS
<1>. PICK p : p = Ended(Cleaned(job[j]), s)
  OBVIOUS
<1>. PICK r : r = [p EXCEPT !.draft = 0]
  OBVIOUS
<1>4. Moved(p, job[j], s)
  BY <1>2, EndedCleanedRow
<1>5. Moved(r, job[j], s)
  BY <1>4, DraftlessRow
<1>6. job' = [job EXCEPT ![j] = r]
  BY DEF Expire, TeachSound, TeachTyped, RowsTyped
<1>. QED  BY <1>1, <1>2, <1>3, <1>5, <1>6, OwnerMoves DEF Offered, Active

LEMMA SweepFilesKeeps ==
  ASSUME TeachSound, NEW j \in Jobs, SweepFiles(j)
  PROVE  TeachSound'
<1>1. /\ worker = Idle /\ job[j].st \in {"FAILED", "CANCELLED"}
      /\ UNCHANGED <<asked, publishing, told, table, worker, astray, restore>>
  BY DEF SweepFiles, Sweepable, TickFree
<1>2. ~Busy(j) /\ IsRow(job[j])
  BY <1>1, TeachAssumption DEF TeachSound, TeachTyped, RowsTyped, Busy, Idle
<1>. PICK r, s : r = Cleaned(job[j]) /\ s = job[j].st
  OBVIOUS
<1>3. Moved(r, job[j], s)
  BY <1>2, CleanedRow
<1>4. job' = [job EXCEPT ![j] = r]
  BY DEF SweepFiles, TeachSound, TeachTyped, RowsTyped
<1>. QED  BY <1>1, <1>2, <1>3, <1>4, OwnerMoves DEF Offered, Active

LEMMA ReconcileKeeps ==
  ASSUME TeachSound, NEW j \in Jobs, Reconcile(j)
  PROVE  TeachSound'
<1>1. /\ worker = Idle /\ job[j].st = "ANNOUNCED"
      /\ UNCHANGED <<asked, publishing, told, table, worker, astray, restore>>
  BY DEF Reconcile, TickFree
<1>2. ~Busy(j) /\ IsRow(job[j])
  BY <1>1, TeachAssumption DEF TeachSound, TeachTyped, RowsTyped, Busy, Idle
<1>. PICK s, p : s = "ANNOUNCED" /\ p = "listed"
  OBVIOUS
<1>. PICK r : r = [job[j] EXCEPT !.st = s, !.pub = p]
  OBVIOUS
<1>3. Moved(r, job[j], s)
  BY <1>2, PublicRow
<1>4. r = [job[j] EXCEPT !.pub = p]
  BY <1>1, <1>2 DEF IsRow
<1>5. job' = [job EXCEPT ![j] = r]
  BY <1>4 DEF Reconcile, TeachSound, TeachTyped, RowsTyped
<1>. QED  BY <1>1, <1>2, <1>3, <1>5, OwnerMoves DEF Offered, Active

LEMMA RejectKeeps ==
  ASSUME TeachSound, NEW j \in Jobs, Reject(j)
  PROVE  TeachSound'
<1>1. /\ job[j].st = "PENDING_REVIEW" /\ astray \subseteq astray'
      /\ UNCHANGED <<asked, publishing, told, table, worker, restore>>
  BY DEF Reject
<1>2. IsRow(job[j]) /\ LessonSound(j)
  BY DEF TeachSound, TeachTyped, RowsTyped
<1>3. ~Busy(j)
  BY <1>1, <1>2 DEF LessonSound, HeldIsActive, Active
<1>. PICK s, p : s = "REJECTED" /\ p = "rejected"
  OBVIOUS
<1>. PICK r : r = [job[j] EXCEPT !.st = s, !.pub = p]
  OBVIOUS
<1>4. Moved(r, job[j], s)
  BY <1>2, PublicRow
<1>5. job' = [job EXCEPT ![j] = r]
  BY <1>2 DEF Reject, TeachSound, TeachTyped, RowsTyped, IsRow
<1>. QED  BY <1>1, <1>3, <1>4, <1>5, OwnerMoves DEF Offered, Active

LEMMA RecheckKeeps ==
  ASSUME TeachSound, NEW j \in Jobs, Recheck(j)
  PROVE  TeachSound'
<1>1. /\ job[j].st \in {"READY", "NEEDS_MORE"} /\ job[j].checks \in {"unmeasured", "skipped"}
      /\ UNCHANGED <<asked, publishing, told, table, worker, restore, astray>>
  BY DEF Recheck
<1>2. IsRow(job[j]) /\ LessonSound(j)
  BY DEF TeachSound, TeachTyped, RowsTyped
<1>3. publishing[j].at = "no" /\ ~Told(j)
  BY <1>1, <1>2 DEF LessonSound, PublishedWasChecked, CancelledStays, Offered
<1>. PICK q, s, x : q = job[j] /\ s = "EXPORTED" /\ x = (job[j].side \/ job[j].checks = "skipped")
  OBVIOUS
<1>. PICK r : r = [q EXCEPT !.st = s, !.blocked = FALSE, !.side = x]
  OBVIOUS
<1>4. r = [st |-> s, cancel |-> q.cancel, applied |-> q.applied, blocked |-> FALSE,
           waited |-> q.waited, files |-> q.files, side |-> x, draft |-> q.draft,
           pub |-> q.pub, checks |-> q.checks, restarted |-> q.restarted, snap |-> q.snap]
  BY <1>2 DEF IsRow
<1>5. Moved(r, q, s)
  BY <1>4 DEF Moved, IsRow
<1>6. job' = [job EXCEPT ![j] = r]
  <2>1. job' = [job EXCEPT ![j].st = "EXPORTED", ![j].blocked = FALSE,
                           ![j].side = @ \/ job[j].checks = "skipped"]
    BY DEF Recheck
  <2>. QED  BY <1>2, <1>4, <2>1 DEF TeachSound, TeachTyped, RowsTyped, IsRow
<1>. QED  BY <1>1, <1>3, <1>5, <1>6, OwnerMoves DEF Offered, Active

\* A cancel: its caller is told, except by the windows that are named.
Cancelling(j) ==
  /\ told' = told \cup {j}
  /\ astray' = astray
       \cup (IF Current = j /\ worker.pc \in {"drafting", "drafted"} THEN {<<"late", j>>} ELSE {})
       \cup (IF publishing[j].at # "no" THEN {<<"undone", j>>} ELSE {})
  /\ UNCHANGED <<asked, publishing, worker, table>>
  /\ \A k \in Jobs : k # j => (k \in restore' => k \in restore)
\* The row as it was, the flag aside.
FlagAside(c, q) == c.applied = q.applied /\ c.checks = q.checks /\ c.files = q.files

LEMMA CancelWrites ==
  ASSUME TeachSound, NEW j \in Jobs, NEW c, NEW r, NEW s, Moved(r, c, s), FlagAside(c, job[j]),
         job' = [job EXCEPT ![j] = r], Cancelling(j), job[j].st # "NEW", Busy(j) => c.cancel,
         s = "CANCELLED" \/ (s \in Active /\ c.cancel /\ job[j].st \in Active)
  PROVE  TeachSound'
<1>1. LessonSound(j) /\ CallsTyped'
  BY SameCalls DEF TeachSound, Cancelling
<1>2. OwnStep(j)
  BY <1>1 DEF OwnStep, Cancelling
<1>3. publishing[j].at = "no" \/ (job[j].checks = "ok" /\ job[j].st \notin Active /\ ~Busy(j))
  BY <1>1 DEF LessonSound, PublishedWasChecked
<1>4. publishing' = publishing
  BY DEF Cancelling
<1>5. Settles(j, r)
  BY <1>3, <1>4 DEF Settles, Moved, FlagAside, Active
<1>6. ASSUME Told(j)' PROVE StaysCancelled(j, r)
  <2>1. <<"late", j>> \notin astray' /\ <<"undone", j>> \notin astray'
    BY <1>6 DEF Told, Excused
  <2>2. publishing[j].at = "no" /\ ~(Current = j /\ worker.pc \in {"drafting", "drafted"})
    BY <2>1 DEF Cancelling
  <2>3. ~(worker.job = j /\ worker.pc \in Ending)
    BY <2>2 DEF Current, Ending
  <2>. QED  BY <1>4, <2>2, <2>3 DEF StaysCancelled, Moved, Offered, Active
<1>. QED  BY <1>2, <1>5, <1>6, OwnerWrites

LEMMA CancelKeeps ==
  ASSUME TeachSound, NEW j \in Jobs, Cancel(j)
  PROVE  TeachSound'
<1>. PICK q : q = job[j]
  OBVIOUS
<1>1. IsRow(q) /\ LessonSound(j) /\ RowsTyped
  BY DEF TeachSound, TeachTyped, RowsTyped
<1>2. \A k \in Jobs : k # j => (k \in restore' => k \in restore)
  <2>1. restore' = restore \cup KeptForRestore(j) \/ restore' = restore \cup {} \/ restore' = restore
    BY DEF Cancel
  <2>. QED  BY <2>1 DEF KeptForRestore
<1>3. Cancelling(j) /\ q.st # "NEW"
  BY <1>2 DEF Cancel, Cancelling
<1>. PICK c : c = [q EXCEPT !.cancel = TRUE]
  OBVIOUS
<1>4. c = [st |-> q.st, cancel |-> TRUE, applied |-> q.applied, blocked |-> q.blocked,
           waited |-> q.waited, files |-> q.files, side |-> q.side, draft |-> q.draft,
           pub |-> q.pub, checks |-> q.checks, restarted |-> q.restarted, snap |-> q.snap]
  BY <1>1 DEF IsRow
<1>5. IsRow(c) /\ c.cancel /\ c.st = q.st /\ FlagAside(c, q) /\ FlagAside(q, q)
  BY <1>4 DEF IsRow, FlagAside
<1>. PICK s : s = "CANCELLED"
  OBVIOUS
<1>6. CASE job' = [job EXCEPT ![j] = Ended(Cleaned(c), s)]
  <2>. PICK r : r = Ended(Cleaned(c), s)
    OBVIOUS
  <2>1. Moved(r, c, s)
    BY <1>5, EndedCleanedRow
  <2>. QED  BY <1>3, <1>5, <1>6, <2>1, CancelWrites
<1>7. CASE job' = [job EXCEPT ![j] = Ended(c, s)]
  <2>. PICK r : r = Ended(c, s)
    OBVIOUS
  <2>1. Moved(r, c, s)
    BY <1>5, EndedRow
  <2>. QED  BY <1>3, <1>5, <1>7, <2>1, CancelWrites
<1>8. CASE job' = [job EXCEPT ![j] = c] /\ q.st \in Active
  <2>. PICK t : t = q.st
    OBVIOUS
  <2>1. Moved(c, c, t)
    BY <1>5 DEF Moved
  <2>. QED  BY <1>3, <1>5, <1>8, <2>1, CancelWrites
<1>9. CASE job' = [job EXCEPT ![j] = [Ended(Cleaned(@), "CANCELLED") EXCEPT !.draft = 0]] /\ q.st \notin Active
  <2>. PICK p : p = Ended(Cleaned(q), s)
    OBVIOUS
  <2>. PICK r : r = [p EXCEPT !.draft = 0]
    OBVIOUS
  <2>1. Moved(p, q, s)
    BY <1>1, EndedCleanedRow
  <2>2. Moved(r, q, s)
    BY <2>1, DraftlessRow
  <2>3. job' = [job EXCEPT ![j] = r]
    BY <1>1, <1>9 DEF RowsTyped
  <2>4. Busy(j) => q.cancel
    BY <1>1, <1>9 DEF LessonSound, HeldIsActive
  <2>. QED  BY <1>3, <1>5, <2>2, <2>3, <2>4, CancelWrites
<1>10. \/ job' = [job EXCEPT ![j] = Ended(Cleaned(c), s)]
       \/ job' = [job EXCEPT ![j] = Ended(c, s)]
       \/ (job' = [job EXCEPT ![j] = c] /\ q.st \in {"PREFLIGHT", "TRAINING", "CHECKING"})
       \/ (job' = [job EXCEPT ![j] = [Ended(Cleaned(@), "CANCELLED") EXCEPT !.draft = 0]] /\ q.st \notin Active)
  BY DEF Cancel
<1>. QED  BY <1>6, <1>7, <1>8, <1>9, <1>10 DEF Active

\* A publish or an announce begins, ends or goes on.
LEMMA PublishingMoves ==
  ASSUME TeachSound, NEW j \in Jobs, NEW p, IsCall(p), publishing' = [publishing EXCEPT ![j] = p],
         NEW r, NEW s, Moved(r, job[j], s), job' = [job EXCEPT ![j] = r],
         UNCHANGED <<asked, told, astray, table, worker, restore>>, s \notin Active \cup {"NEW"},
         publishing[j].at # "no"
           \/ (job[j].st \in {"READY", "PENDING_REVIEW"} /\ (job[j].st = "READY" => job[j].checks = "ok"))
  PROVE  TeachSound'
<1>1. LessonSound(j) /\ CallsTyped
  BY DEF TeachSound, TeachTyped
<1>2. CallsTyped' /\ \A k \in Jobs : k # j => publishing'[k] = publishing[k]
  BY <1>1 DEF CallsTyped, IsCall
<1>3. OwnStep(j)
  BY <1>2 DEF OwnStep
<1>4. job[j].checks = "ok" /\ ~Busy(j)
  BY <1>1 DEF LessonSound, PublishedWasChecked, HeldIsActive, Active
<1>5. ~Told(j) /\ job[j].st # "NEW"
  BY <1>1 DEF LessonSound, CancelledStays, NewIsNew, Offered
<1>6. ~Told(j)'
  BY <1>5 DEF Told, Excused
<1>7. Settles(j, r)
  BY <1>4, <1>5 DEF Settles, Moved
<1>. QED  BY <1>3, <1>6, <1>7, OwnerWrites

LEMMA PublishBeginKeeps ==
  ASSUME TeachSound, NEW j \in Jobs, PublishBegin(j)
  PROVE  TeachSound'
<1>1. /\ job[j].st = "READY" /\ job[j].checks = "ok"
      /\ UNCHANGED <<asked, told, astray, table, worker, restore, job>>
  BY DEF PublishBegin, DraftFor
<1>. PICK p, r, s : p = [at |-> "publish", draft |-> job[j].draft] /\ r = job[j] /\ s = job[j].st
  OBVIOUS
<1>2. IsCall(p) /\ publishing' = [publishing EXCEPT ![j] = p]
  BY DEF IsCall, PublishBegin
<1>3. job' = [job EXCEPT ![j] = r] /\ Moved(r, job[j], s)
  BY <1>1, SameRow
<1>. QED  BY <1>1, <1>2, <1>3, PublishingMoves DEF Active

LEMMA ApproveKeeps ==
  ASSUME TeachSound, NEW j \in Jobs, Approve(j)
  PROVE  TeachSound'
<1>1. job[j].st = "PENDING_REVIEW" /\ UNCHANGED <<asked, told, astray, table, worker, restore, job>>
  BY DEF Approve, Reviewed
<1>. PICK p, r, s : p = [at |-> "announce", draft |-> job[j].draft] /\ r = job[j] /\ s = job[j].st
  OBVIOUS
<1>2. IsCall(p) /\ publishing' = [publishing EXCEPT ![j] = p]
  BY DEF IsCall, Approve
<1>3. job' = [job EXCEPT ![j] = r] /\ Moved(r, job[j], s)
  BY <1>1, SameRow
<1>. QED  BY <1>1, <1>2, <1>3, PublishingMoves DEF Active

\* A call in flight about a lesson whose row stays.
LEMMA InFlight ==
  ASSUME TeachSound, NEW j \in Jobs, publishing[j].at # "no", NEW p, IsCall(p),
         publishing' = [publishing EXCEPT ![j] = p],
         UNCHANGED <<asked, told, astray, table, worker, restore, job>>
  PROVE  TeachSound'
<1>1. LessonSound(j)
  BY DEF TeachSound
<1>. PICK r, s : r = job[j] /\ s = job[j].st
  OBVIOUS
<1>2. s \notin Active \cup {"NEW"}
  BY <1>1 DEF LessonSound, PublishedWasChecked, NewIsNew
<1>3. job' = [job EXCEPT ![j] = r] /\ Moved(r, job[j], s)
  BY SameRow
<1>. QED  BY <1>2, <1>3, PublishingMoves

\* ... and one that ends with the row written.
LEMMA LandedRow ==
  ASSUME TeachSound, NEW j \in Jobs, publishing[j].at # "no", NEW r, NEW s,
         s \in {"PENDING_REVIEW", "ANNOUNCED"}, Moved(r, job[j], s), job' = [job EXCEPT ![j] = r],
         publishing' = [publishing EXCEPT ![j] = NotPublishing],
         UNCHANGED <<asked, told, astray, table, worker, restore>>
  PROVE  TeachSound'
<1>. PICK p : p = NotPublishing
  OBVIOUS
<1>1. IsCall(p)
  BY DEF IsCall, NotPublishing
<1>. QED  BY <1>1, PublishingMoves DEF Active

LEMMA PublishEndKeeps ==
  ASSUME TeachSound, NEW j \in Jobs, NEW access, PublishEnd(j, access)
  PROVE  TeachSound'
<1>1. publishing[j].at # "no" /\ UNCHANGED <<asked, told, astray, table, worker, restore>>
  BY DEF PublishEnd
<1>2. IsCall(publishing[j]) /\ CallsTyped
  BY DEF TeachSound, TeachTyped, CallsTyped
<1>3. CASE publishing' = [publishing EXCEPT ![j] =
                            IF job[j].st = "READY" THEN [@ EXCEPT !.at = "announce"]
                            ELSE NotPublishing] /\ UNCHANGED job
  <2>. PICK p : p = IF job[j].st = "READY" THEN [publishing[j] EXCEPT !.at = "announce"] ELSE NotPublishing
    OBVIOUS
  <2>1. IsCall(p)
    BY <1>2 DEF IsCall, NotPublishing
  <2>2. publishing' = [publishing EXCEPT ![j] = p]
    BY <1>2, <1>3 DEF CallsTyped
  <2>. QED  BY <1>1, <1>3, <2>1, <2>2, InFlight
<1>4. CASE /\ job' = [job EXCEPT ![j].st = "PENDING_REVIEW", ![j].pub = "pending_review"]
           /\ publishing' = [publishing EXCEPT ![j] = NotPublishing]
  <2>. PICK s, p : s = "PENDING_REVIEW" /\ p = "pending_review"
    OBVIOUS
  <2>. PICK r : r = [job[j] EXCEPT !.st = s, !.pub = p]
    OBVIOUS
  <2>1. IsRow(job[j]) /\ RowsTyped
    BY DEF TeachSound, TeachTyped, RowsTyped
  <2>2. Moved(r, job[j], s)
    BY <2>1, PublicRow
  <2>3. job' = [job EXCEPT ![j] = r]
    BY <1>4, <2>1 DEF RowsTyped, IsRow
  <2>. QED  BY <1>1, <1>4, <2>2, <2>3, LandedRow
<1>. QED  BY <1>3, <1>4 DEF PublishEnd

LEMMA PublishRefusedKeeps ==
  ASSUME TeachSound, NEW j \in Jobs, PublishRefused(j)
  PROVE  TeachSound'
<1>1. publishing[j].at # "no" /\ UNCHANGED <<asked, told, astray, table, worker, restore, job>>
  BY DEF PublishRefused
<1>. PICK p : p = NotPublishing
  OBVIOUS
<1>2. IsCall(p) /\ publishing' = [publishing EXCEPT ![j] = p]
  BY DEF IsCall, NotPublishing, PublishRefused
<1>. QED  BY <1>1, <1>2, InFlight

LEMMA AnnounceKeeps ==
  ASSUME TeachSound, NEW j \in Jobs, Announce(j)
  PROVE  TeachSound'
<1>1. publishing[j].at # "no" /\ UNCHANGED <<asked, told, astray, table, worker, restore, job>>
  BY DEF Announce
<1>2. IsCall(publishing[j]) /\ CallsTyped
  BY DEF TeachSound, TeachTyped, CallsTyped
<1>. PICK p : p = [publishing[j] EXCEPT !.at = "closing"]
  OBVIOUS
<1>3. IsCall(p) /\ publishing' = [publishing EXCEPT ![j] = p]
  BY <1>2 DEF IsCall, CallsTyped, Announce
<1>. QED  BY <1>1, <1>3, InFlight

LEMMA AnnouncedKeeps ==
  ASSUME TeachSound, NEW j \in Jobs, Announced(j)
  PROVE  TeachSound'
<1>1. publishing[j].at # "no" /\ UNCHANGED <<asked, told, astray, table, worker, restore>>
  BY DEF Announced
<1>. PICK s, p : s = "ANNOUNCED" /\ p = "announced"
  OBVIOUS
<1>. PICK r : r = [job[j] EXCEPT !.st = s, !.pub = p]
  OBVIOUS
<1>2. IsRow(job[j]) /\ RowsTyped
  BY DEF TeachSound, TeachTyped, RowsTyped
<1>3. Moved(r, job[j], s)
  BY <1>2, PublicRow
<1>4. job' = [job EXCEPT ![j] = r] /\ publishing' = [publishing EXCEPT ![j] = NotPublishing]
  BY <1>2 DEF Announced, RowsTyped, IsRow
<1>. QED  BY <1>1, <1>3, <1>4, LandedRow

\* The revision is read, and the row is inserted after an await.
LEMMA AskJobKeeps ==
  ASSUME TeachSound, NEW j \in Jobs, AskJob(j)
  PROVE  TeachSound'
<1>1. /\ job[j].st = "NEW" /\ asked' = [asked EXCEPT ![j] = set.rev]
      /\ UNCHANGED <<job, publishing, told, astray, table, worker, restore>>
  BY DEF AskJob
<1>2. LessonSound(j) /\ RowsTyped /\ CallsTyped /\ WorkerShape(worker)
  BY DEF TeachSound, TeachTyped
<1>3. RowsTyped' /\ CallsTyped' /\ WorkerShape(worker)'
  BY <1>1, <1>2 DEF RowsTyped, CallsTyped, WorkerShape, IsRow, IsCall
<1>4. ASSUME NEW k \in Jobs, k # j PROVE job'[k] = job[k] /\ Elsewhere(k)
  <2>1. asked'[k] = asked[k]
    BY <1>1, <1>2, <1>4 DEF CallsTyped
  <2>. QED  BY <1>1, <2>1 DEF Elsewhere
<1>5. Told(j)' <=> Told(j)
  BY <1>1 DEF Told, Excused
<1>6. LessonSound(j)'
  BY <1>1, <1>2, <1>5 DEF LessonSound, NewIsNew, FlaggedOnTable, HeldIsActive, PublishedWasChecked,
       CancelledStays, Busy, Lesson
<1>. QED  BY <1>3, <1>4, <1>6, OneLesson

LEMMA InsertJobKeeps ==
  ASSUME TeachSound, NEW j \in Jobs, NEW side, InsertJob(j, side)
  PROVE  TeachSound'
<1>. PICK n : n = asked[j]
  OBVIOUS
<1>. PICK r : r = [NewRow EXCEPT !.st = "QUEUED", !.files = "snapshot", !.snap = n, !.side = side]
  OBVIOUS
<1>1. /\ n # 0 /\ asked' = [asked EXCEPT ![j] = 0] /\ job' = [job EXCEPT ![j] = r]
      /\ UNCHANGED <<publishing, told, astray, table, worker, restore>>
  BY DEF InsertJob
<1>2. LessonSound(j) /\ RowsTyped /\ CallsTyped /\ WorkerShape(worker)
  BY DEF TeachSound, TeachTyped
<1>3. IsRow(r) /\ r.st = "QUEUED"
  BY DEF IsRow, NewRow
<1>4. RowsTyped' /\ job'[j] = r /\ \A k \in Jobs : k # j => job'[k] = job[k]
  BY <1>1, <1>2, <1>3, RowPut
<1>5. CallsTyped' /\ WorkerShape(worker)' /\ asked'[j] = 0
  BY <1>1, <1>2 DEF CallsTyped, WorkerShape, IsCall
<1>6. ASSUME NEW k \in Jobs, k # j PROVE Elsewhere(k)
  <2>1. asked'[k] = asked[k]
    BY <1>1, <1>2, <1>6 DEF CallsTyped
  <2>. QED  BY <1>1, <2>1 DEF Elsewhere
<1>7. /\ worker'.job # j /\ j \notin told' /\ publishing'[j].at = "no" /\ Lesson(j) \notin table'
  BY <1>1, <1>2 DEF LessonSound, NewIsNew, FlaggedOnTable
<1>8. LessonSound(j)'
  BY <1>3, <1>4, <1>5, <1>7 DEF LessonSound, NewIsNew, FlaggedOnTable, HeldIsActive,
       PublishedWasChecked, CancelledStays, Busy, Told, Lesson
<1>. QED  BY <1>4, <1>5, <1>6, <1>8, OneLesson

\* The set, the server and the bound counters are no lesson's row.
LEMMA AsideKeeps ==
  ASSUME TeachSound, UNCHANGED <<job, asked, publishing, told, astray, worker, restore>>,
         table' = table \/ table' = {}
  PROVE  TeachSound'
<1>1. CallsTyped' /\ WorkerShape(worker)'
  BY SameCalls DEF TeachSound, TeachTyped, WorkerShape
<1>2. \A k \in Jobs : Elsewhere(k)
  BY DEF Elsewhere
<1>. QED  BY <1>1, <1>2, NoLesson

\* The process dies with what it kept in memory.
LEMMA DieKeeps ==
  ASSUME TeachSound, Die
  PROVE  TeachSound'
<1>1. /\ worker' = Idle /\ restore' = {} /\ asked' = [j \in Jobs |-> 0]
      /\ publishing' = [j \in Jobs |-> NotPublishing] /\ UNCHANGED <<job, told, astray, table>>
  BY DEF Die
<1>2. CallsTyped' /\ WorkerShape(worker)' /\ worker'.job = NoJob
  BY <1>1 DEF CallsTyped, WorkerShape, IsCall, NotPublishing, Idle
<1>3. \A k \in Jobs : Elsewhere(k)
  BY <1>1, <1>2, TeachAssumption DEF Elsewhere
<1>. QED  BY <1>1, <1>2, <1>3, NoLesson

\* What a start makes of a row, and what it leaves of it.
Started(q) ==
  LET row == [q EXCEPT !.waited = FALSE] IN
  CASE row.st = "CHECKING" -> [row EXCEPT !.applied = TRUE]
    [] row.st \in {"PREFLIGHT", "TRAINING"} /\ row.restarted -> Ended(row, "FAILED")
    [] row.st \in {"PREFLIGHT", "TRAINING"} -> [Requeued(row) EXCEPT !.restarted = TRUE]
    [] OTHER -> row
Resumes(r, q) ==
  /\ IsRow(r) /\ r.cancel = q.cancel /\ r.checks = q.checks
  /\ q.applied => r.files = q.files
  /\ r.applied \in {q.applied, TRUE}
  /\ q.st \notin Active => r.st = q.st /\ r.applied = q.applied
  /\ q.st \in Active => r.st \in Active \cup {"FAILED"}

LEMMA RestartedRow ==
  ASSUME NEW q, NEW s, NEW p, Moved(p, q, s)
  PROVE  Moved([p EXCEPT !.restarted = TRUE], q, s)
<1>. PICK r : r = [p EXCEPT !.restarted = TRUE]
  OBVIOUS
<1>1. r = [st |-> p.st, cancel |-> p.cancel, applied |-> p.applied, blocked |-> p.blocked,
           waited |-> p.waited, files |-> p.files, side |-> p.side, draft |-> p.draft,
           pub |-> p.pub, checks |-> p.checks, restarted |-> TRUE, snap |-> p.snap]
  BY DEF Moved, IsRow
<1>2. Moved(r, q, s)
  BY <1>1 DEF Moved, IsRow
<1>. QED  BY <1>2

LEMMA StartedRow ==
  ASSUME NEW q, IsRow(q)
  PROVE  Resumes(Started(q), q)
<1>. PICK row : row = [q EXCEPT !.waited = FALSE]
  OBVIOUS
<1>1. row = [st |-> q.st, cancel |-> q.cancel, applied |-> q.applied, blocked |-> q.blocked,
             waited |-> FALSE, files |-> q.files, side |-> q.side, draft |-> q.draft,
             pub |-> q.pub, checks |-> q.checks, restarted |-> q.restarted, snap |-> q.snap]
  BY DEF IsRow
<1>2. Moved(row, q, q.st)
  BY <1>1 DEF Moved, IsRow
<1>4. CASE q.st = "CHECKING"
  <2>. PICK r : r = [row EXCEPT !.applied = TRUE]
    OBVIOUS
  <2>1. r = [st |-> q.st, cancel |-> q.cancel, applied |-> TRUE, blocked |-> q.blocked,
             waited |-> FALSE, files |-> q.files, side |-> q.side, draft |-> q.draft,
             pub |-> q.pub, checks |-> q.checks, restarted |-> q.restarted, snap |-> q.snap]
    BY <1>1
  <2>2. Resumes(r, q)
    BY <1>4, <2>1 DEF Resumes, IsRow, Active
  <2>3. Started(q) = r
    BY <1>2, <1>4 DEF Started, Moved
  <2>. QED  BY <2>2, <2>3
<1>5. CASE q.st \in {"PREFLIGHT", "TRAINING"}
  <2>. PICK f, s : f = Ended(row, s) /\ s = "FAILED"
    OBVIOUS
  <2>. PICK u, x : u = Requeued(row) /\ x = "QUEUED"
    OBVIOUS
  <2>. PICK r : r = [u EXCEPT !.restarted = TRUE]
    OBVIOUS
  <2>0. IsRow(row)
    BY <1>2 DEF Moved
  <2>1. Moved(f, row, s)
    BY <2>0, EndedRow
  <2>2. Moved(u, row, x)
    BY <2>0, RequeuedRow
  <2>3. Moved(r, row, x)
    BY <2>2, RestartedRow
  <2>4. q.st \in Active /\ s \in Active \cup {"FAILED"} /\ x \in Active \cup {"FAILED"}
    BY <1>5 DEF Active
  <2>5. Resumes(f, q) /\ Resumes(r, q)
    BY <1>2, <2>1, <2>3, <2>4 DEF Resumes, Moved
  <2>6. Started(q) = f \/ Started(q) = r
    BY <1>2, <1>5 DEF Started, Moved
  <2>. QED  BY <2>5, <2>6
<1>7. CASE q.st \notin {"PREFLIGHT", "TRAINING", "CHECKING"}
  <2>1. Resumes(row, q)
    BY <1>2 DEF Resumes, Moved
  <2>2. Started(q) = row
    BY <1>2, <1>7 DEF Started, Moved
  <2>. QED  BY <2>1, <2>2
<1>. QED  BY <1>4, <1>5, <1>7

\* A process that is gone holds nothing.
GoneIsIdle == node = "down" => worker = Idle

\* A start takes up every row at once.
LEMMA StartKeeps ==
  ASSUME TeachSound, GoneIsIdle, Start
  PROVE  TeachSound'
<1>1. /\ worker = Idle /\ restore' = Recovered
      /\ UNCHANGED <<asked, publishing, told, astray, table, worker>>
  BY DEF Start, GoneIsIdle
<1>2. job' = [k \in Jobs |-> Started(job[k])]
  BY DEF Start, Started
<1>3. ASSUME NEW k \in Jobs PROVE Resumes(job'[k], job[k])
  <2>1. IsRow(job[k])
    BY DEF TeachSound, TeachTyped, RowsTyped
  <2>2. job'[k] = Started(job[k])
    BY <1>2
  <2>. QED  BY <2>1, <2>2, StartedRow
<1>4. RowsTyped'
  <2>1. job' = [k \in Jobs |-> job'[k]]
    BY <1>2
  <2>. QED  BY <1>3, <2>1 DEF RowsTyped, Resumes
<1>5. CallsTyped' /\ WorkerShape(worker)' /\ worker'.job = NoJob
  BY <1>1, SameCalls DEF TeachSound, TeachTyped, WorkerShape, Idle
<1>6. ASSUME NEW k \in Jobs PROVE LessonSound(k)'
  <2>1. Resumes(job'[k], job[k]) /\ LessonSound(k) /\ worker'.job # k
    BY <1>3, <1>5, TeachAssumption DEF TeachSound
  <2>2. NewIsNew(k)'
    BY <1>1, <2>1 DEF LessonSound, NewIsNew, Resumes, Recovered, Active
  <2>3. FlaggedOnTable(k)' /\ HeldIsActive(k)'
    BY <1>1, <2>1 DEF LessonSound, FlaggedOnTable, HeldIsActive, Busy, Resumes, Lesson
  <2>4. PublishedWasChecked(k)'
    BY <1>1, <2>1 DEF LessonSound, PublishedWasChecked, Busy, Resumes, Active
  <2>5. Told(k)' <=> Told(k)
    BY <1>1 DEF Told, Excused
  <2>6. CancelledStays(k)'
    BY <1>1, <2>1, <2>5 DEF LessonSound, CancelledStays, Busy, Resumes, Offered, Active
  <2>. QED  BY <2>2, <2>3, <2>4, <2>6 DEF LessonSound
<1>. QED  BY SMTT(30), <1>4, <1>5, <1>6 DEF TeachSound, TeachTyped

LEMMA GoneStaysIdle ==
  ASSUME GoneIsIdle, TeachNext
  PROVE  GoneIsIdle'
<1>1. ASSUME node' = node, worker' = worker \/ node # "down" PROVE GoneIsIdle'
  BY <1>1 DEF GoneIsIdle
<1>2. ASSUME NEW j \in Jobs,
             \/ AskJob(j) \/ (\E side \in BOOLEAN : InsertJob(j, side))
             \/ Cancel(j) \/ Recheck(j) \/ Approve(j) \/ Reject(j) \/ PublishBegin(j)
             \/ PublishRefused(j) \/ Announce(j) \/ Announced(j)
             \/ \E access \in {"private", "derivative"} : PublishEnd(j, access)
      PROVE  GoneIsIdle'
  <2>1. node' = node /\ worker' = worker
    BY Zenon, <1>2 DEF AskJob, InsertJob, Cancel, Recheck, Approve, Reject, PublishBegin, PublishRefused,
         Announce, Announced, PublishEnd
  <2>. QED  BY Zenon, <1>1, <2>1
<1>3. ASSUME NEW j \in Jobs,
             \/ RestoreBegin(j) \/ Expire(j) \/ SweepFiles(j) \/ Reconcile(j)
             \/ PickExported(j) \/ PickQueued(j)
      PROVE  GoneIsIdle'
  <2>1. node' = node /\ node = "up"
    BY <1>3 DEF RestoreBegin, Expire, SweepFiles, Reconcile, PickExported, PickQueued, TickFree
  <2>. QED  BY <1>1, <2>1
<1>4. ASSUME \/ RestoreEnd \/ RestoreLater \/ SlotBusy \/ SlotTaken \/ PreflightDone \/ TrainDone
             \/ AskServer \/ CheckBusy \/ FlagLesson \/ ApplyLesson
             \/ (\E off \in BOOLEAN : MeasureDone(off)) \/ MakeDraft \/ DraftFails \/ FinishDraft
      PROVE  GoneIsIdle'
  <2>1. node' = node /\ node # "down"
    BY Zenon, <1>4 DEF Up, RestoreEnd, RestoreLater, SlotBusy, SlotTaken, PreflightDone, TrainDone, AskServer,
         CheckBusy, FlagLesson, ApplyLesson, MeasureDone, MakeDraft, DraftFails, FinishDraft
  <2>. QED  BY Zenon, <1>1, <2>1
<1>5. ASSUME EditSet \/ RemoveSet \/ ServingDies \/ ServingBack PROVE GoneIsIdle'
  BY <1>1, <1>5 DEF EditSet, RemoveSet, ServingDies, ServingBack
<1>6. ASSUME Stop \/ Die \/ Start PROVE GoneIsIdle'
  BY <1>6 DEF Stop, Die, Start, GoneIsIdle
<1>. QED  BY <1>2, <1>3, <1>4, <1>5, <1>6 DEF TeachNext

LEMMA TeachSoundStep ==
  ASSUME TeachSound, GoneIsIdle, [TeachNext]_teachVars
  PROVE  TeachSound'
<1>1. ASSUME NEW j \in Jobs,
             \/ AskJob(j) \/ (\E side \in BOOLEAN : InsertJob(j, side))
             \/ RestoreBegin(j) \/ Expire(j) \/ SweepFiles(j) \/ Reconcile(j)
             \/ PickExported(j) \/ PickQueued(j)
             \/ Cancel(j) \/ Recheck(j) \/ Approve(j) \/ Reject(j)
             \/ PublishBegin(j) \/ PublishRefused(j) \/ Announce(j) \/ Announced(j)
             \/ \E access \in {"private", "derivative"} : PublishEnd(j, access)
      PROVE  TeachSound'
  BY <1>1, AskJobKeeps, InsertJobKeeps, RestoreBeginKeeps, ExpireKeeps, SweepFilesKeeps, ReconcileKeeps,
     PickExportedKeeps, PickQueuedKeeps, CancelKeeps, RecheckKeeps, ApproveKeeps, RejectKeeps,
     PublishBeginKeeps, PublishRefusedKeeps, AnnounceKeeps, AnnouncedKeeps, PublishEndKeeps
<1>2. ASSUME SlotBusy \/ RestoreLater PROVE TeachSound'
  <2>1. worker' = Idle /\ UNCHANGED <<job, asked, publishing, told, astray, table, restore>>
    BY <1>2 DEF SlotBusy, RestoreLater, WorkerIdle
  <2>. QED  BY <2>1, LetGo
<1>3. ASSUME \/ RestoreEnd \/ SlotTaken \/ PreflightDone \/ TrainDone
             \/ AskServer \/ CheckBusy \/ FlagLesson \/ ApplyLesson
             \/ (\E off \in BOOLEAN : MeasureDone(off)) \/ MakeDraft \/ DraftFails \/ FinishDraft
      PROVE  TeachSound'
  BY <1>3, RestoreEndKeeps, SlotKeeps, PreflightKeeps, TrainKeeps, AskServerKeeps, CheckBusyKeeps,
     FlagKeeps, ApplyKeeps, MeasureKeeps, MakeDraftKeeps, DraftFailsKeeps, FinishDraftKeeps
<1>4. ASSUME EditSet \/ RemoveSet \/ Stop \/ ServingDies \/ ServingBack \/ UNCHANGED teachVars
      PROVE  TeachSound'
  <2>1. /\ UNCHANGED <<job, asked, publishing, told, astray, worker, restore>>
        /\ table' = table \/ table' = {}
    BY <1>4 DEF EditSet, RemoveSet, Stop, ServingDies, ServingBack, teachVars
  <2>. QED  BY <2>1, AsideKeeps
<1>. QED  BY <1>1, <1>2, <1>3, <1>4, DieKeeps, StartKeeps DEF TeachNext

LEMMA ToldStaysLesson ==
  ASSUME told \subseteq Jobs, TeachNext
  PROVE  told' \subseteq Jobs
<1>1. ASSUME NEW j \in Jobs, Cancel(j) PROVE told' \subseteq Jobs
  BY Zenon, <1>1 DEF Cancel
<1>2. ASSUME NEW j \in Jobs,
             \/ AskJob(j) \/ (\E side \in BOOLEAN : InsertJob(j, side))
             \/ RestoreBegin(j) \/ Expire(j) \/ SweepFiles(j) \/ Reconcile(j)
             \/ PickExported(j) \/ PickQueued(j) \/ Recheck(j) \/ Approve(j) \/ Reject(j)
             \/ PublishBegin(j) \/ PublishRefused(j) \/ Announce(j) \/ Announced(j)
             \/ \E access \in {"private", "derivative"} : PublishEnd(j, access)
      PROVE  told' = told
  BY ZenonT(30), <1>2 DEF AskJob, InsertJob, RestoreBegin, Expire, SweepFiles, Reconcile, PickExported, PickQueued,
       Recheck, Approve, Reject, PublishBegin, PublishRefused, Announce, Announced, PublishEnd
<1>3. ASSUME \/ RestoreEnd \/ RestoreLater \/ SlotBusy \/ SlotTaken \/ PreflightDone \/ TrainDone
             \/ AskServer \/ CheckBusy \/ FlagLesson \/ ApplyLesson
             \/ (\E off \in BOOLEAN : MeasureDone(off)) \/ MakeDraft \/ DraftFails \/ FinishDraft
      PROVE  told' = told
  BY ZenonT(30), <1>3 DEF RestoreEnd, RestoreLater, SlotBusy, SlotTaken, PreflightDone, TrainDone, AskServer,
       CheckBusy, FlagLesson, ApplyLesson, MeasureDone, MakeDraft, DraftFails, FinishDraft
<1>4. ASSUME EditSet \/ RemoveSet \/ Stop \/ Die \/ Start \/ ServingDies \/ ServingBack
      PROVE  told' = told
  BY Zenon, <1>4 DEF EditSet, RemoveSet, Stop, Die, Start, ServingDies, ServingBack
<1>. QED  BY <1>1, <1>2, <1>3, <1>4 DEF TeachNext

TeachInv == TeachSound /\ GoneIsIdle /\ told \subseteq Jobs

LEMMA TeachInvAlways == TeachSpec => []TeachInv
<1>1. TeachInit => TeachInv
  BY TeachSoundInit DEF TeachInit, GoneIsIdle, TeachInv
<1>2. TeachInv /\ [TeachNext]_teachVars => TeachInv'
  <2>1. ASSUME TeachInv, UNCHANGED teachVars PROVE TeachInv'
    BY <2>1, TeachSoundStep DEF GoneIsIdle, teachVars, TeachInv
  <2>. QED  BY <2>1, GoneStaysIdle, ToldStaysLesson, TeachSoundStep DEF TeachInv
<1>. QED  BY <1>1, <1>2, PTL DEF TeachSpec

\* The file of a lesson that is on the shared model is kept (cleanupFiles in
\* teach.ts): whatever the owner, the sweep, a crash and the worker do in any
\* order, a lesson on the model is flagged in its row, and the flag keeps the file.
THEOREM LessonFilesAreKept == TeachSpec => []FilesUntilRestored
<1>1. TeachInv => FilesUntilRestored
  BY DEF TeachInv, TeachSound, LessonSound, FlaggedOnTable, FilesUntilRestored
<1>. QED  BY <1>1, TeachInvAlways, PTL

\* Whoever was answered CANCELLED (cancel in teach.ts) is not offered the lesson
\* afterwards, outside the two windows: the flag stays in the row for as long as
\* a step of the worker may still write it, and no publish of it begins.
THEOREM CancelledIsNotOffered == TeachSpec => []CancelIsHonoured
<1>1. ASSUME TeachInv PROVE CancelIsHonoured
  <2>1. ASSUME NEW j \in told \ (Excused("late") \cup Excused("undone"))
        PROVE  job[j].st \notin {"READY", "NEEDS_MORE", "PENDING_REVIEW", "ANNOUNCED"}
    BY <1>1, <2>1 DEF TeachInv, TeachSound, LessonSound, CancelledStays, Told, Offered
  <2>. QED  BY <2>1 DEF CancelIsHonoured
<1>. QED  BY <1>1, TeachInvAlways, PTL
=============================================================================
