------------------------------ MODULE Teaching ------------------------------
(* Teach mode (src/src/teach.ts): a visitor's corrections become a lesson, a *)
(* lesson becomes a private draft, and its owner may publish the draft. One  *)
(* worker walks a lesson through PREFLIGHT, TRAINING and CHECKING with an    *)
(* await after every step; the owner, the operator, the sweep, a crash, a    *)
(* graceful stop and a restart of the serving model fall between the steps.  *)
(* The training set lives in teach-datasets.ts and is edited beside it.      *)
EXTENDS Naturals, FiniteSets

CONSTANTS
    Jobs,           \* rows of teach_jobs a run may create
    MaxDrafts,      \* bound: drafts at once that a lesson, a publish or the record names
    MaxMishaps,     \* bound: crashes, stops and restarts of the serving model
    PublishModes,   \* values of teach.publish: the operator may change it
    NoJob

ASSUME TeachAssumption ==
    /\ NoJob \notin Jobs
    /\ MaxDrafts \in Nat /\ MaxMishaps \in Nat
    /\ PublishModes \subseteq {"auto", "review"}

VARIABLES
    job,        \* the store's teach_jobs rows
    set,        \* the training set the lessons are made from
    asked,      \* createJob between its reads and its insert: the revision read
    drafts,     \* draft anchors in the store
    made,       \* what every draft was made from: its lesson, verdict, consent
    onRecord,   \* draft ids announced on the ledger
    publishing, \* publish and announce calls in flight, per lesson
    pinned,     \* training sets pinned for ever by a publish
    worker,     \* where the worker stands (this.current, this.running)
    restore,    \* pendingRestore, in memory
    table,      \* lessons and context stacks on the shared model
    serving,    \* the model server answers
    node,       \* "up", "stopping" (stopped is set) or "down"
    mishaps,    \* bound counter
    told,       \* history: lessons whose caller was answered CANCELLED
    astray      \* history: <<why, lesson>> of the windows named below
teachVars == <<job, set, asked, drafts, made, onRecord, publishing, pinned, worker,
               restore, table, serving, node, mishaps, told, astray>>

Active == {"QUEUED", "PREFLIGHT", "TRAINING", "EXPORTED", "CHECKING"}
Status == Active \cup {"NEW", "READY", "NEEDS_MORE", "FAILED", "CANCELLED",
                       "PENDING_REVIEW", "REJECTED", "ANNOUNCED", "EXPIRED"}
Results == {"none", "unmeasured", "skipped", "bad", "ok"}
\* Revision 1 of the set holds a row that is personal information; revision 2
\* is the set after its owner took that row out.
Revisions == 1..2
Personal == {1}
DraftIds == 1..MaxDrafts

Row == [st : Status, cancel : BOOLEAN, applied : BOOLEAN, blocked : BOOLEAN, waited : BOOLEAN,
        files : {"none", "snapshot", "npz"}, side : BOOLEAN, draft : 0..MaxDrafts,
        pub : {"none", "pending_review", "announced", "listed", "rejected"},
        checks : Results, restarted : BOOLEAN, snap : 0..2]
Steps == {"idle", "restore", "slot", "preflight", "training", "asking",
          "checking", "flagged", "measuring", "drafting", "drafted"}

NewRow == [st |-> "NEW", cancel |-> FALSE, applied |-> FALSE, blocked |-> FALSE,
           waited |-> FALSE, files |-> "none", side |-> TRUE, draft |-> 0, pub |-> "none",
           checks |-> "none", restarted |-> FALSE, snap |-> 0]
Idle == [pc |-> "idle", job |-> NoJob, res |-> "none", draft |-> 0]
NotPublishing == [at |-> "no", draft |-> 0]

TeachInit ==
    /\ job = [j \in Jobs |-> NewRow]
    /\ set \in {[rev |-> r, deleted |-> FALSE, file |-> TRUE, keep |-> k] :
                r \in Revisions, k \in BOOLEAN}
    /\ asked = [j \in Jobs |-> 0]
    /\ made = [d \in DraftIds |-> [job |-> NoJob, res |-> "none", consent |-> FALSE]]
    /\ drafts = {} /\ onRecord = {} /\ pinned = {} /\ restore = {} /\ table = {}
    /\ publishing = [j \in Jobs |-> NotPublishing]
    /\ worker = Idle
    /\ serving = TRUE /\ node = "up" /\ mishaps = 0
    /\ told = {} /\ astray = {}

---------------------------------------------------------------------------
(* Helpers of the handlers.                                               *)

Lesson(j) == <<"lesson", j>>
Context(j) == <<"context", j>>
\* this.current: set by runJob, so not yet while the slot is being acquired.
Current == IF worker.pc \in {"idle", "restore", "slot"} THEN NoJob ELSE worker.job
Up == node # "down"
ActiveJobs(rows) == {j \in Jobs : rows[j].st \in Active}

\* Mutant: the files go although the lesson may still be on the shared table.
CleanedAnyway(row) == [row EXCEPT !.files = "none"]
\* cleanupFiles: the npz is kept while the lesson may still be applied.
Cleaned(row) == IF row.applied THEN row ELSE [row EXCEPT !.files = "none"]
KeptForRestore(j) == IF job[j].applied THEN {j} ELSE {}

Ended(row, status) == [row EXCEPT !.st = status, !.blocked = FALSE, !.waited = FALSE]
\* Mutant: a lesson somebody cancelled goes on.
NeverCancelled(j) == FALSE
\* cancelled(): the flag every checkpoint of the worker consults.
Cancelled(j) == job[j].cancel
CancelledRow(j) == IF job[j].st = "CANCELLED" THEN job[j]
                   ELSE Ended(Cleaned(job[j]), "CANCELLED")

\* releaseDataset and afterTraining, over the rows as they will be.
Released(rows) ==
    IF ~set.keep /\ ~set.deleted /\ ActiveJobs(rows) = {} THEN [set EXCEPT !.file = FALSE]
    ELSE set
WorkerIdle == worker' = Idle

---------------------------------------------------------------------------
(* Creating a lesson: createJob reads the set, awaits, then inserts.      *)

\* Bound by Jobs: each row is created once, in a fixed order of use.
AskJob(j) ==
    /\ node = "up" /\ job[j].st = "NEW" /\ asked[j] = 0
    /\ ~set.deleted /\ set.file
    /\ asked' = [asked EXCEPT ![j] = set.rev]
    /\ UNCHANGED <<made, job, set, drafts, onRecord, publishing, pinned, worker, restore,
                   table, serving, node, mishaps, told, astray>>
\* The snapshot is what was read, whatever became of the set since; side
\* says whether the visitor left the side-effect check on.
InsertJob(j, side) ==
    /\ Up /\ asked[j] # 0
    /\ job' = [job EXCEPT ![j] = [NewRow EXCEPT !.st = "QUEUED", !.files = "snapshot",
                                    !.snap = asked[j], !.side = side]]
    /\ asked' = [asked EXCEPT ![j] = 0]
    /\ UNCHANGED <<made, set, drafts, onRecord, publishing, pinned, worker, restore, table,
                   serving, node, mishaps, told, astray>>

---------------------------------------------------------------------------
(* The worker's loop: tick() runs when nothing else of the worker does.   *)

\* Never start a step while the table may be dirty.
TickFree == node = "up" /\ worker = Idle /\ restore = {}

\* restoreTable reads the row, then waits for the shared model.
RestoreBegin(j) ==
    /\ node = "up" /\ worker = Idle /\ j \in restore /\ serving
    /\ worker' = [Idle EXCEPT !.pc = "restore", !.job = j,
                              !.res = IF job[j].st = "CHECKING" THEN "bad" ELSE "none"]
    /\ UNCHANGED <<made, job, set, asked, drafts, onRecord, publishing, pinned, restore,
                   table, serving, node, mishaps, told, astray>>
\* The lesson comes off by its own file, the context by the bodies it named.
Restored(j) == table \ ({Context(j)} \cup (IF job[j].files = "npz" THEN {Lesson(j)} ELSE {}))
RestoreEnd ==
    /\ Up /\ worker.pc = "restore" /\ serving
    /\ LET j == worker.job IN
       /\ table' = Restored(j)
       /\ job' = [job EXCEPT ![j].applied = FALSE,
                             ![j].blocked = IF worker.res = "bad" THEN FALSE ELSE @,
                             ![j].st = IF worker.res = "bad" THEN "EXPORTED" ELSE @]
       /\ restore' = restore \ {j}
    /\ WorkerIdle
    /\ UNCHANGED <<made, set, asked, drafts, onRecord, publishing, pinned, serving, node,
                   mishaps, told, astray>>
RestoreLater ==
    /\ Up /\ worker.pc = "restore"
    /\ WorkerIdle
    /\ UNCHANGED <<made, job, set, asked, drafts, onRecord, publishing, pinned, restore,
                   table, serving, node, mishaps, told, astray>>

\* sweepExpired: an unpublished lesson outlives its draft TTL.
Expire(j) ==
    /\ TickFree
    /\ job[j].st \in {"READY", "NEEDS_MORE", "REJECTED"}
    /\ job[j].pub \in {"none", "rejected"}
    /\ drafts' = drafts \ {job[j].draft}
    /\ job' = [job EXCEPT ![j] = [Ended(Cleaned(@), "EXPIRED") EXCEPT !.draft = 0]]
    /\ restore' = restore \cup KeptForRestore(j)
    /\ astray' = astray \cup (IF publishing[j].at \in {"announce", "closing"}
                              THEN {<<"undone", j>>} ELSE {})
    /\ UNCHANGED <<made, set, asked, onRecord, publishing, pinned, worker, table, serving,
                   node, mishaps, told>>
Sweepable(j) == job[j].st \in {"FAILED", "CANCELLED"}
\* ... and the files of a failed or cancelled lesson go after the same TTL.
SweepFiles(j) ==
    /\ TickFree
    /\ Sweepable(j) /\ job[j].files # "none" /\ ~job[j].applied
    /\ job' = [job EXCEPT ![j] = Cleaned(@)]
    /\ UNCHANGED <<made, set, asked, drafts, onRecord, publishing, pinned, worker, restore,
                   table, serving, node, mishaps, told, astray>>
\* reconcilePublished: the verifiers listed the anchor.
Reconcile(j) ==
    /\ TickFree /\ job[j].st = "ANNOUNCED" /\ job[j].pub = "announced"
    /\ job' = [job EXCEPT ![j].pub = "listed"]
    /\ UNCHANGED <<made, set, asked, drafts, onRecord, publishing, pinned, worker, restore,
                   table, serving, node, mishaps, told, astray>>

\* A lesson to be checked goes first; a blocked one waits its retry time.
PickExported(j) ==
    /\ TickFree /\ job[j].st = "EXPORTED"
    /\ IF Cancelled(j)
       THEN /\ job' = [job EXCEPT ![j] = CancelledRow(j)]
            /\ restore' = restore \cup KeptForRestore(j)
            /\ WorkerIdle
       ELSE /\ worker' = [Idle EXCEPT !.pc = "asking", !.job = j]
            /\ UNCHANGED <<job, restore>>
    /\ UNCHANGED <<made, set, asked, drafts, onRecord, publishing, pinned, table, serving,
                   node, mishaps, told, astray>>
PickQueued(j) ==
    /\ TickFree /\ job[j].st = "QUEUED"
    /\ \A k \in Jobs : job[k].st = "EXPORTED" => job[k].blocked
    /\ IF job[j].cancel
       THEN job' = [job EXCEPT ![j] = Ended(@, "CANCELLED")] /\ WorkerIdle
       ELSE worker' = [Idle EXCEPT !.pc = "slot", !.job = j] /\ UNCHANGED job
    /\ UNCHANGED <<made, set, asked, drafts, onRecord, publishing, pinned, restore, table,
                   serving, node, mishaps, told, astray>>

---------------------------------------------------------------------------
(* runJob, from the trainer slot to the private draft.                    *)

\* The worker leaves the lesson with this row.
Leave(j, row) ==
    /\ job' = [job EXCEPT ![j] = row]
    /\ WorkerIdle
\* Mutant: the interrupted step stays in the row.
LeftAsIs(row) == [row EXCEPT !.blocked = FALSE]
Requeued(row) == [row EXCEPT !.st = "QUEUED", !.blocked = FALSE]
\* lockWait and checkWaitSince: the model may stay away for a grace period
\* counted in memory. Bound: one retry of a lesson fits into it.
Waiting(row, status) == [row EXCEPT !.st = status, !.blocked = TRUE, !.waited = TRUE]

SlotBusy ==
    /\ Up /\ worker.pc = "slot" /\ WorkerIdle
    /\ UNCHANGED <<made, job, set, asked, drafts, onRecord, publishing, pinned, restore,
                   table, serving, node, mishaps, told, astray>>
\* The cancel that arrived while the slot was acquired is answered before the
\* first write; else the context stack goes on the shared model.
SlotTaken ==
    /\ Up /\ worker.pc = "slot"
    /\ LET j == worker.job IN
       IF Cancelled(j)
       THEN Leave(j, CancelledRow(j)) /\ UNCHANGED table
       ELSE /\ job' = [job EXCEPT ![j].st = "PREFLIGHT", ![j].blocked = FALSE]
            /\ worker' = [worker EXCEPT !.pc = "preflight"]
            /\ table' = IF serving THEN table \cup {Context(j)} ELSE table
    /\ UNCHANGED <<made, set, asked, drafts, onRecord, publishing, pinned, restore, serving,
                   node, mishaps, told, astray>>
\* withStack took the context off again: the questions the model does not
\* know are left, or the pre-flight was given up and the interactive one stands.
PreflightDone ==
    /\ Up /\ worker.pc = "preflight"
    /\ table' = table \ {Context(worker.job)}
    /\ LET j == worker.job IN
       \/ /\ ~Cancelled(j)
          /\ job' = [job EXCEPT ![j].st = "TRAINING"]
          /\ worker' = [worker EXCEPT !.pc = "training"] /\ UNCHANGED set
       \/ Cancelled(j) /\ Leave(j, CancelledRow(j)) /\ UNCHANGED set
       \/ ~Cancelled(j) /\ Leave(j, Ended(job[j], "FAILED")) /\ UNCHANGED set  \* already known
       \/ ~job[j].waited /\ Leave(j, Waiting(job[j], "QUEUED")) /\ UNCHANGED set  \* model busy
       \/ node = "stopping" /\ Leave(j, Requeued(job[j])) /\ UNCHANGED set
       \/ Leave(j, Ended(job[j], "FAILED")) /\ set' = Released(job')
    /\ UNCHANGED <<made, asked, drafts, onRecord, publishing, pinned, restore, serving, node,
                   mishaps, told, astray>>
\* train, runProcess, runUnion and runStub: the trainer wrote a file, or
\* failed, ran out of time or was killed for a cancel or a stop.
TrainDone ==
    /\ Up /\ worker.pc = "training"
    /\ LET j == worker.job IN
       \/ /\ ~Cancelled(j)
          /\ job' = [job EXCEPT ![j].st = "EXPORTED", ![j].files = "npz", ![j].blocked = FALSE]
          /\ worker' = [worker EXCEPT !.pc = "asking"]
       \/ Cancelled(j) /\ Leave(j, CancelledRow(j))
       \/ ~Cancelled(j) /\ Leave(j, Ended(job[j], "FAILED"))
       \/ node = "stopping" /\ Leave(j, Requeued(job[j]))
    /\ UNCHANGED <<made, set, asked, drafts, onRecord, publishing, pinned, restore, table,
                   serving, node, mishaps, told, astray>>

\* The next step of runJob once check() has an answer.
Answered(j, res) ==
    IF Cancelled(j) THEN Leave(j, CancelledRow(j))
    ELSE worker' = [worker EXCEPT !.pc = "drafting", !.res = res] /\ UNCHANGED job
\* check() asked the server whether it is there, before anything else.
AskServer ==
    /\ Up /\ worker.pc = "asking"
    /\ LET j == worker.job IN
       \/ /\ serving
          /\ job' = [job EXCEPT ![j].st = "CHECKING", ![j].blocked = FALSE]
          /\ worker' = [worker EXCEPT !.pc = "checking"]
       \/ ~serving /\ ~job[j].waited /\ Leave(j, Waiting(job[j], "EXPORTED"))
       \/ ~serving /\ job[j].waited /\ Answered(j, "unmeasured")
    /\ restore' = restore \cup (IF job'[worker.job].st = "CANCELLED" THEN KeptForRestore(worker.job) ELSE {})
    /\ UNCHANGED <<made, set, asked, drafts, onRecord, publishing, pinned, table, serving,
                   node, mishaps, told, astray>>
\* exclusiveTry gave up on the shared model: wait again, or save unchecked.
CheckBusy ==
    /\ Up /\ worker.pc = "checking"
    /\ LET j == worker.job IN
       \/ ~job[j].waited /\ Leave(j, Waiting(job[j], "EXPORTED"))
       \/ job[j].waited /\ Answered(j, "unmeasured")
    /\ UNCHANGED <<made, set, asked, drafts, onRecord, publishing, pinned, restore, table,
                   serving, node, mishaps, told, astray>>
\* lesson_applied is persisted BEFORE the apply.
FlaggedRow(row) == [row EXCEPT !.applied = TRUE]
FlagLesson ==
    /\ Up /\ worker.pc = "checking"
    /\ job' = [job EXCEPT ![worker.job] = FlaggedRow(@)]
    /\ worker' = [worker EXCEPT !.pc = "flagged"]
    /\ UNCHANGED <<made, set, asked, drafts, onRecord, publishing, pinned, restore, table,
                   serving, node, mishaps, told, astray>>
\* The apply throws when the model is down, and when a second cancel took the
\* file: check() then measures nothing.
ApplyLesson ==
    /\ Up /\ worker.pc = "flagged"
    /\ LET applies == serving /\ job[worker.job].files = "npz" IN
       /\ table' = IF serving THEN table \cup {Context(worker.job)}
                                    \cup (IF applies THEN {Lesson(worker.job)} ELSE {})
                   ELSE table
       /\ worker' = [worker EXCEPT !.pc = "measuring", !.res = IF applies THEN "none" ELSE "bad"]
    /\ UNCHANGED <<made, job, set, asked, drafts, onRecord, publishing, pinned, restore,
                   serving, node, mishaps, told, astray>>

\* What the measurement may say of a lesson whose side effects were measured.
Verdicts(j) == IF job[j].side THEN {"ok", "bad"} ELSE {"skipped"}
\* The end of check(): its finally takes the lesson off, then runJob goes on
\* from the verdict, an outage, a stop or an error. off: the removal worked.
MeasureDone(off) ==
    /\ Up /\ worker.pc = "measuring"
    /\ LET j == worker.job
           row == [job[j] EXCEPT !.applied = ~off]
       IN
       /\ table' = IF off THEN table \ {Lesson(j), Context(j)} ELSE table
       /\ restore' = IF off THEN restore ELSE restore \cup {j}
       /\ \/ /\ Cancelled(j)
             /\ Leave(j, Ended(Cleaned(row), "CANCELLED")) /\ UNCHANGED set
          \/ /\ ~Cancelled(j) /\ worker.res = "none"
             /\ \E res \in Verdicts(j) \cup (IF job[j].waited THEN {"unmeasured"} ELSE {}) :
                worker' = [worker EXCEPT !.pc = "drafting", !.res = res]
             /\ job' = [job EXCEPT ![j] = row] /\ UNCHANGED set
          \/ ~job[j].waited /\ Leave(j, Waiting(row, "EXPORTED")) /\ UNCHANGED set   \* outage
          \/ /\ node = "stopping"
             /\ Leave(j, [row EXCEPT !.st = "EXPORTED", !.blocked = FALSE]) /\ UNCHANGED set
          \/ Leave(j, Ended(row, "FAILED")) /\ set' = Released(job')   \* base_state_mismatch, ...
    /\ UNCHANGED <<made, asked, drafts, onRecord, publishing, pinned, serving, node, mishaps,
                   told, astray>>
\* createLessonDraft refreshes the draft of an earlier check, else takes a new
\* id. A crash before finish leaves a draft no lesson names: nothing reads such
\* an orphan, and its id stands for a new one.
NamedDrafts == onRecord \cup {job[j].draft : j \in Jobs} \cup {publishing[j].draft : j \in Jobs}
MakeDraft ==
    /\ Up /\ worker.pc = "drafting"
    /\ \E d \in DraftIds :
       /\ IF job[worker.job].draft \in drafts THEN d = job[worker.job].draft
          ELSE d \notin NamedDrafts /\ 1..(d - 1) \subseteq NamedDrafts
       /\ made' = [made EXCEPT ![d] = [job |-> worker.job, res |-> worker.res,
                                       consent |-> d \in NamedDrafts /\ made[d].consent]]
       /\ drafts' = drafts \cup {d}
       /\ worker' = [worker EXCEPT !.pc = "drafted", !.draft = d]
    /\ UNCHANGED <<job, set, asked, onRecord, publishing, pinned, restore, table,
                   serving, node, mishaps, told, astray>>
\* createLessonDraft throws: the lesson is over.
DraftFails ==
    /\ Up /\ worker.pc = "drafting"
    /\ Leave(worker.job, Ended(job[worker.job], "FAILED")) /\ set' = Released(job')
    /\ UNCHANGED <<made, asked, drafts, onRecord, publishing, pinned, restore, table, serving,
                   node, mishaps, told, astray>>
\* finish(READY | NEEDS_MORE): the row is written whatever it says by now.
FinishDraft ==
    /\ Up /\ worker.pc = "drafted"
    /\ \E st \in (IF worker.res = "unmeasured" THEN {"READY"} ELSE {"READY", "NEEDS_MORE"}) :
       Leave(worker.job, [Ended(job[worker.job], st) EXCEPT
                            !.draft = worker.draft, !.checks = worker.res])
    /\ set' = Released(job')
    /\ UNCHANGED <<made, asked, drafts, onRecord, publishing, pinned, restore, table, serving,
                   node, mishaps, told, astray>>

---------------------------------------------------------------------------
(* The owner, the operator and the training set.                          *)

\* cancel: flag first; files and status only when no step holds the lesson.
Cancel(j) ==
    /\ Up /\ job[j].st \notin {"NEW", "ANNOUNCED"} /\ job[j].pub \notin {"announced", "listed"}
    /\ LET row == [job[j] EXCEPT !.cancel = TRUE] IN
       \/ /\ job[j].st \in {"QUEUED", "EXPORTED"}
          /\ job' = [job EXCEPT ![j] =
                       Ended(IF Current # j THEN Cleaned(row) ELSE row, "CANCELLED")]
          /\ restore' = restore \cup (IF Current # j THEN KeptForRestore(j) ELSE {})
          /\ UNCHANGED drafts
       \/ /\ job[j].st \in {"PREFLIGHT", "TRAINING", "CHECKING"}
          /\ job' = [job EXCEPT ![j] = IF Current # j THEN Ended(row, "CANCELLED") ELSE row]
          /\ UNCHANGED <<restore, drafts>>
       \/ /\ job[j].st \notin Active
          /\ job' = [job EXCEPT ![j] = [Ended(Cleaned(@), "CANCELLED") EXCEPT !.draft = 0]]
          /\ restore' = restore \cup KeptForRestore(j)
          /\ drafts' = drafts \ {job[j].draft}
    /\ told' = told \cup {j}
    /\ astray' = astray
         \cup (IF Current = j /\ worker.pc \in {"drafting", "drafted"} THEN {<<"late", j>>} ELSE {})
         \cup (IF publishing[j].at # "no" THEN {<<"undone", j>>} ELSE {})
    /\ UNCHANGED <<made, set, asked, onRecord, publishing, pinned, worker, table, serving,
                   node, mishaps>>
\* recheck: measure a lesson that was saved unchecked, or whose side-effect
\* check was off; the check now runs with it on.
Recheck(j) ==
    /\ Up /\ job[j].st \in {"READY", "NEEDS_MORE"} /\ job[j].pub = "none"
    /\ job[j].checks \in {"unmeasured", "skipped"} /\ job[j].files = "npz"
    /\ job' = [job EXCEPT ![j].st = "EXPORTED", ![j].blocked = FALSE,
                          ![j].side = @ \/ job[j].checks = "skipped"]
    /\ UNCHANGED <<made, set, asked, drafts, onRecord, publishing, pinned, worker, restore,
                   table, serving, node, mishaps, told, astray>>

\* draftFor: what a lesson must be before anything about it is published.
DraftFor(j) ==
    /\ job[j].st = "READY" /\ job[j].checks = "ok"
    /\ job[j].draft \in drafts
PublishBegin(j) ==
    /\ Up /\ publishing[j].at = "no" /\ DraftFor(j)
    /\ publishing' = [publishing EXCEPT ![j] = [at |-> "publish", draft |-> job[j].draft]]
    /\ UNCHANGED <<made, job, set, asked, drafts, onRecord, pinned, worker, restore, table,
                   serving, node, mishaps, told, astray>>
\* datasetPublication: the scan is evidence about the bytes it scanned only; a
\* set to be deleted after training is made private before the scan is asked.
ScanAllows(j, access) ==
    /\ set.rev = job[j].snap
    /\ access = "private" \/ ~set.keep \/ set.deleted \/ set.rev \notin Personal
\* The rest of publish(), after its awaits: the row it read is the one it
\* began with, the draft is read again. No copy is pinned only when the
\* privacy was forced, so an owner who asked for a private set has one.
PublishEnd(j, access) ==
    /\ Up /\ publishing[j].at = "publish" /\ publishing[j].draft \in drafts
    /\ ScanAllows(j, access)
    /\ pinned' = IF access # "private" /\ ~set.keep THEN pinned
                 ELSE pinned \cup {[rev |-> job[j].snap, access |-> access,
                                     scanned |-> ~set.deleted]}
    /\ made' = [made EXCEPT ![publishing[j].draft].consent = TRUE]
    /\ \/ /\ "review" \in PublishModes
          /\ job' = [job EXCEPT ![j].st = "PENDING_REVIEW", ![j].pub = "pending_review"]
          /\ publishing' = [publishing EXCEPT ![j] = NotPublishing]
       \/ /\ "auto" \in PublishModes
          /\ publishing' = [publishing EXCEPT ![j] =
                              IF job[j].st = "READY" THEN [@ EXCEPT !.at = "announce"]
                              ELSE NotPublishing]
          /\ UNCHANGED job
    /\ UNCHANGED <<set, asked, drafts, onRecord, worker, restore, table, serving, node,
                   mishaps, told, astray>>
\* A publish or an announce is refused, or fails on its way.
PublishRefused(j) ==
    /\ Up /\ publishing[j].at \in {"publish", "announce"}
    /\ publishing' = [publishing EXCEPT ![j] = NotPublishing]
    /\ UNCHANGED <<made, job, set, asked, drafts, onRecord, pinned, worker, restore, table,
                   serving, node, mishaps, told, astray>>
\* announceJob on the operator's door: only what its owner published.
Reviewed(j) ==
    /\ job[j].st = "PENDING_REVIEW" /\ job[j].pub = "pending_review"
    /\ job[j].draft \in drafts /\ made[job[j].draft].consent
Approve(j) ==
    /\ Up /\ publishing[j].at = "no" /\ Reviewed(j)
    /\ publishing' = [publishing EXCEPT ![j] = [at |-> "announce", draft |-> job[j].draft]]
    /\ UNCHANGED <<made, job, set, asked, drafts, onRecord, pinned, worker, restore, table,
                   serving, node, mishaps, told, astray>>
\* market.announce appended the anchor and dropped the draft ...
Announce(j) ==
    /\ Up /\ publishing[j].at = "announce"
    /\ onRecord' = onRecord \cup {publishing[j].draft}
    /\ drafts' = drafts \ {publishing[j].draft}
    /\ publishing' = [publishing EXCEPT ![j].at = "closing"]
    /\ UNCHANGED <<made, job, set, asked, pinned, worker, restore, table, serving, node, mishaps,
                   told, astray>>
\* ... and the row follows once the broadcast returned.
Announced(j) ==
    /\ Up /\ publishing[j].at = "closing"
    /\ job' = [job EXCEPT ![j].st = "ANNOUNCED", ![j].pub = "announced"]
    /\ publishing' = [publishing EXCEPT ![j] = NotPublishing]
    /\ UNCHANGED <<made, set, asked, drafts, onRecord, pinned, worker, restore, table,
                   serving, node, mishaps, told, astray>>
Reject(j) ==
    /\ Up /\ job[j].st = "PENDING_REVIEW"
    /\ job' = [job EXCEPT ![j].st = "REJECTED", ![j].pub = "rejected"]
    /\ astray' = astray \cup (IF publishing[j].at # "no" THEN {<<"undone", j>>} ELSE {})
    /\ UNCHANGED <<made, set, asked, drafts, onRecord, publishing, pinned, worker, restore,
                   table, serving, node, mishaps, told>>

\* assertIdle: a set a lesson in flight reads does not change under it.
SetIsIdle == \A j \in Jobs : job[j].st \notin Active
EditSet ==
    /\ Up /\ SetIsIdle /\ ~set.deleted /\ set.file /\ set.rev = 1
    /\ set' = [set EXCEPT !.rev = 2]
    /\ UNCHANGED <<made, job, asked, drafts, onRecord, publishing, pinned, worker, restore,
                   table, serving, node, mishaps, told, astray>>
\* remove, and the sweep of a set nobody used for its TTL: files and report go.
RemoveSet ==
    /\ Up /\ SetIsIdle /\ ~set.deleted
    /\ set' = [set EXCEPT !.deleted = TRUE, !.file = FALSE]
    /\ UNCHANGED <<made, job, asked, drafts, onRecord, publishing, pinned, worker, restore,
                   table, serving, node, mishaps, told, astray>>

---------------------------------------------------------------------------
(* The node and the model server come and go. Bound: MaxMishaps.          *)

\* SIGTERM: stopped is set before the trainer is killed; HTTP still answers.
Stop ==
    /\ node = "up" /\ mishaps < MaxMishaps /\ mishaps' = mishaps + 1
    /\ node' = "stopping"
    /\ UNCHANGED <<made, job, set, asked, drafts, onRecord, publishing, pinned, worker,
                   restore, table, serving, told, astray>>
\* The process is gone, at the end of a stop or in a crash: what was in
\* memory is lost, the shared table is not.
Die ==
    /\ \/ node = "up" /\ mishaps < MaxMishaps /\ mishaps' = mishaps + 1
       \/ node = "stopping" /\ UNCHANGED mishaps
    /\ node' = "down"
    /\ worker' = Idle /\ restore' = {}
    /\ asked' = [j \in Jobs |-> 0]
    /\ publishing' = [j \in Jobs |-> NotPublishing]
    /\ UNCHANGED <<made, job, set, drafts, onRecord, pinned, table, serving, told, astray>>
\* recoverAfterRestart: interrupted steps, and every row still flagged.
Recovered ==
    {j \in Jobs : job[j].st = "CHECKING" \/ job[j].applied
                  \/ (job[j].st = "PREFLIGHT" /\ ~job[j].restarted)}
Start ==
    /\ node = "down" /\ node' = "up"
    /\ restore' = Recovered
    /\ job' = [j \in Jobs |->
         LET row == [job[j] EXCEPT !.waited = FALSE] IN
         CASE row.st = "CHECKING" -> [row EXCEPT !.applied = TRUE]
           [] row.st \in {"PREFLIGHT", "TRAINING"} /\ row.restarted -> Ended(row, "FAILED")
           [] row.st \in {"PREFLIGHT", "TRAINING"} -> [Requeued(row) EXCEPT !.restarted = TRUE]
           [] OTHER -> row]
    /\ UNCHANGED <<made, set, asked, drafts, onRecord, publishing, pinned, worker, table,
                   serving, mishaps, told, astray>>
\* A restart of the serving model forgets what was on its table.
ServingDies ==
    /\ serving /\ mishaps < MaxMishaps /\ mishaps' = mishaps + 1
    /\ serving' = FALSE /\ table' = {}
    /\ UNCHANGED <<made, job, set, asked, drafts, onRecord, publishing, pinned, worker,
                   restore, node, told, astray>>
ServingBack ==
    /\ ~serving /\ serving' = TRUE
    /\ UNCHANGED <<made, job, set, asked, drafts, onRecord, publishing, pinned, worker,
                   restore, table, node, mishaps, told, astray>>

TeachNext ==
    \/ \E j \in Jobs :
         \/ AskJob(j) \/ \E side \in BOOLEAN : InsertJob(j, side)
         \/ RestoreBegin(j) \/ Expire(j) \/ SweepFiles(j) \/ Reconcile(j)
         \/ PickExported(j) \/ PickQueued(j)
         \/ Cancel(j) \/ Recheck(j) \/ Approve(j) \/ Reject(j)
         \/ PublishBegin(j) \/ PublishRefused(j) \/ Announce(j) \/ Announced(j)
         \/ \E access \in {"private", "derivative"} : PublishEnd(j, access)
    \/ RestoreEnd \/ RestoreLater
    \/ SlotBusy \/ SlotTaken \/ PreflightDone \/ TrainDone
    \/ AskServer \/ CheckBusy \/ FlagLesson \/ ApplyLesson
    \/ \E off \in BOOLEAN : MeasureDone(off)
    \/ MakeDraft \/ DraftFails \/ FinishDraft
    \/ EditSet \/ RemoveSet
    \/ Stop \/ Die \/ Start \/ ServingDies \/ ServingBack
TeachSpec == TeachInit /\ [][TeachNext]_teachVars

\* The worker's timer ticks and a started step ends; the slot and the model are
\* free at times; the node and the model come back. What the owner, the operator
\* and the sweep do need never happen.
WorkerStep == PreflightDone \/ TrainDone \/ AskServer \/ CheckBusy \/ FlagLesson \/ ApplyLesson
              \/ (\E off \in BOOLEAN : MeasureDone(off)) \/ MakeDraft \/ DraftFails \/ FinishDraft
TeachFairness ==
    /\ WF_teachVars(Start) /\ WF_teachVars(ServingBack \/ (node = "stopping" /\ Die))
    /\ WF_teachVars(WorkerStep)
    /\ \A j \in Jobs :
         /\ SF_teachVars(RestoreBegin(j) \/ PickExported(j) \/ PickQueued(j))
         /\ SF_teachVars(worker.job = j /\ (RestoreEnd \/ SlotTaken))
FairTeachSpec == TeachSpec /\ TeachFairness

---------------------------------------------------------------------------
\* While a lesson is on the shared model its file stays, whoever cancels,
\* deletes or expires it: only the file can take its rows off (cleanupFiles).
FilesUntilRestored == \A j \in Jobs : Lesson(j) \in table => job[j].files = "npz"

Excused(why) == {j \in Jobs : <<why, j>> \in astray}
\* A lesson whose owner was told CANCELLED is never offered or published
\* afterwards. Excused: a cancel that arrived while the draft was being
\* written, or while a publish was on its way.
CancelIsHonoured ==
    \A j \in told \ (Excused("late") \cup Excused("undone")) :
        job[j].st \notin {"READY", "NEEDS_MORE", "PENDING_REVIEW", "ANNOUNCED"}

\* Every lesson that was taken on ends, across restarts of the node and of the
\* model and however often either is busy.
LessonsEnd == \A j \in Jobs : job[j].st \in Active ~> job[j].st \notin Active
=============================================================================
