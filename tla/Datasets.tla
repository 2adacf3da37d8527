------------------------------- MODULE Datasets -------------------------------
(* The training sets of a node (teach-datasets.ts, the reader teach-dataset.ts  *)
(* and the routes of api.ts): a file is uploaded, read into questions, edited,   *)
(* copied, trained by a lesson, and goes when it is deleted or has aged.         *)
(* Every row carries the knowledge it was copied from (`from`) or stands in for  *)
(* (`replaces`); a row that could not be used stays in the report.               *)
EXTENDS Naturals, FiniteSets, SequencesExt

CONSTANTS
  Teacher,         \* teaching keys
  Knowledge,      \* published knowledges whose questions may be copied
  Published,      \* [Knowledge -> Seq of rows]: their published questions
  File,           \* files a person uploads
  Readings,       \* [File -> set of Seqs of rows]: what the parser options make of them
  Typed,          \* rows a person types into an edit
  MaxRows,        \* dataset.maxRows
  KeptPerKey,     \* dataset.keptPerKey
  MaxSets, MaxRevision, MaxLessons   \* bounds

ASSUME DatasetBounds == {MaxRows, KeptPerKey, MaxSets, MaxRevision, MaxLessons} \subseteq Nat \ {0}

VARIABLES
  sets,           \* Seq of rows of teach_datasets with their files
  asking,         \* createJob between its reading of the set and its row
  taught         \* Seq of lessons made of a set
datasetVars == <<sets, asking, taught>>

None == "none"
ASSUME NoneIsNothing == None \notin Knowledge
NobodyAsks == [set |-> 0, rows |-> <<>>, base |-> None]
SetIds == 1..Len(sets)

(* ------------------------------ reading a file ------------------------------ *)
(* Two rows with one question and two answers are both refused; a row without   *)
(* an answer, a second copy and a row past the cap are refused.                  *)
Status(raw, i) ==
  LET Usable == {j \in DOMAIN raw : raw[j].a # None}
      Conflict(j) == \E k \in Usable : raw[k].q = raw[j].q /\ raw[k].a # raw[j].a
      Copy(j) == \E k \in Usable : k < j /\ raw[k].q = raw[j].q /\ raw[k].a = raw[j].a
      Good == {j \in Usable : ~Conflict(j) /\ ~Copy(j)}
  IN CASE i \notin Usable -> "empty"
       [] Conflict(i) -> "conflict"
       [] Copy(i) -> "duplicate"
       [] Cardinality({j \in Good : j < i}) >= MaxRows -> "over_cap"
       [] OTHER -> "ok"

Accepted(raw) == LET ok == {i \in DOMAIN raw : Status(raw, i) = "ok"}
                     at == SetToSortSeq(ok, <)
                 IN [i \in DOMAIN at |-> raw[at[i]]]

RefusedRows(raw) == {[row |-> raw[i], line |-> i] : i \in {j \in DOMAIN raw : Status(raw, j) # "ok"}}

AskedIn(rows) == {rows[i].q : i \in DOMAIN rows}
Answers(rows) == {<<rows[i].q, rows[i].a>> : i \in DOMAIN rows}
Named(rows) == {rows[i].ref : i \in DOMAIN rows} \ {None}

(* Mutant: only the rows copied unchanged say whose they are. *)
ParentOfCopies(rows) ==
  LET ids == {rows[i].ref : i \in {j \in DOMAIN rows : rows[j].rel = "from"}} \ {None}
  IN IF Cardinality(ids) = 1 THEN CHOOSE k \in ids : TRUE ELSE None

soleParentPatch(rows) ==
  IF Cardinality(Named(rows)) = 1 THEN CHOOSE k \in Named(rows) : TRUE ELSE None

(* The refused rows an edit leaves unsolved stay in the report. *)
carryRejected(before, report, rows) ==
  LET Solved(r) == \/ <<r.row.q, r.row.a>> \in Answers(rows) \ Answers(before)
                   \/ r.row.q \in AskedIn(rows) \ AskedIn(before)
  IN {r \in report : ~Solved(r)}

(* ------------------------------ the kept sets ------------------------------- *)
Live(d) == sets[d].status # "deleted"
OwnSets(o) == {d \in SetIds : Live(d) /\ sets[d].owner = o}
SameBytes(o, rows) == {d \in OwnSets(o) : sets[d].rows = rows}
Busy(d) == \E l \in DOMAIN taught : taught[l].set = d /\ taught[l].state = "active"
assertIdle(d) == ~Busy(d)
rowsOrThrow(d) == sets[d].file

NewSet(o, raw, src, parent, keep) ==
  [owner |-> o, status |-> IF src = None THEN "ready" ELSE "staged", rows |-> Accepted(raw),
   report |-> RefusedRows(raw), source |-> src, parent |-> parent, revision |-> 1, file |-> TRUE,
   keep |-> keep, born |-> Named(Accepted(raw)) \cup ({parent} \ {None})]

(* createSet: nothing usable is refused, the same bytes of the same key are the    *)
(* same set.                                                                     *)
createSet(o, raw, src, parent, keep) ==
  /\ Accepted(raw) # <<>>
  /\ SameBytes(o, Accepted(raw)) = {}
  /\ Len(sets) < MaxSets
  /\ sets' = Append(sets, NewSet(o, raw, src,
                 IF parent # None THEN parent ELSE soleParentPatch(Accepted(raw)), keep))

gate(o) == Cardinality(OwnSets(o)) < KeptPerKey

Upload(o, f, keep) ==
  /\ gate(o)
  /\ \E raw \in Readings[f] : createSet(o, raw, f, None, keep)
  /\ UNCHANGED <<asking, taught>>

TypeIn(o, keep) ==
  /\ gate(o)
  /\ \E x \in Typed : createSet(o, <<x>>, None, None, keep)
  /\ UNCHANGED <<asking, taught>>

(* Copy and continue: the rows name the knowledge they were copied from. *)
forkFromPatch(o, k) ==
  /\ createSet(o, [i \in DOMAIN Published[k] |-> [Published[k][i] EXCEPT !.ref = k, !.rel = "from"]],
            None, k, TRUE)
  /\ UNCHANGED <<asking, taught>>

(* ---------------------------------- edits ----------------------------------- *)
NoOp == [op |-> "none"]
RowsOps(d) ==
  {[op |-> "remove", at |-> i] : i \in DOMAIN sets[d].rows}
  \cup {[op |-> "drop_rejected", line |-> r.line] : r \in sets[d].report}
  \cup {[op |-> "append", row |-> x] : x \in Typed}
  \cup {[op |-> "replace", at |-> i, row |-> x] : i \in DOMAIN sets[d].rows, x \in Typed}

(* A replaced row keeps its pointer: it stands in for the row it was. *)
Replaced(old, x) ==
  IF old.ref = None THEN x
  ELSE [x EXCEPT !.ref = old.ref,
                 !.rel = IF old.q = x.q /\ old.a = x.a THEN old.rel ELSE "replaces"]

applyRowsOp(rows, op) ==
  CASE op.op = "remove" -> RemoveAt(rows, op.at)
    [] op.op = "append" -> Append(rows, op.row)
    [] op.op = "replace" -> [rows EXCEPT ![op.at] = Replaced(@, op.row)]
    [] OTHER -> rows

(* New bytes for one id; bytes the owner has under another id are not written. *)
rewrite(d, rows, report) ==
  /\ SameBytes(sets[d].owner, rows) \subseteq {d}
  /\ sets[d].revision < MaxRevision
  /\ sets' = [sets EXCEPT ![d].rows = rows, ![d].report = report, ![d].revision = @ + 1,
                          ![d].file = TRUE]

Reread(d) ==
  /\ Live(d) /\ assertIdle(d) /\ sets[d].status = "staged"
  /\ sets[d].source # None
  /\ \E raw \in Readings[sets[d].source] :
        Accepted(raw) # <<>> /\ rewrite(d, Accepted(raw), RefusedRows(raw))
  /\ UNCHANGED <<asking, taught>>

KeptReport(d, op) == IF op.op = "drop_rejected"
               THEN {r \in sets[d].report : r.line # op.line} ELSE sets[d].report

Edit(d, op) ==
  /\ Live(d) /\ assertIdle(d) /\ rowsOrThrow(d)
  /\ LET raw == applyRowsOp(sets[d].rows, op)
         rows == Accepted(raw)
     IN /\ rows # <<>>
        /\ rewrite(d, rows, RefusedRows(raw) \cup carryRejected(sets[d].rows, KeptReport(d, op), rows))
  /\ UNCHANGED <<asking, taught>>

Retain(d, keep) ==
  /\ Live(d) /\ sets[d].keep # keep
  /\ sets' = [sets EXCEPT ![d].keep = keep]
  /\ UNCHANGED <<asking, taught>>

(* The copy an owner edits while a lesson reads the set. *)
Fork(d, op) ==
  /\ Live(d) /\ rowsOrThrow(d)
  /\ createSet(sets[d].owner, IF op = NoOp THEN sets[d].rows ELSE applyRowsOp(sets[d].rows, op),
            None, sets[d].parent, sets[d].keep)
  /\ UNCHANGED <<asking, taught>>

(* ------------------------------- end of a set ------------------------------- *)
removeFiles(s) == [s EXCEPT !.file = FALSE, !.source = None, !.report = {}]
Tombstone(s) == [removeFiles(s) EXCEPT !.status = "deleted"]

remove(d) ==
  /\ Live(d) /\ assertIdle(d)
  /\ sets' = [sets EXCEPT ![d] = Tombstone(@)]
  /\ UNCHANGED <<asking, taught>>

(* sweep: a staged set never trained, any other set long after its last lesson; *)
(* how long is not modelled, so any idle set may have aged.                      *)
sweep == \E d \in SetIds : remove(d)

(* --------------------------------- lessons ---------------------------------- *)
Trainable(rows, base) == {i \in DOMAIN rows : ~(rows[i].rel = "from" /\ rows[i].ref = base)}

(* createJob reads the set and asks for its parent, then waits for the catalogue *)
(* and the trainer before the row of the lesson is written.                       *)
AskLesson(d, base) ==
  /\ asking = NobodyAsks /\ Len(taught) < MaxLessons
  /\ Live(d) /\ rowsOrThrow(d)
  /\ sets[d].parent # None => base = sets[d].parent
  /\ Trainable(sets[d].rows, base) # {}
  /\ asking' = [set |-> d, rows |-> sets[d].rows, base |-> base]
  /\ UNCHANGED <<sets, taught>>

markStatus(d, s) == IF Live(d) THEN [sets EXCEPT ![d].status = s] ELSE sets

InsertLesson ==
  /\ asking # NobodyAsks
  /\ taught' = Append(taught, [set |-> asking.set, rows |-> asking.rows, base |-> asking.base,
                                 state |-> "active"])
  /\ sets' = markStatus(asking.set, "in_use")
  /\ asking' = NobodyAsks

(* A lesson ends: a set kept only for its training loses its rows unless another *)
(* lesson is still reading it.                                                    *)
FinishLesson(l) ==
  LET d == taught[l].set
      others == \E m \in DOMAIN taught \ {l} : taught[m].set = d /\ taught[m].state = "active"
      back == IF others THEN sets ELSE markStatus(d, "ready")
  IN /\ taught[l].state = "active"
     /\ taught' = [taught EXCEPT ![l].state = "ready"]
     /\ sets' = IF others \/ ~Live(d) \/ sets[d].keep THEN back
                ELSE [back EXCEPT ![d].file = FALSE, ![d].source = None]
     /\ UNCHANGED asking

(* datasetPublication: the parent is asked for again, and the set must still be  *)
(* what the lesson froze.                                                         *)
PublishLesson(l) ==
  LET d == taught[l].set
  IN /\ taught[l].state = "ready"
     /\ sets[d].parent # None => taught[l].base = sets[d].parent
     /\ sets[d].rows = taught[l].rows
     /\ taught' = [taught EXCEPT ![l].state = "published"]
     /\ UNCHANGED <<sets, asking>>

DatasetsInit == sets = <<>> /\ asking = NobodyAsks /\ taught = <<>>

DatasetsNext ==
  \/ \E o \in Teacher, f \in File, k \in BOOLEAN : Upload(o, f, k)
  \/ \E o \in Teacher, k \in BOOLEAN : TypeIn(o, k)
  \/ \E o \in Teacher, k \in Knowledge : forkFromPatch(o, k)
  \/ \E d \in SetIds : Reread(d)
  \/ \E d \in SetIds : \E op \in RowsOps(d) : Edit(d, op)
  \/ \E d \in SetIds, k \in BOOLEAN : Retain(d, k)
  \/ \E d \in SetIds : \E op \in RowsOps(d) \cup {NoOp} : Fork(d, op)
  \/ sweep
  \/ \E d \in SetIds, b \in Knowledge \cup {None} : AskLesson(d, b)
  \/ InsertLesson
  \/ \E l \in DOMAIN taught : FinishLesson(l) \/ PublishLesson(l)

DatasetsSpec == DatasetsInit /\ [][DatasetsNext]_datasetVars

(* -------------------------------- properties -------------------------------- *)
(* A lesson whose questions all came from one knowledge, in a set that named     *)
(* only it when it was made, in its questions or as the knowledge it was copied   *)
(* on, is published with that knowledge as its base (teach.ts:1057-1069,          *)
(* 3434-3437), whatever was edited, read again, replaced or copied on the way.    *)
CopyIsDeclared ==
  \A l \in DOMAIN taught : \A k \in Knowledge :
    taught[l].state = "published" /\ Named(taught[l].rows) = {k} /\ sets[taught[l].set].born = {k}
      => taught[l].base = k

===============================================================================
