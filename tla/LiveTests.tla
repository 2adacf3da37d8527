------------------------------- MODULE LiveTests -------------------------------
(* Live tests of a node's model by visitors (chat-queue.ts, inference-records.ts, *)
(* the ChatMode half of market.ts and the /api/chat routes of api.ts).  A test has *)
(* a ticket under the id its client chose, waits for the one model, can be given up *)
(* while it waits, and when it ends leaves a turn its visitor may mark wrong and a  *)
(* receipt that a later batch puts on the ledger.                                   *)
EXTENDS Naturals, FiniteSets

CONSTANTS
  Test,          \* requests to POST /api/chat
  VisitorOf,     \* [Test -> visitor]
  IdOf,          \* [Test -> request_id its client chose]
  ModelOf,       \* [Test -> the model served when it runs]
  MaxReceipts,   \* receipts the journal holds before a flush (5000)
  MaxEntries,    \* batches the journal holds (1000)
  MaxClock, MaxFlushes, MaxCrashes   \* bounds

ASSUME LiveBounds == {MaxReceipts, MaxEntries, MaxClock, MaxFlushes, MaxCrashes} \subseteq Nat

VARIABLES
  test,          \* [Test -> "new", "open", "waiting", "running", "ended", "gaveup", "lost"]
  tickets,       \* ChatQueue.tickets: [id -> Gone or [of, state, cancelled]]
  told,          \* tests whose visitor was told that they are cancelled
  called,        \* tests that called the model
  turns,         \* tests whose turn is remembered (Market.turns)
  issues,        \* patch_issues: [Test -> [count, text, status]]
  clock,
  journal,       \* InferenceRecords.journal: [started, receipts, entries]
  disk,          \* kv inference.journal.v1
  handed,        \* receipts given to visitors: [of, model, at]
  flush,         \* entries the flush under way has still to submit
  offers,        \* [entry number -> times it was given to the ledger]
  flushes, crashes
liveVars == <<test, tickets, told, called, turns, issues, clock, journal, disk, handed, flush,
              offers, flushes, crashes>>

Gone == [of |-> "none", state |-> "gone", cancelled |-> FALSE]
Visitors == {VisitorOf[t] : t \in Test}
Ids == {IdOf[t] : t \in Test}
NoIssue == [count |-> 0, text |-> FALSE, status |-> "open"]
journalVars == <<journal, disk, handed, flush, offers, flushes>>

(* ---------------------------------- tickets ----------------------------------- *)
(* POST /api/chat: the ticket is there before the request waits for anything.      *)
open(t) ==
  /\ test[t] = "new" /\ test' = [test EXCEPT ![t] = "open"]
  /\ tickets' = [tickets EXCEPT ![IdOf[t]] = [of |-> t, state |-> "queued", cancelled |-> FALSE]]
  /\ UNCHANGED <<told, called, turns, issues, clock, crashes>> /\ UNCHANGED journalVars

close(t) == tickets' = [tickets EXCEPT ![IdOf[t]] = Gone]

(* No such knowledge, not held, not licensed, another model, or no runtime.         *)
Refuse(t) ==
  /\ test[t] = "open" /\ test' = [test EXCEPT ![t] = "ended"] /\ close(t)
  /\ UNCHANGED <<told, called, turns, issues, clock, crashes>> /\ UNCHANGED journalVars

Wait(t) ==
  /\ test[t] = "open" /\ test' = [test EXCEPT ![t] = "waiting"]
  /\ UNCHANGED <<tickets, told, called, turns, issues, clock, crashes>> /\ UNCHANGED journalVars

enter(i) == ~tickets[i].cancelled

Locked == \E t \in Test : test[t] = "running"

(* The lock is this test's: the ticket turns to running, or the test ends for       *)
(* nothing.                                                                          *)
TakeLock(t) ==
  /\ test[t] = "waiting" /\ ~Locked
  /\ IF enter(IdOf[t])
     THEN /\ test' = [test EXCEPT ![t] = "running"] /\ called' = called \cup {t}
          /\ tickets' = [tickets EXCEPT ![IdOf[t]] = IF @ = Gone THEN @ ELSE [@ EXCEPT !.state = "running"]]
     ELSE test' = [test EXCEPT ![t] = "gaveup"] /\ close(t) /\ UNCHANGED called
  /\ UNCHANGED <<told, turns, issues, clock, crashes>> /\ UNCHANGED journalVars

Owned(i, v) == tickets[i] # Gone /\ VisitorOf[tickets[i].of] = v

(* POST /api/chat/cancel: free while queued, refused once running, and nothing is    *)
(* said of the ticket of another.                                                    *)
cancel(v, i) ==
  /\ Owned(i, v) /\ tickets[i].state = "queued"
  /\ tickets' = [tickets EXCEPT ![i].cancelled = TRUE]
  /\ told' = told \cup {t \in Test : /\ IdOf[t] = i /\ VisitorOf[t] = v
                                     /\ test[t] \in {"open", "waiting", "running"}}
  /\ UNCHANGED <<test, called, turns, issues, clock, crashes>> /\ UNCHANGED journalVars

(* ---------------------------------- receipts ---------------------------------- *)
Receipt(t) == [of |-> t, model |-> ModelOf[t], at |-> clock]
recordable(j) == /\ clock >= j.started /\ Cardinality(j.receipts) < MaxReceipts
                 /\ Cardinality(j.entries) < MaxEntries

(* save: the journal is written as a whole.  When that throws, what is in memory is    *)
(* ahead of what is on disk until a later save.                                         *)
save(works) == disk' = IF works THEN journal' ELSE disk

(* A receipt that could not be saved is not given to its visitor (market.ts:3783).      *)
completed(t) ==
  IF recordable(journal)
  THEN \E works \in BOOLEAN :
         /\ journal' = [journal EXCEPT !.receipts = @ \cup {Receipt(t)}] /\ save(works)
         /\ handed' = IF works THEN handed \cup {Receipt(t)} ELSE handed
  ELSE UNCHANGED <<journal, disk, handed>>

(* Both answers are there, whole: the turn is remembered and a receipt written.  A    *)
(* test cut short, or whose client left, leaves no receipt.                            *)
Answer(t, whole) ==
  /\ test[t] = "running" /\ test' = [test EXCEPT ![t] = "ended"] /\ close(t)
  /\ turns' = turns \cup {t}
  /\ IF whole THEN completed(t) ELSE UNCHANGED <<journal, disk, handed>>
  /\ UNCHANGED <<told, called, issues, clock, flush, offers, flushes, crashes>>

Abort(t) ==
  /\ test[t] = "running" /\ test' = [test EXCEPT ![t] = "ended"] /\ close(t)
  /\ UNCHANGED <<told, called, turns, issues, clock, crashes>> /\ UNCHANGED journalVars

Entry(m, n) == [n |-> n, model |-> m, from |-> journal.started, upto |-> clock, state |-> "pending",
                receipts |-> {r \in journal.receipts : r.model = m}]
NewEntries ==
  LET models == {r.model : r \in journal.receipts}
      first == Cardinality(journal.entries)
      number == CHOOSE f \in [models -> first + 1..first + Cardinality(models)] :
                  \A m1, m2 \in models : f[m1] = f[m2] => m1 = m2
  IN {Entry(m, number[m]) : m \in models}

(* Mutant: the receipts stay until their batch is confirmed. *)
Kept(recs) == recs
Rest(recs) == {}

(* submit: one batch per model takes the receipts over, saved before any is sent.  A    *)
(* save that throws ends the flush, and what it had still to submit is never submitted. *)
StartFlush ==
  /\ flush = {} /\ flushes < MaxFlushes /\ flushes' = flushes + 1
  /\ journal.receipts # {} /\ clock > journal.started
  /\ \A r \in journal.receipts : r.at <= clock
  /\ Cardinality(journal.entries) + Cardinality({r.model : r \in journal.receipts}) <= MaxEntries
  /\ journal' = [started |-> clock, receipts |-> Rest(journal.receipts),
                 entries |-> journal.entries \cup NewEntries]
  /\ \E works \in BOOLEAN : save(works) /\ flush' = IF works THEN {e.n : e \in NewEntries} ELSE {}
  /\ UNCHANGED <<test, tickets, told, called, turns, issues, clock, handed, offers, crashes>>

Marked(j, n, s) == [j EXCEPT !.entries = {IF e.n = n THEN [e EXCEPT !.state = s] ELSE e : e \in @}]
InFlight == \E e \in journal.entries : e.n \in flush /\ e.state = "submitting"

Submit(n) ==
  /\ n \in flush /\ ~InFlight
  /\ journal' = Marked(journal, n, "submitting")
  /\ \/ save(TRUE) /\ offers' = [offers EXCEPT ![n] = @ + 1] /\ UNCHANGED flush
     \/ save(FALSE) /\ flush' = {} /\ UNCHANGED offers
  /\ UNCHANGED <<test, tickets, told, called, turns, issues, clock, handed, flushes, crashes>>

(* The ledger answers, or its answer is lost: then nothing is sent again.             *)
LedgerAnswers(n, ok) ==
  /\ \E e \in journal.entries : e.n = n /\ n \in flush /\ e.state = "submitting"
  /\ journal' = Marked(journal, n, IF ok THEN "submitted" ELSE "unconfirmed")
  /\ \E works \in BOOLEAN : save(works) /\ flush' = IF works THEN flush \ {n} ELSE {}
  /\ UNCHANGED <<test, tickets, told, called, turns, issues, clock, handed, offers, flushes, crashes>>

(* receipt_commitment_valid: what the operator is told of a stored batch.              *)
Valid(e) == \A r \in e.receipts : r.model = e.model /\ r.at \in e.from..e.upto

(* The clock of the machine goes on, or is set back.                                   *)
ClockMoves ==
  /\ clock' \in {clock + 1, clock - 1} \cap 1..MaxClock
  /\ UNCHANGED <<test, tickets, told, called, turns, issues, crashes>> /\ UNCHANGED journalVars

(* The process ends: tickets, turns and the flush under way are in its memory only.    *)
Restart ==
  /\ crashes < MaxCrashes /\ crashes' = crashes + 1
  /\ test' = [t \in Test |-> IF test[t] \in {"open", "waiting", "running"} THEN "lost" ELSE test[t]]
  /\ tickets' = [i \in Ids |-> Gone] /\ turns' = {} /\ flush' = {} /\ journal' = disk
  /\ UNCHANGED <<told, called, issues, clock, disk, handed, offers, flushes>>

(* --------------------------------- feedback ------------------------------------ *)
turn(t, v) == t \in turns /\ VisitorOf[t] = v

bumpIssue(t, share) ==
  issues' = [issues EXCEPT ![t].count = IF @ = 0 THEN 1 ELSE 2, ![t].text = @ \/ share]

(* POST /api/chat/feedback: the question is the node's own record of the turn, and its *)
(* text is kept only when the visitor shares it.                                        *)
MarkWrong(t, v, share) ==
  /\ turn(t, v) /\ bumpIssue(t, share)
  /\ UNCHANGED <<test, tickets, told, called, turns, clock, crashes>> /\ UNCHANGED journalVars

(* A lesson that answers the question is published: its open rows are closed.           *)
coverIssues(t) ==
  /\ issues[t].count > 0 /\ issues[t].status = "open"
  /\ issues' = [issues EXCEPT ![t].status = "covered"]
  /\ UNCHANGED <<test, tickets, told, called, turns, clock, crashes>> /\ UNCHANGED journalVars

LiveInit ==
  /\ test = [t \in Test |-> "new"] /\ tickets = [i \in Ids |-> Gone]
  /\ told = {} /\ called = {} /\ turns = {} /\ issues = [t \in Test |-> NoIssue]
  /\ clock = 1 /\ journal = [started |-> 1, receipts |-> {}, entries |-> {}] /\ disk = journal
  /\ handed = {} /\ flush = {} /\ offers = [n \in 1..MaxEntries |-> 0]
  /\ flushes = 0 /\ crashes = 0

LiveNext ==
  \/ \E t \in Test : open(t) \/ Refuse(t) \/ Wait(t) \/ TakeLock(t) \/ Abort(t) \/ coverIssues(t)
  \/ \E t \in Test, b \in BOOLEAN : Answer(t, b)
  \/ \E v \in Visitors, i \in Ids : cancel(v, i)
  \/ StartFlush \/ ClockMoves \/ Restart
  \/ \E n \in 1..MaxEntries : Submit(n) \/ \E ok \in BOOLEAN : LedgerAnswers(n, ok)
  \/ \E t \in Test, v \in Visitors, s \in BOOLEAN : MarkWrong(t, v, s)

LiveSpec == LiveInit /\ [][LiveNext]_liveVars

(* --------------------------------- properties ----------------------------------- *)
(* However flushes, new receipts, saves that throw, clocks set back and restarts       *)
(* interleave, a receipt a visitor was given is on disk in exactly one place; a batch    *)
(* holds receipts of its model and its time only, goes to the ledger at most once, and   *)
(* is no longer called pending when it has gone (inference-records.ts:51-58, 104-143).   *)
ReceiptsAreKept ==
  /\ \A r \in handed :
       Cardinality({e \in disk.entries : r \in e.receipts}) + (IF r \in disk.receipts THEN 1 ELSE 0) = 1
  /\ \A e \in disk.entries :
       Valid(e) /\ offers[e.n] <= 1 /\ (e.state = "pending" => offers[e.n] = 0)
================================================================================
