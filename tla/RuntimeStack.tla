---------------------------- MODULE RuntimeStack ----------------------------
(* The stack of knowledges a node keeps on the serving model (market.ts
   3250-4010, runtime.ts 560-745, store.ts 1375-1394).  The model is shared: it
   restarts by itself, and other nodes patch it.  What this node did to it is
   a list of rows (`applied`, bottom first) and, for each body, a journal of the
   values it displaced.

   Every operation works inside one section of the runtime lock (StakeQueue and
   SharedLease show what that lock is worth).apply, remove and the watchdog
   decide BEFORE they enter what the stack is to be; a live test, a verification
   and the recovery read it inside.  In the section each script run is one step,
   and the row that records it is another: the node may stop between them.     *)
EXTENDS Naturals, Sequences, SequencesExt, FiniteSets

CONSTANTS
  Knowledge,   \* the knowledges this node holds, all for the served model
  Cells,       \* the addresses of the model's table they write
  Writes,      \* Writes[k]: the cells of k's body
  Under,       \* Under[k]: the ids k was trained on top of, bottom first (base.stack)
  Deltas,      \* exported as delta: applied only over the rows they were trained on
  Calls,       \* requests of operators, visitors and verifiers
  Base,        \* the model's own value of a cell
  None,
  MaxRequests, \* bound on the requests: applies, removes, live tests, verifications
  MaxMishaps   \* bound on restarts, foreign writes, crashes and failing scripts together

Watchdog == "watchdog"
Callers == Calls \union {Watchdog}

ASSUME StackAssumption ==
  /\ Writes \in [Knowledge -> SUBSET Cells] /\ Under \in [Knowledge -> Seq(Knowledge)]
  /\ Deltas \subseteq Knowledge /\ Base \notin Knowledge /\ MaxMishaps \in Nat /\ MaxRequests \in Nat
  /\ Watchdog \notin Calls /\ None \notin Callers /\ None \notin Seq(Knowledge)
  /\ \A k \in Knowledge : None \notin [Writes[k] -> Knowledge \union {Base}]

(* What a resolved stack is: nothing twice and not the knowledge itself (resolveStack
   refuses cycles, market.ts 3274-3290); only an export that is a delta lists one, a
   squash carries its bases' rows itself (teach.ts 2545-2546, market.ts 2099).          *)
ASSUME LineageAssumption ==
  \A k \in Knowledge :
    /\ \A i, j \in DOMAIN Under[k] : Under[k][i] = Under[k][j] => i = j
    /\ \A i \in DOMAIN Under[k] : Under[k][i] # k
    /\ Under[k] # <<>> => k \in Deltas

VARIABLES
  table,       \* the live table: who wrote each cell last
  journal,     \* the journal file of each body, or None
  applied,     \* rows of `applied`: [id, why]
  restore,     \* kv runtime.restore: the ids an interrupted run has to put back, or None
  recovered,   \* in memory: recoverRuntime has run in this process
  up,          \* the node's process runs
  call,        \* what each request asked for, and the stack it saw when it decided
  sec,         \* the section that holds the lock, or None
  wanted,      \* history: the stack the finished applies and removes ask for
  hurt,        \* history: what happened to the table behind the rows' back
  astray,      \* history: how the rows may differ from what is wanted --
               \*   "stale"      a section was entered with the target of another stack
               \*   "early"      a section was entered before the recovery of an interrupted run
               \*   "half"       a section that changes the stack for good stopped half way
               \*   "relabelled" a live test or verification left its own reason on a served row
  mishaps, requests

stackVars == <<table, journal, applied, restore, recovered, up, call, sec,
               wanted, hurt, astray, mishaps, requests>>
past == <<wanted, hurt, astray, mishaps, requests>>

Idle == [op |-> "idle"]
(* Nobody holds the lock.                                                      *)
Free == [by |-> None, op |-> "idle", k |-> None, stage |-> "free", target |-> <<>>,
         rebuild |-> FALSE, pinned |-> <<>>, dirty |-> {}]
Transient == {"verify", "chat"}

Ids(rows) == [i \in DOMAIN rows |-> rows[i].id]
Layers(ids, why) == [i \in DOMAIN ids |-> [id |-> ids[i], why |-> why]]
Loaded(k) == \E i \in DOMAIN applied : applied[i].id = k
Without(ids, gone) ==
  LET left[i \in 0..Len(ids)] ==
        IF i = 0 THEN <<>> ELSE IF ids[i] \in gone THEN left[i - 1] ELSE Append(left[i - 1], ids[i])
  IN  left[Len(ids)]

(* `layersOfExact`: the recorded rows of these ids, each with its own reason;
   an id whose row is gone gets the reason of the caller.                     *)
Exact(ids) ==
  [i \in DOMAIN ids |->
     IF Loaded(ids[i]) THEN applied[CHOOSE j \in DOMAIN applied : applied[j].id = ids[i]]
                       ELSE [id |-> ids[i], why |-> "kept"]]

(* `resolveStack` of one knowledge: what must lie under it, then itself.       *)
Resolve(k) == Append(Under[k], k)

(* `dependentsOf`: loaded knowledges that sit on k, directly or not.           *)
Dependents(k) == {d \in Knowledge : Loaded(d) /\ k \in Range(Under[d])}

(* What a cell shows under the lowest n of these layers: what the last of them that
   writes it wrote, or the model's own value.                                  *)
Shows(ids, n, c, v) ==
  \/ v = Base /\ \A i \in 1..n : c \notin Writes[ids[i]]
  \/ \E i \in 1..n : /\ v = ids[i] /\ c \in Writes[ids[i]]
                     /\ \A j \in (i + 1)..n : c \notin Writes[ids[j]]

(* What a body says a cell held before it: its base's rows, or the model's own. *)
Before(k, c) ==
  LET below == IF k \in Deltas THEN Under[k] ELSE <<>>
  IN  CHOOSE v \in Knowledge \union {Base} : Shows(below, Len(below), c, v)

(* Mutant: the journal is not replayed.                                        *)
UndoneToBase(k, t) == [c \in Cells |-> IF c \in Writes[k] THEN Before(k, c) ELSE t[c]]
(* The scripts: apply writes the body and journals what it displaced, remove
   replays the journal (or writes `before`), status compares the live cells.   *)
Written(k, t) == [c \in Cells |-> IF c \in Writes[k] THEN k ELSE t[c]]
Undone(k, t) ==
  [c \in Cells |-> IF c \notin Writes[k] THEN t[c]
                   ELSE IF journal[k] = None THEN Before(k, c) ELSE journal[k][c]]
OnTable(k) == \A c \in Writes[k] : table[c] = k
Mismatch(k) == k \in Deltas /\ \E c \in Writes[k] : table[c] # Before(k, c)

StackInit ==
  /\ table = [c \in Cells |-> Base] /\ journal = [k \in Knowledge |-> None]
  /\ applied = <<>> /\ restore = None /\ recovered = FALSE /\ up = TRUE
  /\ call = [c \in Callers |-> Idle] /\ sec = Free
  /\ wanted = <<>> /\ hurt = {} /\ astray = {} /\ mishaps = 0 /\ requests = 0

------------------------------------------------------------------------------
(* The rows are right about the table: the live cells are what the layers ids, loaded
   upwards, show, and the journal of each holds what lay under it.              *)
Right(ids, n, t, jr) ==
  /\ \A c \in Cells : Shows(ids, n, c, t[c])
  /\ \A i \in 1..n : /\ jr[ids[i]] # None
                     /\ \A c \in Writes[ids[i]] : Shows(ids, i - 1, c, jr[ids[i]][c])

Consistent == Right(Ids(applied), Len(applied), table, journal)

------------------------------------------------------------------------------
(* Requests.  apply and remove compute the target stack here, before the lock. *)

Request == requests < MaxRequests /\ requests' = requests + 1

Decide(c, op, k, target) ==
  /\ up /\ call[c] = Idle /\ Request
  /\ call' = [call EXCEPT ![c] = [op |-> op, k |-> k, target |-> target, saw |-> Ids(applied)]]
  /\ UNCHANGED <<table, journal, applied, restore, recovered, up, sec, wanted, hurt, astray, mishaps>>

AskApply(c, k) ==
  \E withBase \in BOOLEAN :
    LET new == Without(Resolve(k), Range(Ids(applied)))
    IN  /\ withBase \/ Range(new) \subseteq {k}
        /\ Decide(c, "apply", k, Exact(Ids(applied)) \o Layers(new, "kept"))

AskRemove(c, k) ==
  \E cascade \in BOOLEAN :
    /\ Loaded(k) /\ (cascade \/ Dependents(k) = {})
    /\ Decide(c, "remove", k,
              Exact(Without(Ids(applied), {k} \union IF cascade THEN Dependents(k) ELSE {})))

(* The first tick of a process waits for the recovery; every tick then takes the
   recorded stack as its target and, politely, the lock.                       *)
Tick ==
  /\ up /\ call[Watchdog] = Idle
  /\ recovered' = TRUE
  /\ \/ /\ ~recovered
        /\ call' = [call EXCEPT ![Watchdog] =
                      [op |-> "recover", k |-> None, target |-> <<>>, saw |-> Ids(applied)]]
     \/ /\ recovered /\ applied # <<>>
        /\ call' = [call EXCEPT ![Watchdog] =
                      [op |-> "watchdog", k |-> Last(applied).id,
                       target |-> Exact(Ids(applied)), saw |-> Ids(applied)]]
  /\ UNCHANGED <<table, journal, applied, restore, up, sec>> /\ UNCHANGED past

------------------------------------------------------------------------------
(* Sections.                                                                   *)

Section(c, op, k, stage, target, rebuild) ==
  [by |-> c, op |-> op, k |-> k, stage |-> stage, target |-> target,
   rebuild |-> rebuild, pinned |-> Ids(applied), dirty |-> {}]

Astray(how) == astray' = astray \union how
Relabelled ==
  IF \E r \in Range(applied) : r.why \in Transient /\ (sec.stage # "stack" => Contains(sec.pinned, r.id))
  THEN {"relabelled"} ELSE {}
Early == IF restore # None THEN {"early"} ELSE {}
Over == IF hurt # {} THEN hurt \union {"over"} ELSE hurt

EnterSection(c) ==
  /\ up /\ sec = Free /\ call[c].op \in {"apply", "remove"}
  /\ sec' = Section(c, call[c].op, call[c].k, "stack", call[c].target, FALSE)
  /\ Astray(Early \union IF call[c].saw # Ids(applied) THEN {"stale"} ELSE {}) /\ hurt' = Over
  /\ UNCHANGED <<table, journal, applied, restore, recovered, up, call, wanted, mishaps, requests>>

(* A live test: leftovers of others are written over with their own `before`,
   then the stack without the tested ids is asserted (compare), or with them.  *)
EnterChat(k) ==
  /\ up /\ sec = Free /\ Request
  /\ \E op \in {"chat", "compare"} :
       sec' = [Section(None, op, k, "clean", <<>>, FALSE) EXCEPT
                 !.dirty = {d \in Range(Resolve(k)) : ~Loaded(d) /\ OnTable(d)}]
  /\ restore' = Ids(applied) /\ Astray(Early) /\ hurt' = Over
  /\ UNCHANGED <<table, journal, applied, recovered, up, call, wanted, mishaps>>

EnterVerify(k) ==
  /\ up /\ sec = Free /\ Request
  /\ sec' = Section(None, "verify", k, "below", Layers(Under[k], "verify"), FALSE)
  /\ restore' = Ids(applied) /\ Astray(Early) /\ hurt' = Over
  /\ UNCHANGED <<table, journal, applied, recovered, up, call, wanted, mishaps>>

(* Mutant: no rebuild after the probe.                                         *)
OnlyReassert ==
  /\ up /\ sec = Free /\ call[Watchdog].op = "watchdog"
  /\ sec' = Section(Watchdog, "watchdog", call[Watchdog].k, "stack", call[Watchdog].target, FALSE)
  /\ Astray(IF call[Watchdog].saw # Ids(applied) THEN {"stale"} ELSE {})
  /\ UNCHANGED <<table, journal, applied, restore, recovered, up, call, wanted, hurt, mishaps, requests>>
(* The watchdog probes the top; only when it is gone is the stack rebuilt.     *)
EnterWatchdog ==
  /\ up /\ sec = Free /\ call[Watchdog].op = "watchdog"
  /\ LET w == call[Watchdog]
     IN  IF OnTable(w.k)
         THEN /\ call' = [call EXCEPT ![Watchdog] = Idle] /\ UNCHANGED <<sec, astray>>
         ELSE /\ sec' = Section(Watchdog, "watchdog", w.k, "stack", w.target, TRUE) /\ UNCHANGED call
              /\ Astray(IF w.saw # Ids(applied) THEN {"stale"} ELSE {})
  /\ UNCHANGED <<table, journal, applied, restore, recovered, up,
                 wanted, hurt, mishaps, requests>>

(* Mutant: the snapshot is not looked at.                                      *)
RowsToPutBack == Without(Ids(applied), {r.id : r \in {x \in Range(applied) : x.why \in Transient}})
(* The recovery reads everything inside the lock: rows with a transient reason,
   and the snapshot the interrupted run left, say what was being served.       *)
ToPutBack ==
  LET transient == {r.id : r \in {x \in Range(applied) : x.why \in Transient}}
  IN  Without(IF restore = None THEN Ids(applied) ELSE restore, transient)

EnterRecover ==
  /\ up /\ sec = Free /\ call[Watchdog].op = "recover"
  /\ IF restore = None /\ \A r \in Range(applied) : r.why \notin Transient
     THEN call' = [call EXCEPT ![Watchdog] = Idle] /\ UNCHANGED sec
     ELSE /\ sec' = Section(Watchdog, "recover", None, "stack", Exact(ToPutBack),
                            applied # <<>> /\ ~OnTable(Last(applied).id))
          /\ UNCHANGED call
  /\ UNCHANGED <<table, journal, applied, restore, recovered, up>> /\ UNCHANGED past

------------------------------------------------------------------------------
(* assertStack, inside a section: clear all (rebuild), or unwind from the top to
   the common prefix; then load upwards.  A script runs, then its row is booked. *)

Stacking == up /\ sec # Free /\ sec.stage \in {"stack", "below", "base", "test", "restore", "again"}
Kept == IsPrefix(Ids(applied), Ids(sec.target))

Clear ==
  /\ Stacking /\ sec.rebuild
  /\ journal' = [k \in Knowledge |-> IF Loaded(k) THEN None ELSE journal[k]]
  /\ applied' = <<>> /\ sec' = [sec EXCEPT !.rebuild = FALSE]
  /\ hurt' = IF table # [c \in Cells |-> Base] THEN hurt \union {"discarded"}
             ELSE IF hurt = {"restart"} THEN {} ELSE hurt
  /\ UNCHANGED <<table, restore, recovered, up, call, wanted, astray, mishaps, requests>>

(* One script and the row that records it: `booked` is false when the node stops
   in between.                                                                  *)
Unwind(booked) ==
  /\ Stacking /\ ~sec.rebuild /\ ~Kept
  /\ LET k == Last(applied).id
     IN  table' = Undone(k, table) /\ journal' = [journal EXCEPT ![k] = None]
  /\ applied' = IF booked THEN Front(applied) ELSE applied

Load(booked) ==
  /\ Stacking /\ ~sec.rebuild /\ Kept /\ Len(applied) < Len(sec.target)
  /\ LET next == sec.target[Len(applied) + 1]
     IN  /\ ~Mismatch(next.id)
         /\ journal' = [journal EXCEPT ![next.id] = [c \in Writes[next.id] |-> table[c]]]
         /\ table' = Written(next.id, table)
         /\ applied' = IF booked THEN Append(applied, next) ELSE applied

Script ==
  /\ Unwind(TRUE) \/ Load(TRUE)
  /\ UNCHANGED <<restore, recovered, up, call, sec>> /\ UNCHANGED past

Standing == Stacking /\ ~sec.rebuild /\ Ids(applied) = Ids(sec.target)

Stage(stage, target, rebuild) ==
  sec' = [sec EXCEPT !.stage = stage, !.target = target, !.rebuild = rebuild]

(* What a finished section leaves: the lock is free, the request is answered.  *)
Stop == sec' = Free /\ call' = IF sec.by = None THEN call ELSE [call EXCEPT ![sec.by] = Idle]
Leave ==
  /\ Stop
  /\ Astray(Relabelled)

Done ==
  /\ Standing /\ sec.stage \in {"stack", "again"} /\ Leave
  /\ wanted' = CASE sec.op = "apply"  -> wanted \o Without(Resolve(sec.k), Range(wanted))
                 [] sec.op = "remove" -> Without(wanted, Range(sec.pinned) \ Range(Ids(applied)))
                 [] OTHER             -> wanted
  /\ restore' = IF sec.op \in {"apply", "remove", "watchdog"} THEN restore ELSE None
  /\ UNCHANGED <<table, journal, applied, recovered, up, hurt, mishaps, requests>>

(* The leftovers of others come off the table without a journal.               *)
Clean ==
  LET below == Exact(Without(sec.pinned, Range(Resolve(sec.k))))
      full  == below \o Layers(Resolve(sec.k), "chat")
  IN  /\ up /\ sec # Free /\ sec.stage = "clean"
      /\ table' = [c \in Cells |->
           IF \E k \in sec.dirty : c \in Writes[k]
           THEN Before(CHOOSE k \in sec.dirty : c \in Writes[k], c) ELSE table[c]]
      /\ IF sec.op = "compare" THEN Stage("base", below, FALSE) ELSE Stage("test", full, FALSE)
      /\ UNCHANGED <<journal, applied, restore, recovered, up, call>> /\ UNCHANGED past

Answered ==
  /\ Standing /\ sec.stage \in {"base", "test"}
  /\ IF sec.stage = "base"
     THEN Stage("test", sec.target \o Layers(Resolve(sec.k), "chat"), FALSE)
     ELSE Stage("restore", Exact(sec.pinned), FALSE)
  /\ UNCHANGED <<table, journal, applied, restore, recovered, up, call>> /\ UNCHANGED past

(* verifyInLock: the row is marked, the body loaded over its bases, measured
   (and loaded again when a restart took it off), and taken off through its
   journal; the row goes when that worked.                                     *)
Mark ==
  /\ Standing /\ sec.stage = "below"
  /\ applied' = Append(applied, [id |-> sec.k, why |-> "verify"])
  /\ Stage("load", <<>>, FALSE)
  /\ UNCHANGED <<table, journal, restore, recovered, up, call>> /\ UNCHANGED past

Measure ==
  /\ up /\ sec # Free
  /\ \/ /\ sec.stage = "load" /\ ~Mismatch(sec.k)
        /\ journal' = [journal EXCEPT ![sec.k] = [c \in Writes[sec.k] |-> table[c]]]
        /\ table' = Written(sec.k, table) /\ Stage("measure", <<>>, FALSE)
     \/ /\ sec.stage = "measure" /\ ~OnTable(sec.k)
        /\ table' = Written(sec.k, table) /\ UNCHANGED <<journal, sec>>
     \/ /\ sec.stage = "measure" /\ OnTable(sec.k)
        /\ table' = Undone(sec.k, table) /\ journal' = [journal EXCEPT ![sec.k] = None]
        /\ Stage("unmark", <<>>, FALSE)
  /\ UNCHANGED <<applied, restore, recovered, up, call>> /\ UNCHANGED past

Unmark ==
  /\ up /\ sec # Free /\ sec.stage = "unmark"
  /\ applied' = Front(applied)
  /\ sec' = [sec EXCEPT !.stage = "restore",
             !.target = LET kept == {i \in DOMAIN applied : i < Len(applied)}
                        IN  [i \in DOMAIN sec.pinned |->
                              IF \E j \in kept : applied[j].id = sec.pinned[i]
                              THEN applied[CHOOSE j \in kept : applied[j].id = sec.pinned[i]]
                              ELSE [id |-> sec.pinned[i], why |-> "kept"]]]
  /\ UNCHANGED <<table, journal, restore, recovered, up, call>> /\ UNCHANGED past

(* The stack found at the start is back; after a leftover was written over, the
   top is probed and, if it is not there, everything is rebuilt.               *)
Restored ==
  /\ Standing /\ sec.stage = "restore"
  /\ IF sec.dirty # {} /\ applied # <<>> /\ ~OnTable(Last(applied).id)
     THEN /\ Stage("again", sec.target, TRUE) /\ UNCHANGED <<call, restore, astray>>
     ELSE Leave /\ restore' = None
  /\ UNCHANGED <<table, journal, applied, recovered, up, wanted, hurt, mishaps, requests>>

(* The top row marks a candidate whose body never got on the table.            *)
MarkedOnly ==
  /\ sec.op = "verify" /\ sec.stage = "restore"
  /\ applied # <<>> /\ Last(applied).id = sec.k /\ journal[sec.k] = None

(* A script fails, or refuses a delta whose base is not underneath.  A live test
   and a verification go on to restore; anything else ends here, half way.     *)
Throw ==
  /\ up /\ sec # Free
  /\ IF sec.op \in {"chat", "compare", "verify"} /\ sec.stage \notin {"restore", "again"}
     THEN /\ Stage("restore", Exact(sec.pinned), FALSE)
          /\ hurt' = IF sec.stage = "load" /\ Contains(sec.pinned, sec.k)
                     THEN hurt \union {"marked"} ELSE hurt
          /\ UNCHANGED <<call, restore, astray>>
     ELSE /\ Stop /\ Astray({"half"})
          /\ hurt' = IF MarkedOnly THEN hurt \union {"marked"} ELSE hurt
          /\ restore' = IF sec.stage \in {"restore", "again"} THEN None ELSE restore
  /\ UNCHANGED <<table, journal, applied, recovered, up, wanted, requests>>

Refuse ==
  /\ \/ /\ Stacking /\ ~sec.rebuild /\ Kept
        /\ Len(applied) < Len(sec.target) /\ Mismatch(sec.target[Len(applied) + 1].id)
     \/ sec # Free /\ sec.stage = "load" /\ Mismatch(sec.k)
  /\ Throw /\ UNCHANGED mishaps

------------------------------------------------------------------------------
(* The environment.                                                            *)

Mishap == mishaps < MaxMishaps /\ mishaps' = mishaps + 1

Fault ==
  /\ sec # Free
  /\ (Stacking /\ ~sec.rebuild /\ ~Standing) \/ sec.stage \in {"load", "measure"}
  /\ Mishap /\ Throw

(* The serving model restarts: every patch is gone.                            *)
ModelRestart ==
  /\ Mishap /\ table # [c \in Cells |-> Base] /\ table' = [c \in Cells |-> Base]
  /\ hurt' = hurt \union {IF sec = Free THEN "restart" ELSE "midway"}
  /\ UNCHANGED <<journal, applied, restore, recovered, up, call, sec, wanted, astray, requests>>

(* Another node, holding the lock, leaves a body on the table.                 *)
Foreign(k) ==
  /\ Mishap /\ sec = Free /\ table' = Written(k, table) /\ table' # table
  /\ hurt' = hurt \union {"foreign"}
  /\ UNCHANGED <<journal, applied, restore, recovered, up, call, sec, wanted, astray, requests>>

Down ==
  /\ up /\ Mishap
  /\ up' = FALSE /\ recovered' = FALSE /\ sec' = Free /\ call' = [c \in Callers |-> Idle]
  /\ Astray(IF sec = Free THEN {} ELSE IF sec.op \in {"apply", "remove", "watchdog", "recover"}
                                       THEN {"half"} ELSE Relabelled)
  /\ UNCHANGED <<restore, wanted, requests>>

Crash ==
  /\ Down
  /\ \/ UNCHANGED <<table, journal, applied>> /\ hurt' = IF Consistent THEN hurt ELSE hurt \union {"cut"}
     \/ (Unwind(FALSE) \/ Load(FALSE)) /\ hurt' = hurt \union {"cut"}

Boot ==
  /\ ~up /\ up' = TRUE
  /\ UNCHANGED <<table, journal, applied, restore, recovered, call, sec>> /\ UNCHANGED past

Within == Clear \/ Script \/ Done \/ Clean \/ Answered \/ Mark \/ Measure
          \/ Unmark \/ Restored \/ Refuse

StackNext ==
  \/ \E c \in Calls : EnterSection(c) \/ \E k \in Knowledge : AskApply(c, k) \/ AskRemove(c, k)
  \/ \E k \in Knowledge : EnterChat(k) \/ EnterVerify(k)
  \/ Tick \/ EnterWatchdog \/ EnterRecover \/ Within
  \/ Fault \/ ModelRestart \/ Crash \/ Boot
  \/ \E k \in Knowledge : Foreign(k)

StackFairness ==
  /\ WF_stackVars(Within) /\ WF_stackVars(Boot) /\ WF_stackVars(Tick)
  /\ SF_stackVars(EnterWatchdog) /\ SF_stackVars(EnterRecover)

StackSpec == StackInit /\ [][StackNext]_stackVars
FairStackSpec == StackSpec /\ StackFairness

------------------------------------------------------------------------------
(* Properties.                                                                 *)

(* Between two sections, unless somebody else touched the table or the node
   stopped in a section, the live cells are what the rows describe and taking
   the layers off through their journals ends at the bare model, whatever was
   tested, verified, applied and removed before (assertStack 3383-3425).       *)
RecordIsTable == sec = Free /\ hurt = {} => Consistent

(* Live tests, verifications and the watchdog leave what the operator asked for,
   in its order, and an interrupted one is undone by the recovery (3640-3674,
   3681-3720, 3926-3931).  `astray` names the four ways the code allows it not to be. *)
StackIsWanted ==
  sec = Free /\ up /\ recovered /\ call[Watchdog].op # "recover" /\ astray = {}
    => Ids(applied) = wanted

(* A restart of the model is noticed and the stack loaded again, unless another
   section wrote over the empty table first (watchdog 3580-3612).              *)
RestartIsRepaired ==
  (hurt = {"restart"} /\ applied # <<>>) ~> (hurt # {"restart"} \/ applied = <<>>)
=============================================================================
