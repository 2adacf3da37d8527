------------------------------- MODULE Preflight -------------------------------
(* "What does the model know already?", asked before a lesson is paid for          *)
(* (teach.ts 734-955, POST /api/teach/preflight of api.ts, the quota, the picker    *)
(* and the demand events of market.ts).  A visitor's questions are put to the       *)
(* serving model with a few knowledges loaded under them, inside one section of     *)
(* the runtime lock, and what it costs is taken from the budgets of his address     *)
(* and of his key before the model runs and given back when it did not answer.      *)
EXTENDS Naturals, Sequences, SequencesExt, FiniteSets

CONSTANTS
  Visitor, Bucket, BucketsOf,    \* BucketsOf[v]: the two budgets he spends, in order
  Offer,                         \* the questions visitors bring, each with what it is loaded on
  Rows,                          \* Rows[o]: the questions of the set, in order
  Bases, Context,                \* Bases[o], Context[o]: knowledges under it, and to compare with
  KnownItems,                         \* knowledges the catalogue lists
  DraftOf,                       \* DraftOf[k]: the visitor whose private draft k is, or NoVisitor
  Below,                         \* Below[k]: what k was trained on top of, bottom first
  Spots, Spans,                  \* the cells of the model, and those a knowledge writes
  Delta,                         \* knowledges whose `before` are the rows of what lies below
  Teaches,                       \* Teaches[k]: [question -> "same", "other"], k's own questions
  Listed,                        \* Listed[q]: a listing with q among its samples, or Unlisted
  Malformed,                     \* questions staticFactCheck refuses
  PerCall, CallsPerUnit, Hourly, \* preflight.perCall, PREFLIGHT_CALLS_PER_UNIT, 20 an hour
  Unlisted, MaxProbes, MaxHours, MaxTurns   \* bounds: probes, hours that end; changes of rights and pins,
                                 \* stops of the node and sections that end with a failing call

ASSUME PreflightAssumption ==
  /\ {PerCall, CallsPerUnit} \subseteq Nat \ {0}
  /\ {Hourly, MaxProbes, MaxHours, MaxTurns} \subseteq Nat

VARIABLES
  rights,    \* [KnownItems -> "none", "scored", "bought"]: the body and the licence of this node
  pins,      \* the rows of `applied`, bottom first
  cells,     \* who wrote each cell of the model last
  probe,     \* [Visitor -> what his request does]
  spent,     \* chatUsage: [Bucket -> [count, open]]
  signals,   \* [KnownItems -> counted answers of probes on top of it]
  wishes,    \* demand events: [KnownItems -> visitors]
  bare,      \* history: a delta went on without the rows below it, or the node stopped in a section
  torn,      \* history: the cells of a body whose removal, or writing again, has failed
  probes, hours, modelTurns
preVars == <<rights, pins, cells, probe, spent, signals, wishes, bare, torn, probes, hours, modelTurns>>
bounds == <<probes, hours, modelTurns>>

NoProbe == [at |-> "idle"]
NoVisitor == "nobody"

(* ----------------------------------- questions ---------------------------------- *)
(* Any slice of the set, of at most perCall questions, never past its end.           *)
preflightSlice(rows, offset) ==
  LET start == IF rows = <<>> \/ offset < Len(rows) THEN offset ELSE Len(rows) - 1
  IN  SubSeq(rows, start + 1, IF start + PerCall < Len(rows) THEN start + PerCall ELSE Len(rows))

(* One unit for each few calls of the model, at least one.                           *)
preflightUnits(o, asked) ==
  LET calls == Len(asked) + Cardinality(Bases[o] \cup Context[o])
      units == (calls + CallsPerUnit - 1) \div CallsPerUnit
  IN  IF units = 0 THEN 1 ELSE units

(* What is said of a question before, and after, the model answered it.              *)
StaticVerdict(o, q) ==
  CASE q \in Malformed -> "invalid"
    [] Listed[q] \in Bases[o] -> "in_base"
    [] Listed[q] \notin Bases[o] \cup {Unlisted} -> "overlaps_listing"
    [] OTHER -> "ask"
Verdict(o, q, knows) ==
  LET owners == {b \in Bases[o] : q \in DOMAIN Teaches[b]}
  IN  CASE \E b \in owners : Teaches[b][q] = "same" -> "in_base"
        [] \A b \in owners : Teaches[b][q] # "same" /\ owners # {} -> "base_conflict"
        [] OTHER -> IF knows THEN "already_known" ELSE "will_train"

(* ------------------------------------ budgets ----------------------------------- *)
chatQuota(b, units, s) ==
  [s EXCEPT ![b] = [count |-> (IF @.open THEN @.count ELSE 0) + units, open |-> TRUE]]
Enough(b, units) == (IF spent[b].open THEN spent[b].count ELSE 0) + units <= Hourly
refundChatQuota(b, units, s) ==
  [s EXCEPT ![b].count = IF @ < units THEN 0 ELSE @ - units]

(* The route: both budgets are taken, one after the other, before anything runs.     *)
AskPreflight(v, o, offset) ==
  LET asked == preflightSlice(Rows[o], offset)
      units == preflightUnits(o, asked)
      first == BucketsOf[v][1]
      second == BucketsOf[v][2]
  IN /\ probe[v] = NoProbe /\ probes < MaxProbes /\ probes' = probes + 1
     /\ offset \in 0..Len(Rows[o]) /\ asked # <<>>
     /\ Enough(first, units) /\ Enough(second, units)
     /\ spent' = chatQuota(second, units, chatQuota(first, units, spent))
     /\ probe' = [probe EXCEPT ![v] = [at |-> "resolving", offer |-> o, asked |-> asked, units |-> units,
                                       stack |-> <<>>, added |-> <<>>, ok |-> FALSE]]
     /\ UNCHANGED <<rights, pins, cells, signals, wishes, bare, torn, hours, modelTurns>>

(* The first budget is there and the second is not: the first is given back.         *)
Throttled(v, o) ==
  LET units == preflightUnits(o, preflightSlice(Rows[o], 0))
      first == BucketsOf[v][1]
  IN /\ probe[v] = NoProbe /\ Enough(first, units) /\ ~Enough(BucketsOf[v][2], units)
     /\ spent' = refundChatQuota(first, units, chatQuota(first, units, spent))
     /\ UNCHANGED <<rights, pins, cells, probe, signals, wishes, bare, torn>> /\ UNCHANGED bounds

Refunded(v) ==
  LET units == probe[v].units
  IN spent' = refundChatQuota(BucketsOf[v][2], units, refundChatQuota(BucketsOf[v][1], units, spent))

(* An hour after its first use a budget is whole again, with its next use.            *)
HourEnds(b) ==
  /\ spent[b].open /\ hours < MaxHours /\ hours' = hours + 1
  /\ spent' = [spent EXCEPT ![b].open = FALSE]
  /\ UNCHANGED <<rights, pins, cells, probe, signals, wishes, bare, torn, probes, modelTurns>>

(* ------------------------------------- stack ------------------------------------ *)
mayUseEntry(k, v) == DraftOf[k] \in {NoVisitor, v}
knowledgeFor(k, v) == mayUseEntry(k, v) /\ rights[k] = "bought"

(* Each base over what it was trained on, then the others: those alone.               *)
BaseStack(o) == SelectSeq(SetToSeq(Bases[o]), LAMBDA k : Below[k] = <<>>)
                \o FlattenSeq([i \in 1..Cardinality(Bases[o]) |->
                     LET k == SetToSeq(Bases[o])[i] IN IF Below[k] = <<>> THEN <<>> ELSE Append(Below[k], k)])
contextTargets(o) == SetToSeq(Context[o] \ Bases[o])

ResolveTargets(v) ==
  LET p == probe[v]
      stack == BaseStack(p.offer) \o contextTargets(p.offer)
  IN /\ p.at = "resolving"
     /\ IF \A i \in DOMAIN stack : knowledgeFor(stack[i], v)
        THEN /\ probe' = [probe EXCEPT ![v] = [@ EXCEPT !.at = "queued", !.stack = stack]]
             /\ UNCHANGED spent
        ELSE probe' = [probe EXCEPT ![v] = NoProbe] /\ Refunded(v)
     /\ UNCHANGED <<rights, pins, cells, signals, wishes, bare, torn>> /\ UNCHANGED bounds

Locks == \E v \in Visitor : probe[v].at \in {"loading", "asking", "leaving"}
EnterSection(v) ==
  /\ probe[v].at = "queued" /\ ~Locks
  /\ probe' = [probe EXCEPT ![v].at = "loading"]
  /\ UNCHANGED <<rights, pins, cells, signals, wishes, bare, torn>> /\ UNCHANGED bounds /\ UNCHANGED spent

(* The model is off, or the lock is not free within two minutes.                      *)
TurnedAway(v) ==
  /\ probe[v].at = "queued"
  /\ probe' = [probe EXCEPT ![v] = NoProbe] /\ Refunded(v)
  /\ UNCHANGED <<rights, pins, cells, signals, wishes, bare, torn>> /\ UNCHANGED bounds

(* The places of a list whose knowledges write a cell. *)
Writers(list, s) == {i \in DOMAIN list : s \in Spans[list[i]]}

Put(k, t) == [s \in Spots |-> IF s \in Spans[k] THEN k ELSE t[s]]
HeldBefore(k, s) ==
  LET under == SelectSeq(Below[k], LAMBDA b : s \in Spans[b])
  IN  IF k \in Delta /\ under # <<>> THEN Last(under) ELSE "base"
(* Last first, and whatever a removal does (teach.ts:945 swallows its failure): of the  *)
(* removals that work, `off`, the last to write a cell is that of the first that wrote it. *)
TakenOff(list, off, t) ==
  [s \in Spots |-> LET here == Writers(list, s) \cap off
                  IN  IF here = {} THEN t[s] ELSE HeldBefore(list[Min(here)], s)]
isApplied(k) == \A s \in Spans[k] : cells[s] = k

(* withStack: what is there stays, what is not is applied, without a journal and       *)
(* without a look at the rows below.  A body that is gone, or a script that fails,      *)
(* ends the section.                                                                     *)
LoadTarget(v, works) ==
  LET p == probe[v]
      k == Head(p.stack)
  IN /\ p.at = "loading" /\ p.stack # <<>>
     /\ IF isApplied(k)
        THEN works /\ probe' = [probe EXCEPT ![v].stack = Tail(@)] /\ UNCHANGED <<cells, bare>>
        ELSE IF works
        THEN /\ rights[k] # "none" /\ cells' = Put(k, cells)
             /\ probe' = [probe EXCEPT ![v] = [p EXCEPT !.stack = Tail(p.stack), !.added = Append(p.added, k)]]
             /\ bare' = (bare \/ (k \in Delta /\ \E s \in Spans[k] \ torn : cells[s] # HeldBefore(k, s)))
        ELSE probe' = [probe EXCEPT ![v].at = "leaving"] /\ UNCHANGED <<cells, bare>>
     /\ UNCHANGED <<rights, pins, signals, wishes, torn>> /\ UNCHANGED bounds /\ UNCHANGED spent

(* Every question is answered, or the model goes away among them.                      *)
AskModel(v, answers) ==
  /\ probe[v].at = "loading" /\ probe[v].stack = <<>>
  /\ probe' = [probe EXCEPT ![v] = [@ EXCEPT !.at = "leaving", !.ok = answers]]
  /\ UNCHANGED <<rights, pins, cells, signals, wishes, bare, torn>> /\ UNCHANGED bounds /\ UNCHANGED spent

(* Mutant: what the operator keeps loaded is left as the removals left it. *)
reassertNothing(on, t) == t
(* Bottom first, and not one whose body is gone: of those that are written, `on`, the    *)
(* last that writes a cell shows (teach.ts:953 swallows the failure of the others).        *)
reassertPinned(on, t) ==
  [s \in Spots |-> LET here == {i \in Writers(pins, s) \cap on : rights[pins[i]] # "none"}
                  IN  IF here = {} THEN t[s] ELSE pins[Max(here)]]

(* SC-6: the three counters of each base's page.                                        *)
Counted(p, knows) ==
  {i \in DOMAIN p.asked : StaticVerdict(p.offer, p.asked[i]) = "ask"
                          /\ Verdict(p.offer, p.asked[i], p.asked[i] \in knows) \in {"will_train", "base_conflict"}}
bumpSignals(p, knows) ==
  signals' = [k \in KnownItems |-> IF k \in Bases[p.offer] /\ Counted(p, knows) # {} THEN "some" ELSE signals[k]]

(* The cells of what was not taken off, and of what was not written again.               *)
LeftBy(list, off, on) ==
  {s \in Spots : \/ \E i \in DOMAIN list \ off : s \in Spans[list[i]]
                 \/ \E i \in DOMAIN pins \ on : s \in Spans[pins[i]]}

(* The section ends: what it added comes off, last first, and when there was any the    *)
(* pinned bodies are written again; any of these calls may fail, and the rest are made   *)
(* all the same.  Then the visitor is answered, or given back what it took.               *)
LeaveSection(v) ==
  LET p == probe[v]
  IN /\ p.at = "leaving"
     /\ \E off \in SUBSET DOMAIN p.added, on \in SUBSET DOMAIN pins :
          IF p.added = <<>>
          THEN UNCHANGED <<cells, torn, modelTurns>>
          ELSE /\ cells' = reassertPinned(on, TakenOff(p.added, off, cells))
               /\ torn' = torn \cup LeftBy(p.added, off, on)
               /\ IF off = DOMAIN p.added /\ on = DOMAIN pins THEN UNCHANGED modelTurns
                  ELSE modelTurns < MaxTurns /\ modelTurns' = modelTurns + 1
     /\ probe' = [probe EXCEPT ![v] = NoProbe]
     /\ IF p.ok THEN /\ \E knows \in SUBSET {p.asked[i] : i \in DOMAIN p.asked} : bumpSignals(p, knows)
                     /\ UNCHANGED spent
                ELSE Refunded(v) /\ UNCHANGED signals
     /\ UNCHANGED <<rights, pins, wishes, bare, probes, hours>>

(* The process stops: budgets and requests are in memory, and no row tells what a        *)
(* section had put on the model.                                                         *)
NodeStops ==
  /\ modelTurns < MaxTurns /\ modelTurns' = modelTurns + 1
  /\ bare' = (bare \/ (\E v \in Visitor : probe[v].at # "idle" /\ probe[v].added # <<>>))
  /\ probe' = [v \in Visitor |-> NoProbe]
  /\ spent' = [b \in Bucket |-> [count |-> 0, open |-> FALSE]]
  /\ UNCHANGED <<rights, pins, cells, signals, wishes, torn, probes, hours>>

(* ------------------------------- rights and picker ------------------------------- *)
(* chatCatalog: what stands between a knowledge and a live test of it.                   *)
Reason(k) == IF rights[k] = "bought" THEN "ok"
             ELSE IF rights[k] = "scored" THEN "verify_only" ELSE "not_held"
requestPatch(k, v) ==
  /\ DraftOf[k] = NoVisitor /\ Reason(k) # "ok" /\ v \notin wishes[k]
  /\ wishes' = [wishes EXCEPT ![k] = @ \cup {v}]
  /\ UNCHANGED <<rights, pins, cells, probe, signals, bare, torn>> /\ UNCHANGED bounds /\ UNCHANGED spent

(* The node scores it, buys it, or gives it up: not one it keeps loaded.                 *)
RightsChange(k, r) ==
  /\ modelTurns < MaxTurns /\ modelTurns' = modelTurns + 1
  /\ rights[k] # r /\ (r # "bought" => \A i \in DOMAIN pins : pins[i] # k)
  /\ rights' = [rights EXCEPT ![k] = r]
  /\ UNCHANGED <<pins, cells, probe, signals, wishes, bare, torn, probes, hours>> /\ UNCHANGED spent

(* The operator loads one more over what it stands on, or takes the topmost off,          *)
(* inside the lock (RuntimeStack has the whole of it): its cells, and the sound ones, are   *)
(* as the stack says.                                                                        *)
PinnedTable(stack) ==
  [s \in Spots |-> IF Writers(stack, s) = {} THEN "base" ELSE stack[Max(Writers(stack, s))]]
PinChanges(k, stack) ==
  /\ ~Locks /\ ~bare /\ modelTurns < MaxTurns /\ modelTurns' = modelTurns + 1
  /\ pins' = stack
  /\ cells' = [s \in Spots |-> IF s \in torn \ Spans[k] THEN cells[s] ELSE PinnedTable(stack)[s]]
  /\ UNCHANGED <<rights, probe, signals, wishes, bare, torn, probes, hours>> /\ UNCHANGED spent
Pin(k) ==
  /\ rights[k] = "bought" /\ {pins[i] : i \in DOMAIN pins} \cap {k} = {}
  /\ \A i \in DOMAIN Below[k] : \E j \in DOMAIN pins : pins[j] = Below[k][i]
  /\ PinChanges(k, Append(pins, k))
Unpin == pins # <<>> /\ PinChanges(Last(pins), Front(pins))

PreflightInit ==
  /\ rights \in {[k \in KnownItems |-> r] : r \in {"none", "bought"}} /\ pins = <<>>
  /\ cells = [s \in Spots |-> "base"] /\ probe = [v \in Visitor |-> NoProbe]
  /\ spent = [b \in Bucket |-> [count |-> 0, open |-> FALSE]]
  /\ signals = [k \in KnownItems |-> "none"] /\ wishes = [k \in KnownItems |-> {}]
  /\ bare = FALSE /\ torn = {}
  /\ probes = 0 /\ hours = 0 /\ modelTurns = 0

PreflightNext ==
  \/ \E v \in Visitor, o \in Offer : Throttled(v, o) \/ \E n \in 0..Len(Rows[o]) : AskPreflight(v, o, n)
  \/ \E v \in Visitor : ResolveTargets(v) \/ EnterSection(v) \/ TurnedAway(v) \/ LeaveSection(v)
  \/ \E v \in Visitor, works \in BOOLEAN : LoadTarget(v, works) \/ AskModel(v, works)
  \/ \E k \in KnownItems, v \in Visitor : requestPatch(k, v)
  \/ \E k \in KnownItems : Pin(k) \/ \E r \in {"none", "scored", "bought"} : RightsChange(k, r)
  \/ \E b \in Bucket : HourEnds(b)
  \/ Unpin \/ NodeStops

PreflightSpec == PreflightInit /\ [][PreflightNext]_preVars

(* ----------------------------------- properties --------------------------------- *)
(* Whatever knowledges overlap, fail to load or lose their body under way, the model     *)
(* serves the operator's stack again when a probe has left it (teach.ts:929-955): in      *)
(* every cell but those of a body whose removal, or writing again, has failed, and unless  *)
(* a delta went on without its base or the node stopped inside.                             *)
ModelIsPutBack ==
  ~Locks /\ ~bare => \A s \in Spots \ torn : cells[s] = PinnedTable(pins)[s]

================================================================================
