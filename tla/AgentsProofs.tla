---------------------------- MODULE AgentsProofs ----------------------------
(* Machine-checked theorems about the agents of a node: the gate between nodes
   (AgentMesh), script runs (ScriptRuns), the repository of an agent (AgentRepo),
   hosted agents (HostedAgents), deployments (Projects) and the registry of shared
   agents (SharedAgents).                                                      *)
EXTENDS AgentMesh, ScriptRuns, AgentRepo, HostedAgents, Projects, SharedAgents, FiniteSums,
        FiniteSetTheorems, SequenceTheorems, TLAPS

-----------------------------------------------------------------------------
(* What leaves for another node (AgentMesh). *)

Enough(L, req) == satisfiesRequirement(L, req) /\ satisfiesFloor(L)
MeshFields == {"pc", "id", "peer", "req", "basis"}
NeedsLabels(req) == ~(req = {} /\ EgressFloor = {})

\* A call that goes out rests on labels that say enough for it.
GatedCall(c) ==
  /\ c = [f \in MeshFields |-> c[f]]
  /\ c.pc = "forward" /\ NeedsLabels(c.req) => \E L \in c.basis : Enough(L, c.req)

\* A verdict rests on labels that say enough for the requirement it was asked for.
VerdictsHold == \A v \in verdicts : Enough(v.labels, v.key.req)

MeshInv == VerdictsHold /\ GatedCall(call)

\* A call that is not sent yet, or over.
LEMMA NotSentIsGated ==
  ASSUME GatedCall(call)
  PROVE  /\ GatedCall(NoCallYet)
         /\ \A pc : pc # "forward" => GatedCall([call EXCEPT !.pc = pc])
         /\ \A pc, p : pc # "forward" => GatedCall([call EXCEPT !.pc = pc, !.peer = p])
         /\ \A pc, i, p, req : pc # "forward" =>
              GatedCall([pc |-> pc, id |-> i, peer |-> p, req |-> req, basis |-> {}])
<1>1. GatedCall(NoCallYet)
  BY DEF GatedCall, NoCallYet, MeshFields
<1>2. ASSUME NEW pc, pc # "forward" PROVE GatedCall([call EXCEPT !.pc = pc])
  BY Zenon, <1>2 DEF GatedCall, MeshFields
<1>3. ASSUME NEW pc, NEW p, pc # "forward" PROVE GatedCall([call EXCEPT !.pc = pc, !.peer = p])
  BY Zenon, <1>3 DEF GatedCall, MeshFields
<1>4. ASSUME NEW pc, NEW i, NEW p, NEW req, pc # "forward"
      PROVE  GatedCall([pc |-> pc, id |-> i, peer |-> p, req |-> req, basis |-> {}])
  BY Zenon, <1>4 DEF GatedCall, MeshFields
<1>. QED  BY <1>1, <1>2, <1>3, <1>4

LEMMA MeshQuiet ==
  ASSUME MeshInv, UNCHANGED <<verdicts, call>>
  PROVE  MeshInv'
BY DEF MeshInv, VerdictsHold, GatedCall, Enough, satisfiesRequirement, satisfiesFloor, NeedsLabels, MeshFields

LEMMA CallMoves ==
  ASSUME MeshInv, GatedCall(call'), UNCHANGED verdicts
  PROVE  MeshInv'
BY DEF MeshInv, VerdictsHold, GatedCall, Enough, satisfiesRequirement, satisfiesFloor, NeedsLabels, MeshFields

LEMMA MeshStep ==
  ASSUME MeshInv, [MeshNext]_meshVars
  PROVE  MeshInv'
<1> USE DEF MeshInv
<1>1. CASE Link \/ UpstreamMoves \/ fetchCard \/ serveCard \/ CardAnswers \/ HealthAges
  <2> UNCHANGED <<verdicts, call>>
    BY <1>1 DEF Link, UpstreamMoves, fetchCard, serveCard, CardAnswers, HealthAges
  <2> QED
    BY MeshQuiet
<1>2. CASE Hear \/ PeerGoesQuiet \/ RegistryAges \/ PeerDeclares \/ serveRemoteCard \/ UNCHANGED meshVars
  <2> UNCHANGED <<verdicts, call>>
    BY <1>2 DEF Hear, PeerGoesQuiet, RegistryAges, PeerDeclares, serveRemoteCard, meshVars
  <2> QED
    BY MeshQuiet
<1>3. CASE VerdictExpires
  <2>1. verdicts' \subseteq verdicts /\ call' = call
    BY <1>3 DEF VerdictExpires
  <2> QED
    BY <2>1 DEF VerdictsHold, GatedCall, Enough, satisfiesRequirement, satisfiesFloor, NeedsLabels, MeshFields
<1>4. CASE callAgent \/ meshCall
  <2>1. UNCHANGED verdicts
    BY <1>4 DEF callAgent, meshCall, CallOnly
  <2>2. \E pc, i, p, req : pc # "forward" /\ Begin(pc, i, p, req)
    BY <1>4 DEF callAgent, meshCall
  <2>3. GatedCall(call')
    BY <2>2 DEF Begin, GatedCall, MeshFields
  <2> QED
    BY <2>1, <2>3, CallMoves
<1>5. CASE remote
  <2>1. UNCHANGED verdicts
    BY <1>5 DEF remote
  <2>2. call' = NoCallYet \/ \E pc, p : pc # "forward" /\ call' = [call EXCEPT !.pc = pc, !.peer = p]
    BY <1>5 DEF remote
  <2>3. GatedCall(call')
    BY <2>2, NotSentIsGated DEF GatedCall, MeshFields
  <2> QED
    BY <2>1, <2>3, CallMoves
<1>6. CASE GateAsks
  <2>1. UNCHANGED verdicts
    BY <1>6 DEF GateAsks, CallOnly
  <2>2. \E pc : pc # "forward" /\ call' = [call EXCEPT !.pc = pc]
    BY <1>6 DEF GateAsks, Step
  <2>3. GatedCall(call')
    BY <2>2, NotSentIsGated
  <2> QED
    BY <2>1, <2>3, CallMoves
<1>7. CASE GatePasses
  <2> DEFINE rests == {v.labels : v \in Hits(call.peer, call.req)}
  <2>1. /\ UNCHANGED verdicts
        /\ call' = [call EXCEPT !.pc = "forward", !.basis = rests]
    BY <1>7 DEF GatePasses, CallOnly
  <2>2. NeedsLabels(call.req) => Hits(call.peer, call.req) # {}
    BY <1>7 DEF GatePasses, NeedsLabels
  <2>3. \A v \in Hits(call.peer, call.req) : v.labels \in rests /\ Enough(v.labels, call.req)
    BY DEF Hits, GateKey, VerdictsHold
  <2>4. NeedsLabels(call.req) => \E L \in rests : Enough(L, call.req)
    BY <2>2, <2>3
  <2> HIDE DEF rests
  <2>5. GatedCall(call')
    BY <2>1, <2>4 DEF GatedCall, MeshFields
  <2> QED
    BY <2>1, <2>5, CallMoves
<1>8. CASE Attested
  <2> DEFINE L == declared[call.peer]
             v == [key |-> GateKey(call.peer, call.req), labels |-> L]
  <2>1. /\ verdicts' = verdicts \cup {v}
        /\ call' = [call EXCEPT !.pc = "forward", !.basis = {L}]
        /\ Enough(L, call.req)
    BY <1>8 DEF Attested, Enough
  <2>2. v.labels = L /\ v.key.req = call.req
    BY DEF GateKey
  <2> HIDE DEF v, L
  <2>3. GatedCall(call')
    BY <2>1 DEF GatedCall, MeshFields
  <2>4. \A w \in verdicts' : Enough(w.labels, w.key.req)
    BY <2>1, <2>2 DEF VerdictsHold
  <2> QED
    BY <2>3, <2>4 DEF VerdictsHold, GatedCall, Enough, satisfiesRequirement, satisfiesFloor, NeedsLabels, MeshFields
<1>9. CASE Refused \/ relayCall \/ forward
  <2>1. UNCHANGED verdicts /\ call' = NoCallYet
    BY <1>9 DEF Refused, relayCall, forward, CallOnly
  <2> QED
    BY <2>1, NotSentIsGated, CallMoves
<1>10. CASE MeshRestart
  <2>1. verdicts' = {} /\ call' = NoCallYet
    BY <1>10 DEF MeshRestart
  <2>2. GatedCall(call')
    BY <2>1, NotSentIsGated
  <2> QED
    BY <2>1, <2>2 DEF VerdictsHold, GatedCall, Enough, satisfiesRequirement, satisfiesFloor, NeedsLabels, MeshFields
<1> QED
  BY <1>1, <1>2, <1>3, <1>4, <1>5, <1>6, <1>7, <1>8, <1>9, <1>10 DEF MeshNext

(* No body leaves for a peer unless that peer attested labels that meet what this very call
   requires and the operator's floor: a verdict that another call was given, with another
   requirement, lets nothing through, however verdicts age and attestations change (gateFor,
   sam.ts).                                                                              *)
THEOREM NothingLeavesUnlabelled == MeshSpec => []BodyNeedsLabels
<1>1. MeshInit => MeshInv
  BY DEF MeshInit, MeshInv, VerdictsHold, GatedCall, NoCallYet, MeshFields
<1>2. MeshInv /\ [MeshNext]_meshVars => MeshInv'
  BY MeshStep
<1>3. MeshInv => BodyNeedsLabels
  BY DEF MeshInv, GatedCall, BodyNeedsLabels, Enough, NeedsLabels
<1> QED
  BY <1>1, <1>2, <1>3, PTL DEF MeshSpec

-----------------------------------------------------------------------------
(* The slots of script runs (ScriptRuns). *)

AwaitingRun == [at : {"image"}, caller : RunCallers, language : Language, aborted : BOOLEAN]
ClientRun == [at : {"client"}, caller : RunCallers, container : {"none", "up", "gone"},
              kill : {"no", "sent", "done"}, client : {"alive", "dead"}]
RunsTyped ==
  /\ runs \in [RunIds -> {NoRun} \cup AwaitingRun \cup ClientRun]
  /\ DOMAIN mine = RunCallers

SlotsInv == RunsTyped /\ SlotsAreRuns

InFlight == {r \in RunIds : runs[r] # NoRun}
Of(c) == {r \in RunIds : runs[r] # NoRun /\ runs[r].caller = c}

LEMMA RunShapes ==
  ASSUME RunsTyped, NEW r \in RunIds
  PROVE  /\ runs[r] = NoRun <=> runs[r].at = "free"
         /\ runs[r].at = "image" => runs[r] \in AwaitingRun
         /\ runs[r].at = "client" => runs[r] \in ClientRun
         /\ runs[r] # NoRun => runs[r].caller \in RunCallers
BY DEF RunsTyped, NoRun, AwaitingRun, ClientRun

LEMMA InFlightFinite ==
  /\ IsFiniteSet(InFlight) /\ Cardinality(InFlight) \in Nat
  /\ \A c : IsFiniteSet(Of(c)) /\ Cardinality(Of(c)) \in Nat
<1>1. InFlight \in SUBSET RunIds /\ \A c : Of(c) \in SUBSET RunIds
  BY DEF InFlight, Of
<1> QED
  BY <1>1, ScriptAssumption, FS_Subset, FS_CardinalityType

LEMMA SlotsCount ==
  SlotsAreRuns <=> active = Cardinality(InFlight) /\ \A c \in RunCallers : mine[c] = Cardinality(Of(c))
BY DEF SlotsAreRuns, InFlight, Of

\* Nobody comes or goes.
LEMMA SameInFlight ==
  ASSUME SlotsInv, RunsTyped', UNCHANGED slots,
         \A r \in RunIds : /\ (runs'[r] = NoRun) <=> (runs[r] = NoRun)
                           /\ runs[r] # NoRun => runs'[r].caller = runs[r].caller
  PROVE  SlotsInv'
<1>1. InFlight' = InFlight /\ \A c : Of(c)' = Of(c)
  BY DEF InFlight, Of
<1>2. active' = active /\ mine' = mine
  BY DEF slots
<1>3. active' = Cardinality(InFlight') /\ \A c \in RunCallers : mine'[c] = Cardinality(Of(c)')
  BY <1>1, <1>2, SlotsCount DEF SlotsInv
<1> QED
  BY <1>3 DEF SlotsInv, SlotsAreRuns, InFlight, Of

LEMMA RunsQuiet ==
  ASSUME SlotsInv, UNCHANGED <<runs, mine, active>>
  PROVE  SlotsInv'
BY DEF SlotsInv, RunsTyped, SlotsAreRuns, NoRun, AwaitingRun, ClientRun

\* A run goes on under the same caller.
LEMMA RunGoesOn ==
  ASSUME SlotsInv, NEW r \in RunIds, runs[r] # NoRun,
         NEW x \in AwaitingRun \cup ClientRun, x.caller = runs[r].caller,
         runs' = [runs EXCEPT ![r] = x], UNCHANGED slots
  PROVE  SlotsInv'
<1>1. x # NoRun
  BY DEF NoRun, AwaitingRun, ClientRun
<1>2. RunsTyped'
  BY DEF SlotsInv, RunsTyped, slots, NoRun, AwaitingRun, ClientRun
<1> QED
  BY <1>1, <1>2, SameInFlight DEF SlotsInv, RunsTyped

\* What ends gives back what it took.
LEMMA EndsGiveBack ==
  ASSUME SlotsInv, NEW rs \in SUBSET InFlight, EndRuns(rs)
  PROVE  SlotsInv'
<1>1. runs' = [r \in RunIds |-> IF r \in rs THEN NoRun ELSE runs[r]]
  BY DEF EndRuns
<1>2. RunsTyped'
  BY <1>1 DEF SlotsInv, RunsTyped, EndRuns, release, NoRun, AwaitingRun, ClientRun
<1>3. InFlight' = InFlight \ rs /\ InFlight \cap rs = rs
  BY <1>1 DEF InFlight
<1>4. ASSUME NEW c PROVE Of(c)' = Of(c) \ rs /\ Of(c) \cap rs = {r \in rs : runs[r].caller = c}
  BY <1>1 DEF InFlight, Of
<1>5. active' = Cardinality(InFlight')
  <2>1. Cardinality(InFlight \ rs) = Cardinality(InFlight) - Cardinality(InFlight \cap rs)
    BY FS_Difference, InFlightFinite
  <2>2. active' = active - Cardinality(rs)
    BY DEF EndRuns, release
  <2> QED
    BY <1>3, <2>1, <2>2, SlotsCount DEF SlotsInv
<1>6. ASSUME NEW c \in RunCallers PROVE mine'[c] = Cardinality(Of(c)')
  <2>1. Cardinality(Of(c) \ rs) = Cardinality(Of(c)) - Cardinality(Of(c) \cap rs)
    BY FS_Difference, InFlightFinite
  <2>2. mine'[c] = mine[c] - Cardinality({r \in rs : runs[r].caller = c})
    BY DEF EndRuns, release
  <2>3. mine[c] = Cardinality(Of(c))
    BY SlotsCount DEF SlotsInv
  <2> QED
    BY <1>4, <2>1, <2>2, <2>3
<1> QED
  BY <1>2, <1>5, <1>6 DEF SlotsInv, SlotsAreRuns, InFlight, Of

LEMMA OrphansKeep ==
  ASSUME SlotsInv, removeOrphans, UNCHANGED slots
  PROVE  SlotsInv'
<1>1. \A r \in RunIds : runs'[r] = IF Up(r) THEN [runs[r] EXCEPT !.container = "gone"] ELSE runs[r]
  BY DEF removeOrphans
<1>2. ASSUME NEW r \in RunIds, Up(r)
      PROVE  /\ runs[r] \in ClientRun
             /\ [runs[r] EXCEPT !.container = "gone"] \in ClientRun
             /\ [runs[r] EXCEPT !.container = "gone"].caller = runs[r].caller
  <2>1. runs[r] \in ClientRun
    BY <1>2, RunShapes DEF SlotsInv, Up, Under
  <2> QED
    BY <2>1 DEF ClientRun
<1>3. \A r \in RunIds : Up(r) => runs[r] # NoRun /\ runs'[r] # NoRun
  <2>1. \A x \in ClientRun : x # NoRun
    BY DEF ClientRun, NoRun
  <2> QED
    BY <1>1, <1>2, <2>1
<1>4. RunsTyped'
  <2>1. runs' = [r \in RunIds |-> IF Up(r) THEN [runs[r] EXCEPT !.container = "gone"] ELSE runs[r]]
    BY DEF removeOrphans
  <2>2. \A r \in RunIds : runs'[r] \in {NoRun} \cup AwaitingRun \cup ClientRun
    BY <1>1, <1>2 DEF SlotsInv, RunsTyped
  <2>3. DOMAIN runs' = RunIds /\ runs' = [r \in RunIds |-> runs'[r]]
    BY <2>1
  <2>4. runs' \in [RunIds -> {NoRun} \cup AwaitingRun \cup ClientRun]
    BY <2>2, <2>3
  <2> QED
    BY <2>4 DEF SlotsInv, RunsTyped, slots, AwaitingRun, ClientRun, NoRun
<1> QED
  BY <1>1, <1>2, <1>3, <1>4, SameInFlight

LEMMA PressTakesOne ==
  ASSUME SlotsInv, NEW r \in RunIds, NEW c \in RunCallers, NEW l \in Language, Press(r, c, l)
  PROVE  SlotsInv'
<1> DEFINE x == [at |-> "image", caller |-> c, language |-> l, aborted |-> FALSE]
<1>1. /\ runs[r] = NoRun /\ runs' = [runs EXCEPT ![r] = x]
      /\ mine' = [mine EXCEPT ![c] = @ + 1] /\ active' = active + 1
  BY DEF Press, admit
<1>2. x \in AwaitingRun /\ x # NoRun /\ x.caller = c
  BY DEF AwaitingRun, NoRun
<1> HIDE DEF x
<1>3. RunsTyped'
  BY <1>1, <1>2 DEF SlotsInv, RunsTyped, NoRun, AwaitingRun, ClientRun
<1>4. InFlight' = InFlight \cup {r} /\ r \notin InFlight
  BY <1>1, <1>2 DEF InFlight, SlotsInv, RunsTyped
<1>5. Of(c)' = Of(c) \cup {r} /\ r \notin Of(c) /\ \A d : d # c => Of(d)' = Of(d)
  BY <1>1, <1>2 DEF Of, SlotsInv, RunsTyped
<1>6. active' = Cardinality(InFlight')
  BY <1>1, <1>4, FS_AddElement, InFlightFinite, SlotsCount DEF SlotsInv
<1>7. ASSUME NEW d \in RunCallers PROVE mine'[d] = Cardinality(Of(d)')
  <2>1. mine[d] = Cardinality(Of(d))
    BY SlotsCount DEF SlotsInv
  <2>2. CASE d = c
    <3>1. mine'[c] = mine[c] + 1
      BY <1>1 DEF SlotsInv, RunsTyped
    <3>2. Cardinality(Of(c) \cup {r}) = Cardinality(Of(c)) + 1
      BY <1>5, FS_AddElement, InFlightFinite
    <3> QED
      BY <1>5, <2>1, <2>2, <3>1, <3>2
  <2>3. CASE d # c
    BY <1>1, <1>5, <2>1, <2>3 DEF SlotsInv, RunsTyped
  <2> QED
    BY <2>2, <2>3
<1> QED
  BY <1>3, <1>6, <1>7 DEF SlotsInv, SlotsAreRuns, InFlight, Of

LEMMA LaunchKeeps ==
  ASSUME SlotsInv, NEW r \in RunIds, Launch(r)
  PROVE  SlotsInv'
<1>1. AwaitsImage(r) /\ runs[r] \in AwaitingRun /\ runs[r] # NoRun
  BY RunShapes DEF Launch, AwaitsImage, SlotsInv, NoRun
<1>2. CASE EndRuns({r})
  <2>1. {r} \in SUBSET InFlight
    BY <1>1 DEF InFlight
  <2> QED
    BY <1>2, <2>1, EndsGiveBack
<1>3. CASE ~EndRuns({r})
  <2> DEFINE x == [at |-> "client", caller |-> runs[r].caller, container |-> "none",
                   kill |-> "no", client |-> "alive"]
  <2>1. runs' = [runs EXCEPT ![r] = x] /\ UNCHANGED slots
    BY <1>3 DEF Launch, SlotsInv, RunsTyped
  <2>2. x \in ClientRun /\ x.caller = runs[r].caller
    BY <1>1 DEF ClientRun, AwaitingRun
  <2> HIDE DEF x
  <2> QED
    BY <1>1, <2>1, <2>2, RunGoesOn
<1> QED
  BY <1>2, <1>3

\* What happens to a run and its container while the run goes on.
LEMMA RunStepsKeep ==
  ASSUME SlotsInv, NEW r \in RunIds,
         ContainerUp(r) \/ ContainerEnds(r) \/ onAbort(r) \/ RunTimeout(r) \/ KillLands(r) \/ ClientKilled(r)
  PROVE  SlotsInv'
<1>1. UNCHANGED slots
  BY DEF ContainerUp, ContainerEnds, onAbort, RunTimeout, KillLands, ClientKilled
<1>2. CASE AwaitsImage(r)
  <2>1. runs[r] \in AwaitingRun /\ runs[r] # NoRun
    BY <1>2, RunShapes DEF AwaitsImage, SlotsInv, NoRun
  <2>2. runs' = [runs EXCEPT ![r].aborted = TRUE]
    BY <1>2 DEF ContainerUp, ContainerEnds, onAbort, RunTimeout, KillLands, ClientKilled, LeftOver, Under, AwaitsImage
  <2> DEFINE x == [runs[r] EXCEPT !.aborted = TRUE]
  <2>3. runs' = [runs EXCEPT ![r] = x]
    BY <2>2 DEF SlotsInv, RunsTyped
  <2>4. x \in AwaitingRun /\ x.caller = runs[r].caller
    BY <2>1 DEF AwaitingRun
  <2> HIDE DEF x
  <2> QED
    BY <1>1, <2>1, <2>3, <2>4, RunGoesOn
<1>3. CASE ~AwaitsImage(r)
  <2>1. Under(r) /\ runs[r] \in ClientRun /\ runs[r] # NoRun
    BY <1>3, RunShapes DEF SlotsInv, NoRun, Under, LeftOver, ContainerUp, ContainerEnds, onAbort, RunTimeout,
       KillLands, ClientKilled
  <2>2. PICK x : x \in ClientRun /\ x.caller = runs[r].caller /\ runs' = [runs EXCEPT ![r] = x]
    <3>1. CASE ContainerUp(r)
      <4>1. [runs[r] EXCEPT !.container = "up"] \in ClientRun
        BY <2>1 DEF ClientRun
      <4>2. runs' = [runs EXCEPT ![r] = [runs[r] EXCEPT !.container = "up"]]
        BY <3>1 DEF ContainerUp
      <4> QED
        BY <4>1, <4>2, <2>1 DEF ClientRun
    <3>2. CASE ContainerEnds(r)
      <4>1. [runs[r] EXCEPT !.container = "gone"] \in ClientRun
        BY <2>1 DEF ClientRun
      <4>2. runs' = [runs EXCEPT ![r] = [runs[r] EXCEPT !.container = "gone"]]
        BY <3>2 DEF ContainerEnds
      <4> QED
        BY <4>1, <4>2, <2>1 DEF ClientRun
    <3>3. CASE onAbort(r) \/ RunTimeout(r)
      <4>1. [runs[r] EXCEPT !.kill = "sent"] \in ClientRun
        BY <2>1 DEF ClientRun
      <4>2. runs' = [runs EXCEPT ![r] = [runs[r] EXCEPT !.kill = "sent"]]
        BY <3>3, <1>3 DEF onAbort, RunTimeout, kill
      <4> QED
        BY <4>1, <4>2, <2>1 DEF ClientRun
    <3>4. CASE KillLands(r)
      <4> DEFINE left == IF runs[r].container = "up" THEN "gone" ELSE runs[r].container
      <4>1. [runs[r] EXCEPT !.kill = "done", !.container = left] \in ClientRun
        BY <2>1 DEF ClientRun
      <4>2. runs' = [runs EXCEPT ![r] = [runs[r] EXCEPT !.kill = "done", !.container = left]]
        BY <3>4, <2>1 DEF KillLands, ClientRun, SlotsInv, RunsTyped
      <4> QED
        BY <4>1, <4>2, <2>1 DEF ClientRun
    <3>5. CASE ClientKilled(r)
      <4>1. [runs[r] EXCEPT !.client = "dead"] \in ClientRun
        BY <2>1 DEF ClientRun
      <4>2. runs' = [runs EXCEPT ![r] = [runs[r] EXCEPT !.client = "dead"]]
        BY <3>5 DEF ClientKilled
      <4> QED
        BY <4>1, <4>2, <2>1 DEF ClientRun
    <3> QED
      BY <3>1, <3>2, <3>3, <3>4, <3>5
  <2> QED
    BY <1>1, <2>1, <2>2, RunGoesOn
<1> QED
  BY <1>2, <1>3

LEMMA RunsStep ==
  ASSUME SlotsInv, [RunsNext]_scriptVars
  PROVE  SlotsInv'
<1>1. CASE start \/ stop
  <2>1. removeOrphans /\ UNCHANGED slots
    BY <1>1 DEF start, stop
  <2> QED
    BY <2>1, OrphansKeep
<1>2. CASE NodeDies
  <2>1. /\ runs' = [r \in RunIds |-> NoRun]
        /\ mine' = [c \in RunCallers |-> 0] /\ active' = 0
    BY <1>2 DEF NodeDies
  <2>2. InFlight' = {} /\ \A c : Of(c)' = {}
    BY <2>1 DEF InFlight, Of
  <2>3. RunsTyped'
    BY <2>1 DEF RunsTyped, NoRun, AwaitingRun, ClientRun
  <2>4. active' = Cardinality(InFlight') /\ \A c \in RunCallers : mine'[c] = Cardinality(Of(c)')
    BY <2>1, <2>2, FS_EmptySet
  <2> QED
    BY <2>3, <2>4 DEF SlotsInv, SlotsAreRuns, InFlight, Of
<1>3. ASSUME NEW l \in Language, ImageFails(l) PROVE SlotsInv'
  <2> DEFINE rs == {r \in RunIds : AwaitsImage(r) /\ runs[r].language = l}
  <2>1. EndRuns(rs)
    BY <1>3 DEF ImageFails
  <2>2. rs \in SUBSET InFlight
    BY DEF InFlight, AwaitsImage, NoRun
  <2> HIDE DEF rs
  <2> QED
    BY <2>1, <2>2, EndsGiveBack
<1>4. ASSUME NEW r \in RunIds, Closed(r) PROVE SlotsInv'
  <2>1. EndRuns({r})
    BY <1>4 DEF Closed
  <2>2. {r} \in SUBSET InFlight
    BY <1>4 DEF Closed, InFlight, Under, NoRun
  <2> QED
    BY <2>1, <2>2, EndsGiveBack
<1>5. CASE \/ StrayEnds \/ UNCHANGED scriptVars
           \/ \E l \in Language : warm(l) \/ buildImage(l)
           \/ \E r \in RunIds, h \in Host : tunnel(r, h)
           \/ \E t \in tunnels : TunnelEnds(t)
           \/ \E h \in Host : hostedAgentEgress(h)
  <2>1. UNCHANGED <<runs, mine, active>>
    BY <1>5 DEF StrayEnds, scriptVars, warm, buildImage, tunnel, TunnelEnds, hostedAgentEgress, slots
  <2> QED
    BY <2>1, RunsQuiet
<1> QED
  BY <1>1, <1>2, <1>3, <1>4, <1>5, PressTakesOne, LaunchKeeps, RunStepsKeep DEF RunsNext

(* The counts that admit a press are those of the runs in flight, for any number of runs,
   callers and languages: whoever is refused, aborted, timed out, fails with a build that
   others wait for, or loses its container, gives back its slot, once (admit and run's
   finally, run-sandbox.ts).                                                             *)
THEOREM NoSlotLeaks == RunsSpec => []SlotsAreRuns
<1>1. RunsInit => SlotsInv
  <2> SUFFICES ASSUME RunsInit PROVE SlotsInv
    OBVIOUS
  <2>1. InFlight = {} /\ \A c : Of(c) = {}
    BY DEF RunsInit, InFlight, Of
  <2>2. RunsTyped
    BY DEF RunsInit, RunsTyped
  <2> QED
    BY <2>1, <2>2, FS_EmptySet, SlotsCount DEF RunsInit, SlotsInv
<1>2. SlotsInv /\ [RunsNext]_scriptVars => SlotsInv'
  BY RunsStep
<1>3. SlotsInv => SlotsAreRuns
  BY DEF SlotsInv
<1> QED
  BY <1>1, <1>2, <1>3, PTL DEF RunsSpec

-----------------------------------------------------------------------------
(* The two copies of an agent (AgentRepo). *)

ObjectRec == [tree : Tree, anc : SUBSET Nat]
PullRec == [state : {"open", "closed", "merged"}, commit : Nat]
MirrorRec == [url : Url, last : Nat, error : BOOLEAN]
RepoSteps == {"none", "create", "parent", "commit", "drop", "receive", "close", "read", "apply", "merge",
              "setRef", "fetch", "land"}
RequestRec == [step : RepoSteps, branch : Branches, tree : Tree \cup {"none"}, old : Nat, before : Nat,
               commit : Nat, pull : Nat, mirror : MirrorRec \cup {NoMirror}, alone : BOOLEAN]

\* A commit there is, or 0 for none.
Reach(k) == k \in Nat /\ k <= Len(objects)
ObjectsTyped == objects \in Seq(ObjectRec)

RepoTyped ==
  /\ ObjectsTyped
  /\ heads = [b \in Branches |-> heads[b]] /\ \A b \in Branches : Reach(heads[b])
  /\ upstream = [u \in Url |-> upstream[u]] /\ \A u \in Url : Reach(upstream[u])
  /\ agentRow = [f \in {"kept", "tree", "version"} |-> agentRow[f]]
  /\ followed \in MirrorRec \cup {NoMirror}
  /\ proposals \in Seq(PullRec)
  /\ request \in [GitCaller -> RequestRec]

\* What a request holds exists.
Fits(r) ==
  /\ Reach(r.old) /\ Reach(r.commit)
  /\ r.step \in {"create", "parent", "commit", "receive"} => r.tree \in Tree
  /\ r.step = "fetch" => r.mirror \in MirrorRec

\* A request that has written one copy alone is about to write the other with the same content.
Follows(r) ==
  r.alone =>
    /\ r.step \in {"create", "parent", "commit"} => agentRow.tree = r.tree
    /\ r.step = "apply" => r.commit = heads["main"] /\ r.commit # 0
    /\ r.step \in {"setRef", "land"} => r.commit # 0 /\ agentRow.tree = objects[r.commit].tree

RequestsInv ==
  \A c \in GitCaller :
    /\ Fits(request[c]) /\ Follows(request[c])
    /\ request[c].alone => \A d \in GitCaller : d # c => request[d] = Done

SameContent == heads["main"] # 0 => agentRow.tree = objects[heads["main"]].tree
AgreeInv == agreeing => SameContent /\ \A c \in GitCaller : request[c] = Done

RepoInv == RepoTyped /\ RequestsInv /\ AgreeInv

\* No commit is lost or changed.
Grown ==
  /\ ObjectsTyped' /\ Len(objects) \in Nat /\ Len(objects') \in Nat /\ Len(objects) <= Len(objects')
  /\ \A k : Reach(k) /\ k # 0 => objects'[k] = objects[k]

LEMMA SameObjects ==
  ASSUME ObjectsTyped, objects' = objects
  PROVE  Grown
BY LenProperties DEF Grown, ObjectsTyped

LEMMA CommitGrows ==
  ASSUME RepoTyped, NEW t \in Tree, NEW ps, \A p \in ps : Reach(p), CommitTree(t, ps)
  PROVE  /\ Grown
         /\ \E k : k = NewCommit /\ k # 0 /\ Reach(k)' /\ objects'[k].tree = t
<1> DEFINE behind == UNION {Behind(p) : p \in ps}
           anc == behind \cup {Len(objects) + 1}
           x == [tree |-> t, anc |-> anc]
<1>1. objects' = Append(objects, x)
  BY DEF CommitTree
<1>2. Len(objects) \in Nat
  BY LenProperties DEF RepoTyped, ObjectsTyped
<1>3. \A p \in ps : Behind(p) \in SUBSET Nat
  <2> SUFFICES ASSUME NEW p \in ps PROVE Behind(p) \in SUBSET Nat
    OBVIOUS
  <2>1. CASE p = 0
    BY <2>1 DEF Behind
  <2>2. CASE p # 0
    <3>1. p \in 1..Len(objects)
      BY <1>2, <2>2 DEF Reach
    <3>2. objects[p] \in ObjectRec
      BY <3>1, ElementOfSeq DEF RepoTyped, ObjectsTyped
    <3> QED
      BY <2>2, <3>2 DEF Behind, ObjectRec
  <2> QED
    BY <2>1, <2>2
<1>4. behind \in SUBSET Nat
  BY <1>3
<1> HIDE DEF behind
<1>5. Len(objects) + 1 \in Nat
  BY <1>2
<1>6. anc \in SUBSET Nat
  BY <1>4, <1>5
<1> HIDE DEF anc
<1>7. x \in ObjectRec /\ x.tree = t
  BY <1>6 DEF ObjectRec
<1> HIDE DEF x
<1>8. /\ objects' \in Seq(ObjectRec) /\ Len(objects') = Len(objects) + 1
      /\ \A i \in 1..Len(objects) : objects'[i] = objects[i]
      /\ objects'[Len(objects) + 1] = x
  BY <1>1, <1>7, AppendProperties DEF RepoTyped, ObjectsTyped
<1>9. \A k : Reach(k) /\ k # 0 => objects'[k] = objects[k]
  BY <1>2, <1>8 DEF Reach
<1>10. Grown
  BY <1>2, <1>8, <1>9 DEF Grown, ObjectsTyped
<1>11. PICK k : k = NewCommit
  OBVIOUS
<1>12. k # 0 /\ Reach(k)' /\ objects'[k].tree = t
  <2>1. k = Len(objects) + 1
    BY <1>11 DEF NewCommit
  <2>2. objects'[k].tree = t
    BY <1>7, <1>8, <2>1
  <2> QED
    BY <1>2, <1>8, <2>1, <2>2 DEF Reach
<1> QED
  BY <1>10, <1>11, <1>12

\* Commits stay what they were, so does what requests hold.
LEMMA ReachGrows ==
  ASSUME Grown, NEW k, Reach(k)
  PROVE  Reach(k)'
BY DEF Grown, Reach

LEMMA FitsGrows ==
  ASSUME Grown, NEW r, Fits(r)
  PROVE  Fits(r)'
BY ReachGrows DEF Fits

\* The rest of the repository, when a step has moved it.
RestTyped ==
  /\ heads = [b \in Branches |-> heads[b]] /\ \A b \in Branches : Reach(heads[b])
  /\ upstream = [u \in Url |-> upstream[u]] /\ \A u \in Url : Reach(upstream[u])
  /\ agentRow = [f \in {"kept", "tree", "version"} |-> agentRow[f]]
  /\ followed \in MirrorRec \cup {NoMirror}
  /\ proposals \in Seq(PullRec)

LEMMA DoneIsTyped ==
  /\ Done \in RequestRec /\ Done.step = "none" /\ ~Done.alone
  /\ RepoTyped => Fits(Done)
<1>1. Done \in RequestRec /\ Done.step = "none" /\ ~Done.alone /\ Done.old = 0 /\ Done.commit = 0
  BY DEF Done, RequestRec, RepoSteps, Branches, NoMirror
<1>2. RepoTyped => Len(objects) \in Nat
  BY LenProperties DEF RepoTyped, ObjectsTyped
<1> QED
  BY <1>1, <1>2 DEF Fits, Reach

LEMMA HeadsFrame ==
  ASSUME RepoTyped, Grown, UNCHANGED <<heads, upstream, agentRow, followed, proposals>>
  PROVE  RestTyped'
<1>1. \A b \in Branches : Reach(heads[b])'
  <2>1. \A k : Reach(k) => Reach(k)'
    BY ReachGrows
  <2>2. \A b \in Branches : Reach(heads[b]) /\ heads'[b] = heads[b]
    BY DEF RepoTyped
  <2> QED
    BY <2>2 DEF Reach, Grown
<1>2. \A u \in Url : Reach(upstream[u])'
  <2>1. \A u \in Url : Reach(upstream[u]) /\ upstream'[u] = upstream[u]
    BY DEF RepoTyped
  <2> QED
    BY <2>1 DEF Reach, Grown
<1> QED
  BY <1>1, <1>2 DEF RepoTyped, RestTyped, MirrorRec, NoMirror

\* A step of one request.
LEMMA RequestStep ==
  ASSUME RepoInv, NEW c \in GitCaller, request[c] # Done, Grown, RestTyped',
         NEW r \in RequestRec, request' = [request EXCEPT ![c] = r],
         r.alone => request[c].alone, Fits(r)', Follows(r)',
         agreeing' => agreeing \/ (r = Done /\ request[c].alone /\ SameContent')
  PROVE  RepoInv'
<1>1. ~agreeing /\ DOMAIN request = GitCaller
  BY DEF RepoInv, AgreeInv, RepoTyped
<1>2. request'[c] = r /\ \A d \in GitCaller : d # c => request'[d] = request[d] /\ ~request[d].alone
  BY <1>1 DEF RepoInv, RequestsInv
<1>3. ~Done.alone
  BY DoneIsTyped
<1>4. RequestsInv'
  <2> SUFFICES ASSUME NEW d \in GitCaller
               PROVE  /\ Fits(request[d])' /\ Follows(request[d])'
                      /\ request'[d].alone => \A e \in GitCaller : e # d => request'[e] = Done
    BY DEF RequestsInv
  <2>1. CASE d = c
    <3>1. Fits(request[d])' /\ Follows(request[d])'
      BY <1>2, <2>1 DEF Fits, Follows, Reach
    <3>2. r.alone => \A e \in GitCaller : e # c => request[e] = Done
      BY DEF RepoInv, RequestsInv
    <3> QED
      BY <1>2, <2>1, <3>1, <3>2
  <2>2. CASE d # c
    <3>1. PICK q : q = request[d]
      OBVIOUS
    <3>2. Fits(q)' /\ ~q.alone /\ request'[d] = q
      BY <1>2, <2>2, <3>1, FitsGrows DEF RepoInv, RequestsInv
    <3> QED
      BY <3>2 DEF Fits, Follows, Reach
  <2> QED
    BY <2>1, <2>2
<1>5. AgreeInv'
  <2>1. ASSUME agreeing' PROVE SameContent' /\ \A d \in GitCaller : request'[d] = Done
    <3>1. r = Done /\ request[c].alone /\ SameContent'
      BY <1>1, <2>1
    <3>2. \A d \in GitCaller : d # c => request[d] = Done
      BY <3>1 DEF RepoInv, RequestsInv
    <3> QED
      BY <1>2, <3>1, <3>2
  <2> QED
    BY <2>1 DEF AgreeInv, Done, NoMirror
<1>6. RepoTyped'
  <2>1. request' \in [GitCaller -> RequestRec]
    BY DEF RepoInv, RepoTyped
  <2> QED
    BY <2>1 DEF RepoTyped, RestTyped, Grown, RequestRec, MirrorRec, NoMirror, RepoSteps, Branches
<1> QED
  BY <1>4, <1>5, <1>6 DEF RepoInv

\* A request comes.
LEMMA BeginsStep ==
  ASSUME RepoInv, NEW c \in GitCaller, NEW r \in RequestRec, Begins(c, r),
         UNCHANGED objects, RestTyped', Fits(r)',
         \A a \in BOOLEAN : Follows([r EXCEPT !.alone = a])'
  PROVE  RepoInv'
<1> DEFINE a == \A e \in GitCaller : request[e] = Done
<1>0. PICK x \in BOOLEAN : x = a
  OBVIOUS
<1>1. PICK n : n = [r EXCEPT !.alone = x]
  OBVIOUS
<1>2. n \in RequestRec /\ n.alone = x
  BY <1>1 DEF RequestRec
<1>3. Fits(n)' /\ Follows(n)'
  <2>1. /\ n.old = r.old /\ n.commit = r.commit /\ n.step = r.step /\ n.tree = r.tree /\ n.mirror = r.mirror
    BY <1>1 DEF RequestRec
  <2>2. Follows([r EXCEPT !.alone = x])'
    OBVIOUS
  <2> QED
    BY <1>1, <2>1, <2>2 DEF Fits, Reach
<1>4. \A d \in GitCaller : request'[d] = IF d = c THEN n ELSE [request[d] EXCEPT !.alone = FALSE]
  BY <1>0, <1>1 DEF Begins
<1>5. ~agreeing'
  BY DEF Begins
<1>6. request' \in [GitCaller -> RequestRec]
  <2>1. \A d \in GitCaller : [request[d] EXCEPT !.alone = FALSE] \in RequestRec
    BY DEF RepoInv, RepoTyped, RequestRec
  <2>2. request' = [d \in GitCaller |-> request'[d]]
    BY DEF Begins
  <2> QED
    BY <1>2, <1>4, <2>1, <2>2
<1>7. Grown
  BY SameObjects DEF RepoInv, RepoTyped
<1>8. RequestsInv'
  <2> SUFFICES ASSUME NEW d \in GitCaller
               PROVE  /\ Fits(request[d])' /\ Follows(request[d])'
                      /\ request'[d].alone => \A e \in GitCaller : e # d => request'[e] = Done
    BY DEF RequestsInv
  <2>1. CASE d = c
    <3>1. request'[d] = n
      BY <1>4, <2>1
    <3>2. Fits(request[d])' /\ Follows(request[d])'
      BY <1>3, <3>1 DEF Fits, Follows, Reach
    <3>3. ASSUME n.alone, NEW e \in GitCaller, e # c PROVE request'[e] = Done
      <4>1. request[e] = Done
        BY <1>0, <1>2, <3>3
      <4>2. [Done EXCEPT !.alone = FALSE] = Done
        BY DoneIsTyped DEF RequestRec
      <4> QED
        BY <1>4, <3>3, <4>1, <4>2
    <3> QED
      BY <2>1, <3>1, <3>2, <3>3
  <2>2. CASE d # c
    <3>1. PICK q : q = [request[d] EXCEPT !.alone = FALSE]
      OBVIOUS
    <3>2. request[d] \in RequestRec
      BY DEF RepoInv, RepoTyped
    <3>3. /\ ~q.alone /\ q.old = request[d].old /\ q.commit = request[d].commit /\ q.step = request[d].step
          /\ q.tree = request[d].tree /\ q.mirror = request[d].mirror
      BY <3>1, <3>2 DEF RequestRec
    <3>4. Fits(q)
      BY <3>3 DEF RepoInv, RequestsInv, Fits
    <3>5. Fits(q)' /\ request'[d] = q
      BY <1>4, <1>7, <2>2, <3>1, <3>4, FitsGrows
    <3> QED
      BY <3>3, <3>5 DEF Fits, Follows, Reach
  <2> QED
    BY <2>1, <2>2
<1>9. RepoTyped'
  BY <1>6, <1>7 DEF RepoTyped, RestTyped, Grown, RequestRec, MirrorRec, NoMirror, RepoSteps, Branches
<1> QED
  BY <1>5, <1>8, <1>9 DEF RepoInv, AgreeInv

\* Nothing of this node's agent moves.
LEMMA WorldStep ==
  ASSUME RepoInv, Grown, RestTyped', UNCHANGED <<heads, agentRow, request, agreeing>>
  PROVE  RepoInv'
<1>1. \A c \in GitCaller : Fits(request[c])'
  <2> SUFFICES ASSUME NEW c \in GitCaller PROVE Fits(request[c])'
    OBVIOUS
  <2>1. PICK q : q = request[c]
    OBVIOUS
  <2>2. Fits(q)' /\ request'[c] = q
    BY <2>1, FitsGrows DEF RepoInv, RequestsInv
  <2> QED
    BY <2>2 DEF Fits, Reach
<1>2. \A c \in GitCaller : Follows(request[c])'
  <2> SUFFICES ASSUME NEW c \in GitCaller PROVE Follows(request[c])'
    OBVIOUS
  <2>1. Follows(request[c]) /\ request'[c] = request[c] /\ Reach(request[c].commit)
    BY DEF RepoInv, RequestsInv, Fits
  <2>2. request[c].commit # 0 => objects'[request[c].commit] = objects[request[c].commit]
    BY <2>1 DEF Grown
  <2> QED
    BY <2>1, <2>2 DEF Follows
<1>3. AgreeInv'
  <2>1. Reach(heads["main"])
    BY DEF RepoInv, RepoTyped, Branches
  <2>2. heads["main"] # 0 => objects'[heads["main"]] = objects[heads["main"]]
    BY <2>1 DEF Grown
  <2> QED
    BY <2>2 DEF RepoInv, AgreeInv, SameContent, Done, NoMirror
<1>4. RequestsInv'
  BY <1>1, <1>2 DEF RepoInv, RequestsInv, Done, NoMirror
<1>5. RepoTyped'
  BY DEF RepoInv, RepoTyped, RestTyped, Grown, RequestRec, MirrorRec, NoMirror, RepoSteps, Branches
<1> QED
  BY <1>3, <1>4, <1>5 DEF RepoInv

LEMMA CreateStep ==
  ASSUME RepoInv, NEW c \in GitCaller, NEW t \in Runs, CreateAgent(c, t) \/ EditAgent(c, t)
  PROVE  RepoInv'
<1> DEFINE s == IF agentRow.kept THEN "parent" ELSE "create"
<1>1. PICK r : r = [Done EXCEPT !.step = s, !.tree = t]
  OBVIOUS
<1>2. Begins(c, r) /\ UNCHANGED <<objects, heads, repoThere, proposals, followed, upstream>>
  BY <1>1 DEF CreateAgent, EditAgent
<1>3. /\ r \in RequestRec /\ r.old = 0 /\ r.commit = 0 /\ r.tree = t /\ r.step \in {"create", "parent"}
  BY <1>1, RunsAssumption DEF Done, NoMirror, RequestRec, RepoSteps, Branches
<1>4. agentRow' = [f \in {"kept", "tree", "version"} |-> agentRow'[f]] /\ agentRow'.tree = t
  <2>1. CASE CreateAgent(c, t)
    BY <2>1 DEF CreateAgent
  <2>2. CASE EditAgent(c, t)
    <3>1. agentRow' = [agentRow EXCEPT !.tree = t, !.version = @ + 1]
      BY <2>2 DEF EditAgent
    <3> QED
      BY <3>1 DEF RepoInv, RepoTyped
  <2> QED
    BY <2>1, <2>2
<1>5. RestTyped'
  BY <1>2, <1>4 DEF RepoInv, RepoTyped, RestTyped, Reach, MirrorRec, NoMirror
<1>6. Fits(r)'
  <2>1. Len(objects') \in Nat
    BY <1>2, SameObjects DEF RepoInv, RepoTyped, Grown
  <2> QED
    BY <1>3, <2>1, RunsAssumption DEF Fits, Reach
<1>7. ASSUME NEW a \in BOOLEAN PROVE Follows([r EXCEPT !.alone = a])'
  <2>1. PICK q : q = [r EXCEPT !.alone = a]
    OBVIOUS
  <2>2. q.step \in {"create", "parent"} /\ q.tree = t
    BY <1>3, <2>1 DEF RequestRec
  <2>3. Follows(q)'
    BY <1>4, <2>2 DEF Follows
  <2> QED
    BY <2>1, <2>3
<1> QED
  BY <1>2, <1>3, <1>5, <1>6, <1>7, BeginsStep

\* A request that writes nothing yet begins.
LEMMA BeginsToRead ==
  ASSUME RepoInv, NEW c \in GitCaller, NEW r \in RequestRec, Begins(c, r), UNCHANGED objects, RestTyped',
         Fits(r), r.step \in {"drop", "receive", "merge", "fetch"}
  PROVE  RepoInv'
<1>1. Fits(r)'
  BY SameObjects, FitsGrows DEF RepoInv, RepoTyped
<1>2. ASSUME NEW a \in BOOLEAN PROVE Follows([r EXCEPT !.alone = a])'
  <2>1. PICK q : q = [r EXCEPT !.alone = a]
    OBVIOUS
  <2>2. q.step = r.step
    BY <2>1 DEF RequestRec
  <2>3. Follows(q)'
    BY <2>2 DEF Follows
  <2> QED
    BY <2>1, <2>3
<1> QED
  BY <1>1, <1>2, BeginsStep

LEMMA ReadersBegin ==
  ASSUME RepoInv, NEW c \in GitCaller,
         \/ DeleteAgent(c) \/ SyncMirror(c)
         \/ \E b \in Branches, t \in Tree : serve(c, b, t)
         \/ \E n \in DOMAIN proposals : MergePull(c, n)
         \/ \E u \in Url : AttachMirror(c, u)
  PROVE  RepoInv'
<1>0. Grown /\ Len(objects) \in Nat
  BY SameObjects DEF RepoInv, RepoTyped, Grown, DeleteAgent, SyncMirror, serve, MergePull, AttachMirror
<1>1. CASE DeleteAgent(c)
  <2>1. PICK r : r = [Done EXCEPT !.step = "drop"]
    OBVIOUS
  <2>2. Begins(c, r) /\ UNCHANGED <<objects, heads, followed, upstream, proposals>> /\ agentRow' = [agentRow EXCEPT !.kept = FALSE]
    BY <1>1, <2>1 DEF DeleteAgent
  <2>3. r \in RequestRec /\ r.step = "drop" /\ r.old = 0 /\ r.commit = 0
    BY <2>1 DEF Done, NoMirror, RequestRec, RepoSteps, Branches
  <2>4. RestTyped'
    BY <2>2 DEF RepoInv, RepoTyped, RestTyped, Reach, MirrorRec, NoMirror
  <2>5. Fits(r)
    BY <1>0, <2>3 DEF Fits, Reach
  <2> QED
    BY <2>2, <2>3, <2>4, <2>5, BeginsToRead
<1>2. CASE SyncMirror(c)
  <2>1. PICK r : r = [Done EXCEPT !.step = "fetch", !.mirror = followed]
    OBVIOUS
  <2>2. Begins(c, r) /\ UNCHANGED <<objects, heads, followed, upstream, agentRow, proposals>> /\ followed # NoMirror
    BY <1>2, <2>1 DEF SyncMirror
  <2>3. followed \in MirrorRec
    BY <2>2 DEF RepoInv, RepoTyped
  <2>4. r \in RequestRec /\ r.step = "fetch" /\ r.old = 0 /\ r.commit = 0 /\ r.mirror \in MirrorRec
    BY <2>1, <2>3 DEF Done, NoMirror, RequestRec, RepoSteps, Branches
  <2>5. RestTyped'
    BY <1>0, <2>2, HeadsFrame DEF RepoInv
  <2>6. Fits(r)
    BY <1>0, <2>4 DEF Fits, Reach
  <2> QED
    BY <2>2, <2>4, <2>5, <2>6, BeginsToRead
<1>3. ASSUME NEW b \in Branches, NEW t \in Tree, serve(c, b, t) PROVE RepoInv'
  <2>1. PICK r : r = [Done EXCEPT !.step = "receive", !.branch = b, !.tree = t, !.old = heads[b],
                                  !.before = heads["main"]]
    OBVIOUS
  <2>2. Begins(c, r) /\ UNCHANGED <<objects, heads, followed, upstream, agentRow, proposals>>
    BY <1>3, <2>1 DEF serve
  <2>3. Reach(heads[b]) /\ Reach(heads["main"])
    BY DEF RepoInv, RepoTyped, Branches
  <2>4. r \in RequestRec /\ r.step = "receive" /\ r.old = heads[b] /\ r.commit = 0 /\ r.tree \in Tree
    BY <2>1, <2>3 DEF Done, NoMirror, RequestRec, RepoSteps, Branches, Reach
  <2>5. RestTyped'
    BY <1>0, <2>2, HeadsFrame DEF RepoInv
  <2>6. Fits(r)
    BY <1>0, <2>3, <2>4 DEF Fits, Reach
  <2> QED
    BY <2>2, <2>4, <2>5, <2>6, BeginsToRead
<1>4. ASSUME NEW n \in DOMAIN proposals, MergePull(c, n) PROVE RepoInv'
  <2>1. PICK r : r = [Done EXCEPT !.step = "merge", !.old = heads["main"], !.commit = heads["work"], !.pull = n]
    OBVIOUS
  <2>2. Begins(c, r) /\ UNCHANGED <<objects, heads, followed, upstream, agentRow, proposals>>
    BY <1>4, <2>1 DEF MergePull
  <2>3. Reach(heads["work"]) /\ Reach(heads["main"])
    BY DEF RepoInv, RepoTyped, Branches
  <2>0. n \in Nat
    BY <1>4, LenProperties DEF RepoInv, RepoTyped
  <2>4. r \in RequestRec /\ r.step = "merge" /\ r.old = heads["main"] /\ r.commit = heads["work"]
    BY <2>0, <2>1, <2>3 DEF Done, NoMirror, RequestRec, RepoSteps, Branches, Reach
  <2>5. RestTyped'
    BY <1>0, <2>2, HeadsFrame DEF RepoInv
  <2>6. Fits(r)
    BY <1>0, <2>3, <2>4 DEF Fits, Reach
  <2> QED
    BY <2>2, <2>4, <2>5, <2>6, BeginsToRead
<1>5. ASSUME NEW u \in Url, AttachMirror(c, u) PROVE RepoInv'
  <2>0. PICK m : m = [NoMirror EXCEPT !.url = u]
    OBVIOUS
  <2>1. PICK r : r = [Done EXCEPT !.step = "fetch", !.mirror = m]
    OBVIOUS
  <2>2. Begins(c, r) /\ UNCHANGED <<objects, heads, upstream, agentRow, proposals>> /\ followed' = m
    BY <1>5, <2>0, <2>1 DEF AttachMirror
  <2>3. m \in MirrorRec
    BY <2>0 DEF NoMirror, MirrorRec
  <2>4. r \in RequestRec /\ r.step = "fetch" /\ r.old = 0 /\ r.commit = 0 /\ r.mirror \in MirrorRec
    BY <2>1, <2>3 DEF Done, NoMirror, RequestRec, RepoSteps, Branches
  <2>5. RestTyped'
    BY <2>2, <2>3 DEF RepoInv, RepoTyped, RestTyped, Reach, MirrorRec, NoMirror
  <2>6. Fits(r)
    BY <1>0, <2>4 DEF Fits, Reach
  <2> QED
    BY <2>2, <2>4, <2>5, <2>6, BeginsToRead
<1> QED
  BY <1>1, <1>2, <1>3, <1>4, <1>5

\* What may have moved: a branch, a repository elsewhere.
LEMMA RestMoves ==
  ASSUME RepoTyped, Grown,
         heads' = heads \/ \E b \in Branches : \E k : Reach(k)' /\ heads' = [heads EXCEPT ![b] = k],
         upstream' = upstream \/ \E u \in Url : \E k : Reach(k)' /\ upstream' = [upstream EXCEPT ![u] = k],
         agentRow' = [f \in {"kept", "tree", "version"} |-> agentRow'[f]],
         followed' \in MirrorRec \cup {NoMirror}, proposals' \in Seq(PullRec)
  PROVE  RestTyped'
<1>0. \A k : Reach(k) => Reach(k)'
  BY ReachGrows
<1>1. heads' = [b \in Branches |-> heads'[b]] /\ \A b \in Branches : Reach(heads[b])'
  <2>1. \A b \in Branches : Reach(heads[b])
    BY DEF RepoTyped
  <2>2. CASE heads' = heads
    BY <1>0, <2>1, <2>2 DEF Reach, RepoTyped
  <2>3. ASSUME NEW d \in Branches, NEW k, Reach(k)', heads' = [heads EXCEPT ![d] = k]
        PROVE  heads' = [b \in Branches |-> heads'[b]] /\ \A b \in Branches : Reach(heads[b])'
    <3>1. heads' = [b \in Branches |-> IF b = d THEN k ELSE heads[b]]
      BY <2>3 DEF RepoTyped
    <3> QED
      BY <1>0, <2>1, <2>3, <3>1 DEF Reach
  <2> QED
    BY <2>2, <2>3
<1>2. upstream' = [u \in Url |-> upstream'[u]] /\ \A u \in Url : Reach(upstream[u])'
  <2>1. \A u \in Url : Reach(upstream[u])
    BY DEF RepoTyped
  <2>2. CASE upstream' = upstream
    BY <1>0, <2>1, <2>2 DEF Reach, RepoTyped
  <2>3. ASSUME NEW d \in Url, NEW k, Reach(k)', upstream' = [upstream EXCEPT ![d] = k]
        PROVE  upstream' = [u \in Url |-> upstream'[u]] /\ \A u \in Url : Reach(upstream[u])'
    <3>1. upstream' = [u \in Url |-> IF u = d THEN k ELSE upstream[u]]
      BY <2>3 DEF RepoTyped
    <3> QED
      BY <1>0, <2>1, <2>3, <3>1 DEF Reach
  <2> QED
    BY <2>2, <2>3
<1> QED
  BY <1>1, <1>2 DEF RestTyped, MirrorRec, NoMirror, PullRec

\* The parts of the repository's state, for a step that leaves them alone.
LEMMA RepoParts ==
  ASSUME RepoInv
  PROVE  /\ RepoTyped
         /\ agentRow = [f \in {"kept", "tree", "version"} |-> agentRow[f]]
         /\ followed \in MirrorRec \cup {NoMirror} /\ proposals \in Seq(PullRec)
         /\ \A b \in Branches : Reach(heads[b])
         /\ \A c \in GitCaller : /\ request[c] \in RequestRec /\ Fits(request[c]) /\ Follows(request[c])
                                 /\ request[c].step # "none" => request[c] # Done
BY DoneIsTyped DEF RepoInv, RepoTyped, RequestsInv

\* A request ends without having brought the copies together.
LEMMA StopStep ==
  ASSUME RepoInv, NEW c \in GitCaller, request[c].step # "none", Grown, RestTyped', Stop(c), UNCHANGED agreeing
  PROVE  RepoInv'
<1>1. PICK r : r = Done
  OBVIOUS
<1>2. r \in RequestRec /\ ~r.alone /\ r.old = 0 /\ r.commit = 0 /\ r.step = "none"
  BY <1>1, DoneIsTyped DEF Done
<1>3. Fits(r)' /\ Follows(r)'
  BY <1>2 DEF Fits, Follows, Reach, Grown
<1>4. request' = [request EXCEPT ![c] = r]
  BY <1>1 DEF Stop
<1> QED
  BY <1>2, <1>3, <1>4, RepoParts, RequestStep

\* It ends having written both copies.
LEMMA EndStep ==
  ASSUME RepoInv, NEW c \in GitCaller, request[c].step # "none", Grown, RestTyped', EndsWell(c),
         request[c].alone => SameContent'
  PROVE  RepoInv'
<1>1. PICK r : r = Done
  OBVIOUS
<1>2. r \in RequestRec /\ ~r.alone /\ r.old = 0 /\ r.commit = 0 /\ r.step = "none"
  BY <1>1, DoneIsTyped DEF Done
<1>3. Fits(r)' /\ Follows(r)'
  BY <1>2 DEF Fits, Follows, Reach, Grown
<1>4. request' = [request EXCEPT ![c] = r] /\ agreeing' = request[c].alone
  BY <1>1 DEF Stop, EndsWell
<1> QED
  BY <1>1, <1>2, <1>3, <1>4, RepoParts, RequestStep

\* It goes on to its next step.
LEMMA MoveStep ==
  ASSUME RepoInv, NEW c \in GitCaller, request[c].step # "none", Grown, RestTyped', UNCHANGED agreeing,
         NEW r \in RequestRec, request' = [request EXCEPT ![c] = r], r.alone = request[c].alone,
         Fits(r)', Follows(r)'
  PROVE  RepoInv'
BY RepoParts, RequestStep

\* To a step that rests on nothing.
LEMMA PlainStep ==
  ASSUME RepoInv, NEW c \in GitCaller, request[c].step # "none", Grown, RestTyped', UNCHANGED agreeing,
         NEW s \in {"close", "read"}, StepsTo(c, s)
  PROVE  RepoInv'
<1>1. PICK r : r = [request[c] EXCEPT !.step = s]
  OBVIOUS
<1>2. request[c] \in RequestRec /\ Fits(request[c])
  BY RepoParts
<1>3. /\ r \in RequestRec /\ r.alone = request[c].alone /\ r.step = s
      /\ r.old = request[c].old /\ r.commit = request[c].commit
  BY <1>1, <1>2 DEF RequestRec, RepoSteps
<1>4. request' = [request EXCEPT ![c] = r]
  BY <1>1 DEF StepsTo, RepoInv, RepoTyped
<1>5. Fits(r)
  BY <1>2, <1>3 DEF Fits
<1>6. Fits(r)' /\ Follows(r)'
  BY <1>3, <1>5, FitsGrows DEF Follows
<1> QED
  BY <1>3, <1>4, <1>6, MoveStep

LEMMA InitStep ==
  ASSUME RepoInv, NEW c \in GitCaller, init(c) \/ EditParent(c)
  PROVE  RepoInv'
<1>1. /\ request[c].step \in {"create", "parent"}
      /\ UNCHANGED <<objects, heads, agentRow, proposals, followed, upstream, agreeing>>
  BY DEF init, EditParent
<1>2. PICK o : o = IF request[c].step = "create" THEN request[c].old ELSE heads["main"]
  OBVIOUS
<1>3. PICK r : r = [request[c] EXCEPT !.step = "commit", !.old = o]
  OBVIOUS
<1>4. request[c] \in RequestRec /\ Fits(request[c]) /\ Follows(request[c]) /\ Reach(heads["main"])
  BY RepoParts DEF Branches
<1>5. Reach(o)
  BY <1>2, <1>4 DEF Fits
<1>6. /\ r \in RequestRec /\ r.alone = request[c].alone /\ r.step = "commit"
      /\ r.old = o /\ r.commit = request[c].commit /\ r.tree = request[c].tree
  BY <1>3, <1>4, <1>5 DEF RequestRec, RepoSteps, Reach
<1>7. request' = [request EXCEPT ![c] = r]
  <2>1. CASE init(c)
    <3>1. request' = [request EXCEPT ![c] = [request[c] EXCEPT !.step = "commit"]]
      BY <2>1 DEF init, StepsTo
    <3>2. [request[c] EXCEPT !.step = "commit", !.old = request[c].old] = [request[c] EXCEPT !.step = "commit"]
      BY <1>4 DEF RequestRec
    <3>3. o = request[c].old
      BY <1>2, <2>1 DEF init
    <3> QED
      BY <1>3, <3>1, <3>2, <3>3
  <2>2. CASE EditParent(c)
    <3>1. o = heads["main"]
      BY <1>2, <2>2 DEF EditParent
    <3>2. request' = [request EXCEPT ![c] = [request[c] EXCEPT !.step = "commit", !.old = heads["main"]]]
      BY <2>2 DEF EditParent, RepoInv, RepoTyped
    <3> QED
      BY <1>3, <3>1, <3>2
  <2> QED
    BY <2>1, <2>2
<1>8. Grown /\ RestTyped'
  BY <1>1, RepoParts, SameObjects, HeadsFrame DEF RepoTyped
<1>9. Fits(r)
  BY <1>1, <1>4, <1>5, <1>6 DEF Fits
<1>10. Fits(r)' /\ Follows(r)'
  BY <1>1, <1>4, <1>6, <1>8, <1>9, FitsGrows DEF Follows
<1> QED
  BY <1>1, <1>6, <1>7, <1>8, <1>10, MoveStep

\* A commit on top of the head of a branch.
LEMMA BranchMoves ==
  ASSUME RepoInv, NEW b \in Branches, NEW k, Reach(k)', Grown, heads' = [heads EXCEPT ![b] = k],
         UNCHANGED <<agentRow, upstream>>,
         followed' \in MirrorRec \cup {NoMirror}, proposals' \in Seq(PullRec)
  PROVE  RestTyped' /\ heads'[b] = k
<1>1. heads'[b] = k
  BY DEF RepoInv, RepoTyped
<1> QED
  BY <1>1, RepoParts, RestMoves

LEMMA CommitStep ==
  ASSUME RepoInv, NEW c \in GitCaller, commitSpec(c)
  PROVE  RepoInv'
<1>1. /\ request[c].step = "commit" /\ UNCHANGED <<agentRow, proposals, followed, upstream>>
  BY DEF commitSpec
<1>2. CASE Stop(c) /\ UNCHANGED <<objects, heads, agreeing>>
  <2>1. Grown /\ RestTyped'
    BY <1>1, <1>2, RepoParts, SameObjects, HeadsFrame DEF RepoTyped
  <2> QED
    BY <1>1, <1>2, <2>1, StopStep
<1>3. CASE /\ CommitTree(request[c].tree, {request[c].old})
           /\ heads' = [heads EXCEPT !["main"] = NewCommit]
           /\ EndsWell(c)
  <2>1. request[c].tree \in Tree /\ Reach(request[c].old) /\ Follows(request[c])
    BY <1>1, RepoParts DEF Fits
  <2>2. PICK t \in Tree : t = request[c].tree
    BY <2>1
  <2>3. PICK ps : ps = {request[c].old}
    OBVIOUS
  <2>4. CommitTree(t, ps) /\ \A p \in ps : Reach(p)
    BY <1>3, <2>1, <2>2, <2>3
  <2>5. Grown /\ \E k : k = NewCommit /\ k # 0 /\ Reach(k)' /\ objects'[k].tree = t
    BY <2>4, RepoParts, CommitGrows
  <2>6. PICK k : k = NewCommit /\ k # 0 /\ Reach(k)' /\ objects'[k].tree = t
    BY <2>5
  <2>7. RestTyped' /\ heads'["main"] = k
    <3>1. heads' = [heads EXCEPT !["main"] = k] /\ "main" \in Branches
      BY <1>3, <2>6 DEF Branches
    <3>2. followed' \in MirrorRec \cup {NoMirror} /\ proposals' \in Seq(PullRec)
      BY <1>1, RepoParts
    <3> QED
      BY <1>1, <2>5, <2>6, <3>1, <3>2, BranchMoves
  <2>8. request[c].alone => SameContent'
    BY <1>1, <2>1, <2>2, <2>6, <2>7 DEF Follows, SameContent
  <2> QED
    BY <1>1, <1>3, <2>5, <2>7, <2>8, EndStep
<1> QED
  BY <1>2, <1>3 DEF commitSpec

LEMMA DropStep ==
  ASSUME RepoInv, NEW c \in GitCaller, deleteRepo(c)
  PROVE  RepoInv'
<1>1. /\ request[c].step = "drop" /\ Stop(c) /\ UNCHANGED <<objects, agentRow, upstream, agreeing>>
      /\ heads' = [b \in Branches |-> 0] /\ proposals' = <<>> /\ followed' = NoMirror
  BY DEF deleteRepo
<1>2. Grown
  BY <1>1, RepoParts, SameObjects DEF RepoTyped
<1>3. \A b \in Branches : Reach(heads[b])'
  BY <1>1, <1>2 DEF Reach, Grown
<1>4. \A u \in Url : Reach(upstream[u])'
  BY <1>1 DEF Reach, RepoInv, RepoTyped
<1>5. proposals' \in Seq(PullRec)
  BY <1>1, EmptySeq
<1>6. RestTyped'
  BY <1>1, <1>3, <1>4, <1>5, RepoParts DEF RestTyped, RepoTyped, MirrorRec, NoMirror, PullRec
<1> QED
  BY <1>1, <1>2, <1>6, StopStep

LEMMA ReceiveStep ==
  ASSUME RepoInv, NEW c \in GitCaller, ReceivePack(c)
  PROVE  RepoInv'
<1>1. /\ request[c].step = "receive" /\ StepsTo(c, "close")
      /\ UNCHANGED <<agentRow, proposals, followed, upstream, agreeing>>
  BY DEF ReceivePack
<1>2. CASE UNCHANGED <<objects, heads>>
  <2>1. Grown /\ RestTyped'
    BY <1>1, <1>2, RepoParts, SameObjects, HeadsFrame DEF RepoTyped
  <2> QED
    BY <1>1, <2>1, PlainStep
<1>3. CASE /\ CommitTree(request[c].tree, {request[c].old})
           /\ heads' = [heads EXCEPT ![request[c].branch] = NewCommit]
  <2>1. request[c].tree \in Tree /\ Reach(request[c].old) /\ request[c].branch \in Branches
    BY <1>1, RepoParts DEF Fits, RequestRec
  <2>2. PICK t \in Tree : t = request[c].tree
    BY <2>1
  <2>3. PICK ps : ps = {request[c].old}
    OBVIOUS
  <2>4. CommitTree(t, ps) /\ \A p \in ps : Reach(p)
    BY <1>3, <2>1, <2>2, <2>3
  <2>5. Grown /\ \E k : k = NewCommit /\ k # 0 /\ Reach(k)' /\ objects'[k].tree = t
    BY <2>4, RepoParts, CommitGrows
  <2>6. PICK k : k = NewCommit /\ k # 0 /\ Reach(k)' /\ objects'[k].tree = t
    BY <2>5
  <2>7. PICK b \in Branches : b = request[c].branch
    BY <2>1
  <2>8. RestTyped'
    <3>1. heads' = [heads EXCEPT ![b] = k]
      BY <1>3, <2>6, <2>7
    <3>2. followed' \in MirrorRec \cup {NoMirror} /\ proposals' \in Seq(PullRec)
      BY <1>1, RepoParts
    <3> QED
      BY <1>1, <2>5, <2>6, <3>1, <3>2, BranchMoves
  <2> QED
    BY <1>1, <2>5, <2>8, PlainStep
<1> QED
  BY <1>2, <1>3 DEF ReceivePack

LEMMA PushStep ==
  ASSUME RepoInv, NEW c \in GitCaller, cgi(c) \/ readSpec(c) \/ afterPush(c)
  PROVE  RepoInv'
<1>0. UNCHANGED <<objects, heads, proposals, followed, upstream>>
  BY DEF cgi, readSpec, afterPush
<1>1. Grown
  BY <1>0, RepoParts, SameObjects DEF RepoTyped
<1>2. agentRow' = agentRow => RestTyped'
  BY <1>0, <1>1, RepoParts, HeadsFrame
<1>3. request[c] \in RequestRec /\ Fits(request[c]) /\ Follows(request[c]) /\ Reach(heads["main"])
  BY RepoParts DEF Branches
<1>4. CASE cgi(c)
  <2>1. request[c].step = "close" /\ agentRow' = agentRow
    BY <1>4 DEF cgi
  <2>2. CASE MainMoved(request[c])
    <3>1. StepsTo(c, "read") /\ UNCHANGED agreeing
      BY <1>4, <2>2 DEF cgi
    <3> QED
      BY <1>1, <1>2, <2>1, <3>1, PlainStep
  <2>3. CASE ~MainMoved(request[c])
    <3>1. Stop(c) /\ agreeing' = (request[c].alone /\ heads["main"] \notin {0, request[c].before})
      BY <1>4, <2>3 DEF cgi
    <3>2. ~agreeing'
      BY <2>3, <3>1 DEF MainMoved
    <3>3. PICK r : r = Done
      OBVIOUS
    <3>4. r \in RequestRec /\ ~r.alone /\ r.old = 0 /\ r.commit = 0 /\ r.step = "none"
      BY <3>3, DoneIsTyped DEF Done
    <3>5. Fits(r)' /\ Follows(r)'
      BY <1>1, <3>4 DEF Fits, Follows, Reach, Grown
    <3>6. request' = [request EXCEPT ![c] = r]
      BY <3>1, <3>3 DEF Stop
    <3>7. request[c] # Done
      BY <2>1, RepoParts
    <3> QED
      BY <1>1, <1>2, <2>1, <3>2, <3>4, <3>5, <3>6, <3>7, RequestStep
  <2> QED
    BY <2>2, <2>3
<1>5. CASE readSpec(c)
  <2>1. request[c].step = "read" /\ agentRow' = agentRow /\ UNCHANGED agreeing
    BY <1>5 DEF readSpec
  <2>2. CASE heads["main"] = 0
    <3>1. Stop(c)
      BY <1>5, <2>2 DEF readSpec
    <3> QED
      BY <1>1, <1>2, <2>1, <3>1, StopStep
  <2>3. CASE heads["main"] # 0
    <3>1. PICK r : r = [request[c] EXCEPT !.step = "apply", !.commit = heads["main"]]
      OBVIOUS
    <3>2. /\ r \in RequestRec /\ r.alone = request[c].alone /\ r.step = "apply"
          /\ r.old = request[c].old /\ r.commit = heads["main"]
      BY <1>3, <3>1 DEF RequestRec, RepoSteps, Reach
    <3>3. request' = [request EXCEPT ![c] = r]
      BY <1>5, <2>3, <3>1 DEF readSpec, RepoInv, RepoTyped
    <3>4. Fits(r)
      BY <1>3, <3>2 DEF Fits
    <3>5. Fits(r)' /\ Follows(r)'
      BY <1>0, <1>1, <2>3, <3>2, <3>4, FitsGrows DEF Follows
    <3> QED
      BY <1>1, <1>2, <2>1, <3>2, <3>3, <3>5, MoveStep
  <2> QED
    BY <2>2, <2>3
<1>6. CASE afterPush(c)
  <2>1. request[c].step = "apply"
    BY <1>6 DEF afterPush
  <2>2. CASE Stop(c) /\ UNCHANGED <<agentRow, agreeing>>
    BY <1>1, <1>2, <2>1, <2>2, StopStep
  <2>3. CASE applyPushedTree(request[c].commit) /\ EndsWell(c)
    <3>1. /\ agentRow' = [f \in {"kept", "tree", "version"} |-> agentRow'[f]]
          /\ agentRow'.tree = objects[request[c].commit].tree
      <4>1. agentRow' = [agentRow EXCEPT !.tree = objects[request[c].commit].tree, !.version = @ + 1]
        BY <2>3 DEF applyPushedTree
      <4> QED
        BY <4>1, RepoParts
    <3>2. RestTyped'
      BY <1>0, <1>1, <3>1, RepoParts, RestMoves
    <3>3. request[c].alone => SameContent'
      BY <1>0, <1>3, <2>1, <3>1 DEF Follows, SameContent
    <3> QED
      BY <1>1, <2>1, <2>3, <3>2, <3>3, EndStep
  <2> QED
    BY <1>6, <2>2, <2>3 DEF afterPush
<1> QED
  BY <1>4, <1>5, <1>6

\* A proposal is marked.
LEMMA MarkIsTyped ==
  ASSUME RepoInv, NEW n, NEW k, Reach(k) \/ Reach(k)', markMerged(n, k)
  PROVE  proposals' \in Seq(PullRec)
<1>1. proposals \in Seq(PullRec) /\ k \in Nat
  BY RepoParts DEF Reach
<1>2. [state |-> "merged", commit |-> k] \in PullRec
  BY <1>1 DEF PullRec
<1> QED
  BY <1>1, <1>2, ExceptSeq DEF markMerged

LEMMA MergeStep ==
  ASSUME RepoInv, NEW c \in GitCaller, MergeNothing(c) \/ FinishMerge(c) \/ \E t \in Tree : mergeTree(c, t)
  PROVE  RepoInv'
<1>0. request[c] \in RequestRec /\ Fits(request[c]) /\ Follows(request[c]) /\ "main" \in Branches
  BY RepoParts DEF Branches
<1>1. CASE MergeNothing(c)
  <2>1. /\ request[c].step = "merge" /\ Stop(c) /\ markMerged(request[c].pull, request[c].old)
        /\ UNCHANGED <<objects, heads, agentRow, followed, upstream, agreeing>>
    BY <1>1 DEF MergeNothing
  <2>2. PICK k : k = request[c].old
    OBVIOUS
  <2>3. Reach(k) /\ markMerged(request[c].pull, k)
    BY <1>0, <2>1, <2>2 DEF Fits
  <2>4. PICK n : n = request[c].pull
    OBVIOUS
  <2>5. proposals' \in Seq(PullRec)
    BY <2>3, <2>4, MarkIsTyped
  <2>6. Grown
    BY <2>1, RepoParts, SameObjects DEF RepoTyped
  <2>7. RestTyped'
    BY <2>1, <2>5, <2>6, RepoParts, RestMoves
  <2> QED
    BY <2>1, <2>6, <2>7, StopStep
<1>2. CASE FinishMerge(c)
  <2>1. request[c].step = "setRef" /\ UNCHANGED <<objects, agentRow, followed, upstream>>
    BY <1>2 DEF FinishMerge
  <2>2. Grown
    BY <2>1, RepoParts, SameObjects DEF RepoTyped
  <2>3. CASE Stop(c) /\ UNCHANGED <<heads, proposals, agreeing>>
    <3>1. RestTyped'
      BY <2>1, <2>2, <2>3, RepoParts, HeadsFrame
    <3> QED
      BY <2>1, <2>2, <2>3, <3>1, StopStep
  <2>4. CASE /\ heads' = setRef(request[c].commit)
             /\ markMerged(request[c].pull, request[c].commit) /\ EndsWell(c)
    <3>1. PICK k : k = request[c].commit
      OBVIOUS
    <3>2. PICK n : n = request[c].pull
      OBVIOUS
    <3>3. Reach(k) /\ Reach(k)' /\ heads' = [heads EXCEPT !["main"] = k] /\ markMerged(n, k)
      BY <1>0, <2>2, <2>4, <3>1, <3>2, ReachGrows DEF Fits, setRef
    <3>4. proposals' \in Seq(PullRec)
      BY <3>3, MarkIsTyped
    <3>5. followed' \in MirrorRec \cup {NoMirror}
      BY <2>1, RepoParts
    <3>6. RestTyped' /\ heads'["main"] = k
      BY <1>0, <2>1, <2>2, <3>3, <3>4, <3>5, BranchMoves
    <3>7. request[c].alone => SameContent'
      BY <1>0, <2>1, <3>1, <3>6 DEF Follows, SameContent
    <3> QED
      BY <2>1, <2>2, <2>4, <3>6, <3>7, EndStep
  <2> QED
    BY <1>2, <2>3, <2>4 DEF FinishMerge
<1>3. ASSUME NEW t \in Tree, mergeTree(c, t) PROVE RepoInv'
  <2>1. request[c].step = "merge" /\ UNCHANGED <<heads, proposals, followed, upstream, agreeing>>
    BY <1>3 DEF mergeTree
  <2>2. CASE Stop(c) /\ UNCHANGED <<objects, agentRow>>
    <3>1. Grown /\ RestTyped'
      BY <2>1, <2>2, RepoParts, SameObjects, HeadsFrame DEF RepoTyped
    <3> QED
      BY <2>1, <2>2, <3>1, StopStep
  <2>3. CASE /\ CommitTree(t, {request[c].old, request[c].commit})
             /\ agentRow' = [agentRow EXCEPT !.tree = t, !.version = @ + 1]
             /\ request' = [request EXCEPT ![c].step = "setRef", ![c].commit = NewCommit]
    <3>1. PICK ps : ps = {request[c].old, request[c].commit}
      OBVIOUS
    <3>2. CommitTree(t, ps) /\ \A p \in ps : Reach(p)
      BY <1>0, <2>3, <3>1 DEF Fits
    <3>3. Grown /\ \E k : k = NewCommit /\ k # 0 /\ Reach(k)' /\ objects'[k].tree = t
      BY <3>2, RepoParts, CommitGrows
    <3>4. PICK k : k = NewCommit /\ k # 0 /\ Reach(k)' /\ objects'[k].tree = t
      BY <3>3
    <3>5. PICK r : r = [request[c] EXCEPT !.step = "setRef", !.commit = k]
      OBVIOUS
    <3>6. k \in Nat
      BY <3>4 DEF Reach
    <3>7. /\ r \in RequestRec /\ r.alone = request[c].alone /\ r.step = "setRef"
          /\ r.old = request[c].old /\ r.commit = k
      BY <1>0, <3>5, <3>6 DEF RequestRec, RepoSteps
    <3>8. request' = [request EXCEPT ![c] = r]
      BY <2>3, <3>4, <3>5 DEF RepoInv, RepoTyped
    <3>9. agentRow' = [f \in {"kept", "tree", "version"} |-> agentRow'[f]] /\ agentRow'.tree = t
      BY <2>3, RepoParts
    <3>10. RestTyped'
      BY <2>1, <3>3, <3>9, RepoParts, RestMoves
    <3>11. Reach(r.old)'
      BY <1>0, <3>3, <3>7, ReachGrows DEF Fits
    <3>12. Fits(r)' /\ Follows(r)'
      BY <3>4, <3>7, <3>9, <3>11 DEF Fits, Follows
    <3> QED
      BY <2>1, <3>3, <3>7, <3>8, <3>10, <3>12, MoveStep
  <2> QED
    BY <1>3, <2>2, <2>3 DEF mergeTree
<1> QED
  BY <1>1, <1>2, <1>3

LEMMA PatchIsTyped ==
  ASSUME RepoInv, NEW e \in BOOLEAN, NEW k \in Nat,
         patch([followed EXCEPT !.error = e]) \/ patch([followed EXCEPT !.last = k, !.error = e])
  PROVE  followed' \in MirrorRec \cup {NoMirror}
<1>1. followed \in MirrorRec \cup {NoMirror}
  BY RepoParts
<1>2. followed \in MirrorRec => /\ [followed EXCEPT !.error = e] \in MirrorRec
                                /\ [followed EXCEPT !.last = k, !.error = e] \in MirrorRec
  BY DEF MirrorRec
<1> QED
  BY <1>1, <1>2 DEF patch

LEMMA FetchStep ==
  ASSUME RepoInv, NEW c \in GitCaller, fetchMirror(c)
  PROVE  RepoInv'
<1>0. request[c] \in RequestRec /\ Fits(request[c]) /\ Follows(request[c])
  BY RepoParts
<1>1. request[c].step = "fetch" /\ UNCHANGED <<objects, heads, proposals, upstream, agreeing>>
  BY DEF fetchMirror
<1>2. Grown
  BY <1>1, RepoParts, SameObjects DEF RepoTyped
<1>3. PICK k : k = upstream[request[c].mirror.url]
  OBVIOUS
<1>4. Reach(k)
  BY <1>0, <1>1, <1>3 DEF Fits, RepoInv, RepoTyped, MirrorRec
<1>5. CASE /\ k # 0 /\ applyPushedTree(k) /\ UNCHANGED followed
           /\ request' = [request EXCEPT ![c].step = "land", ![c].commit = k]
  <2>1. PICK r : r = [request[c] EXCEPT !.step = "land", !.commit = k]
    OBVIOUS
  <2>2. k \in Nat
    BY <1>4 DEF Reach
  <2>3. /\ r \in RequestRec /\ r.alone = request[c].alone /\ r.step = "land"
        /\ r.old = request[c].old /\ r.commit = k
    BY <1>0, <2>1, <2>2 DEF RequestRec, RepoSteps
  <2>4. request' = [request EXCEPT ![c] = r]
    BY <1>5, <2>1 DEF RepoInv, RepoTyped
  <2>5. /\ agentRow' = [f \in {"kept", "tree", "version"} |-> agentRow'[f]]
        /\ agentRow'.tree = objects[k].tree
    <3>1. agentRow' = [agentRow EXCEPT !.tree = objects[k].tree, !.version = @ + 1]
      BY <1>5 DEF applyPushedTree
    <3> QED
      BY <3>1, RepoParts
  <2>6. followed' \in MirrorRec \cup {NoMirror}
    BY <1>5, RepoParts
  <2>7. RestTyped'
    BY <1>1, <1>2, <2>5, <2>6, RepoParts, RestMoves
  <2>8. Fits(r)
    BY <1>0, <1>4, <2>3 DEF Fits
  <2>9. Fits(r)' /\ Follows(r)'
    BY <1>1, <1>2, <1>5, <2>3, <2>5, <2>8, FitsGrows DEF Follows
  <2> QED
    BY <1>1, <1>2, <2>3, <2>4, <2>7, <2>9, MoveStep
<1>6. CASE /\ \E e \in BOOLEAN : patch([followed EXCEPT !.error = e])
           /\ Stop(c) /\ UNCHANGED agentRow
  <2>1. PICK n \in Nat : n = 0
    OBVIOUS
  <2>2. followed' \in MirrorRec \cup {NoMirror}
    BY <1>6, <2>1, PatchIsTyped
  <2>3. RestTyped'
    BY <1>1, <1>2, <1>6, <2>2, RepoParts, RestMoves
  <2> QED
    BY <1>1, <1>2, <1>6, <2>3, StopStep
<1> QED
  BY <1>3, <1>5, <1>6 DEF fetchMirror

LEMMA LandStep ==
  ASSUME RepoInv, NEW c \in GitCaller, land(c)
  PROVE  RepoInv'
<1>0. request[c] \in RequestRec /\ Fits(request[c]) /\ Follows(request[c]) /\ "main" \in Branches
  BY RepoParts DEF Branches
<1>1. request[c].step = "land" /\ UNCHANGED <<objects, agentRow, proposals, upstream>>
  BY DEF land
<1>2. Grown
  BY <1>1, RepoParts, SameObjects DEF RepoTyped
<1>3. PICK k : k = request[c].commit
  OBVIOUS
<1>4. Reach(k) /\ k \in Nat /\ Reach(k)'
  BY <1>0, <1>2, <1>3, ReachGrows DEF Fits, Reach
<1>5. CASE /\ patch([followed EXCEPT !.error = TRUE]) /\ Stop(c) /\ UNCHANGED <<heads, agreeing>>
  <2>1. PICK e \in BOOLEAN : e = TRUE
    OBVIOUS
  <2>2. followed' \in MirrorRec \cup {NoMirror}
    BY <1>4, <1>5, <2>1, PatchIsTyped
  <2>3. RestTyped'
    BY <1>1, <1>2, <1>5, <2>2, RepoParts, RestMoves
  <2> QED
    BY <1>1, <1>2, <1>5, <2>3, StopStep
<1>6. CASE /\ heads' = setRef(k) /\ EndsWell(c)
           /\ patch([followed EXCEPT !.last = k, !.error = FALSE])
  <2>1. PICK e \in BOOLEAN : e = FALSE
    OBVIOUS
  <2>2. followed' \in MirrorRec \cup {NoMirror}
    BY <1>4, <1>6, <2>1, PatchIsTyped
  <2>3. heads' = [heads EXCEPT !["main"] = k] /\ proposals' \in Seq(PullRec)
    BY <1>1, <1>6, RepoParts DEF setRef
  <2>4. RestTyped' /\ heads'["main"] = k
    BY <1>0, <1>1, <1>2, <1>4, <2>2, <2>3, BranchMoves
  <2>5. request[c].alone => SameContent'
    BY <1>0, <1>1, <1>3, <2>4 DEF Follows, SameContent
  <2> QED
    BY <1>1, <1>2, <1>6, <2>4, <2>5, EndStep
<1> QED
  BY <1>3, <1>5, <1>6 DEF land

LEMMA OutsideStep ==
  ASSUME RepoInv,
         \/ OpenPull \/ DetachMirror \/ \E n \in DOMAIN proposals : ClosePull(n)
         \/ \E u \in Url, t \in Tree : RemoteMoves(u, t)
  PROVE  RepoInv'
<1>0. UNCHANGED <<heads, agentRow, request, agreeing>>
  BY DEF OpenPull, DetachMirror, ClosePull, RemoteMoves
<1>1. CASE OpenPull \/ DetachMirror \/ \E n \in DOMAIN proposals : ClosePull(n)
  <2>1. UNCHANGED <<objects, upstream>>
    BY <1>1 DEF OpenPull, DetachMirror, ClosePull
  <2>2. Grown
    BY <2>1, RepoParts, SameObjects DEF RepoTyped
  <2>3. followed' \in MirrorRec \cup {NoMirror} /\ proposals' \in Seq(PullRec)
    <3>1. proposals \in Seq(PullRec) /\ followed \in MirrorRec \cup {NoMirror}
      BY RepoParts
    <3>2. CASE OpenPull
      <4>1. [state |-> "open", commit |-> 0] \in PullRec
        BY DEF PullRec
      <4> QED
        BY <3>1, <3>2, <4>1, AppendProperties DEF OpenPull
    <3>3. CASE DetachMirror
      BY <3>1, <3>3 DEF DetachMirror
    <3>4. ASSUME NEW n \in DOMAIN proposals, ClosePull(n)
          PROVE  followed' \in MirrorRec \cup {NoMirror} /\ proposals' \in Seq(PullRec)
      <4>1. n \in 1..Len(proposals)
        BY <3>1, LenProperties
      <4>2. proposals[n] \in PullRec
        BY <3>1, <4>1, ElementOfSeq
      <4>3. PICK x : x = [proposals[n] EXCEPT !.state = "closed"]
        OBVIOUS
      <4>4. x \in PullRec
        BY <4>2, <4>3 DEF PullRec
      <4>5. proposals' = [proposals EXCEPT ![n] = x]
        BY <3>4, <4>3 DEF ClosePull
      <4> QED
        BY <3>1, <3>4, <4>1, <4>4, <4>5, ExceptSeq DEF ClosePull
    <3> QED
      BY <1>1, <3>2, <3>3, <3>4
  <2>4. RestTyped'
    BY <1>0, <2>1, <2>2, <2>3, RepoParts, RestMoves
  <2> QED
    BY <1>0, <2>2, <2>4, WorldStep
<1>2. ASSUME NEW u \in Url, NEW t \in Tree, RemoteMoves(u, t) PROVE RepoInv'
  <2>1. PICK ps : ps = {}
    OBVIOUS
  <2>2. CommitTree(t, ps) /\ \A p \in ps : Reach(p)
    BY <1>2, <2>1 DEF RemoteMoves
  <2>3. Grown /\ \E k : k = NewCommit /\ k # 0 /\ Reach(k)' /\ objects'[k].tree = t
    BY <2>2, RepoParts, CommitGrows
  <2>4. PICK k : k = NewCommit /\ Reach(k)'
    BY <2>3
  <2>5. upstream' = [upstream EXCEPT ![u] = k] /\ UNCHANGED <<proposals, followed>>
    BY <1>2, <2>4 DEF RemoteMoves
  <2>6. RestTyped'
    BY <1>0, <2>3, <2>4, <2>5, RepoParts, RestMoves
  <2> QED
    BY <1>0, <2>3, <2>6, WorldStep
<1> QED
  BY <1>1, <1>2

\* The node stops: nobody is under way, and nothing is claimed of the copies.
LEMMA StopNodeStep ==
  ASSUME RepoInv, StopNode
  PROVE  RepoInv'
<1>1. /\ request' = [c \in GitCaller |-> Done] /\ ~agreeing'
      /\ UNCHANGED <<objects, heads, agentRow, proposals, followed, upstream>>
  BY DEF StopNode
<1>2. Grown /\ RestTyped'
  BY <1>1, RepoParts, SameObjects, HeadsFrame DEF RepoTyped
<1>3. PICK r : r = Done
  OBVIOUS
<1>4. r \in RequestRec /\ ~r.alone /\ r.old = 0 /\ r.commit = 0 /\ r.step = "none"
  BY <1>3, DoneIsTyped DEF Done
<1>5. Fits(r)' /\ Follows(r)'
  BY <1>2, <1>4 DEF Fits, Follows, Reach, Grown
<1>6. \A c \in GitCaller : request'[c] = r
  BY <1>1, <1>3
<1>7. RequestsInv'
  BY <1>4, <1>5, <1>6 DEF RequestsInv, Fits, Follows, Reach
<1>8. RepoTyped'
  <2>1. request' \in [GitCaller -> RequestRec]
    BY <1>1, <1>3, <1>4
  <2> QED
    BY <1>2, <2>1 DEF RepoTyped, RestTyped, Grown, RequestRec, MirrorRec, NoMirror, RepoSteps, Branches, PullRec
<1> QED
  BY <1>1, <1>7, <1>8 DEF RepoInv, AgreeInv

LEMMA RepoStepKeeps ==
  ASSUME RepoInv, [RepoNext]_repoVars
  PROVE  RepoInv'
<1>1. ASSUME NEW c \in GitCaller, RepoStep(c) PROVE RepoInv'
  BY <1>1, CreateStep, InitStep, CommitStep, ReadersBegin, DropStep, ReceiveStep, PushStep, MergeStep, FetchStep,
     LandStep DEF RepoStep
<1>2. CASE UNCHANGED repoVars
  BY <1>2, RepoParts, SameObjects, HeadsFrame, WorldStep DEF repoVars, RepoTyped
<1> QED
  BY <1>1, <1>2, OutsideStep, StopNodeStep DEF RepoNext

(* A change of main that nothing overlapped, be it an edit, a push, a merge or a sync, leaves
   the row of the agents' file and the branch main with one content, for any number of
   requests before and after it, on any repository (server.ts 797-798, agent-git-http.ts,
   agent-pull-routes.ts, agent-mirror.ts).                                               *)
THEOREM CopiesAgree == RepoSpec => []OneAnswer
<1>1. RepoInit => RepoInv
  <2> SUFFICES ASSUME RepoInit PROVE RepoInv
    OBVIOUS
  <2>1. PICK t \in Runs : /\ objects = <<[tree |-> t, anc |-> {1}]>>
                          /\ agentRow = [kept |-> TRUE, tree |-> t, version |-> 1]
    BY DEF RepoInit
  <2>2. PICK x : x = [tree |-> t, anc |-> {1}]
    OBVIOUS
  <2>3. x \in ObjectRec /\ x.tree = t
    BY <2>2, RunsAssumption DEF ObjectRec
  <2>4. objects = <<x>>
    BY <2>1, <2>2
  <2>5. objects \in Seq(ObjectRec) /\ Len(objects) = 1 /\ objects[1] = x
    BY <2>3, <2>4
  <2>6. heads = [b \in Branches |-> heads[b]] /\ heads["main"] = 1 /\ \A b \in Branches : heads[b] \in {0, 1}
    BY DEF RepoInit, Branches
  <2>7. upstream = [u \in Url |-> upstream[u]] /\ \A u \in Url : upstream[u] = 0
    BY DEF RepoInit
  <2>8. request \in [GitCaller -> RequestRec] /\ \A c \in GitCaller : request[c] = Done
    BY DoneIsTyped DEF RepoInit
  <2>9. /\ agentRow = [f \in {"kept", "tree", "version"} |-> agentRow[f]] /\ agentRow.tree = t
    BY <2>1
  <2>10. proposals \in Seq(PullRec) /\ followed = NoMirror
    BY EmptySeq DEF RepoInit
  <2>11. RepoTyped
    BY <2>5, <2>6, <2>7, <2>8, <2>9, <2>10 DEF RepoTyped, ObjectsTyped, Reach
  <2>12. Fits(Done) /\ Follows(Done) /\ ~Done.alone
    BY <2>11, DoneIsTyped DEF Follows
  <2>13. RequestsInv
    BY <2>8, <2>12 DEF RequestsInv
  <2>14. AgreeInv
    BY <2>3, <2>5, <2>6, <2>8, <2>9 DEF AgreeInv, SameContent
  <2> QED
    BY <2>11, <2>13, <2>14 DEF RepoInv
<1>2. RepoInv /\ [RepoNext]_repoVars => RepoInv'
  BY RepoStepKeeps
<1>3. RepoInv => OneAnswer
  BY DEF RepoInv, AgreeInv, SameContent, OneAnswer
<1> QED
  BY <1>1, <1>2, <1>3, PTL DEF RepoSpec

-----------------------------------------------------------------------------
(* The tokens of hosted agents (HostedAgents). *)

HLife == 0..MaxHosted
SpecRec == [ver : Nat, mode : {"prompt", "code"}]
StateRec == [live : Nat, up : {Router, Container, NoUp}, tok : Nat]
JobKinds == {"build", "room", "run", "stop", "remove", "images"}
JobRec == [kind : JobKinds, a : Ag, life : HLife, ver : Nat, tok : Nat, out : SUBSET Ag]

HTyped ==
  /\ hspec \in [Ag -> SpecRec]
  /\ hlife \in [Ag -> HLife]
  /\ hst \in [Ag \X HLife -> StateRec]
  /\ htok \in SUBSET [n : Nat, of : Ag]
  /\ hjobs \in SUBSET JobRec
  /\ DOMAIN hcont = Ag
  /\ hnext \in Nat
LivesFew == hbusy \in Nat /\ hbusy <= MaxHosted /\ \A a \in Ag : hlife[a] <= hbusy

\* A start under way is of the agent that exists now.
StartsAreNow(a) ==
  \A j \in hjobs : j.a = a /\ j.kind \in {"room", "run"} => j.life = hlife[a] /\ Exists(a)

\* A token is the runtime's own, or that of a container that is starting.
TokensExplained(a) ==
  \A t \in htok : t.of = a =>
    \/ Exists(a) /\ t.n = Now(a).tok
    \/ \E j \in hjobs : j.a = a /\ j.kind = "run" /\ j.tok = t.n

\* A container is the runtime's own, or something that starts or stops one is under way.
ContainerTended(a) ==
  hcont[a] # 0 =>
    \/ Exists(a) /\ Now(a).up = Container
    \/ \E j \in hjobs : j.a = a /\ j.kind \in {"run", "stop", "remove"}

AgentSound(a) == StartsAreNow(a) /\ TokensExplained(a) /\ ContainerTended(a)
HostedInv == HTyped /\ LivesFew /\ \A a \in Ag : a \in hraced \/ AgentSound(a)

LEMMA HostedParts ==
  ASSUME HTyped, NEW a \in Ag
  PROVE  /\ hlife[a] \in HLife /\ Here(a) \in Ag \X HLife /\ Now(a) \in StateRec
         /\ hspec[a] \in SpecRec
         /\ Stopped(Now(a)) \in StateRec /\ Stopped(Now(a)).up = NoUp /\ Stopped(Now(a)).tok = NoToken
         /\ StopJob(a) \in JobRec /\ StopJob(a).a = a /\ StopJob(a).kind = "stop"
<1>1. hlife[a] \in HLife
  BY DEF HTyped
<1>2. Here(a) \in Ag \X HLife
  BY <1>1 DEF Here
<1>3. Now(a) \in StateRec
  BY <1>2 DEF Now, HTyped
<1>4. Stopped(Now(a)) \in StateRec /\ Stopped(Now(a)).up = NoUp /\ Stopped(Now(a)).tok = NoToken
  BY <1>3 DEF Stopped, StateRec, NoToken
<1>5. StopJob(a) \in JobRec /\ StopJob(a).a = a /\ StopJob(a).kind = "stop"
  BY <1>1 DEF StopJob, Job, JobRec, JobKinds, NoToken
<1> QED
  BY <1>1, <1>2, <1>3, <1>4, <1>5 DEF HTyped

\* An agent of which a step only ends or goes on with something.
LEMMA AgentKeeps ==
  ASSUME NEW a \in Ag, AgentSound(a),
         hspec'[a] = hspec[a], hlife'[a] = hlife[a],
         Now(a)'.tok = Now(a).tok, Now(a)'.up = Now(a).up, hcont'[a] \in {hcont[a], 0},
         \A t \in htok' : t.of = a => t \in htok,
         \A j \in hjobs' : j.a = a /\ j.kind \in {"room", "run"} =>
           \E k \in hjobs : k.a = a /\ k.kind \in {"room", "run"} /\ k.life = j.life,
         \A k \in hjobs : k.a = a /\ k.kind = "run" =>
           \E j \in hjobs' : j.a = a /\ j.kind = "run" /\ j.tok = k.tok,
         hcont'[a] # 0 => \A k \in hjobs : k.a = a /\ k.kind \in {"stop", "remove"} =>
           \E j \in hjobs' : j.a = a /\ j.kind \in {"run", "stop", "remove"}
  PROVE  AgentSound(a)'
<1>1. StartsAreNow(a)'
  BY DEF AgentSound, StartsAreNow, Exists
<1>2. TokensExplained(a)'
  <2> SUFFICES ASSUME NEW t \in htok', t.of = a
               PROVE  \/ (Exists(a) /\ t.n = Now(a).tok)'
                      \/ \E j \in hjobs' : j.a = a /\ j.kind = "run" /\ j.tok = t.n
    BY DEF TokensExplained
  <2>1. \/ Exists(a) /\ t.n = Now(a).tok
        \/ \E j \in hjobs : j.a = a /\ j.kind = "run" /\ j.tok = t.n
    BY DEF AgentSound, TokensExplained
  <2>2. Exists(a)' <=> Exists(a)
    BY DEF Exists
  <2> QED
    BY <2>1, <2>2
<1>3. ContainerTended(a)'
  <2>1. Exists(a)' <=> Exists(a)
    BY DEF Exists
  <2> QED
    BY <2>1 DEF AgentSound, ContainerTended
<1> QED
  BY <1>1, <1>2, <1>3 DEF AgentSound

\* An agent that a step does not touch.
LEMMA AgentAlone ==
  ASSUME NEW a \in Ag, AgentSound(a),
         hspec'[a] = hspec[a], hlife'[a] = hlife[a], hst'[Here(a)] = hst[Here(a)], hcont'[a] = hcont[a],
         \A t : t.of = a => (t \in htok' <=> t \in htok),
         \A j : j.a = a => (j \in hjobs' <=> j \in hjobs)
  PROVE  AgentSound(a)'
<1>1. Now(a)' = Now(a)
  BY DEF Now, Here
<1> QED
  BY <1>1, AgentKeeps

\* stopContainer: an agent that exists stops.
LEMMA AgentStops ==
  ASSUME HTyped, NEW a \in Ag, AgentSound(a), Exists(a),
         hspec'[a] = hspec[a], hlife'[a] = hlife[a], hcont'[a] = hcont[a],
         hst'[Here(a)].tok = NoToken,
         htok' = revoke(a, Now(a).tok, htok), StopJob(a) \in hjobs',
         \A j \in hjobs' : j.a = a /\ j.kind \in {"room", "run"} =>
           \E k \in hjobs : k.a = a /\ k.kind \in {"room", "run"} /\ k.life = j.life,
         \A k \in hjobs : k.a = a /\ k.kind = "run" =>
           \E j \in hjobs' : j.a = a /\ j.kind = "run" /\ j.tok = k.tok
  PROVE  AgentSound(a)'
<1>1. StartsAreNow(a)'
  BY DEF AgentSound, StartsAreNow, Exists
<1>2. TokensExplained(a)'
  <2> SUFFICES ASSUME NEW t \in htok', t.of = a
               PROVE  \E j \in hjobs' : j.a = a /\ j.kind = "run" /\ j.tok = t.n
    BY DEF TokensExplained
  <2>1. t \in htok /\ t # [n |-> Now(a).tok, of |-> a]
    BY DEF revoke
  <2>2. t = [n |-> t.n, of |-> t.of]
    BY <2>1 DEF HTyped
  <2>3. t.n # Now(a).tok
    BY <2>1, <2>2
  <2>4. \E k \in hjobs : k.a = a /\ k.kind = "run" /\ k.tok = t.n
    BY <2>1, <2>3 DEF AgentSound, TokensExplained
  <2> QED
    BY <2>4
<1>3. ContainerTended(a)'
  BY HostedParts DEF ContainerTended
<1> QED
  BY <1>1, <1>2, <1>3 DEF AgentSound

\* The steps that leave every spec, life and agent where it was.
LEMMA HostFrame ==
  ASSUME HostedInv, UNCHANGED <<hspec, hlife, hraced, hbusy>>,
         hst' \in [Ag \X HLife -> StateRec], htok' \in SUBSET [n : Nat, of : Ag],
         hjobs' \in SUBSET JobRec, DOMAIN hcont' = Ag, hnext' \in Nat,
         \A a \in Ag : AgentSound(a) => AgentSound(a)' \/ a \in hraced
  PROVE  HostedInv'
<1>1. HTyped'
  BY DEF HostedInv, HTyped, HLife, SpecRec, StateRec, JobRec, JobKinds
<1>2. LivesFew'
  BY DEF HostedInv, LivesFew
<1> QED
  BY <1>1, <1>2 DEF HostedInv

\* apply, of a new or an existing agent.
LEMMA ApplySound ==
  ASSUME HostedInv, NEW a \in Ag, NEW v \in Nat \ {0}, NEW mode \in {"prompt", "code"},
         hspec' = [hspec EXCEPT ![a] = [ver |-> v, mode |-> mode]],
         NEW life \in HLife, hlife' = [hlife EXCEPT ![a] = life],
         NEW st \in StateRec, apply(a, st, life), hcont' = hcont,
         hbusy' \in Nat, hbusy < hbusy', hbusy' <= MaxHosted, life <= hbusy',
         Exists(a) => life = hlife[a] /\ st = Now(a)
  PROVE  HostedInv'
<1>0. /\ hspec'[a] = [ver |-> v, mode |-> mode] /\ hlife'[a] = life /\ Here(a)' = <<a, life>>
      /\ Here(a)' \in Ag \X HLife
      /\ \A b \in Ag : b # a => hspec'[b] = hspec[b] /\ hlife'[b] = hlife[b]
  BY DEF HostedInv, HTyped, Here
<1>1. Exists(a)'
  BY <1>0 DEF Exists
<1>2. HTyped /\ hnext \in Nat
  BY DEF HostedInv, HTyped
<1>3. PICK n : n = hnext'
  OBVIOUS
<1>4. CASE mode = "prompt"
  <2>1. /\ hnext' = hnext + 1
        /\ hst' = [hst EXCEPT ![<<a, life>>] = [live |-> hspec'[a].ver, up |-> Router, tok |-> n]]
        /\ htok' = revoke(a, st.tok, htok) \cup {[n |-> n, of |-> a]}
        /\ hjobs' = IF st.up = Container THEN hjobs \cup {StopJob(a)} ELSE hjobs
        /\ hraced' = IF Starting(a) # {} THEN hraced \cup {a} ELSE hraced
    BY <1>0, <1>3, <1>4 DEF apply, ApplyPrompt, Turn, issue
  <2>2. n \in Nat /\ hspec'[a].ver \in Nat
    BY <1>0, <1>2, <1>3, <2>1
  <2>3. [live |-> hspec'[a].ver, up |-> Router, tok |-> n] \in StateRec
    BY <2>2 DEF StateRec
  <2>4. HTyped'
    <3>1. hspec' \in [Ag -> SpecRec] /\ hlife' \in [Ag -> HLife]
      BY <1>2 DEF HTyped, SpecRec
    <3>2. hst' \in [Ag \X HLife -> StateRec]
      BY <1>2, <2>1, <2>3 DEF HTyped
    <3>3. htok' \in SUBSET [n : Nat, of : Ag]
      BY <1>2, <2>1, <2>2 DEF HTyped, revoke
    <3>4. hjobs' \in SUBSET JobRec
      BY <1>2, <2>1, HostedParts DEF HTyped
    <3> QED
      BY <1>2, <1>3, <2>2, <3>1, <3>2, <3>3, <3>4 DEF HTyped, HLife, SpecRec, StateRec, JobRec, JobKinds
  <2>5. hst'[<<a, life>>].tok = n
    BY <1>2, <2>1 DEF HTyped
  <2>6. a \in hraced' \/ AgentSound(a)'
    <3> SUFFICES ASSUME a \notin hraced' PROVE AgentSound(a)'
      OBVIOUS
    <3>1. a \notin hraced /\ Starting(a) = {} /\ AgentSound(a)
      BY <2>1 DEF HostedInv
    <3>2. \A j \in hjobs : j.a = a => j.kind \notin {"room", "run"}
      BY <3>1 DEF AgentSound, StartsAreNow, Starting
    <3>3. \A j \in hjobs' : j.a = a => j.kind \notin {"room", "run"}
      BY <1>2, <2>1, <3>2, HostedParts
    <3>4. StartsAreNow(a)'
      BY <3>3 DEF StartsAreNow
    <3>5. \A t \in htok' : t.of = a => t.n = n
      <4>0. \A t \in htok' : t.of = a => t.n = n \/ t \in revoke(a, st.tok, htok)
        BY <2>1
      <4> SUFFICES ASSUME NEW t \in htok, t.of = a, t \in revoke(a, st.tok, htok) PROVE FALSE
        BY <4>0 DEF revoke
      <4>1. Exists(a) /\ t.n = Now(a).tok
        BY <3>1, <3>2 DEF AgentSound, TokensExplained
      <4>2. t = [n |-> t.n, of |-> t.of]
        BY <1>2 DEF HTyped
      <4> QED
        BY <4>1, <4>2 DEF revoke
    <3>6. TokensExplained(a)'
      BY <1>0, <1>1, <2>5, <3>5 DEF TokensExplained, Now
    <3>7. ContainerTended(a)'
      <4> SUFFICES ASSUME hcont[a] # 0
                   PROVE  \E j \in hjobs' : j.a = a /\ j.kind \in {"run", "stop", "remove"}
        BY DEF ContainerTended
      <4>1. CASE Exists(a) /\ Now(a).up = Container
        BY <1>2, <2>1, <4>1, HostedParts
      <4>2. CASE \E j \in hjobs : j.a = a /\ j.kind \in {"run", "stop", "remove"}
        BY <2>1, <4>2
      <4> QED
        BY <3>1, <4>1, <4>2 DEF AgentSound, ContainerTended
    <3> QED
      BY <3>4, <3>6, <3>7 DEF AgentSound
  <2>7. ASSUME NEW b \in Ag, b # a, b \notin hraced' PROVE AgentSound(b)'
    <3>1. AgentSound(b)
      BY <2>1, <2>7 DEF HostedInv
    <3>2. hst'[Here(b)] = hst[Here(b)]
      BY <1>2, <2>1, <2>7, HostedParts DEF HTyped, Here
    <3>3. \A t : t.of = b => (t \in htok' <=> t \in htok)
      BY <2>1, <2>7 DEF revoke
    <3>4. \A j : j.a = b => (j \in hjobs' <=> j \in hjobs)
      BY <1>2, <2>1, <2>7, HostedParts
    <3> QED
      BY <1>0, <2>7, <3>1, <3>2, <3>3, <3>4, AgentAlone
  <2>8. LivesFew'
    BY <1>0 DEF HostedInv, LivesFew, HTyped, HLife
  <2> QED
    BY <2>4, <2>6, <2>7, <2>8 DEF HostedInv
<1>5. CASE mode = "code"
  <2>0. PICK y : y = [st EXCEPT !.up = IF @ = Router THEN NoUp ELSE @]
    OBVIOUS
  <2>1. /\ hst' = [hst EXCEPT ![<<a, life>>] = y]
        /\ hjobs' = hjobs \cup {Job("build", a, life, hspec'[a].ver)}
        /\ UNCHANGED <<htok, hraced, hnext>>
    BY <1>0, <1>5, <2>0 DEF apply, ApplyCode
  <2>2. y \in StateRec /\ y.tok = st.tok /\ (st.up = Container => y.up = Container)
    BY <2>0 DEF StateRec, Router, NoUp, Container
  <2>3. PICK b : b = Job("build", a, life, v)
    OBVIOUS
  <2>4. b \in JobRec /\ b.a = a /\ b.kind = "build" /\ hjobs' = hjobs \cup {b}
    BY <1>0, <2>1, <2>3 DEF Job, JobRec, JobKinds, NoToken
  <2>5. HTyped'
    <3>1. hspec' \in [Ag -> SpecRec] /\ hlife' \in [Ag -> HLife]
      BY <1>2 DEF HTyped, SpecRec
    <3>2. hst' \in [Ag \X HLife -> StateRec]
      BY <1>2, <2>1, <2>2 DEF HTyped
    <3>3. hjobs' \in SUBSET JobRec
      BY <1>2, <2>4 DEF HTyped
    <3> QED
      BY <1>2, <2>1, <3>1, <3>2, <3>3 DEF HTyped, HLife, SpecRec, StateRec, JobRec, JobKinds
  <2>6. hst'[<<a, life>>] = y
    BY <1>2, <2>1 DEF HTyped
  <2>7. a \in hraced' \/ AgentSound(a)'
    <3> SUFFICES ASSUME a \notin hraced PROVE AgentSound(a)'
      BY <2>1
    <3>1. AgentSound(a)
      BY DEF HostedInv
    <3>2. \A j \in hjobs' : j.a = a /\ j.kind \in {"room", "run"} => j \in hjobs
      BY <2>4
    <3>3. StartsAreNow(a)'
      BY <1>0, <1>1, <3>1, <3>2 DEF AgentSound, StartsAreNow
    <3>4. TokensExplained(a)'
      <4> SUFFICES ASSUME NEW t \in htok, t.of = a
                   PROVE  \/ t.n = y.tok
                          \/ \E j \in hjobs : j.a = a /\ j.kind = "run" /\ j.tok = t.n
        BY <1>0, <1>1, <2>1, <2>4, <2>6 DEF TokensExplained, Now
      <4> QED
        BY <2>2, <3>1 DEF AgentSound, TokensExplained
    <3>5. ContainerTended(a)'
      <4> SUFFICES ASSUME hcont[a] # 0
                   PROVE  \/ y.up = Container
                          \/ \E j \in hjobs : j.a = a /\ j.kind \in {"run", "stop", "remove"}
        BY <1>0, <1>1, <2>4, <2>6 DEF ContainerTended, Now
      <4> QED
        BY <2>2, <3>1 DEF AgentSound, ContainerTended
    <3> QED
      BY <3>3, <3>4, <3>5 DEF AgentSound
  <2>8. ASSUME NEW d \in Ag, d # a, d \notin hraced PROVE AgentSound(d)'
    <3>1. AgentSound(d)
      BY <2>8 DEF HostedInv
    <3>2. hst'[Here(d)] = hst[Here(d)]
      BY <1>2, <2>1, <2>8, HostedParts DEF HTyped, Here
    <3>3. \A j : j.a = d => (j \in hjobs' <=> j \in hjobs)
      BY <2>4, <2>8
    <3> QED
      BY <1>0, <2>1, <2>8, <3>1, <3>2, <3>3, AgentAlone
  <2>9. LivesFew'
    BY <1>0 DEF HostedInv, LivesFew, HTyped, HLife
  <2> QED
    BY <2>1, <2>5, <2>7, <2>8, <2>9 DEF HostedInv
<1> QED
  BY <1>4, <1>5

LEMMA SpecsMove ==
  ASSUME HostedInv, HostCreate \/ HostUpdate
  PROVE  HostedInv'
<1>0. /\ hbusy' = hbusy + 1 /\ hbusy < MaxHosted /\ hcont' = hcont /\ hbusy \in Nat /\ MaxHosted \in Nat
  BY HostedAssumption DEF HostCreate, HostUpdate, HBusy, HostedInv, LivesFew
<1>1. CASE HostCreate
  <2>1. PICK a \in Ag, mode \in {"prompt", "code"} :
          /\ ~Exists(a) /\ hspec' = [hspec EXCEPT ![a] = [ver |-> 1, mode |-> mode]]
          /\ hlife' = [hlife EXCEPT ![a] = @ + 1] /\ apply(a, Fresh, hlife[a] + 1)
    BY <1>1 DEF HostCreate
  <2>2. hlife[a] \in Nat /\ hlife[a] <= hbusy
    BY DEF HostedInv, LivesFew, HTyped, HLife
  <2>3. PICK life : life = hlife[a] + 1
    OBVIOUS
  <2>4. life \in HLife /\ life <= hbusy' /\ hlife' = [hlife EXCEPT ![a] = life] /\ apply(a, Fresh, life)
    BY <1>0, <2>1, <2>2, <2>3 DEF HLife, HostedInv, HTyped
  <2>5. PICK st : st = Fresh
    OBVIOUS
  <2>6. st \in StateRec /\ apply(a, st, life)
    BY <2>4, <2>5 DEF Fresh, StateRec, NoToken
  <2>7. PICK v \in Nat \ {0} : v = 1
    OBVIOUS
  <2>8. hbusy' \in Nat /\ hbusy < hbusy' /\ hbusy' <= MaxHosted
    BY <1>0
  <2> QED
    BY <1>0, <2>1, <2>4, <2>6, <2>7, <2>8, ApplySound
<1>2. CASE HostUpdate
  <2>1. PICK a \in Ag, mode \in {"prompt", "code"} :
          /\ Exists(a) /\ hspec' = [hspec EXCEPT ![a] = [ver |-> @.ver + 1, mode |-> mode]]
          /\ apply(a, Now(a), hlife[a])
    BY <1>2 DEF HostUpdate
  <2>2. PICK v : v = hspec[a].ver + 1
    OBVIOUS
  <2>3. v \in Nat \ {0} /\ hspec' = [hspec EXCEPT ![a] = [ver |-> v, mode |-> mode]]
    BY <2>1, <2>2, HostedParts DEF HostedInv, HTyped, SpecRec
  <2>4. PICK life : life = hlife[a]
    OBVIOUS
  <2>5. PICK st : st = Now(a)
    OBVIOUS
  <2>6. life \in HLife /\ life <= hbusy' /\ st \in StateRec
    BY <1>0, <2>4, <2>5, HostedParts DEF HostedInv, LivesFew, HTyped, HLife
  <2>7. hlife' = [hlife EXCEPT ![a] = life] /\ apply(a, st, life)
    BY <1>2, <2>1, <2>4, <2>5 DEF HostUpdate, HostedInv, HTyped
  <2>8. hbusy' \in Nat /\ hbusy < hbusy' /\ hbusy' <= MaxHosted
    BY <1>0
  <2> QED
    BY <1>0, <2>1, <2>3, <2>4, <2>5, <2>6, <2>7, <2>8, ApplySound
<1> QED
  BY <1>1, <1>2

LEMMA RemovalSound ==
  ASSUME HostedInv, HostRemove
  PROVE  HostedInv'
<1>1. PICK a \in Ag :
        /\ Exists(a) /\ hspec' = [hspec EXCEPT ![a] = [ver |-> 0, mode |-> "prompt"]]
        /\ htok' = revokeAgent(a, htok) /\ hjobs' = hjobs \cup {Job("remove", a, hlife[a], 0)}
        /\ hraced' = IF Starting(a) # {} THEN hraced \cup {a} ELSE hraced
  BY DEF HostRemove
<1>2. HTyped /\ hbusy' = hbusy + 1 /\ hbusy < MaxHosted /\ UNCHANGED <<hlife, hst, hcont, hnext>>
  BY DEF HostRemove, HBusy, HostedInv
<1>3. PICK x : x = Job("remove", a, hlife[a], 0)
  OBVIOUS
<1>4. x \in JobRec /\ x.a = a /\ x.kind = "remove" /\ hjobs' = hjobs \cup {x}
  BY <1>1, <1>2, <1>3, HostedParts DEF Job, JobRec, JobKinds, NoToken
<1>5. HTyped'
  <2>1. hspec' \in [Ag -> SpecRec]
    BY <1>1, <1>2 DEF HTyped, SpecRec
  <2>2. htok' \in SUBSET [n : Nat, of : Ag] /\ hjobs' \in SUBSET JobRec
    BY <1>1, <1>2, <1>4 DEF HTyped, revokeAgent
  <2> QED
    BY <1>2, <2>1, <2>2 DEF HTyped, HLife, SpecRec, StateRec, JobRec, JobKinds
<1>6. LivesFew'
  BY <1>2, HostedAssumption DEF HostedInv, LivesFew, HTyped, HLife
<1>7. a \in hraced' \/ AgentSound(a)'
  <2> SUFFICES ASSUME a \notin hraced' PROVE AgentSound(a)'
    OBVIOUS
  <2>1. a \notin hraced /\ Starting(a) = {} /\ AgentSound(a)
    BY <1>1 DEF HostedInv
  <2>2. \A j \in hjobs : j.a = a => j.kind \notin {"room", "run"}
    BY <2>1 DEF AgentSound, StartsAreNow, Starting
  <2>3. StartsAreNow(a)'
    BY <1>4, <2>2 DEF StartsAreNow
  <2>4. TokensExplained(a)'
    BY <1>1 DEF TokensExplained, revokeAgent
  <2>5. ContainerTended(a)'
    BY <1>4 DEF ContainerTended
  <2> QED
    BY <2>3, <2>4, <2>5 DEF AgentSound
<1>8. ASSUME NEW b \in Ag, b # a, b \notin hraced' PROVE AgentSound(b)'
  <2>1. AgentSound(b) /\ hspec'[b] = hspec[b]
    BY <1>1, <1>2, <1>8 DEF HostedInv, HTyped
  <2>2. /\ \A t : t.of = b => (t \in htok' <=> t \in htok)
        /\ \A j : j.a = b => (j \in hjobs' <=> j \in hjobs)
    BY <1>1, <1>4, <1>8 DEF revokeAgent
  <2> QED
    BY <1>2, <2>1, <2>2, AgentAlone
<1> QED
  BY <1>5, <1>6, <1>7, <1>8 DEF HostedInv

\* An agent that exists is stopped, while one job takes the place of another.
LEMMA OneStops ==
  ASSUME HostedInv, UNCHANGED <<hspec, hlife, hraced, hbusy, hcont, hnext>>,
         NEW a \in Ag, Exists(a), NEW x \in StateRec, x.tok = NoToken,
         hst' \in [Ag \X HLife -> StateRec], hst'[Here(a)] = x,
         \A b \in Ag : b # a => hst'[Here(b)] = hst[Here(b)],
         htok' = revoke(a, Now(a).tok, htok),
         hjobs' \in SUBSET JobRec, StopJob(a) \in hjobs',
         \A j \in hjobs' : j.kind \in {"room", "run"} =>
           \E k \in hjobs : k.a = j.a /\ k.kind \in {"room", "run"} /\ k.life = j.life,
         \A k \in hjobs : k.kind = "run" => \E j \in hjobs' : j.a = k.a /\ j.kind = "run" /\ j.tok = k.tok,
         \A k \in hjobs : k.kind \in {"stop", "remove"} =>
           \E j \in hjobs' : j.a = k.a /\ j.kind \in {"run", "stop", "remove"}
  PROVE  HostedInv'
<1>1. HTyped
  BY DEF HostedInv
<1>2. htok' \in SUBSET [n : Nat, of : Ag] /\ \A t \in htok' : t \in htok
  BY <1>1 DEF HTyped, revoke
<1>3. ASSUME NEW b \in Ag, AgentSound(b) PROVE AgentSound(b)'
  <2>1. CASE b = a
    BY <1>1, <1>3, <2>1, AgentStops
  <2>2. CASE b # a
    <3>1. Now(b)' = Now(b)
      BY <2>2 DEF Now, Here
    <3> QED
      BY <1>2, <1>3, <3>1, AgentKeeps
  <2> QED
    BY <2>1, <2>2
<1> QED
  BY <1>1, <1>2, <1>3, HostFrame DEF HTyped

\* Only jobs change, and each that starts or stops something is kept or replaced.
LEMMA JobsMove ==
  ASSUME HostedInv, UNCHANGED <<hspec, hlife, hraced, hbusy, htok, hnext>>, DOMAIN hcont' = Ag,
         hst' \in [Ag \X HLife -> StateRec],
         \A b \in Ag : hst'[Here(b)].tok = hst[Here(b)].tok /\ hst'[Here(b)].up = hst[Here(b)].up,
         hjobs' \in SUBSET JobRec,
         \A b \in Ag : hcont'[b] \in {hcont[b], 0},
         \A j \in hjobs' : j.kind \in {"room", "run"} =>
           \E k \in hjobs : k.a = j.a /\ k.kind \in {"room", "run"} /\ k.life = j.life,
         \A k \in hjobs : k.kind = "run" => \E j \in hjobs' : j.a = k.a /\ j.kind = "run" /\ j.tok = k.tok,
         \A k \in hjobs : k.kind \in {"stop", "remove"} /\ hcont'[k.a] # 0 =>
           \E j \in hjobs' : j.a = k.a /\ j.kind \in {"run", "stop", "remove"}
  PROVE  HostedInv'
<1>1. HTyped
  BY DEF HostedInv
<1>2. ASSUME NEW b \in Ag, AgentSound(b) PROVE AgentSound(b)'
  <2>1. Now(b)'.tok = Now(b).tok /\ Now(b)'.up = Now(b).up
    BY DEF Now, Here
  <2> QED
    BY <1>2, <2>1, AgentKeeps
<1> QED
  BY <1>1, <1>2, HostFrame DEF HTyped

LEMMA BuildsSound ==
  ASSUME HostedInv, BuildEnds \/ BuildFails \/ RemoveImages
  PROVE  HostedInv'
<1>1. HTyped /\ UNCHANGED <<hspec, hlife, hraced, hbusy, hcont, hnext>>
  BY DEF HostedInv, BuildEnds, BuildFails, RemoveImages
<1>2. CASE BuildFails \/ RemoveImages
  <2>1. PICK j \in hjobs : j.kind \in {"build", "images"} /\ hjobs' = hjobs \ {j}
    BY <1>2 DEF BuildFails, RemoveImages
  <2>2. UNCHANGED <<hst, htok>>
    BY <1>2 DEF BuildFails, RemoveImages
  <2>3. hjobs' \in SUBSET JobRec
    BY <1>1, <2>1 DEF HTyped
  <2>4. /\ \A k \in hjobs' : k \in hjobs
        /\ \A k \in hjobs : k.kind \in {"run", "stop", "remove"} => k \in hjobs'
    BY <2>1
  <2> QED
    BY <1>1, <2>2, <2>3, <2>4, JobsMove DEF HTyped
<1>3. CASE BuildEnds
  <2>1. PICK j \in hjobs :
          LET s == <<j.a, j.life>>
              st == [hst EXCEPT ![s] = [@ EXCEPT !.live = j.ver]]
          IN /\ j.kind = "build"
             /\ IF ~StillWanted(j) THEN UNCHANGED <<hst, htok>> /\ hjobs' = hjobs \ {j}
                ELSE IF hst[s].up # NoUp
                THEN /\ hst' = [st EXCEPT ![Here(j.a)] = Stopped(@)] /\ htok' = revoke(j.a, Now(j.a).tok, htok)
                     /\ hjobs' = (hjobs \ {j}) \cup {StopJob(j.a)}
                ELSE hst' = st /\ hjobs' = hjobs \ {j} /\ UNCHANGED htok
    BY <1>3 DEF BuildEnds
  <2>2. j \in JobRec /\ j.a \in Ag /\ j.life \in HLife /\ j.ver \in Nat
    BY <1>1 DEF HTyped, JobRec
  <2>3. PICK a \in Ag : a = j.a
    BY <2>2
  <2>4. PICK s : s = <<j.a, j.life>>
    OBVIOUS
  <2>5. s \in Ag \X HLife /\ hst[s] \in StateRec
    BY <1>1, <2>2, <2>4 DEF HTyped
  <2>6. PICK y : y = [hst[s] EXCEPT !.live = j.ver]
    OBVIOUS
  <2>7. y \in StateRec /\ y.up = hst[s].up /\ y.tok = hst[s].tok
    BY <2>2, <2>5, <2>6 DEF StateRec
  <2>8. PICK st : st = [hst EXCEPT ![s] = y]
    OBVIOUS
  <2>9. /\ st \in [Ag \X HLife -> StateRec]
        /\ \A b \in Ag : st[Here(b)].tok = hst[Here(b)].tok /\ st[Here(b)].up = hst[Here(b)].up
        /\ \A b \in Ag : b # a => st[Here(b)] = hst[Here(b)]
    <3>1. st \in [Ag \X HLife -> StateRec]
      BY <1>1, <2>7, <2>8 DEF HTyped
    <3>2. \A q \in Ag \X HLife : st[q] = IF q = s THEN y ELSE hst[q]
      BY <1>1, <2>8 DEF HTyped
    <3>3. \A b \in Ag : Here(b) \in Ag \X HLife /\ (b # a => Here(b) # s)
      BY <1>1, <2>3, <2>4, HostedParts DEF Here
    <3> QED
      BY <2>7, <3>1, <3>2, <3>3
  <2>10. CASE ~StillWanted(j) \/ hst[s].up = NoUp
    <3>1. hjobs' = hjobs \ {j} /\ htok' = htok /\ (hst' = hst \/ hst' = st)
      BY <2>1, <2>4, <2>6, <2>8, <2>10 DEF StillWanted
    <3>2. hjobs' \in SUBSET JobRec
      BY <1>1, <3>1 DEF HTyped
    <3>3. /\ \A k \in hjobs' : k \in hjobs
          /\ \A k \in hjobs : k.kind \in {"run", "stop", "remove"} => k \in hjobs'
      BY <2>1, <3>1
    <3>4. /\ hst' \in [Ag \X HLife -> StateRec]
          /\ \A b \in Ag : hst'[Here(b)].tok = hst[Here(b)].tok /\ hst'[Here(b)].up = hst[Here(b)].up
      BY <1>1, <2>9, <3>1 DEF HTyped
    <3> QED
      BY <1>1, <3>1, <3>2, <3>3, <3>4, JobsMove DEF HTyped
  <2>11. CASE StillWanted(j) /\ hst[s].up # NoUp
    <3>1. /\ hst' = [st EXCEPT ![Here(a)] = Stopped(@)] /\ htok' = revoke(a, Now(a).tok, htok)
          /\ hjobs' = (hjobs \ {j}) \cup {StopJob(a)} /\ Exists(a)
      BY <2>1, <2>3, <2>4, <2>6, <2>8, <2>11 DEF StillWanted
    <3>2. PICK x : x = Stopped(st[Here(a)])
      OBVIOUS
    <3>3. Here(a) \in Ag \X HLife /\ st[Here(a)] \in StateRec
      BY <1>1, <2>9, HostedParts
    <3>4. x \in StateRec /\ x.tok = NoToken
      BY <3>2, <3>3 DEF Stopped, StateRec, NoToken
    <3>5. hst' = [st EXCEPT ![Here(a)] = x]
      BY <3>1, <3>2
    <3>6. /\ hst' \in [Ag \X HLife -> StateRec] /\ hst'[Here(a)] = x
          /\ \A b \in Ag : b # a => hst'[Here(b)] = hst[Here(b)]
      <4>1. hst' \in [Ag \X HLife -> StateRec] /\ hst'[Here(a)] = x
        BY <2>9, <3>3, <3>4, <3>5
      <4>2. \A b \in Ag : b # a => Here(b) # Here(a) /\ Here(b) \in Ag \X HLife
        BY <1>1, HostedParts DEF Here
      <4> QED
        BY <2>9, <3>5, <4>1, <4>2
    <3>7. hjobs' \in SUBSET JobRec /\ StopJob(a) \in hjobs' /\ StopJob(a).kind = "stop"
      BY <1>1, <3>1, HostedParts DEF HTyped
    <3>8. /\ \A k \in hjobs' : k.kind \in {"room", "run"} => k \in hjobs
          /\ \A k \in hjobs : k.kind \in {"run", "stop", "remove"} => k \in hjobs'
      BY <2>1, <3>1, <3>7
    <3> QED
      BY <1>1, <3>1, <3>4, <3>6, <3>7, <3>8, OneStops
  <2> QED
    BY <2>10, <2>11
<1> QED
  BY <1>2, <1>3

\* resolve, and the room it makes.
LEMMA RoomSound ==
  ASSUME HostedInv, Resolve \/ MakeRoom
  PROVE  HostedInv'
<1>1. HTyped /\ UNCHANGED <<hspec, hlife, hraced, hbusy, hcont, hnext>>
  BY DEF HostedInv, Resolve, MakeRoom
<1>2. CASE Resolve
  <2>1. PICK a \in Ag, out \in SUBSET running :
          Exists(a) /\ hjobs' = hjobs \cup {[Job("room", a, hlife[a], 0) EXCEPT !.out = out]}
    BY <1>2 DEF Resolve
  <2>2. PICK r : r = [Job("room", a, hlife[a], 0) EXCEPT !.out = out]
    OBVIOUS
  <2>3. r \in JobRec /\ r.kind = "room" /\ r.a = a /\ r.life = hlife[a]
    BY <1>1, <2>1, <2>2, HostedParts DEF Job, JobRec, JobKinds, NoToken, running
  <2>4. hjobs' = hjobs \cup {r} /\ hjobs' \in SUBSET JobRec
    BY <1>1, <2>1, <2>2, <2>3 DEF HTyped
  <2>5. UNCHANGED <<hst, htok>>
    BY <1>2 DEF Resolve
  <2>6. ASSUME NEW b \in Ag, AgentSound(b) PROVE AgentSound(b)'
    <3>1. Now(b)' = Now(b) /\ (Exists(b)' <=> Exists(b))
      BY <1>1, <2>5 DEF Now, Here, Exists
    <3>2. StartsAreNow(b)'
      BY <1>1, <2>1, <2>3, <2>4, <2>6, <3>1 DEF AgentSound, StartsAreNow
    <3>3. TokensExplained(b)'
      BY <2>4, <2>5, <2>6, <3>1 DEF AgentSound, TokensExplained
    <3>4. ContainerTended(b)'
      BY <1>1, <2>4, <2>6, <3>1 DEF AgentSound, ContainerTended
    <3> QED
      BY <3>2, <3>3, <3>4 DEF AgentSound
  <2> QED
    BY <1>1, <2>4, <2>5, <2>6, HostFrame DEF HTyped
<1>3. CASE MakeRoom
  <2>1. PICK j \in hjobs : \E v \in j.out :
          LET rest == (hjobs \ {j}) \cup {[j EXCEPT !.out = @ \ {v}]} IN
          IF Exists(v) THEN /\ hst' = [hst EXCEPT ![Here(v)] = Stopped(@)] /\ htok' = revoke(v, Now(v).tok, htok)
                            /\ hjobs' = rest \cup {StopJob(v)}
          ELSE hjobs' = rest \cup {StopJob(v)} /\ UNCHANGED <<hst, htok>>
    BY <1>3 DEF MakeRoom
  <2>2. j \in JobRec
    BY <1>1 DEF HTyped
  <2>3. PICK v \in Ag :
          LET rest == (hjobs \ {j}) \cup {[j EXCEPT !.out = @ \ {v}]} IN
          IF Exists(v) THEN /\ hst' = [hst EXCEPT ![Here(v)] = Stopped(@)] /\ htok' = revoke(v, Now(v).tok, htok)
                            /\ hjobs' = rest \cup {StopJob(v)}
          ELSE hjobs' = rest \cup {StopJob(v)} /\ UNCHANGED <<hst, htok>>
    BY <2>1, <2>2 DEF JobRec
  <2>4. PICK r : r = [j EXCEPT !.out = @ \ {v}]
    OBVIOUS
  <2>5. r \in JobRec /\ r.kind = j.kind /\ r.a = j.a /\ r.life = j.life /\ r.tok = j.tok
    BY <2>2, <2>4 DEF JobRec
  <2>6. hjobs' = ((hjobs \ {j}) \cup {r}) \cup {StopJob(v)}
    BY <2>3, <2>4
  <2>7. StopJob(v) \in JobRec /\ StopJob(v).kind = "stop" /\ StopJob(v) \in hjobs'
    BY <1>1, <2>6, HostedParts
  <2>8. /\ hjobs' \in SUBSET JobRec
        /\ \A i \in hjobs' : i \in hjobs \/ i = r \/ i = StopJob(v)
        /\ \A k \in hjobs : k \in hjobs' \/ k = j
        /\ r \in hjobs'
    BY <1>1, <2>5, <2>6, <2>7 DEF HTyped
  <2>9. /\ \A i \in hjobs' : i.kind \in {"room", "run"} =>
             \E k \in hjobs : k.a = i.a /\ k.kind \in {"room", "run"} /\ k.life = i.life
        /\ \A k \in hjobs : k.kind = "run" => \E i \in hjobs' : i.a = k.a /\ i.kind = "run" /\ i.tok = k.tok
        /\ \A k \in hjobs : k.kind \in {"stop", "remove"} =>
             \E i \in hjobs' : i.a = k.a /\ i.kind \in {"run", "stop", "remove"}
    BY <2>5, <2>7, <2>8
  <2>10. CASE Exists(v)
    <3>1. hst' = [hst EXCEPT ![Here(v)] = Stopped(@)] /\ htok' = revoke(v, Now(v).tok, htok)
      BY <2>3, <2>10
    <3>2. PICK x : x = Stopped(Now(v))
      OBVIOUS
    <3>3. x \in StateRec /\ x.tok = NoToken /\ Here(v) \in Ag \X HLife
      BY <1>1, <3>2, HostedParts
    <3>4. hst' = [hst EXCEPT ![Here(v)] = x]
      BY <3>1, <3>2 DEF Now
    <3>5. /\ hst' \in [Ag \X HLife -> StateRec] /\ hst'[Here(v)] = x
          /\ \A b \in Ag : b # v => hst'[Here(b)] = hst[Here(b)]
      <4>1. hst' \in [Ag \X HLife -> StateRec] /\ hst'[Here(v)] = x
        BY <1>1, <3>3, <3>4 DEF HTyped
      <4>2. \A b \in Ag : b # v => Here(b) # Here(v) /\ Here(b) \in Ag \X HLife
        BY <1>1, HostedParts DEF Here
      <4> QED
        BY <1>1, <3>4, <4>1, <4>2 DEF HTyped
    <3> QED
      BY <1>1, <2>7, <2>8, <2>9, <2>10, <3>1, <3>3, <3>5, OneStops
  <2>11. CASE ~Exists(v)
    <3>1. UNCHANGED <<hst, htok>>
      BY <2>3, <2>11
    <3> QED
      BY <1>1, <2>8, <2>9, <3>1, JobsMove DEF HTyped
  <2> QED
    BY <2>10, <2>11
<1> QED
  BY <1>2, <1>3

\* A container starts: its token, docker run, and what becomes of it.
LEMMA RunsSound ==
  ASSUME HostedInv, StartRuns
  PROVE  HostedInv'
<1>1. HTyped /\ UNCHANGED <<hspec, hlife, hst, hraced, hbusy, hcont>>
  BY DEF HostedInv, StartRuns
<1>2. PICK j \in hjobs :
        /\ j.kind = "room" /\ htok' = issue(j.a, htok)
        /\ hjobs' = (hjobs \ {j}) \cup {[j EXCEPT !.kind = "run", !.tok = hnext', !.ver = hst[<<j.a, j.life>>].live]}
  BY DEF StartRuns
<1>3. hnext' \in Nat
  BY <1>1 DEF StartRuns, Turn, HTyped
<1>4. j \in JobRec
  BY <1>1 DEF HTyped
<1>5. PICK ver : ver = hst[<<j.a, j.life>>].live
  OBVIOUS
<1>6. ver \in Nat
  BY <1>1, <1>4, <1>5 DEF HTyped, JobRec, StateRec
<1>7. PICK r : r = [j EXCEPT !.kind = "run", !.tok = hnext', !.ver = ver]
  OBVIOUS
<1>8. r \in JobRec /\ r.kind = "run" /\ r.a = j.a /\ r.life = j.life /\ r.tok = hnext'
  BY <1>3, <1>4, <1>6, <1>7 DEF JobRec, JobKinds
<1>9. hjobs' = (hjobs \ {j}) \cup {r}
  BY <1>2, <1>5, <1>7
<1>10. hjobs' \in SUBSET JobRec /\ r \in hjobs'
  BY <1>1, <1>8, <1>9 DEF HTyped
<1>11. PICK new : new = [n |-> hnext', of |-> j.a]
  OBVIOUS
<1>12. htok' = htok \cup {new} /\ new.n = hnext' /\ new.of = j.a /\ new \in [n : Nat, of : Ag]
  BY <1>2, <1>3, <1>4, <1>11 DEF issue, JobRec
<1>13. htok' \in SUBSET [n : Nat, of : Ag]
  BY <1>1, <1>12 DEF HTyped
<1>14. ASSUME NEW b \in Ag, AgentSound(b) PROVE AgentSound(b)'
  <2>1. Now(b)' = Now(b) /\ (Exists(b)' <=> Exists(b))
    BY <1>1 DEF Now, Here, Exists
  <2>2. StartsAreNow(b)'
    <3> SUFFICES ASSUME NEW i \in hjobs', i.a = b, i.kind \in {"room", "run"}
                 PROVE  i.life = hlife'[b] /\ Exists(b)'
      BY DEF StartsAreNow
    <3>1. i \in hjobs \/ i = r
      BY <1>9
    <3> QED
      BY <1>1, <1>2, <1>8, <1>14, <2>1, <3>1 DEF AgentSound, StartsAreNow
  <2>3. TokensExplained(b)'
    <3> SUFFICES ASSUME NEW t \in htok', t.of = b
                 PROVE  \/ Exists(b)' /\ t.n = Now(b)'.tok
                        \/ \E i \in hjobs' : i.a = b /\ i.kind = "run" /\ i.tok = t.n
      BY DEF TokensExplained
    <3>1. CASE t = new
      BY <1>8, <1>10, <1>12, <3>1
    <3>2. CASE t \in htok
      <4>1. \/ Exists(b) /\ t.n = Now(b).tok
            \/ \E i \in hjobs : i.a = b /\ i.kind = "run" /\ i.tok = t.n
        BY <1>14, <3>2 DEF AgentSound, TokensExplained
      <4>2. \A i \in hjobs : i.kind = "run" => i \in hjobs'
        BY <1>2, <1>9
      <4> QED
        BY <2>1, <4>1, <4>2
    <3> QED
      BY <1>12, <3>1, <3>2
  <2>4. ContainerTended(b)'
    <3>1. \A i \in hjobs : i.kind \in {"run", "stop", "remove"} => i \in hjobs'
      BY <1>2, <1>9
    <3> QED
      BY <1>1, <1>14, <2>1, <3>1 DEF AgentSound, ContainerTended
  <2> QED
    BY <2>2, <2>3, <2>4 DEF AgentSound
<1> QED
  BY <1>1, <1>3, <1>10, <1>13, <1>14, HostFrame DEF HTyped
LEMMA DockerRunSound ==
  ASSUME HostedInv, DockerRun
  PROVE  HostedInv'
<1>1. HTyped /\ UNCHANGED <<hspec, hlife, hst, htok, hjobs, hraced, hnext, hbusy>>
  BY DEF HostedInv, DockerRun
<1>2. PICK j \in hjobs : j.kind = "run" /\ hcont' = [hcont EXCEPT ![j.a] = j.ver]
  BY DEF DockerRun
<1>3. DOMAIN hcont' = Ag /\ \A b \in Ag : b # j.a => hcont'[b] = hcont[b]
  BY <1>1, <1>2 DEF HTyped
<1>4. ASSUME NEW b \in Ag, AgentSound(b) PROVE AgentSound(b)'
  <2>1. Now(b)' = Now(b) /\ (Exists(b)' <=> Exists(b))
    BY <1>1 DEF Now, Here, Exists
  <2>2. StartsAreNow(b)' /\ TokensExplained(b)'
    BY <1>1, <1>4, <2>1 DEF AgentSound, StartsAreNow, TokensExplained
  <2>3. CASE b = j.a
    BY <1>1, <1>2, <2>2, <2>3 DEF AgentSound, ContainerTended
  <2>4. CASE b # j.a
    BY <1>1, <1>3, <1>4, <2>1, <2>2, <2>4 DEF AgentSound, ContainerTended
  <2> QED
    BY <2>3, <2>4
<1> QED
  BY <1>1, <1>3, <1>4, HostFrame DEF HTyped

\* A container that is up: its token becomes that of the runtime.
LEMMA StartedSound ==
  ASSUME HostedInv, Started
  PROVE  HostedInv'
<1>1. HTyped /\ UNCHANGED <<hspec, hlife, hcont, hraced, hnext, hbusy>>
  BY DEF HostedInv, Started
<1>2. PICK j \in hjobs :
        LET s == <<j.a, j.life>> IN
        /\ j.kind = "run"
        /\ htok' = revoke(j.a, hst[s].tok, htok)
        /\ hst' = [hst EXCEPT ![s] = [@ EXCEPT !.up = Container, !.tok = j.tok]]
        /\ hjobs' = hjobs \ {j}
  BY DEF Started
<1>3. PICK s : s = <<j.a, j.life>>
  OBVIOUS
<1>4. j \in JobRec /\ s \in Ag \X HLife /\ hst[s] \in StateRec
  BY <1>1, <1>3 DEF HTyped, JobRec
<1>5. PICK x : x = [hst[s] EXCEPT !.up = Container, !.tok = j.tok]
  OBVIOUS
<1>6. x \in StateRec /\ x.up = Container /\ x.tok = j.tok
  BY <1>4, <1>5 DEF StateRec, JobRec
<1>7. hst' = [hst EXCEPT ![s] = x] /\ htok' = revoke(j.a, hst[s].tok, htok) /\ hjobs' = hjobs \ {j}
  BY <1>2, <1>3, <1>5
<1>8. hst' \in [Ag \X HLife -> StateRec] /\ hst'[s] = x
      /\ \A q \in Ag \X HLife : q # s => hst'[q] = hst[q]
  BY <1>1, <1>4, <1>6, <1>7 DEF HTyped
<1>9. /\ hjobs' \in SUBSET JobRec /\ htok' \in SUBSET [n : Nat, of : Ag]
      /\ \A t \in htok' : t \in htok /\ t # [n |-> hst[s].tok, of |-> j.a]
      /\ \A i \in hjobs' : i \in hjobs
      /\ \A i \in hjobs : i \in hjobs' \/ i = j
  BY <1>1, <1>7 DEF HTyped, revoke
<1>10. ASSUME NEW b \in Ag, AgentSound(b) PROVE AgentSound(b)'
  <2>1. CASE b # j.a
    <3>1. Here(b) \in Ag \X HLife /\ Here(b) # s /\ Here(b)' = Here(b)
      BY <1>1, <1>3, <2>1, HostedParts DEF Here
    <3>2. Now(b)' = Now(b)
      BY <1>8, <3>1 DEF Now
    <3> QED
      BY <1>1, <1>9, <1>10, <2>1, <3>2, AgentKeeps
  <2>2. CASE b = j.a
    <3>1. j.life = hlife[b] /\ Exists(b)
      BY <1>2, <1>10, <2>2 DEF AgentSound, StartsAreNow
    <3>2. Here(b) = s /\ Now(b) = hst[s] /\ Now(b)' = x /\ Exists(b)'
      BY <1>1, <1>3, <1>8, <2>2, <3>1 DEF Now, Here, Exists
    <3>3. StartsAreNow(b)'
      BY <1>1, <1>9, <1>10, <3>2 DEF AgentSound, StartsAreNow
    <3>4. TokensExplained(b)'
      <4> SUFFICES ASSUME NEW t \in htok', t.of = b
                   PROVE  \/ t.n = x.tok
                          \/ \E i \in hjobs' : i.a = b /\ i.kind = "run" /\ i.tok = t.n
        BY <3>2 DEF TokensExplained
      <4>1. t \in htok /\ t # [n |-> hst[s].tok, of |-> b]
        BY <1>9, <2>2
      <4>2. t = [n |-> t.n, of |-> t.of]
        BY <1>1, <4>1 DEF HTyped
      <4>3. t.n # Now(b).tok
        BY <3>2, <4>1, <4>2
      <4>4. PICK i \in hjobs : i.a = b /\ i.kind = "run" /\ i.tok = t.n
        BY <1>10, <4>1, <4>3 DEF AgentSound, TokensExplained
      <4> QED
        BY <1>6, <1>9, <4>4
    <3>5. ContainerTended(b)'
      BY <1>6, <3>2 DEF ContainerTended
    <3> QED
      BY <3>3, <3>4, <3>5 DEF AgentSound
  <2> QED
    BY <2>1, <2>2
<1> QED
  BY <1>1, <1>8, <1>9, <1>10, HostFrame DEF HTyped

\* A container that did not come up: its token goes, the container is on its way out.
LEMMA FailsSound ==
  ASSUME HostedInv, StartFails
  PROVE  HostedInv'
<1>1. HTyped /\ UNCHANGED <<hspec, hlife, hst, hcont, hraced, hnext, hbusy>>
  BY DEF HostedInv, StartFails
<1>2. PICK j \in hjobs :
        /\ j.kind = "run" /\ htok' = revoke(j.a, j.tok, htok)
        /\ hjobs' = (hjobs \ {j}) \cup {[j EXCEPT !.kind = "stop", !.ver = 0, !.tok = NoToken]}
  BY DEF StartFails
<1>3. j \in JobRec
  BY <1>1 DEF HTyped
<1>4. PICK r : r = [j EXCEPT !.kind = "stop", !.ver = 0, !.tok = NoToken]
  OBVIOUS
<1>5. r \in JobRec /\ r.kind = "stop" /\ r.a = j.a
  BY <1>3, <1>4 DEF JobRec, JobKinds, NoToken
<1>6. hjobs' = (hjobs \ {j}) \cup {r}
  BY <1>2, <1>4
<1>7. /\ hjobs' \in SUBSET JobRec /\ r \in hjobs'
      /\ \A i \in hjobs' : i \in hjobs \/ i = r
      /\ \A i \in hjobs : i \in hjobs' \/ i = j
  BY <1>1, <1>5, <1>6 DEF HTyped
<1>8. /\ htok' \in SUBSET [n : Nat, of : Ag]
      /\ \A t \in htok' : t \in htok /\ t # [n |-> j.tok, of |-> j.a]
  BY <1>1, <1>2 DEF HTyped, revoke
<1>9. ASSUME NEW b \in Ag, AgentSound(b) PROVE AgentSound(b)'
  <2>1. Now(b)' = Now(b) /\ (Exists(b)' <=> Exists(b))
    BY <1>1 DEF Now, Here, Exists
  <2>2. StartsAreNow(b)'
    BY <1>1, <1>5, <1>7, <1>9, <2>1 DEF AgentSound, StartsAreNow
  <2>3. TokensExplained(b)'
    <3> SUFFICES ASSUME NEW t \in htok', t.of = b
                 PROVE  \/ Exists(b)' /\ t.n = Now(b)'.tok
                        \/ \E i \in hjobs' : i.a = b /\ i.kind = "run" /\ i.tok = t.n
      BY DEF TokensExplained
    <3>1. t \in htok /\ t # [n |-> j.tok, of |-> j.a]
      BY <1>8
    <3>2. t = [n |-> t.n, of |-> t.of]
      BY <1>1, <3>1 DEF HTyped
    <3>3. \/ Exists(b) /\ t.n = Now(b).tok
          \/ \E i \in hjobs : i.a = b /\ i.kind = "run" /\ i.tok = t.n
      BY <1>9, <3>1 DEF AgentSound, TokensExplained
    <3>4. ASSUME NEW i \in hjobs, i.a = b, i.kind = "run", i.tok = t.n PROVE i \in hjobs'
      BY <1>7, <3>1, <3>2, <3>4
    <3> QED
      BY <2>1, <3>3, <3>4
  <2>4. ContainerTended(b)'
    BY <1>1, <1>5, <1>7, <1>9, <2>1 DEF AgentSound, ContainerTended
  <2> QED
    BY <2>2, <2>3, <2>4 DEF AgentSound
<1> QED
  BY <1>1, <1>7, <1>8, <1>9, HostFrame DEF HTyped

\* Docker stopped a container; the sweep stops an idle one.
LEMMA StopsSound ==
  ASSUME HostedInv, DockerStops \/ Sweep
  PROVE  HostedInv'
<1>1. HTyped /\ UNCHANGED <<hspec, hlife, hraced, hnext, hbusy>>
  BY DEF HostedInv, DockerStops, Sweep
<1>2. CASE DockerStops
  <2>1. UNCHANGED <<hst, htok>>
    BY <1>2 DEF DockerStops
  <2>2. PICK j \in hjobs :
          /\ j.kind \in {"stop", "remove"}
          /\ hcont' = [hcont EXCEPT ![j.a] = 0]
          /\ hjobs' = IF j.kind = "stop" THEN hjobs \ {j} ELSE (hjobs \ {j}) \cup {[j EXCEPT !.kind = "images"]}
    BY <1>2 DEF DockerStops
  <2>3. j \in JobRec
    BY <1>1 DEF HTyped
  <2>4. PICK r : r = [j EXCEPT !.kind = "images"]
    OBVIOUS
  <2>5. r \in JobRec /\ r.kind = "images"
    BY <2>3, <2>4 DEF JobRec, JobKinds
  <2>6. /\ hjobs' \in SUBSET JobRec
        /\ \A i \in hjobs' : i \in hjobs \/ i = r
        /\ \A i \in hjobs : i \in hjobs' \/ i = j
    BY <1>1, <2>2, <2>4, <2>5 DEF HTyped
  <2>7. /\ DOMAIN hcont' = Ag /\ \A b \in Ag : hcont'[b] \in {hcont[b], 0}
        /\ hcont'[j.a] = 0
    BY <1>1, <2>2, <2>3 DEF HTyped, JobRec
  <2>8. /\ \A i \in hjobs' : i.kind \in {"room", "run"} =>
             \E k \in hjobs : k.a = i.a /\ k.kind \in {"room", "run"} /\ k.life = i.life
        /\ \A k \in hjobs : k.kind = "run" => \E i \in hjobs' : i.a = k.a /\ i.kind = "run" /\ i.tok = k.tok
        /\ \A k \in hjobs : k.kind \in {"stop", "remove"} /\ hcont'[k.a] # 0 =>
             \E i \in hjobs' : i.a = k.a /\ i.kind \in {"run", "stop", "remove"}
    BY <2>2, <2>5, <2>6, <2>7
  <2> QED
    BY <1>1, <2>1, <2>6, <2>7, <2>8, JobsMove DEF HTyped
<1>3. CASE Sweep
  <2>1. hcont' = hcont
    BY <1>3 DEF Sweep
  <2>2. PICK a \in Ag : Exists(a) /\ stopContainer(a)
    BY <1>3 DEF Sweep, running
  <2>3. /\ hst' = [hst EXCEPT ![Here(a)] = Stopped(@)]
        /\ htok' = revoke(a, Now(a).tok, htok)
        /\ hjobs' = hjobs \cup {StopJob(a)}
    BY <2>2 DEF stopContainer
  <2>4. PICK x : x = Stopped(Now(a))
    OBVIOUS
  <2>5. x \in StateRec /\ x.tok = NoToken /\ Here(a) \in Ag \X HLife
    BY <1>1, <2>4, HostedParts
  <2>6. hst' = [hst EXCEPT ![Here(a)] = x]
    BY <2>3, <2>4 DEF Now
  <2>7. /\ hst' \in [Ag \X HLife -> StateRec] /\ hst'[Here(a)] = x
        /\ \A b \in Ag : b # a => hst'[Here(b)] = hst[Here(b)]
    <3>1. hst' \in [Ag \X HLife -> StateRec] /\ hst'[Here(a)] = x
      BY <1>1, <2>5, <2>6 DEF HTyped
    <3>2. \A b \in Ag : b # a => Here(b) # Here(a) /\ Here(b) \in Ag \X HLife
      BY <1>1, HostedParts DEF Here
    <3> QED
      BY <1>1, <2>6, <3>1, <3>2 DEF HTyped
  <2>8. StopJob(a) \in JobRec /\ StopJob(a).kind = "stop"
    BY <1>1, HostedParts
  <2>9. /\ hjobs' \in SUBSET JobRec /\ StopJob(a) \in hjobs'
        /\ \A i \in hjobs' : i.kind \in {"room", "run"} => i \in hjobs
        /\ \A i \in hjobs : i \in hjobs'
    BY <1>1, <2>3, <2>8 DEF HTyped
  <2> QED
    BY <1>1, <2>1, <2>2, <2>3, <2>5, <2>7, <2>9, OneStops
<1> QED
  BY <1>2, <1>3
\* After a restart nothing runs, and only the prompt agents have a token.
LEMMA RestartSound ==
  ASSUME HostedInv, HostRestart
  PROVE  HostedInv'
<1>1. /\ HTyped /\ UNCHANGED <<hspec, hlife>> /\ hcont' = [a \in Ag |-> 0] /\ hraced' = {}
      /\ hjobs' = {Job("build", a, hlife[a], hspec[a].ver) : a \in {x \in Ag : Exists(x) /\ hspec[x].mode = "code"}}
  BY DEF HostedInv, HostRestart
<1>2. PICK prompts \in SUBSET Ag :
        /\ prompts = {a \in Ag : Exists(a) /\ hspec[a].mode = "prompt"}
        /\ htok' = {[n |-> hnext', of |-> a] : a \in prompts}
        /\ hst' = [s \in DOMAIN hst |-> IF s[1] \in prompts /\ s[2] = hlife[s[1]]
                      THEN [live |-> hspec[s[1]].ver, up |-> Router, tok |-> hnext'] ELSE Fresh]
  BY DEF HostRestart
<1>3. hnext' \in Nat /\ LivesFew'
  <2>1. hnext' = hnext + 1 /\ hbusy < MaxHosted /\ hbusy' = hbusy + 1
    BY DEF HostRestart, Turn, HBusy
  <2>2. hbusy \in Nat /\ MaxHosted \in Nat /\ \A a \in Ag : hlife[a] \in Nat /\ hlife[a] <= hbusy
    BY <1>1, HostedAssumption, HostedParts DEF HostedInv, LivesFew, HLife
  <2> QED
    BY <1>1, <2>1, <2>2 DEF LivesFew, HTyped
<1>4. \A j \in hjobs' : j \in JobRec /\ j.kind = "build"
  <2> SUFFICES ASSUME NEW a \in Ag
               PROVE  Job("build", a, hlife[a], hspec[a].ver) \in JobRec
                      /\ Job("build", a, hlife[a], hspec[a].ver).kind = "build"
    BY <1>1
  <2> QED
    BY <1>1, HostedParts DEF Job, JobRec, JobKinds, SpecRec, NoToken
<1>5. \A t \in htok' : t \in [n : Nat, of : Ag] /\ t.of \in prompts /\ t.n = hnext'
  BY <1>2, <1>3
<1>6. hst' \in [Ag \X HLife -> StateRec]
  <2>1. DOMAIN hst = Ag \X HLife
    BY <1>1 DEF HTyped
  <2>2. Fresh \in StateRec
    BY DEF Fresh, StateRec, NoToken
  <2>3. ASSUME NEW s \in Ag \X HLife
        PROVE  [live |-> hspec[s[1]].ver, up |-> Router, tok |-> hnext'] \in StateRec
    BY <1>1, <1>3, HostedParts DEF StateRec, SpecRec
  <2> QED
    BY <1>2, <2>1, <2>2, <2>3
<1>7. HTyped'
  BY <1>1, <1>3, <1>4, <1>5, <1>6 DEF HTyped, HLife, SpecRec, StateRec, JobRec, JobKinds
<1>8. ASSUME NEW a \in Ag PROVE AgentSound(a)'
  <2>1. StartsAreNow(a)'
    BY <1>4 DEF StartsAreNow
  <2>2. TokensExplained(a)'
    <3> SUFFICES ASSUME NEW t \in htok', t.of = a
                 PROVE  Exists(a)' /\ t.n = Now(a)'.tok
      BY DEF TokensExplained
    <3>1. a \in prompts /\ t.n = hnext' /\ Exists(a)'
      BY <1>1, <1>2, <1>5 DEF Exists
    <3>2. PICK s : s = <<a, hlife[a]>>
      OBVIOUS
    <3>3. s \in Ag \X HLife /\ s[1] = a /\ s[2] = hlife[a] /\ Here(a)' = s /\ DOMAIN hst = Ag \X HLife
      BY <1>1, <3>2, HostedParts DEF Here, HTyped
    <3>4. hst'[s] = [live |-> hspec[s[1]].ver, up |-> Router, tok |-> hnext']
      BY <1>2, <3>1, <3>3
    <3>5. Now(a)'.tok = hnext'
      BY <3>3, <3>4 DEF Now
    <3> QED
      BY <3>1, <3>5
  <2>3. ContainerTended(a)'
    BY <1>1 DEF ContainerTended
  <2> QED
    BY <2>1, <2>2, <2>3 DEF AgentSound
<1> QED
  BY <1>3, <1>7, <1>8 DEF HostedInv

\* Every token the gateway accepts is the one its agent holds, and no container runs that
\* the host does not know, whenever nothing of the agent is under way (issue and revoke of
\* hosted-agent-gateway.ts, stopContainer and resolve of hosted-agent-host.ts), for any
\* agents, any room for containers and any number of starts, changes and restarts; save of
\* an agent that, since the last restart, was removed or made a prompt agent while its
\* container started: that start leaves its token and its container behind (hraced).
THEOREM NoStrayTokens == HostedSpec => []TokensAreHeld
<1>1. HostedInit => HostedInv
  <2> SUFFICES ASSUME HostedInit PROVE HostedInv
    OBVIOUS
  <2>1. [ver |-> 0, mode |-> "prompt"] \in SpecRec /\ Fresh \in StateRec /\ 0 \in HLife
    BY HostedAssumption DEF SpecRec, Fresh, StateRec, NoToken, HLife
  <2>2. HTyped
    BY <2>1 DEF HostedInit, HTyped, HLife
  <2>3. LivesFew
    BY HostedAssumption DEF HostedInit, LivesFew
  <2>4. \A a \in Ag : AgentSound(a)
    BY DEF HostedInit, AgentSound, StartsAreNow, TokensExplained, ContainerTended
  <2> QED
    BY <2>2, <2>3, <2>4 DEF HostedInv
<1>2. HostedInv /\ [HostedNext]_hvars => HostedInv'
  <2> SUFFICES ASSUME HostedInv, [HostedNext]_hvars PROVE HostedInv'
    OBVIOUS
  <2>1. CASE HostCreate \/ HostUpdate
    BY <2>1, SpecsMove
  <2>2. CASE HostRemove
    BY <2>2, RemovalSound
  <2>3. CASE BuildEnds \/ BuildFails \/ RemoveImages
    BY <2>3, BuildsSound
  <2>4. CASE Resolve \/ MakeRoom
    BY <2>4, RoomSound
  <2>5. CASE StartRuns
    BY <2>5, RunsSound
  <2>6. CASE DockerRun
    BY <2>6, DockerRunSound
  <2>7. CASE Started
    BY <2>7, StartedSound
  <2>8. CASE StartFails
    BY <2>8, FailsSound
  <2>9. CASE DockerStops \/ Sweep
    BY <2>9, StopsSound
  <2>10. CASE HostRestart
    BY <2>10, RestartSound
  <2>11. CASE UNCHANGED hvars
    <3>1. UNCHANGED <<hspec, hlife, hst, htok, hjobs, hcont, hraced, hnext, hbusy>>
      BY <2>11 DEF hvars
    <3>2. \A a \in Ag : AgentSound(a)' <=> AgentSound(a)
      BY <3>1 DEF AgentSound, StartsAreNow, TokensExplained, ContainerTended, Exists, Now, Here
    <3> QED
      BY <3>1, <3>2 DEF HostedInv, HTyped, LivesFew, HLife, SpecRec, StateRec, JobRec, JobKinds
  <2> QED
    BY <2>1, <2>2, <2>3, <2>4, <2>5, <2>6, <2>7, <2>8, <2>9, <2>10, <2>11 DEF HostedNext
<1>3. HostedInv => TokensAreHeld
  <2> SUFFICES ASSUME HostedInv, NEW a \in Ag \ hraced,
                      \A j \in hjobs : j.a = a => j.kind \in {"build", "images"}
               PROVE  /\ \A t \in htok : t.of = a => Exists(a) /\ t.n = Now(a).tok
                      /\ hcont[a] # 0 => Exists(a) /\ Now(a).up = Container
    BY DEF TokensAreHeld
  <2>1. AgentSound(a)
    BY DEF HostedInv
  <2> QED
    BY <2>1 DEF AgentSound, TokensExplained, ContainerTended
<1> QED
  BY <1>1, <1>2, <1>3, PTL DEF HostedSpec

-----------------------------------------------------------------------------
(* Deployments (Projects). *)

PKinds == {"service", "agent", "script", "none"}
PStatus == {"queued", "building", "ready", "error"}
RowRec == [on : BOOLEAN, kind : PKinds, status : PStatus \cup {"idle"}, last : Nat]
DepRec == [p : Proj \cup {"deleted"}, sha : Commit \cup {"head"}, run : BOOLEAN, status : PStatus, kind : PKinds]
BuildRec == [d : Nat, p : Proj, sha : Commit \cup {"head"}, run : BOOLEAN,
             pc : {"clone", "service", "agent", "script", "run", "health", "swap"}, prior : Nat]
AskedRec == [p : Proj, row : RowRec]

PTyped ==
  /\ prow \in [Proj -> RowRec]
  /\ dep \in Seq(DepRec)
  /\ pqueue \in [Proj -> Seq(Nat)]
  /\ pbuilds \in SUBSET BuildRec
  /\ plive \in [Proj -> Nat]
  /\ pasked \in SUBSET AskedRec

InQueue(k, p) == \E m \in DOMAIN pqueue[p] : pqueue[p][m] = k
InBuild(k, p) == \E b \in pbuilds : b.p = p /\ b.d = k
InLine(k, p) == InQueue(k, p) \/ InBuild(k, p)

\* What waits or is built is the project's own, or was deleted meanwhile.
OfProject(p) == \A k : InLine(k, p) => k \in Numbers /\ dep[k].p \in {p, "deleted"}
\* The queue holds the deployments in the order they came, the build is before it.
QueueRises(p) ==
  /\ \A m, n \in DOMAIN pqueue[p] : m <= n => pqueue[p][m] <= pqueue[p][n]
  /\ \A b \in pbuilds : b.p = p => \A m \in DOMAIN pqueue[p] : b.d <= pqueue[p][m]
OneBuild(p) == \A b, c \in pbuilds : b.p = p /\ c.p = p => b = c
\* What is ready came before whatever is in line, and what is not finished is in line.
ReadyFirst(p) == \A i \in deploymentsOf(p) : dep[i].status = "ready" => \A k : InLine(k, p) => i <= k
OpenInLine(p) == \A i \in Unfinished(p) : InLine(i, p)
\* A build that ends without a container is not of a service; one that swaps is live already.
BuildKind(p) == \A b \in pbuilds : b.p = p =>
  /\ b.pc \in {"agent", "script"} /\ dep[b.d].p = p => dep[b.d].kind # "service"
  /\ b.pc = "swap" => plive[p] = b.d
NewestLives(p) == plive[p] # 0 =>
  \A i \in deploymentsOf(p) : dep[i].status = "ready" /\ dep[i].kind = "service" => i <= plive[p]
RowsOn(p) == \A i \in Numbers : dep[i].p = p => prow[p].on

ProjectSound(p) == OfProject(p) /\ QueueRises(p) /\ OneBuild(p) /\ ReadyFirst(p) /\ OpenInLine(p)
                   /\ BuildKind(p) /\ NewestLives(p) /\ RowsOn(p)
ProjectsInv == PTyped /\ (\A r \in pasked : r.row.on) /\ \A p \in Proj : ProjectSound(p)

LEMMA DepParts ==
  ASSUME PTyped
  PROVE  Len(dep) \in Nat /\ Numbers = 1..Len(dep) /\ \A i \in Numbers : dep[i] \in DepRec
BY LenProperties DEF PTyped, Numbers

\* A project of which a step only deletes rows, if anything.
LEMMA ProjectStill ==
  ASSUME NEW p \in Proj, ProjectSound(p),
         pqueue'[p] = pqueue[p], plive'[p] = plive[p],
         \A i \in Numbers : i \in Numbers' /\ dep'[i].p \in {dep[i].p, "deleted"},
         \A i \in Numbers' : dep'[i].p = p =>
           i \in Numbers /\ dep[i].p = p /\ dep'[i].run = dep[i].run
           /\ dep'[i].status = dep[i].status /\ dep'[i].kind = dep[i].kind,
         \A b : b.p = p => (b \in pbuilds' <=> b \in pbuilds),
         \A i \in Numbers' : dep'[i].p = p => prow'[p].on
  PROVE  ProjectSound(p)'
<1>1. \A k : InLine(k, p)' <=> InLine(k, p)
  BY DEF InLine, InQueue, InBuild
<1>2. \A i : i \in deploymentsOf(p)' => i \in deploymentsOf(p) /\ dep'[i].status = dep[i].status /\ dep'[i].kind = dep[i].kind
  BY DEF deploymentsOf
<1>3. OfProject(p)'
  BY <1>1, ProjectsAssumption DEF ProjectSound, OfProject
<1>4. QueueRises(p)'
  BY DEF ProjectSound, QueueRises
<1>5. OneBuild(p)'
  BY DEF ProjectSound, OneBuild
<1>6. ReadyFirst(p)'
  BY <1>1, <1>2 DEF ProjectSound, ReadyFirst
<1>7. OpenInLine(p)'
  BY <1>1, <1>2 DEF ProjectSound, OpenInLine, Unfinished
<1>8. BuildKind(p)'
  <2> SUFFICES ASSUME NEW b \in pbuilds', b.p = p
               PROVE  /\ b.pc \in {"agent", "script"} /\ dep'[b.d].p = p => dep'[b.d].kind # "service"
                      /\ b.pc = "swap" => plive'[p] = b.d
    BY DEF BuildKind
  <2>1. b \in pbuilds /\ b.d \in Numbers
    BY DEF ProjectSound, OfProject, InLine, InBuild
  <2> QED
    BY <2>1 DEF ProjectSound, BuildKind
<1>9. NewestLives(p)'
  BY <1>2 DEF ProjectSound, NewestLives
<1>10. RowsOn(p)'
  BY DEF RowsOn
<1> QED
  BY <1>3, <1>4, <1>5, <1>6, <1>7, <1>8, <1>9, <1>10 DEF ProjectSound

\* Queues: one more at the end, the first one off.
LEMMA QueueAppend ==
  ASSUME NEW q \in Seq(Nat), NEW n \in Nat
  PROVE  /\ Append(q, n) \in Seq(Nat)
         /\ \A m \in DOMAIN Append(q, n) :
              \/ m \in DOMAIN q /\ Append(q, n)[m] = q[m]
              \/ Append(q, n)[m] = n /\ \A k \in DOMAIN q : k < m
         /\ \A m \in DOMAIN q : m \in DOMAIN Append(q, n) /\ Append(q, n)[m] = q[m]
         /\ \E m \in DOMAIN Append(q, n) : Append(q, n)[m] = n
<1>1. Len(q) \in Nat /\ DOMAIN q = 1..Len(q)
  BY LenProperties
<1>2. /\ Append(q, n) \in Seq(Nat) /\ Len(Append(q, n)) = Len(q) + 1
      /\ \A i \in 1..Len(q) : Append(q, n)[i] = q[i]
      /\ Append(q, n)[Len(q) + 1] = n
  BY AppendProperties
<1>3. DOMAIN Append(q, n) = 1..(Len(q) + 1)
  BY <1>2, LenProperties
<1> QED
  BY <1>1, <1>2, <1>3

LEMMA QueueTail ==
  ASSUME NEW q \in Seq(Nat), q # << >>
  PROVE  /\ Tail(q) \in Seq(Nat) /\ Head(q) \in Nat
         /\ 1 \in DOMAIN q /\ Head(q) = q[1]
         /\ \A m \in DOMAIN Tail(q) : m \in Nat /\ 1 <= m /\ m + 1 \in DOMAIN q /\ Tail(q)[m] = q[m + 1]
         /\ \A m \in DOMAIN q : m = 1 \/ \E n \in DOMAIN Tail(q) : Tail(q)[n] = q[m]
<1>1. Len(q) \in Nat \ {0} /\ DOMAIN q = 1..Len(q)
  BY LenProperties, EmptySeq
<1>2. /\ Head(q) \in Nat /\ Tail(q) \in Seq(Nat) /\ Len(Tail(q)) = Len(q) - 1
      /\ \A i \in 1..Len(Tail(q)) : Tail(q)[i] = q[i + 1]
  BY HeadTailProperties
<1>3. DOMAIN Tail(q) = 1..(Len(q) - 1)
  BY <1>2, LenProperties
<1>4. Head(q) = q[1]
  OBVIOUS
<1>5. ASSUME NEW m \in DOMAIN q, m # 1 PROVE \E n \in DOMAIN Tail(q) : Tail(q)[n] = q[m]
  <2>1. m - 1 \in DOMAIN Tail(q) /\ (m - 1) + 1 = m
    BY <1>1, <1>3, <1>5
  <2>2. Tail(q)[m - 1] = q[m]
    BY <1>2, <1>3, <2>1
  <2> QED
    BY <2>1, <2>2
<1> QED
  BY <1>1, <1>2, <1>3, <1>4, <1>5

\* A function on the positions of a sequence is one.
LEMMA SameLength ==
  ASSUME NEW S, NEW T, NEW s \in Seq(T), NEW f, f \in [DOMAIN s -> S]
  PROVE  f \in Seq(S)
<1>1. Len(s) \in Nat /\ DOMAIN s = 1..Len(s)
  BY LenProperties
<1>2. Seq(S) = UNION {[1..n -> S] : n \in Nat}
  BY SeqDef
<1> QED
  BY <1>1, <1>2

\* A deployment or a run is added, and waits.
LEMMA ProjectArrives ==
  ASSUME PTyped, NEW p \in Proj, ProjectSound(p), NEW r \in DepRec, r.p = p, r.status = "queued",
         dep' = Append(dep, r), pqueue'[p] = Append(pqueue[p], Len(dep) + 1),
         plive'[p] = plive[p], pbuilds' = pbuilds, prow'[p].on
  PROVE  ProjectSound(p)'
<1>1. Len(dep) \in Nat /\ Numbers = 1..Len(dep)
  BY DepParts
<1>2. /\ Numbers' = 1..(Len(dep) + 1)
      /\ \A i \in Numbers : dep'[i] = dep[i]
      /\ dep'[Len(dep) + 1] = r
  <2>1. /\ dep' \in Seq(DepRec) /\ Len(dep') = Len(dep) + 1
        /\ \A i \in 1..Len(dep) : dep'[i] = dep[i]
        /\ dep'[Len(dep) + 1] = r
    BY AppendProperties DEF PTyped
  <2>2. DOMAIN dep' = 1..(Len(dep) + 1)
    BY <2>1, LenProperties
  <2> QED
    BY <1>1, <2>1, <2>2 DEF Numbers
<1>3. pqueue[p] \in Seq(Nat) /\ Len(dep) + 1 \in Nat
  BY <1>1 DEF PTyped
<1>4. PICK n : n = Len(dep) + 1
  OBVIOUS
<1>5. PICK q : q = pqueue[p]
  OBVIOUS
<1>6. /\ pqueue'[p] = Append(q, n) /\ q \in Seq(Nat) /\ n \in Nat
      /\ n \in Numbers' /\ dep'[n] = r
      /\ \A i \in Numbers' : i \in Numbers \/ i = n
      /\ \A i \in Numbers : i \in Numbers' /\ i < n
  BY <1>1, <1>2, <1>3, <1>4, <1>5
<1>7. /\ \A m \in DOMAIN Append(q, n) :
           \/ m \in DOMAIN q /\ Append(q, n)[m] = q[m]
           \/ Append(q, n)[m] = n /\ \A k \in DOMAIN q : k < m
      /\ \A m \in DOMAIN q : m \in DOMAIN Append(q, n) /\ Append(q, n)[m] = q[m]
      /\ \E m \in DOMAIN Append(q, n) : Append(q, n)[m] = n
  BY <1>6, QueueAppend
<1>8. /\ \A k : InLine(k, p)' => InLine(k, p) \/ k = n
      /\ \A k : InLine(k, p) => InLine(k, p)'
      /\ InLine(n, p)'
  BY <1>5, <1>6, <1>7 DEF InLine, InQueue, InBuild
<1>9. \A k : InLine(k, p) => k \in Numbers /\ dep[k].p \in {p, "deleted"}
  BY DEF ProjectSound, OfProject
<1>10. /\ \A i : i \in deploymentsOf(p) <=> i \in deploymentsOf(p)' /\ i # n
       /\ \A i \in deploymentsOf(p) : dep'[i] = dep[i]
  BY <1>1, <1>2, <1>6 DEF deploymentsOf
<1>11. OfProject(p)'
  BY <1>2, <1>6, <1>8, <1>9 DEF OfProject
<1>12. QueueRises(p)'
  <2>1. ASSUME NEW m1 \in DOMAIN Append(q, n), NEW m2 \in DOMAIN Append(q, n), m1 <= m2
        PROVE  Append(q, n)[m1] <= Append(q, n)[m2]
    <3>1. \A m \in DOMAIN q : m \in Nat /\ q[m] \in Nat /\ q[m] <= n
      <4>1. DOMAIN q = 1..Len(q) /\ Len(q) \in Nat
        BY <1>6, LenProperties
      <4>2. \A m \in DOMAIN q : InLine(q[m], p)
        BY <1>5 DEF InLine, InQueue
      <4> QED
        BY SMTT(30), <1>1, <1>6, <1>9, <4>1, <4>2
    <3>2. CASE m2 \in DOMAIN q
      <4>1. m1 \in DOMAIN q
        BY <1>7, <2>1, <3>1, <3>2
      <4> QED
        BY <1>5, <1>7, <2>1, <3>2, <4>1 DEF ProjectSound, QueueRises
    <3>3. CASE m2 \notin DOMAIN q
      BY SMTT(30), <1>6, <1>7, <3>1, <3>3
    <3> QED
      BY <3>2, <3>3
  <2>2. ASSUME NEW b \in pbuilds, b.p = p, NEW m \in DOMAIN Append(q, n)
        PROVE  b.d <= Append(q, n)[m]
    <3>1. InLine(b.d, p)
      BY <2>2 DEF InLine, InBuild
    <3>2. b.d \in Nat /\ b.d <= n
      BY <1>1, <1>6, <1>9, <3>1
    <3> QED
      BY <1>5, <1>7, <2>2, <3>2 DEF ProjectSound, QueueRises
  <2> QED
    BY <1>6, <2>1, <2>2 DEF QueueRises
<1>13. OneBuild(p)'
  BY DEF ProjectSound, OneBuild
<1>14. ReadyFirst(p)'
  <2> SUFFICES ASSUME NEW i \in deploymentsOf(p)', dep'[i].status = "ready", NEW k, InLine(k, p)'
               PROVE  i <= k
    BY DEF ReadyFirst
  <2>1. i \in deploymentsOf(p) /\ dep[i].status = "ready"
    BY <1>6, <1>10
  <2>2. CASE k = n
    BY <1>1, <1>6, <2>1, <2>2 DEF deploymentsOf
  <2>3. CASE InLine(k, p)
    BY <2>1, <2>3 DEF ProjectSound, ReadyFirst
  <2> QED
    BY <1>8, <2>2, <2>3
<1>15. OpenInLine(p)'
  <2> SUFFICES ASSUME NEW i \in deploymentsOf(p)', dep'[i].status \in {"queued", "building"}
               PROVE  InLine(i, p)'
    BY DEF OpenInLine, Unfinished
  <2>1. i # n => i \in Unfinished(p)
    BY <1>10 DEF Unfinished
  <2> QED
    BY <1>8, <2>1 DEF ProjectSound, OpenInLine
<1>16. BuildKind(p)'
  <2> SUFFICES ASSUME NEW b \in pbuilds, b.p = p
               PROVE  /\ b.pc \in {"agent", "script"} /\ dep'[b.d].p = p => dep'[b.d].kind # "service"
                      /\ b.pc = "swap" => plive'[p] = b.d
    BY DEF BuildKind
  <2>1. dep'[b.d] = dep[b.d]
    BY <1>2, <1>9 DEF InLine, InBuild
  <2> QED
    BY <2>1 DEF ProjectSound, BuildKind
<1>17. NewestLives(p)'
  <2> SUFFICES ASSUME plive[p] # 0, NEW i \in deploymentsOf(p)', dep'[i].status = "ready", dep'[i].kind = "service"
               PROVE  i <= plive[p]
    BY DEF NewestLives
  <2>1. i \in deploymentsOf(p) /\ dep'[i] = dep[i]
    BY <1>6, <1>10
  <2> QED
    BY <2>1 DEF ProjectSound, NewestLives
<1>18. RowsOn(p)'
  BY DEF RowsOn
<1> QED
  BY <1>11, <1>12, <1>13, <1>14, <1>15, <1>16, <1>17, <1>18 DEF ProjectSound

\* The first in the queue is nobody's any more.
LEMMA ProjectDrops ==
  ASSUME PTyped, NEW p \in Proj, ProjectSound(p), pqueue[p] # << >>,
         pqueue'[p] = Tail(pqueue[p]), dep[Head(pqueue[p])].p # p,
         dep' = dep, prow'[p].on = prow[p].on, plive'[p] = plive[p], pbuilds' = pbuilds
  PROVE  ProjectSound(p)'
<1>1. PICK q : q = pqueue[p]
  OBVIOUS
<1>2. q \in Seq(Nat) /\ q # << >>
  BY <1>1 DEF PTyped
<1>3. /\ 1 \in DOMAIN q /\ Head(q) = q[1]
      /\ \A m \in DOMAIN Tail(q) : m \in Nat /\ 1 <= m /\ m + 1 \in DOMAIN q /\ Tail(q)[m] = q[m + 1]
      /\ \A m \in DOMAIN q : m = 1 \/ \E n \in DOMAIN Tail(q) : Tail(q)[n] = q[m]
  BY <1>2, QueueTail
<1>4. \A k : InLine(k, p)' => InLine(k, p)
  BY <1>1, <1>3 DEF InLine, InQueue, InBuild
<1>5. \A k : InLine(k, p) => InLine(k, p)' \/ k = Head(q)
  BY <1>1, <1>3 DEF InLine, InQueue, InBuild
<1>6. Numbers' = Numbers /\ deploymentsOf(p)' = deploymentsOf(p) /\ Unfinished(p)' = Unfinished(p)
  BY DEF Numbers, deploymentsOf, Unfinished
<1>7. OfProject(p)'
  BY <1>4, <1>6 DEF ProjectSound, OfProject
<1>8. QueueRises(p)'
  <2>1. ASSUME NEW m \in DOMAIN Tail(q), NEW n \in DOMAIN Tail(q), m <= n
        PROVE  Tail(q)[m] <= Tail(q)[n]
    <3>1. m + 1 <= n + 1 /\ m + 1 \in DOMAIN q /\ n + 1 \in DOMAIN q
      BY <1>3, <2>1
    <3>2. q[m + 1] <= q[n + 1]
      BY <1>1, <3>1 DEF ProjectSound, QueueRises
    <3> QED
      BY <1>3, <3>2
  <2>2. ASSUME NEW b \in pbuilds, b.p = p, NEW m \in DOMAIN Tail(q) PROVE b.d <= Tail(q)[m]
    BY <1>1, <1>3, <2>2 DEF ProjectSound, QueueRises
  <2> QED
    BY <1>1, <2>1, <2>2 DEF QueueRises
<1>9. OneBuild(p)' /\ BuildKind(p)' /\ NewestLives(p)'
  BY <1>6 DEF ProjectSound, OneBuild, BuildKind, NewestLives
<1>10. ReadyFirst(p)'
  BY <1>4, <1>6 DEF ProjectSound, ReadyFirst
<1>11. OpenInLine(p)'
  BY <1>1, <1>5, <1>6 DEF ProjectSound, OpenInLine, Unfinished, deploymentsOf
<1>12. RowsOn(p)'
  BY <1>6 DEF ProjectSound, RowsOn
<1> QED
  BY <1>7, <1>8, <1>9, <1>10, <1>11, <1>12 DEF ProjectSound

\* The first in the queue is built.
LEMMA ProjectStarts ==
  ASSUME PTyped, NEW p \in Proj, ProjectSound(p), pqueue[p] # << >>, Idle(p),
         pqueue'[p] = Tail(pqueue[p]), NEW d, d = Head(pqueue[p]), dep[d].p = p,
         Numbers' = Numbers, \A i \in Numbers : i # d => dep'[i] = dep[i],
         dep'[d].p = p, dep'[d].run = dep[d].run, dep'[d].status = "building",
         NEW b, b.d = d, b.p = p, b.pc = "clone", pbuilds' = pbuilds \cup {b},
         plive'[p] = plive[p], prow'[p].on
  PROVE  ProjectSound(p)'
<1>1. PICK q : q = pqueue[p]
  OBVIOUS
<1>2. q \in Seq(Nat) /\ q # << >>
  BY <1>1 DEF PTyped
<1>3. /\ 1 \in DOMAIN q /\ d = q[1]
      /\ \A m \in DOMAIN Tail(q) : m \in Nat /\ 1 <= m /\ m + 1 \in DOMAIN q /\ Tail(q)[m] = q[m + 1]
      /\ \A m \in DOMAIN q : m = 1 \/ \E n \in DOMAIN Tail(q) : Tail(q)[n] = q[m]
  BY <1>1, <1>2, QueueTail
<1>4. \A c \in pbuilds' : c.p = p => c = b
  BY DEF Idle
<1>5. \A k : InLine(k, p)' => InLine(k, p)
  BY <1>1, <1>3, <1>4 DEF InLine, InQueue, InBuild
<1>6. \A k : InLine(k, p) => InLine(k, p)'
  <2>1. InBuild(d, p)'
    BY DEF InBuild
  <2>2. \A k : InBuild(k, p) => FALSE
    BY DEF Idle, InBuild
  <2>3. \A k : InQueue(k, p) => k = d \/ InQueue(k, p)'
    BY <1>1, <1>3 DEF InQueue
  <2> QED
    BY <2>1, <2>2, <2>3 DEF InLine
<1>7. InLine(d, p) /\ d \in Numbers
  BY <1>1, <1>3 DEF InLine, InQueue, ProjectSound, OfProject
<1>8. deploymentsOf(p)' = deploymentsOf(p)
  BY <1>7 DEF deploymentsOf
<1>9. OfProject(p)'
  BY <1>5, <1>7 DEF ProjectSound, OfProject
<1>10. QueueRises(p)'
  <2>1. ASSUME NEW m \in DOMAIN Tail(q), NEW n \in DOMAIN Tail(q), m <= n
        PROVE  Tail(q)[m] <= Tail(q)[n]
    <3>1. m + 1 <= n + 1 /\ m + 1 \in DOMAIN q /\ n + 1 \in DOMAIN q
      BY <1>3, <2>1
    <3>2. q[m + 1] <= q[n + 1]
      BY <1>1, <3>1 DEF ProjectSound, QueueRises
    <3> QED
      BY <1>3, <3>2
  <2>2. ASSUME NEW m \in DOMAIN Tail(q) PROVE d <= Tail(q)[m]
    <3>1. 1 <= m + 1 /\ m + 1 \in DOMAIN q
      BY <1>3
    <3>2. q[1] <= q[m + 1]
      BY <1>1, <1>3, <3>1 DEF ProjectSound, QueueRises
    <3> QED
      BY <1>3, <3>2
  <2> QED
    BY <1>1, <1>4, <2>1, <2>2 DEF QueueRises
<1>11. OneBuild(p)' /\ BuildKind(p)'
  BY <1>4 DEF OneBuild, BuildKind
<1>12. ReadyFirst(p)'
  BY <1>5, <1>8 DEF ProjectSound, ReadyFirst, deploymentsOf
<1>13. OpenInLine(p)'
  <2> SUFFICES ASSUME NEW i \in deploymentsOf(p), dep'[i].status \in {"queued", "building"} PROVE InLine(i, p)
    BY <1>6, <1>8 DEF OpenInLine, Unfinished
  <2>1. CASE i = d
    BY <1>7, <2>1
  <2>2. CASE i # d
    BY <2>2 DEF ProjectSound, OpenInLine, Unfinished, deploymentsOf
  <2> QED
    BY <2>1, <2>2
<1>14. NewestLives(p)'
  BY <1>8 DEF ProjectSound, NewestLives, deploymentsOf
<1>15. RowsOn(p)'
  BY DEF RowsOn
<1> QED
  BY <1>9, <1>10, <1>11, <1>12, <1>13, <1>14, <1>15 DEF ProjectSound

\* A build goes on.
LEMMA ProjectBuilds ==
  ASSUME PTyped, NEW p \in Proj, ProjectSound(p), pqueue'[p] = pqueue[p],
         NEW b \in pbuilds, b.p = p, NEW c, c.p = p, c.d = b.d, pbuilds' = (pbuilds \ {b}) \cup {c},
         Numbers' = Numbers, \A i \in Numbers : i # b.d => dep'[i] = dep[i],
         dep'[b.d].p = dep[b.d].p, dep'[b.d].run = dep[b.d].run,
         \/ dep'[b.d] = dep[b.d]
         \/ dep'[b.d].status = "building",
         c.pc \in {"agent", "script"} /\ dep'[b.d].p = p => dep'[b.d].kind # "service",
         c.pc = "swap" => plive'[p] = b.d,
         plive'[p] \in {plive[p], b.d}, prow'[p].on = prow[p].on
  PROVE  ProjectSound(p)'
<1>1. \A x \in pbuilds' : x.p = p => x = c
  BY DEF ProjectSound, OneBuild
<1>2. \A k : InLine(k, p)' <=> InLine(k, p)
  <2>1. \A k : InBuild(k, p)' <=> k = b.d
    BY <1>1 DEF InBuild
  <2>2. \A k : InBuild(k, p) <=> k = b.d
    BY DEF InBuild, ProjectSound, OneBuild
  <2> QED
    BY <2>1, <2>2 DEF InLine, InQueue
<1>3. InLine(b.d, p) /\ b.d \in Numbers /\ dep[b.d].p \in {p, "deleted"}
  BY DEF InLine, InBuild, ProjectSound, OfProject
<1>4. /\ deploymentsOf(p)' = deploymentsOf(p)
      /\ \A i \in deploymentsOf(p) : dep'[i].status = "ready" => dep'[i] = dep[i]
  BY <1>3 DEF deploymentsOf
<1>5. OfProject(p)'
  BY <1>2, <1>3 DEF ProjectSound, OfProject
<1>6. QueueRises(p)'
  BY <1>1 DEF ProjectSound, QueueRises
<1>7. OneBuild(p)' /\ BuildKind(p)'
  BY <1>1 DEF OneBuild, BuildKind
<1>8. ReadyFirst(p)'
  BY <1>2, <1>4 DEF ProjectSound, ReadyFirst
<1>9. OpenInLine(p)'
  <2> SUFFICES ASSUME NEW i \in deploymentsOf(p), dep'[i].status \in {"queued", "building"} PROVE InLine(i, p)
    BY <1>2, <1>4 DEF OpenInLine, Unfinished
  <2>1. CASE i = b.d
    BY <1>3, <2>1
  <2>2. CASE i # b.d
    BY <2>2 DEF ProjectSound, OpenInLine, Unfinished, deploymentsOf
  <2> QED
    BY <2>1, <2>2
<1>10. NewestLives(p)'
  <2> SUFFICES ASSUME plive'[p] # 0, NEW i \in deploymentsOf(p), dep[i].status = "ready", dep[i].kind = "service"
               PROVE  i <= plive'[p]
    BY <1>4 DEF NewestLives
  <2>1. i <= b.d
    BY <1>3 DEF ProjectSound, ReadyFirst
  <2> QED
    BY <2>1 DEF ProjectSound, NewestLives
<1>11. RowsOn(p)'
  BY <1>3 DEF ProjectSound, RowsOn
<1> QED
  BY <1>5, <1>6, <1>7, <1>8, <1>9, <1>10, <1>11 DEF ProjectSound

\* A build ends: ready, with what it built live or nothing to be live, or in error.
LEMMA ProjectEnds ==
  ASSUME PTyped, NEW p \in Proj, ProjectSound(p), pqueue'[p] = pqueue[p],
         NEW b \in pbuilds, b.p = p, pbuilds' = pbuilds \ {b},
         NEW s \in {"ready", "error"}, Numbers' = Numbers,
         \A i \in Numbers : dep'[i].p \in {dep[i].p, "deleted"},
         \A i \in Numbers : dep'[i].p = p => dep'[i].run = dep[i].run /\ dep'[i].kind = dep[i].kind
                            /\ dep'[i].status = IF i = b.d THEN s ELSE dep[i].status,
         plive'[p] \in {plive[p], b.d},
         plive'[p] = b.d \/ s = "error" \/ dep'[b.d].p # p \/ dep[b.d].kind # "service",
         prow'[p].on = prow[p].on
  PROVE  ProjectSound(p)'
<1>1. \A x \in pbuilds' : x.p # p
  BY DEF ProjectSound, OneBuild
<1>2. /\ \A k : InLine(k, p)' <=> InQueue(k, p)
      /\ \A k : InLine(k, p) => InLine(k, p)' \/ k = b.d
      /\ \A k : InLine(k, p)' => InLine(k, p)
  BY <1>1 DEF InLine, InQueue, InBuild, ProjectSound, OneBuild
<1>3. b.d \in Numbers /\ b.d \in Nat /\ \A k : InQueue(k, p) => b.d <= k
  <2>1. InLine(b.d, p)
    BY DEF InLine, InBuild
  <2>2. b.d \in Numbers
    BY <2>1 DEF ProjectSound, OfProject
  <2>3. \A k : InQueue(k, p) => b.d <= k
    BY DEF InQueue, ProjectSound, QueueRises
  <2> QED
    BY <2>2, <2>3, DepParts
<1>4. \A i : i \in deploymentsOf(p)' => i \in deploymentsOf(p) /\ i \in Numbers /\ dep'[i].p = p
  BY ProjectsAssumption DEF deploymentsOf
<1>5. OfProject(p)'
  BY <1>2, ProjectsAssumption DEF ProjectSound, OfProject
<1>6. QueueRises(p)'
  BY <1>1 DEF ProjectSound, QueueRises
<1>7. OneBuild(p)' /\ BuildKind(p)'
  BY <1>1 DEF OneBuild, BuildKind
<1>8. ReadyFirst(p)'
  <2> SUFFICES ASSUME NEW i \in deploymentsOf(p)', dep'[i].status = "ready", NEW k, InLine(k, p)'
               PROVE  i <= k
    BY DEF ReadyFirst
  <2>1. CASE i = b.d
    BY <1>2, <1>3, <2>1
  <2>2. CASE i # b.d
    BY <1>2, <1>4, <2>2 DEF ProjectSound, ReadyFirst
  <2> QED
    BY <2>1, <2>2
<1>9. OpenInLine(p)'
  <2> SUFFICES ASSUME NEW i \in deploymentsOf(p)', dep'[i].status \in {"queued", "building"} PROVE InLine(i, p)'
    BY DEF OpenInLine, Unfinished
  <2>1. i # b.d /\ i \in Unfinished(p)
    BY <1>4 DEF Unfinished
  <2> QED
    BY <1>2, <2>1 DEF ProjectSound, OpenInLine
<1>10. NewestLives(p)'
  <2> SUFFICES ASSUME plive'[p] # 0, NEW i \in deploymentsOf(p)', dep'[i].status = "ready", dep'[i].kind = "service"
               PROVE  i <= plive'[p]
    BY DEF NewestLives
  <2>1. CASE i = b.d
    <3>1. plive'[p] = b.d
      BY <1>4, <2>1
    <3> QED
      BY <1>3, <2>1, <3>1
  <2>2. CASE i # b.d
    <3>1. i \in deploymentsOf(p) /\ dep[i].status = "ready" /\ dep[i].kind = "service"
      BY <1>4, <2>2
    <3>2. InLine(b.d, p)
      BY DEF InLine, InBuild
    <3>3. i <= b.d
      BY <3>1, <3>2 DEF ProjectSound, ReadyFirst
    <3> QED
      BY <3>1, <3>3 DEF ProjectSound, NewestLives
  <2> QED
    BY <2>1, <2>2
<1>11. RowsOn(p)'
  BY ProjectsAssumption DEF ProjectSound, RowsOn
<1> QED
  BY <1>5, <1>6, <1>7, <1>8, <1>9, <1>10, <1>11 DEF ProjectSound

-----------------------------------------------------------------------------
\* Of some numbers one is the greatest, and NewestIn finds it.
LEMMA GreatestNumber ==
  ASSUME NEW n \in Nat, NEW T \in SUBSET (1..n), T # {}
  PROVE  \E m \in T : \A x \in T : x <= m
<1> DEFINE D == {k \in 0..n : n - k \in T}
<1>1. D \in SUBSET Nat
  OBVIOUS
<1>2. \A x \in T : n - x \in D /\ n - (n - x) = x
  <2> SUFFICES ASSUME NEW x \in T PROVE n - x \in D /\ n - (n - x) = x
    OBVIOUS
  <2>1. x \in 1..n
    OBVIOUS
  <2>2. n - x \in 0..n /\ n - (n - x) = x
    BY <2>1
  <2> QED
    BY <2>2
<1>3. D # {}
  BY <1>2
<1>4. PICK k \in D : \A j \in D : k <= j
  <2> HIDE DEF D
  <2> QED
    BY <1>1, <1>3, LeastNumber
<1>5. n - k \in T
  OBVIOUS
<1>6. ASSUME NEW x \in T PROVE x <= n - k
  <2>1. k <= n - x /\ x \in 1..n /\ k \in 0..n
    BY <1>2, <1>4
  <2> QED
    BY <2>1
<1> QED
  BY <1>5, <1>6

Rises(s, n) == \A i, j \in 1..n : i < j => s[i] < s[j]

LEMMA InOrder ==
  ASSUME NEW n \in Nat, NEW S \in SUBSET (1..n)
  PROVE  \E s \in [1..Cardinality(S) -> S] : Rises(s, Cardinality(S))
<1> DEFINE Good == {T \in SUBSET S : \E s \in [1..Cardinality(T) -> T] : Rises(s, Cardinality(T))}
<1>1. IsFiniteSet(S)
  <2>1. IsFiniteSet(1..n)
    BY FS_Interval
  <2> QED
    BY <2>1, FS_Subset
<1>2. ASSUME NEW T \in SUBSET S, \A x \in T : T \ {x} \in Good PROVE T \in Good
  <2>1. IsFiniteSet(T) /\ Cardinality(T) \in Nat
    BY <1>1, FS_Subset, FS_CardinalityType
  <2>2. CASE T = {}
    <3>1. Cardinality(T) = 0
      BY <2>2, FS_EmptySet
    <3>2. 1..Cardinality(T) = {}
      BY <3>1
    <3>3. PICK s : s = [i \in 1..Cardinality(T) |-> 0]
      OBVIOUS
    <3>4. s \in [1..Cardinality(T) -> T] /\ Rises(s, Cardinality(T))
      BY <3>2, <3>3 DEF Rises
    <3> QED
      BY <3>4
  <2>3. CASE T # {}
    <3>1. PICK m \in T : \A x \in T : x <= m
      BY <2>3, GreatestNumber
    <3>2. PICK c \in Nat : c = Cardinality(T) - 1 /\ c = Cardinality(T \ {m}) /\ Cardinality(T) = c + 1
      <4>1. Cardinality(T \ {m}) = Cardinality(T) - 1 /\ IsFiniteSet(T \ {m})
        BY <2>1, FS_RemoveElement
      <4>2. Cardinality(T \ {m}) \in Nat
        BY <4>1, FS_CardinalityType
      <4> QED
        BY <2>1, <4>1, <4>2
    <3>3. PICK s \in [1..c -> T \ {m}] : Rises(s, c)
      BY <1>2, <3>2
    <3>4. PICK t : t = [i \in 1..(c + 1) |-> IF i = c + 1 THEN m ELSE s[i]]
      OBVIOUS
    <3>5. \A i \in 1..(c + 1) : i = c + 1 \/ i \in 1..c
      BY <3>2
    <3>6. \A i \in 1..c : s[i] \in T /\ s[i] # m /\ s[i] \in Nat /\ m \in Nat /\ s[i] < m /\ t[i] = s[i] /\ i # c + 1
      <4> SUFFICES ASSUME NEW i \in 1..c
                   PROVE  s[i] \in T /\ s[i] # m /\ s[i] \in Nat /\ m \in Nat /\ s[i] < m /\ t[i] = s[i] /\ i # c + 1
        OBVIOUS
      <4>1. s[i] \in T /\ s[i] # m
        OBVIOUS
      <4>2. s[i] \in 1..n /\ m \in 1..n /\ s[i] <= m
        BY <3>1, <4>1
      <4>3. i \in 1..(c + 1) /\ i # c + 1
        BY <3>2
      <4>4. t[i] = s[i]
        BY <3>4, <4>3
      <4> QED
        BY <4>1, <4>2, <4>3, <4>4
    <3>7. t[c + 1] = m /\ c + 1 \in 1..(c + 1)
      BY <3>2, <3>4
    <3>8. t \in [1..(c + 1) -> T]
      BY <3>4, <3>5, <3>6
    <3>9. Rises(t, c + 1)
      <4> SUFFICES ASSUME NEW i \in 1..(c + 1), NEW j \in 1..(c + 1), i < j PROVE t[i] < t[j]
        BY DEF Rises
      <4>1. i \in 1..c
        BY <3>2
      <4>2. CASE j = c + 1
        BY <3>6, <3>7, <4>1, <4>2
      <4>3. CASE j \in 1..c
        BY <3>3, <3>6, <4>1, <4>3 DEF Rises
      <4> QED
        BY <3>5, <4>2, <4>3
    <3> QED
      BY <3>2, <3>8, <3>9
  <2> QED
    BY <2>2, <2>3
<1> HIDE DEF Good
<1>3. \A T \in SUBSET S : T \in Good
  BY <1>1, <1>2, SmallerSets
<1> QED
  BY <1>3 DEF Good

\* What recover puts in a queue: every number of the set, in order.
LEMMA AscendingIs ==
  ASSUME NEW n \in Nat, NEW S \in SUBSET (1..n)
  PROVE  /\ Ascending(S) \in Seq(Nat)
         /\ \A i, j \in DOMAIN Ascending(S) : i <= j => Ascending(S)[i] <= Ascending(S)[j]
         /\ \A m \in DOMAIN Ascending(S) : Ascending(S)[m] \in S
         /\ \A x \in S : \E m \in DOMAIN Ascending(S) : Ascending(S)[m] = x
<1> DEFINE A == Ascending(S)
           c == Cardinality(S)
<1>1. IsFiniteSet(S) /\ c \in Nat
  <2>1. IsFiniteSet(1..n)
    BY FS_Interval
  <2>2. IsFiniteSet(S)
    BY <2>1, FS_Subset
  <2> QED
    BY <2>2, FS_CardinalityType
<1>2. PICK s \in [1..c -> S] : Rises(s, c)
  BY InOrder
<1>3. s \in [1..c -> S] /\ \A i, j \in DOMAIN s : i < j => s[i] < s[j]
  BY <1>2 DEF Rises
<1>4. A \in [1..c -> S] /\ \A i, j \in DOMAIN A : i < j => A[i] < A[j]
  BY <1>3 DEF Ascending
<1> HIDE DEF A, c
<1>5. \A i \in 1..c : A[i] \in S /\ A[i] \in Nat
  <2>1. \A i \in 1..c : A[i] \in S
    BY <1>4
  <2>2. \A x \in S : x \in Nat
    OBVIOUS
  <2> QED
    BY <2>1, <2>2
<1>6. A \in Seq(Nat)
  <2>1. A \in [1..c -> Nat]
    BY <1>4, <1>5
  <2> QED
    BY <1>1, <2>1, SeqDef
<1>7. \A x \in S : \E m \in 1..c : A[m] = x
  <2>1. A \in Injection(1..c, S)
    <3>1. ASSUME NEW i \in 1..c, NEW j \in 1..c, i # j PROVE A[i] # A[j]
      <4>1. i < j \/ j < i
        BY <1>1, <3>1
      <4>2. A[i] < A[j] \/ A[j] < A[i]
        BY <1>4, <4>1
      <4> QED
        BY <1>5, <4>2
    <3> QED
      BY <1>4, <3>1 DEF Injection, IsInjective
  <2>2. Cardinality(1..c) = c
    BY <1>1, FS_Interval
  <2>3. A \in Surjection(1..c, S)
    BY <1>1, <2>1, <2>2, FS_Injection DEF c
  <2> QED
    BY <2>3 DEF Surjection
<1>8. \A i, j \in 1..c : i <= j => A[i] <= A[j]
  <2> SUFFICES ASSUME NEW i \in 1..c, NEW j \in 1..c, i <= j PROVE A[i] <= A[j]
    OBVIOUS
  <2>1. i = j \/ i < j
    BY <1>1
  <2> QED
    BY <1>4, <1>5, <2>1
<1>9. DOMAIN A = 1..c
  BY <1>4
<1> QED
  BY <1>5, <1>6, <1>7, <1>8, <1>9 DEF A

\* recover: what is not finished, and the newest service, wait again.
LEMMA ProjectRecovers ==
  ASSUME PTyped, NEW p \in Proj, ProjectSound(p),
         pbuilds' = {}, plive'[p] = 0, pqueue'[p] = Ascending(Again(p)),
         dep' = [i \in Numbers |-> IF dep[i].p \in Proj /\ i \in Again(dep[i].p)
                                   THEN [dep[i] EXCEPT !.status = "queued"] ELSE dep[i]],
         prow'[p].on = prow[p].on
  PROVE  ProjectSound(p)'
<1>1. /\ Numbers = 1..Len(dep) /\ Len(dep) \in Nat /\ Numbers' = Numbers
      /\ \A i \in Numbers : dep[i] \in DepRec
  BY DepParts DEF Numbers
<1>2. \A i \in Numbers : dep'[i].p = dep[i].p /\ dep'[i].run = dep[i].run
  BY <1>1 DEF DepRec
<1>3. \A i \in Numbers : dep[i].p = p /\ i \notin Again(p) => dep'[i] = dep[i]
  OBVIOUS
<1>4. \A i \in Numbers : dep[i].p = p /\ i \in Again(p) => dep'[i].status = "queued"
  BY <1>1 DEF DepRec
<1>5. deploymentsOf(p)' = deploymentsOf(p)
  BY <1>1, <1>2 DEF deploymentsOf
<1>6. \A i \in Again(p) : i \in deploymentsOf(p) /\ i \in Numbers /\ dep[i].p = p
  BY DEF Again, Unfinished, BroughtBack, deploymentsOf
<1>7. PICK S : S = Again(p)
  OBVIOUS
<1>8. S \in SUBSET (1..Len(dep))
  BY <1>1, <1>6, <1>7
<1>9. /\ \A i, j \in DOMAIN pqueue'[p] : i <= j => pqueue'[p][i] <= pqueue'[p][j]
      /\ \A k : InLine(k, p)' <=> k \in S
  <2>1. /\ \A i, j \in DOMAIN Ascending(S) : i <= j => Ascending(S)[i] <= Ascending(S)[j]
        /\ \A m \in DOMAIN Ascending(S) : Ascending(S)[m] \in S
        /\ \A x \in S : \E m \in DOMAIN Ascending(S) : Ascending(S)[m] = x
    BY <1>1, <1>8, AscendingIs
  <2>2. pqueue'[p] = Ascending(S)
    BY <1>7
  <2> QED
    BY <2>1, <2>2 DEF InLine, InQueue, InBuild
<1>10. OfProject(p)'
  BY <1>1, <1>2, <1>6, <1>7, <1>9 DEF OfProject
<1>11. QueueRises(p)' /\ OneBuild(p)' /\ BuildKind(p)' /\ NewestLives(p)'
  BY <1>9 DEF QueueRises, OneBuild, BuildKind, NewestLives
<1>12. ReadyFirst(p)'
  <2> SUFFICES ASSUME NEW i \in deploymentsOf(p), dep'[i].status = "ready", NEW k \in S PROVE i <= k
    BY <1>5, <1>9 DEF ReadyFirst
  <2>1. i \in Numbers /\ dep[i].p = p /\ i \notin Again(p) /\ dep[i].status = "ready"
    BY <1>3, <1>4 DEF deploymentsOf
  <2>2. k \in Unfinished(p) \/ k \in BroughtBack(p)
    BY <1>7 DEF Again
  <2>3. CASE k \in Unfinished(p)
    BY <2>1, <2>3 DEF ProjectSound, OpenInLine, ReadyFirst
  <2>4. CASE k \in BroughtBack(p)
    <3>1. k = NewestIn(deploymentsOf(p)) /\ deploymentsOf(p) # {}
      BY <2>4 DEF BroughtBack
    <3>2. deploymentsOf(p) \in SUBSET (1..Len(dep))
      BY <1>1 DEF deploymentsOf
    <3>3. PICK D : D = deploymentsOf(p)
      OBVIOUS
    <3>4. \E m \in D : \A x \in D : x <= m
      BY <1>1, <3>1, <3>2, <3>3, GreatestNumber
    <3>5. \A x \in D : x \in Nat
      BY <1>1, <3>2, <3>3
    <3>6. \E m \in D : \A x \in D : m >= x
      BY <3>4, <3>5
    <3>7. \A x \in D : NewestIn(D) >= x
      BY <3>1, <3>3, <3>6 DEF NewestIn
    <3>8. k \in D
      BY <2>4, <3>3 DEF BroughtBack
    <3> QED
      BY <3>1, <3>3, <3>5, <3>7, <3>8
  <2> QED
    BY <2>2, <2>3, <2>4
<1>13. OpenInLine(p)'
  <2> SUFFICES ASSUME NEW i \in deploymentsOf(p), dep'[i].status \in {"queued", "building"} PROVE i \in S
    BY <1>5, <1>9 DEF OpenInLine, Unfinished
  <2>1. i \in Numbers /\ dep[i].p = p /\ prow[p].on
    BY DEF deploymentsOf, ProjectSound, RowsOn
  <2>2. i \notin Again(p) => i \in Unfinished(p)
    BY <1>3, <2>1 DEF Unfinished
  <2> QED
    BY <1>7, <2>1, <2>2 DEF Again
<1>14. RowsOn(p)'
  BY <1>1, <1>2 DEF ProjectSound, RowsOn
<1> QED
  BY <1>10, <1>11, <1>12, <1>13, <1>14 DEF ProjectSound

-----------------------------------------------------------------------------
\* What the steps leave typed.
LEMMA ProjectFrame ==
  ASSUME ProjectsInv, prow' \in [Proj -> RowRec], dep' \in Seq(DepRec), pqueue' \in [Proj -> Seq(Nat)],
         pbuilds' \in SUBSET BuildRec, plive' \in [Proj -> Nat],
         \A r \in pasked' : r \in pasked \/ (r \in AskedRec /\ r.row.on),
         \A p \in Proj : ProjectSound(p) => ProjectSound(p)'
  PROVE  ProjectsInv'
<1>1. \A r \in pasked' : r \in AskedRec /\ r.row.on
  BY DEF ProjectsInv, PTyped
<1>2. PTyped'
  BY <1>1 DEF PTyped, RowRec, DepRec, BuildRec, AskedRec, PStatus, PKinds
<1> QED
  BY <1>1, <1>2 DEF ProjectsInv

\* Projects are made, asked about and deleted.
LEMMA RowsMove ==
  ASSUME ProjectsInv, CreateProject \/ AutoBind \/ RedeployAsked \/ DeleteProject
  PROVE  ProjectsInv'
<1>1. PTyped /\ UNCHANGED <<pqueue, pbuilds, plive>>
  BY DEF ProjectsInv, CreateProject, AutoBind, RedeployAsked, DeleteProject
<1>2. CASE CreateProject \/ AutoBind
  <2>1. PICK q \in Proj, kind \in PKinds : create(q, kind)
    BY <1>2, ProjectsAssumption DEF CreateProject, AutoBind, PKinds
  <2>2. UNCHANGED <<dep, pasked>>
    BY <1>2 DEF CreateProject, AutoBind
  <2>3. prow[q] \in RowRec
    BY <1>1 DEF PTyped
  <2>4. PICK x : x = [prow[q] EXCEPT !.on = TRUE, !.kind = kind]
    OBVIOUS
  <2>5. x \in RowRec /\ x.on
    BY <2>3, <2>4 DEF RowRec
  <2>6. prow' = [prow EXCEPT ![q] = x]
    BY <2>1, <2>4 DEF create
  <2>7. prow' \in [Proj -> RowRec] /\ \A p \in Proj : prow[p].on => prow'[p].on
    BY <1>1, <2>5, <2>6 DEF PTyped
  <2>8. ASSUME NEW p \in Proj, ProjectSound(p) PROVE ProjectSound(p)'
    <3>1. \A i \in Numbers : dep[i].p = p => prow'[p].on
      BY <2>7, <2>8 DEF ProjectSound, RowsOn
    <3>2. Numbers' = Numbers
      BY <2>2 DEF Numbers
    <3> QED
      BY <1>1, <2>2, <2>8, <3>1, <3>2, ProjectStill
  <2> QED
    BY <1>1, <2>2, <2>7, <2>8, ProjectFrame DEF PTyped
<1>3. CASE RedeployAsked
  <2>1. UNCHANGED <<prow, dep>>
    BY <1>3 DEF RedeployAsked
  <2>2. PICK q \in Proj : prow[q].on /\ pasked' = pasked \cup {[p |-> q, row |-> prow[q]]}
    BY <1>3 DEF RedeployAsked
  <2>3. PICK r : r = [p |-> q, row |-> prow[q]]
    OBVIOUS
  <2>4. r \in AskedRec /\ r.row.on /\ pasked' = pasked \cup {r}
    BY <1>1, <2>2, <2>3 DEF PTyped, AskedRec
  <2>5. ASSUME NEW p \in Proj, ProjectSound(p) PROVE ProjectSound(p)'
    <3>1. Numbers' = Numbers
      BY <2>1 DEF Numbers
    <3>2. \A i \in Numbers : dep[i].p = p => prow[p].on
      BY <2>5 DEF ProjectSound, RowsOn
    <3> QED
      BY <1>1, <2>1, <2>5, <3>1, <3>2, ProjectStill
  <2> QED
    BY <1>1, <2>1, <2>4, <2>5, ProjectFrame DEF PTyped
<1>4. CASE DeleteProject
  <2>1. pasked' = pasked
    BY <1>4 DEF DeleteProject
  <2>2. PICK q \in Proj :
          /\ prow' = [prow EXCEPT ![q].on = FALSE]
          /\ dep' = [i \in Numbers |-> IF dep[i].p = q THEN [dep[i] EXCEPT !.p = "deleted"] ELSE dep[i]]
    BY <1>4 DEF DeleteProject
  <2>3. prow[q] \in RowRec
    BY <1>1 DEF PTyped
  <2>4. PICK x : x = [prow[q] EXCEPT !.on = FALSE]
    OBVIOUS
  <2>5. x \in RowRec
    BY <2>3, <2>4 DEF RowRec
  <2>6. prow' = [prow EXCEPT ![q] = x]
    BY <2>2, <2>4
  <2>7. prow' \in [Proj -> RowRec] /\ \A p \in Proj : p # q => prow'[p] = prow[p]
    BY <1>1, <2>5, <2>6 DEF PTyped
  <2>8. \A i \in Numbers : dep[i] \in DepRec
    BY <1>1, DepParts
  <2>9. \A i \in Numbers :
          /\ dep[i].p = q => dep'[i] \in DepRec /\ dep'[i].p = "deleted"
          /\ dep[i].p # q => dep'[i] = dep[i]
    BY <2>2, <2>8 DEF DepRec
  <2>10. dep' \in [DOMAIN dep -> DepRec] /\ Numbers' = Numbers
    BY <2>2, <2>8, <2>9 DEF Numbers
  <2>11. dep' \in Seq(DepRec)
    BY <1>1, <2>10, SameLength DEF PTyped
  <2>12. ASSUME NEW p \in Proj, ProjectSound(p) PROVE ProjectSound(p)'
    <3>1. \A i \in Numbers : dep[i].p = p => prow[p].on
      BY <2>12 DEF ProjectSound, RowsOn
    <3>2. \A i \in Numbers : dep'[i].p = p => dep[i].p = p /\ p # q /\ dep'[i] = dep[i] /\ prow'[p].on
      BY <2>7, <2>9, <3>1, ProjectsAssumption
    <3>3. \A i \in Numbers : dep'[i].p \in {dep[i].p, "deleted"}
      BY <2>9
    <3> QED
      BY <1>1, <2>10, <2>12, <3>2, <3>3, ProjectStill
  <2> QED
    BY <1>1, <2>1, <2>7, <2>11, <2>12, ProjectFrame DEF PTyped
<1> QED
  BY <1>2, <1>3, <1>4

\* createDeployment or createRun, and the queue.
LEMMA Enqueued ==
  ASSUME ProjectsInv, NEW p \in Proj, NEW r \in DepRec, r.p = p, r.status = "queued",
         dep' = Append(dep, r), enqueue(p),
         prow' \in [Proj -> RowRec], prow'[p].on, \A q \in Proj : q # p => prow'[q] = prow[q],
         UNCHANGED <<pbuilds, plive>>, \A a \in pasked' : a \in pasked
  PROVE  ProjectsInv'
<1>1. PTyped /\ Len(dep) \in Nat /\ Numbers = 1..Len(dep)
  BY DepParts DEF ProjectsInv
<1>2. /\ dep' \in Seq(DepRec) /\ Len(dep') = Len(dep) + 1
      /\ \A i \in 1..Len(dep) : dep'[i] = dep[i]
      /\ dep'[Len(dep) + 1] = r
  BY <1>1, AppendProperties DEF PTyped
<1>3. Numbers' = 1..(Len(dep) + 1)
  BY <1>2, LenProperties DEF Numbers
<1>4. PICK q : q = Append(pqueue[p], Len(dep) + 1)
  OBVIOUS
<1>5. q \in Seq(Nat) /\ pqueue' = [pqueue EXCEPT ![p] = q]
  BY <1>1, <1>4, QueueAppend DEF enqueue, PTyped
<1>6. /\ pqueue' \in [Proj -> Seq(Nat)] /\ pqueue'[p] = q
      /\ \A x \in Proj : x # p => pqueue'[x] = pqueue[x]
  BY <1>1, <1>5 DEF PTyped
<1>7. ASSUME NEW x \in Proj, ProjectSound(x) PROVE ProjectSound(x)'
  <2>1. CASE x = p
    BY <1>1, <1>4, <1>6, <1>7, <2>1, ProjectArrives
  <2>2. CASE x # p
    <3>1. \A i \in Numbers' : dep'[i].p = x => i \in Numbers /\ dep'[i] = dep[i]
      BY <1>1, <1>2, <1>3, <2>2
    <3>2. \A i \in Numbers : i \in Numbers' /\ dep'[i] = dep[i]
      BY <1>1, <1>2, <1>3
    <3>3. \A i \in Numbers' : dep'[i].p = x => prow'[x].on
      BY <1>7, <2>2, <3>1 DEF ProjectSound, RowsOn
    <3> QED
      BY <1>6, <1>7, <2>2, <3>1, <3>2, <3>3, ProjectStill
  <2> QED
    BY <2>1, <2>2
<1> QED
  BY <1>1, <1>2, <1>6, <1>7, ProjectFrame DEF PTyped

\* createDeployment writes a row that is on.
LEMMA Deployed ==
  ASSUME ProjectsInv, NEW p \in Proj, NEW row \in RowRec, row.on, NEW sha \in Commit \cup {"head"},
         createDeployment(p, row, sha), enqueue(p),
         UNCHANGED <<pbuilds, plive>>, \A a \in pasked' : a \in pasked
  PROVE  ProjectsInv'
<1>1. PTyped /\ Len(dep) \in Nat
  BY DepParts DEF ProjectsInv
<1>2. PICK r : r = Deployment(p, sha, FALSE)
  OBVIOUS
<1>3. r \in DepRec /\ r.p = p /\ r.status = "queued" /\ dep' = Append(dep, r)
  BY <1>2 DEF Deployment, DepRec, PStatus, PKinds, createDeployment
<1>4. PICK x : x = [row EXCEPT !.status = "queued", !.last = Len(dep) + 1]
  OBVIOUS
<1>5. x \in RowRec /\ x.on
  <2>1. PICK n \in Nat : n = Len(dep) + 1
    BY <1>1
  <2>2. x = [row EXCEPT !.status = "queued", !.last = n]
    BY <1>4, <2>1
  <2>3. x \in RowRec
    BY <2>2 DEF RowRec, PStatus
  <2>4. x.on = row.on
    BY <2>2 DEF RowRec
  <2> QED
    BY <2>3, <2>4
<1>6. prow' = [prow EXCEPT ![p] = x]
  BY <1>4 DEF createDeployment
<1>7. prow' \in [Proj -> RowRec] /\ prow'[p].on /\ \A q \in Proj : q # p => prow'[q] = prow[q]
  BY <1>1, <1>5, <1>6 DEF PTyped
<1> QED
  BY <1>3, <1>7, Enqueued

LEMMA ArrivalsMove ==
  ASSUME ProjectsInv, PushHook \/ redeploy \/ RedeployAnswered \/ createRun
  PROVE  ProjectsInv'
<1>1. PTyped /\ UNCHANGED <<pbuilds, plive>>
  BY DEF ProjectsInv, PushHook, redeploy, RedeployAnswered, createRun
<1>2. \A p \in Proj : prow[p] \in RowRec
  BY <1>1 DEF PTyped
<1>3. \A i \in Numbers : dep[i].sha \in Commit \cup {"head"}
  BY <1>1, DepParts DEF DepRec
<1>4. CASE PushHook
  <2>1. PICK p \in Proj, sha \in Commit : prow[p].on /\ createDeployment(p, prow[p], sha) /\ enqueue(p)
    BY <1>4 DEF PushHook
  <2>2. PICK row \in RowRec : row = prow[p]
    BY <1>2
  <2>3. PICK s \in Commit \cup {"head"} : s = sha
    OBVIOUS
  <2> QED
    BY <1>1, <1>4, <2>1, <2>2, <2>3, Deployed DEF PushHook
<1>5. CASE redeploy
  <2>1. PICK i \in Numbers : Kept(i) /\ prow[dep[i].p].on
                             /\ createDeployment(dep[i].p, prow[dep[i].p], dep[i].sha) /\ enqueue(dep[i].p)
    BY <1>5 DEF redeploy
  <2>2. PICK p \in Proj : p = dep[i].p
    BY <2>1 DEF Kept
  <2>3. PICK row \in RowRec : row = prow[p]
    BY <1>2
  <2>4. PICK s \in Commit \cup {"head"} : s = dep[i].sha
    BY <1>3
  <2> QED
    BY <1>1, <1>5, <2>1, <2>2, <2>3, <2>4, Deployed DEF redeploy
<1>6. CASE RedeployAnswered
  <2>1. PICK r \in pasked :
          /\ pasked' = pasked \ {r}
          /\ IF r.row.last \notin Numbers \/ dep[r.row.last].p # r.p THEN UNCHANGED <<prow, dep, pqueue>>
             ELSE createDeployment(r.p, r.row, dep[r.row.last].sha) /\ enqueue(r.p)
    BY <1>6 DEF RedeployAnswered
  <2>2. r \in AskedRec /\ r.row.on
    BY <1>1 DEF ProjectsInv, PTyped
  <2>3. CASE r.row.last \notin Numbers \/ dep[r.row.last].p # r.p
    <3>1. UNCHANGED <<prow, dep, pqueue>>
      BY <2>1, <2>3
    <3>2. ASSUME NEW p \in Proj, ProjectSound(p) PROVE ProjectSound(p)'
      <4>1. \A i \in Numbers : dep[i].p = p => prow[p].on
        BY <3>2 DEF ProjectSound, RowsOn
      <4>2. Numbers' = Numbers
        BY <3>1 DEF Numbers
      <4> QED
        BY <1>1, <3>1, <3>2, <4>1, <4>2, ProjectStill
    <3> QED
      BY <1>1, <2>1, <3>1, <3>2, ProjectFrame DEF PTyped
  <2>4. CASE r.row.last \in Numbers /\ dep[r.row.last].p = r.p
    <3>1. createDeployment(r.p, r.row, dep[r.row.last].sha) /\ enqueue(r.p)
      BY <2>1, <2>4
    <3>2. PICK p \in Proj : p = r.p
      BY <2>2 DEF AskedRec
    <3>3. PICK row \in RowRec : row = r.row
      BY <2>2 DEF AskedRec
    <3>4. PICK s \in Commit \cup {"head"} : s = dep[r.row.last].sha
      BY <1>3, <2>4
    <3>5. \A a \in pasked' : a \in pasked
      BY <2>1
    <3> QED
      BY <1>1, <2>2, <3>1, <3>2, <3>3, <3>4, <3>5, Deployed
  <2> QED
    BY <2>3, <2>4
<1>7. CASE createRun
  <2>1. PICK p \in Proj : prow[p].on /\ dep' = Append(dep, Deployment(p, "head", TRUE)) /\ enqueue(p)
    BY <1>7 DEF createRun
  <2>2. UNCHANGED <<prow, pasked>>
    BY <1>7 DEF createRun
  <2>3. PICK r : r = Deployment(p, "head", TRUE)
    OBVIOUS
  <2>4. r \in DepRec /\ r.p = p /\ r.status = "queued" /\ dep' = Append(dep, r)
    BY <2>1, <2>3 DEF Deployment, DepRec, PStatus, PKinds
  <2>5. prow' \in [Proj -> RowRec]
    BY <1>1, <2>2 DEF PTyped
  <2> QED
    BY <1>1, <2>1, <2>2, <2>4, <2>5, Enqueued
<1> QED
  BY <1>4, <1>5, <1>6, <1>7

\* updateDeployment
LEMMA UpdatedIs ==
  ASSUME PTyped, NEW i \in Numbers, NEW status \in PStatus, NEW kind \in PKinds, Updated(i, status, kind)
  PROVE  /\ prow' \in [Proj -> RowRec] /\ \A p \in Proj : prow'[p].on = prow[p].on
         /\ dep' \in Seq(DepRec) /\ Numbers' = Numbers
         /\ \A j \in Numbers : j # i => dep'[j] = dep[j]
         /\ dep'[i].p = dep[i].p /\ dep'[i].run = dep[i].run
         /\ Kept(i) => dep'[i].status = status /\ dep'[i].kind = kind
         /\ ~Kept(i) => dep'[i] = dep[i]
<1>1. CASE ~Kept(i)
  <2>1. UNCHANGED <<prow, dep>>
    BY <1>1 DEF Updated
  <2> QED
    BY <1>1, <2>1 DEF PTyped, Numbers
<1>2. CASE Kept(i)
  <2>1. PICK p \in Proj : p = dep[i].p
    BY <1>2 DEF Kept
  <2>2. /\ dep' = [dep EXCEPT ![i].status = status, ![i].kind = kind]
        /\ prow' = IF Speaks(i, p)
                   THEN [prow EXCEPT ![p].status = status, ![p].kind = IF kind = "none" THEN @ ELSE kind]
                   ELSE prow
    BY <1>2, <2>1 DEF Updated
  <2>3. dep[i] \in DepRec /\ prow[p] \in RowRec
    BY DepParts DEF PTyped
  <2>4. PICK x : x = [dep[i] EXCEPT !.status = status, !.kind = kind]
    OBVIOUS
  <2>5. x \in DepRec /\ x.p = dep[i].p /\ x.run = dep[i].run /\ x.status = status /\ x.kind = kind
    BY <2>3, <2>4 DEF DepRec
  <2>6. Numbers = 1..Len(dep) /\ dep \in Seq(DepRec)
    BY DepParts DEF PTyped
  <2>7. dep' = [dep EXCEPT ![i] = x]
    BY <2>2, <2>4, <2>6 DEF Numbers
  <2>8. /\ dep' \in Seq(DepRec) /\ Len(dep') = Len(dep)
        /\ \A j \in 1..Len(dep) : dep'[j] = IF j = i THEN x ELSE dep[j]
    BY <2>5, <2>6, <2>7, ExceptSeq
  <2>9. Numbers' = Numbers
    BY <2>6, <2>8, LenProperties DEF Numbers
  <2>10. prow' \in [Proj -> RowRec] /\ \A q \in Proj : prow'[q].on = prow[q].on
    <3>1. PICK k : k = IF kind = "none" THEN prow[p].kind ELSE kind
      OBVIOUS
    <3>2. PICK y : y = [prow[p] EXCEPT !.status = status, !.kind = k]
      OBVIOUS
    <3>3. y \in RowRec /\ y.on = prow[p].on
      BY <2>3, <3>1, <3>2 DEF RowRec
    <3>4. prow' = prow \/ prow' = [prow EXCEPT ![p] = y]
      BY <2>2, <3>1, <3>2 DEF PTyped
    <3> QED
      BY <3>3, <3>4 DEF PTyped
  <2> QED
    BY <1>2, <2>5, <2>6, <2>8, <2>9, <2>10
<1> QED
  BY <1>1, <1>2

\* Another project's build, deployment or queue.
LEMMA Elsewhere ==
  ASSUME NEW q \in Proj, ProjectSound(q), NEW i, dep[i].p # q, dep'[i].p = dep[i].p,
         Numbers' = Numbers, \A j \in Numbers : j # i => dep'[j] = dep[j],
         pqueue'[q] = pqueue[q], plive'[q] = plive[q],
         \A b : b.p = q => (b \in pbuilds' <=> b \in pbuilds), prow'[q].on = prow[q].on
  PROVE  ProjectSound(q)'
<1>1. \A j \in Numbers : dep'[j].p = dep[j].p /\ (dep'[j].p = q => dep'[j] = dep[j])
  OBVIOUS
<1>2. \A j \in Numbers : dep'[j].p = q => prow'[q].on
  BY <1>1 DEF ProjectSound, RowsOn
<1> QED
  BY <1>1, <1>2, ProjectStill

\* pump
LEMMA PumpMoves ==
  ASSUME ProjectsInv, Pump
  PROVE  ProjectsInv'
<1>1. PTyped /\ UNCHANGED <<plive, pasked>>
  BY DEF ProjectsInv, Pump
<1>2. PICK p \in Proj :
        LET d == Head(pqueue[p]) IN
        /\ pqueue[p] # << >> /\ Idle(p)
        /\ pqueue' = [pqueue EXCEPT ![p] = Tail(@)]
        /\ IF Kept(d) /\ prow[p].on
           THEN /\ Updated(d, "building", dep[d].kind)
                /\ pbuilds' = pbuilds \cup {[d |-> d, p |-> p, sha |-> dep[d].sha, run |-> dep[d].run,
                                            pc |-> "clone", prior |-> 0]}
           ELSE UNCHANGED <<prow, dep, pbuilds>>
  BY DEF Pump
<1>3. PICK d : d = Head(pqueue[p])
  OBVIOUS
<1>4. ProjectSound(p)
  BY DEF ProjectsInv
<1>5. PICK q : q = pqueue[p]
  OBVIOUS
<1>6. q \in Seq(Nat) /\ q # << >> /\ Tail(q) \in Seq(Nat) /\ d \in Nat /\ 1 \in DOMAIN q /\ d = q[1]
  BY <1>1, <1>2, <1>3, <1>5, QueueTail DEF PTyped
<1>7. d \in Numbers /\ dep[d].p \in {p, "deleted"}
  BY <1>4, <1>5, <1>6 DEF ProjectSound, OfProject, InLine, InQueue
<1>8. pqueue' = [pqueue EXCEPT ![p] = Tail(q)]
  BY <1>2, <1>5
<1>9. /\ pqueue' \in [Proj -> Seq(Nat)] /\ pqueue'[p] = Tail(q)
      /\ \A x \in Proj : x # p => pqueue'[x] = pqueue[x]
  BY <1>1, <1>6, <1>8 DEF PTyped
<1>10. CASE ~ (Kept(d) /\ prow[p].on)
  <2>1. UNCHANGED <<prow, dep, pbuilds>>
    BY <1>2, <1>3, <1>10
  <2>2. dep[d].p # p
    BY <1>4, <1>7, <1>10 DEF Kept, ProjectSound, RowsOn
  <2>3. ASSUME NEW x \in Proj, ProjectSound(x) PROVE ProjectSound(x)'
    <3>1. CASE x = p
      BY <1>1, <1>2, <1>3, <1>4, <1>5, <1>9, <2>1, <2>2, <3>1, ProjectDrops
    <3>2. CASE x # p
      <4>1. \A i \in Numbers : dep[i].p = x => prow[x].on
        BY <2>3 DEF ProjectSound, RowsOn
      <4>2. Numbers' = Numbers
        BY <2>1 DEF Numbers
      <4> QED
        BY <1>1, <1>9, <2>1, <2>3, <3>2, <4>1, <4>2, ProjectStill
    <3> QED
      BY <3>1, <3>2
  <2> QED
    BY <1>1, <1>9, <2>1, <2>3, ProjectFrame DEF PTyped
<1>11. CASE Kept(d) /\ prow[p].on
  <2>1. dep[d].p = p
    BY <1>7, <1>11, ProjectsAssumption DEF Kept
  <2>2. PICK b : b = [d |-> d, p |-> p, sha |-> dep[d].sha, run |-> dep[d].run, pc |-> "clone", prior |-> 0]
    OBVIOUS
  <2>3. pbuilds' = pbuilds \cup {b} /\ Updated(d, "building", dep[d].kind)
    BY <1>2, <1>3, <1>11, <2>2
  <2>4. dep[d] \in DepRec
    BY <1>1, <1>7, DepParts
  <2>5. b \in BuildRec /\ b.d = d /\ b.p = p /\ b.pc = "clone"
    BY <1>6, <2>2, <2>4 DEF DepRec, BuildRec
  <2>6. PICK status \in PStatus : status = "building"
    BY DEF PStatus
  <2>7. PICK kind \in PKinds : kind = dep[d].kind
    BY <2>4 DEF DepRec
  <2>8. Updated(d, status, kind)
    BY <2>3, <2>6, <2>7
  <2>9. /\ prow' \in [Proj -> RowRec] /\ \A x \in Proj : prow'[x].on = prow[x].on
        /\ dep' \in Seq(DepRec) /\ Numbers' = Numbers
        /\ \A j \in Numbers : j # d => dep'[j] = dep[j]
        /\ dep'[d].p = dep[d].p /\ dep'[d].run = dep[d].run
        /\ Kept(d) => dep'[d].status = status
    BY <1>1, <1>7, <2>8, UpdatedIs
  <2>10. ASSUME NEW x \in Proj, ProjectSound(x) PROVE ProjectSound(x)'
    <3>1. CASE x = p
      BY SMTT(30), <1>1, <1>2, <1>3, <1>4, <1>5, <1>9, <1>11, <2>1, <2>3, <2>5, <2>6, <2>9, <3>1, ProjectStarts
    <3>2. CASE x # p
      <4>1. \A c : c.p = x => (c \in pbuilds' <=> c \in pbuilds)
        BY <2>3, <2>5, <3>2
      <4> QED
        BY <1>1, <1>9, <2>1, <2>9, <2>10, <3>2, <4>1, Elsewhere
    <3> QED
      BY <3>1, <3>2
  <2>11. pbuilds' \in SUBSET BuildRec
    BY <1>1, <2>3, <2>5 DEF PTyped
  <2> QED
    BY <1>1, <1>9, <2>9, <2>10, <2>11, ProjectFrame DEF PTyped
<1> QED
  BY <1>10, <1>11

\* A build goes on.
LEMMA BuildGoesOn ==
  ASSUME ProjectsInv, UNCHANGED <<pqueue, pasked>>,
         NEW b \in pbuilds, NEW c \in BuildRec, c.p = b.p, c.d = b.d, Goes(b, c),
         prow' \in [Proj -> RowRec], \A x \in Proj : prow'[x].on = prow[x].on,
         dep' \in Seq(DepRec), Numbers' = Numbers,
         \A j \in Numbers : j # b.d => dep'[j] = dep[j],
         dep'[b.d].p = dep[b.d].p, dep'[b.d].run = dep[b.d].run,
         \/ dep'[b.d] = dep[b.d]
         \/ dep'[b.d].status = "building",
         c.pc \in {"agent", "script"} /\ dep'[b.d].p = b.p => dep'[b.d].kind # "service",
         c.pc = "swap" => plive'[b.p] = b.d,
         plive' \in [Proj -> Nat], plive'[b.p] \in {plive[b.p], b.d},
         \A x \in Proj : x # b.p => plive'[x] = plive[x]
  PROVE  ProjectsInv'
<1>1. PTyped /\ b \in BuildRec /\ pbuilds' = (pbuilds \ {b}) \cup {c}
  BY DEF ProjectsInv, PTyped, Goes
<1>2. PICK p \in Proj : p = b.p
  BY <1>1 DEF BuildRec
<1>3. dep[b.d].p \in {p, "deleted"}
  BY <1>2 DEF ProjectsInv, ProjectSound, OfProject, InLine, InBuild
<1>4. ASSUME NEW x \in Proj, ProjectSound(x) PROVE ProjectSound(x)'
  <2>1. CASE x = p
    BY <1>1, <1>2, <1>4, <2>1, ProjectBuilds
  <2>2. CASE x # p
    <3>1. \A y : y.p = x => (y \in pbuilds' <=> y \in pbuilds)
      BY <1>1, <1>2, <2>2
    <3>2. dep[b.d].p # x
      BY <1>3, <2>2, ProjectsAssumption
    <3> QED
      BY <1>2, <1>4, <2>2, <3>1, <3>2, Elsewhere
  <2> QED
    BY <2>1, <2>2
<1>5. pbuilds' \in SUBSET BuildRec
  BY <1>1 DEF PTyped
<1> QED
  BY <1>1, <1>4, <1>5, ProjectFrame DEF PTyped

\* finish
LEMMA BuildIsOver ==
  ASSUME ProjectsInv, UNCHANGED <<pqueue, pasked>>,
         NEW b \in pbuilds, NEW s \in {"ready", "error"}, finish(b, s),
         plive' \in [Proj -> Nat], plive'[b.p] \in {plive[b.p], b.d},
         \A x \in Proj : x # b.p => plive'[x] = plive[x],
         plive'[b.p] = b.d \/ s = "error" \/ dep[b.d].p # b.p \/ dep[b.d].kind # "service"
  PROVE  ProjectsInv'
<1>1. PTyped /\ b \in BuildRec /\ pbuilds' = pbuilds \ {b}
  BY DEF ProjectsInv, PTyped, finish
<1>2. PICK p \in Proj : p = b.p
  BY <1>1 DEF BuildRec
<1>3. b.d \in Numbers /\ dep[b.d].p \in {p, "deleted"}
  BY <1>2 DEF ProjectsInv, ProjectSound, OfProject, InLine, InBuild
<1>4. /\ prow' \in [Proj -> RowRec] /\ \A x \in Proj : prow'[x].on = prow[x].on
      /\ dep' \in Seq(DepRec) /\ Numbers' = Numbers
      /\ \A i \in Numbers : dep'[i].p \in {dep[i].p, "deleted"} /\ dep'[i].run = dep[i].run
                            /\ dep'[i].kind = dep[i].kind
                            /\ (i # b.d => dep'[i].status = dep[i].status)
      /\ dep'[b.d].p = p => dep'[b.d].status = s
  <2>1. CASE ~Kept(b.d)
    <3>1. UNCHANGED <<prow, dep>>
      BY <2>1 DEF finish
    <3>2. dep[b.d].p # p
      BY <1>3, <2>1 DEF Kept
    <3> QED
      BY <1>1, <3>1, <3>2 DEF PTyped, Numbers
  <2>2. CASE Kept(b.d)
    <3>1. /\ dep' = Pruned([dep EXCEPT ![b.d].status = s], p)
          /\ prow' = IF Speaks(b.d, p) THEN [prow EXCEPT ![p].status = s] ELSE prow
      BY <1>2, <2>2 DEF finish
    <3>2. dep[b.d] \in DepRec /\ prow[p] \in RowRec /\ s \in PStatus
      BY <1>1, <1>3, DepParts DEF PTyped, PStatus
    <3>3. PICK x : x = [dep[b.d] EXCEPT !.status = s]
      OBVIOUS
    <3>4. x \in DepRec /\ x.p = dep[b.d].p /\ x.run = dep[b.d].run /\ x.status = s /\ x.kind = dep[b.d].kind
      BY <3>2, <3>3 DEF DepRec
    <3>5. PICK e : e = [dep EXCEPT ![b.d] = x]
      OBVIOUS
    <3>6. Numbers = 1..Len(dep) /\ dep \in Seq(DepRec) /\ \A i \in Numbers : dep[i] \in DepRec
      BY <1>1, DepParts DEF PTyped
    <3>7. /\ e \in Seq(DepRec) /\ Len(e) = Len(dep)
          /\ \A j \in 1..Len(dep) : e[j] = IF j = b.d THEN x ELSE dep[j]
      BY <1>3, <3>4, <3>5, <3>6, ExceptSeq
    <3>8. DOMAIN e = Numbers
      BY <3>6, <3>7, LenProperties
    <3>9. PICK gone : dep' = [i \in DOMAIN e |-> IF i \in gone THEN [e[i] EXCEPT !.p = "deleted"] ELSE e[i]]
      BY <3>1, <3>3, <3>5 DEF Pruned
    <3>10. \A i \in Numbers : e[i] \in DepRec /\ e[i].p = dep[i].p /\ e[i].run = dep[i].run /\ e[i].kind = dep[i].kind
                              /\ e[i].status = IF i = b.d THEN s ELSE dep[i].status
      BY <3>4, <3>6, <3>7
    <3>11. \A i \in Numbers : dep'[i] \in DepRec /\ dep'[i].p \in {e[i].p, "deleted"} /\ dep'[i].run = e[i].run
                              /\ dep'[i].kind = e[i].kind /\ dep'[i].status = e[i].status
      BY <3>8, <3>9, <3>10 DEF DepRec
    <3>12. dep' \in [DOMAIN e -> DepRec]
      BY <3>8, <3>9, <3>11
    <3>13. dep' \in Seq(DepRec) /\ Numbers' = Numbers
      BY <3>7, <3>8, <3>12, SameLength DEF Numbers
    <3>14. prow' \in [Proj -> RowRec] /\ \A q \in Proj : prow'[q].on = prow[q].on
      <4>1. PICK y : y = [prow[p] EXCEPT !.status = s]
        OBVIOUS
      <4>2. y \in RowRec /\ y.on = prow[p].on
        BY <3>2, <4>1 DEF RowRec
      <4>3. prow' = prow \/ prow' = [prow EXCEPT ![p] = y]
        BY <3>1, <4>1
      <4> QED
        BY <1>1, <4>2, <4>3 DEF PTyped
    <3> QED
      BY SMTT(30), <1>3, <3>10, <3>11, <3>13, <3>14
  <2> QED
    BY <2>1, <2>2
<1>5. ASSUME NEW x \in Proj, ProjectSound(x) PROVE ProjectSound(x)'
  <2>1. CASE x = p
    <3>1. \A i \in Numbers : dep'[i].p = p => dep'[i].run = dep[i].run /\ dep'[i].kind = dep[i].kind
                             /\ dep'[i].status = IF i = b.d THEN s ELSE dep[i].status
      BY <1>4
    <3>2. plive'[p] = b.d \/ s = "error" \/ dep'[b.d].p # p \/ dep[b.d].kind # "service"
      BY <1>2, <1>3, <1>4, ProjectsAssumption
    <3> QED
      BY SMTT(30), <1>1, <1>2, <1>4, <1>5, <2>1, <3>1, <3>2, ProjectEnds
  <2>2. CASE x # p
    <3>1. \A y : y.p = x => (y \in pbuilds' <=> y \in pbuilds)
      BY <1>1, <1>2, <2>2
    <3>2. \A i \in Numbers : dep'[i].p = x => dep[i].p = x /\ i # b.d
      BY <1>3, <1>4, <2>2, ProjectsAssumption
    <3>3. \A i \in Numbers : dep'[i].p = x => prow'[x].on
      BY <1>4, <1>5, <3>2 DEF ProjectSound, RowsOn
    <3> QED
      BY <1>2, <1>4, <1>5, <2>2, <3>1, <3>2, <3>3, ProjectStill
  <2> QED
    BY <2>1, <2>2
<1>6. pbuilds' \in SUBSET BuildRec
  BY <1>1 DEF PTyped
<1> QED
  BY <1>1, <1>4, <1>5, <1>6, ProjectFrame DEF PTyped

\* The steps of one build.
LEMMA BuildParts ==
  ASSUME ProjectsInv, NEW b \in pbuilds
  PROVE  /\ PTyped /\ b \in BuildRec /\ b.p \in Proj /\ b.d \in Numbers
         /\ dep[b.d].p \in {b.p, "deleted"}
         /\ b.pc \in {"agent", "script"} /\ dep[b.d].p = b.p => dep[b.d].kind # "service"
         /\ b.pc = "swap" => plive[b.p] = b.d
<1>1. PTyped /\ b \in BuildRec
  BY DEF ProjectsInv, PTyped
<1>2. PICK p \in Proj : p = b.p
  BY <1>1 DEF BuildRec
<1>3. InLine(b.d, p)
  BY <1>2 DEF InLine, InBuild
<1>4. ProjectSound(p)
  BY DEF ProjectsInv
<1> QED
  BY <1>1, <1>2, <1>3, <1>4 DEF ProjectSound, OfProject, BuildKind

LEMMA ClonedMoves ==
  ASSUME ProjectsInv, Cloned
  PROVE  ProjectsInv'
<1>1. UNCHANGED <<pqueue, plive, pasked>>
  BY DEF Cloned
<1>2. PICK b \in pbuilds, sha \in Commit :
        /\ KindOf[sha] # "none"
        /\ IF b.run /\ KindOf[sha] # "script" THEN finish(b, "error")
           ELSE /\ Goes(b, At(b, KindOf[sha], sha))
                /\ Updated(b.d, "building", KindOf[sha])
  BY DEF Cloned
<1>3. /\ PTyped /\ b \in BuildRec /\ b.p \in Proj /\ b.d \in Numbers /\ plive \in [Proj -> Nat]
      /\ dep[b.d].p \in {b.p, "deleted"}
  BY BuildParts DEF PTyped
<1>4. CASE b.run /\ KindOf[sha] # "script"
  <2>1. PICK s \in {"ready", "error"} : s = "error"
    OBVIOUS
  <2>2. finish(b, s)
    BY <1>2, <1>4, <2>1
  <2> QED
    BY <1>1, <1>3, <2>1, <2>2, BuildIsOver
<1>5. CASE ~ (b.run /\ KindOf[sha] # "script")
  <2>1. PICK kind \in PKinds : kind = KindOf[sha]
    BY ProjectsAssumption DEF PKinds
  <2>2. PICK c : c = At(b, kind, sha)
    OBVIOUS
  <2>3. kind \in {"service", "agent", "script"}
    BY <1>2, <2>1 DEF PKinds
  <2>4. c \in BuildRec /\ c.p = b.p /\ c.d = b.d /\ c.pc = kind
    BY <1>3, <2>2, <2>3 DEF At, BuildRec
  <2>5. Goes(b, c) /\ Updated(b.d, "building", kind)
    BY <1>2, <1>5, <2>1, <2>2
  <2>6. PICK status \in PStatus : status = "building"
    BY DEF PStatus
  <2>7. Updated(b.d, status, kind)
    BY <2>5, <2>6
  <2>8. /\ prow' \in [Proj -> RowRec] /\ \A p \in Proj : prow'[p].on = prow[p].on
        /\ dep' \in Seq(DepRec) /\ Numbers' = Numbers
        /\ \A j \in Numbers : j # b.d => dep'[j] = dep[j]
        /\ dep'[b.d].p = dep[b.d].p /\ dep'[b.d].run = dep[b.d].run
        /\ Kept(b.d) => dep'[b.d].status = status /\ dep'[b.d].kind = kind
        /\ ~Kept(b.d) => dep'[b.d] = dep[b.d]
    BY <1>3, <2>7, UpdatedIs
  <2>9. c.pc \in {"agent", "script"} /\ dep'[b.d].p = b.p => dep'[b.d].kind # "service"
    BY <1>3, <2>4, <2>8 DEF Kept
  <2>10. c.pc # "swap"
    BY <2>3, <2>4
  <2>11. \/ dep'[b.d] = dep[b.d]
         \/ dep'[b.d].status = "building"
    BY <2>6, <2>8
  <2> QED
    BY <1>1, <1>3, <2>4, <2>5, <2>8, <2>9, <2>10, <2>11, BuildGoesOn
<1> QED
  BY <1>4, <1>5

\* Only the build changes: an image, a container, a container to be replaced.
LEMMA ContainersMove ==
  ASSUME ProjectsInv, ImageBuilt \/ DockerRuns
  PROVE  ProjectsInv'
<1>1. UNCHANGED <<prow, dep, pqueue, plive, pasked>>
  BY DEF ImageBuilt, DockerRuns
<1>2. PICK b \in pbuilds, pc \in {"run", "health"} : Goes(b, At(b, pc, b.sha))
  BY DEF ImageBuilt, DockerRuns
<1>3. PTyped /\ b \in BuildRec /\ b.p \in Proj
  BY BuildParts
<1>4. PICK c : c = At(b, pc, b.sha)
  OBVIOUS
<1>5. c \in BuildRec /\ c.p = b.p /\ c.d = b.d /\ c.pc = pc
  BY <1>3, <1>4 DEF At, BuildRec
<1>6. Goes(b, c)
  BY <1>2, <1>4
<1>7. Numbers' = Numbers
  BY <1>1 DEF Numbers
<1> QED
  BY <1>1, <1>3, <1>5, <1>6, <1>7, BuildGoesOn DEF PTyped

\* What ends without a container of its own, or fails.
LEMMA OthersEnd ==
  ASSUME ProjectsInv, BuildBreaks \/ deployProjectAgent \/ ScriptExits \/ DockerRefuses \/ Unhealthy \/ Replaced
  PROVE  ProjectsInv'
<1>1. UNCHANGED <<pqueue, plive, pasked>>
  BY DEF BuildBreaks, deployProjectAgent, ScriptExits, DockerRefuses, Unhealthy, Replaced
<1>2. PICK b \in pbuilds, s \in {"ready", "error"} :
        finish(b, s) /\ (s = "error" \/ b.pc \in {"agent", "script"} \/ b.pc = "swap")
  BY DEF BuildBreaks, deployProjectAgent, ScriptExits, DockerRefuses, Unhealthy, Replaced
<1>3. /\ PTyped /\ b.p \in Proj
      /\ b.pc \in {"agent", "script"} /\ dep[b.d].p = b.p => dep[b.d].kind # "service"
      /\ b.pc = "swap" => plive[b.p] = b.d
  BY BuildParts
<1>4. plive'[b.p] = b.d \/ s = "error" \/ dep[b.d].p # b.p \/ dep[b.d].kind # "service"
  BY <1>1, <1>2, <1>3
<1> QED
  BY <1>1, <1>2, <1>3, <1>4, BuildIsOver DEF PTyped

\* A container that answers is live at once.
LEMMA HealthyMoves ==
  ASSUME ProjectsInv, Healthy
  PROVE  ProjectsInv'
<1>1. UNCHANGED <<pqueue, pasked>>
  BY DEF Healthy
<1>2. PICK b \in pbuilds :
        LET prior == plive[b.p] IN
        /\ plive' = [plive EXCEPT ![b.p] = b.d]
        /\ IF prior # 0 /\ ShaOf(prior) # b.sha
           THEN Goes(b, [b EXCEPT !.pc = "swap", !.prior = prior]) /\ UNCHANGED <<prow, dep>>
           ELSE finish(b, "ready")
  BY DEF Healthy
<1>3. PTyped /\ b \in BuildRec /\ b.p \in Proj
  BY BuildParts
<1>4. PICK prior \in Nat : prior = plive[b.p]
  BY <1>3 DEF PTyped
<1>5. /\ plive' \in [Proj -> Nat] /\ plive'[b.p] = b.d
      /\ \A x \in Proj : x # b.p => plive'[x] = plive[x]
  BY <1>2, <1>3 DEF PTyped, BuildRec
<1>6. CASE prior # 0 /\ ShaOf(prior) # b.sha
  <2>1. PICK c : c = [b EXCEPT !.pc = "swap", !.prior = prior]
    OBVIOUS
  <2>2. c \in BuildRec /\ c.p = b.p /\ c.d = b.d /\ c.pc = "swap"
    BY <1>3, <2>1 DEF BuildRec
  <2>3. Goes(b, c) /\ UNCHANGED <<prow, dep>>
    BY <1>2, <1>4, <1>6, <2>1
  <2>4. Numbers' = Numbers
    BY <2>3 DEF Numbers
  <2> QED
    BY <1>1, <1>3, <1>5, <2>2, <2>3, <2>4, BuildGoesOn DEF PTyped
<1>7. CASE ~ (prior # 0 /\ ShaOf(prior) # b.sha)
  <2>1. PICK s \in {"ready", "error"} : s = "ready"
    OBVIOUS
  <2>2. finish(b, s)
    BY <1>2, <1>4, <1>7, <2>1
  <2> QED
    BY <1>1, <1>5, <2>2, BuildIsOver
<1> QED
  BY <1>6, <1>7

LEMMA RestartMoves ==
  ASSUME ProjectsInv, ProjectsRestart
  PROVE  ProjectsInv'
<1>1. PTyped /\ Numbers = 1..Len(dep) /\ Len(dep) \in Nat /\ \A i \in Numbers : dep[i] \in DepRec
  BY DepParts DEF ProjectsInv
<1>2. /\ pbuilds' = {} /\ pasked' = {} /\ plive' = [p \in Proj |-> 0]
      /\ pqueue' = [p \in Proj |-> Ascending(Again(p))]
      /\ dep' = [i \in Numbers |-> IF dep[i].p \in Proj /\ i \in Again(dep[i].p)
                                   THEN [dep[i] EXCEPT !.status = "queued"] ELSE dep[i]]
      /\ prow' = [p \in Proj |-> IF prow[p].last \in Again(p) THEN [prow[p] EXCEPT !.status = "queued"] ELSE prow[p]]
  BY DEF ProjectsRestart
<1>3. dep' \in [DOMAIN dep -> DepRec]
  BY <1>1, <1>2 DEF DepRec, PStatus, Numbers
<1>4. dep' \in Seq(DepRec)
  BY <1>1, <1>3, SameLength DEF PTyped
<1>5. prow' \in [Proj -> RowRec] /\ \A p \in Proj : prow'[p].on = prow[p].on
  <2>1. \A p \in Proj : prow[p] \in RowRec
    BY <1>1 DEF PTyped
  <2> QED
    BY <1>2, <2>1 DEF RowRec, PStatus
<1>6. pqueue' \in [Proj -> Seq(Nat)]
  <2> SUFFICES ASSUME NEW p \in Proj PROVE Ascending(Again(p)) \in Seq(Nat)
    BY <1>2
  <2>1. PICK S : S = Again(p)
    OBVIOUS
  <2>2. S \in SUBSET (1..Len(dep))
    BY <1>1, <2>1 DEF Again, Unfinished, BroughtBack, deploymentsOf
  <2> QED
    BY <1>1, <2>1, <2>2, AscendingIs
<1>7. plive' \in [Proj -> Nat] /\ \A p \in Proj : plive'[p] = 0
  BY <1>2
<1>8. ASSUME NEW p \in Proj, ProjectSound(p) PROVE ProjectSound(p)'
  <2>1. pqueue'[p] = Ascending(Again(p))
    BY <1>2
  <2> QED
    BY <1>1, <1>2, <1>5, <1>7, <1>8, <2>1, ProjectRecovers
<1> QED
  BY <1>2, <1>4, <1>5, <1>6, <1>7, <1>8, ProjectFrame

\* What serves a project is its newest service that ended ready in this process, whatever
\* was pushed, redeployed or deleted while it was built, and over restarts (pump, deploy,
\* finish and recover of projects.ts), for any projects, any bound on builds and on history.
THEOREM NewestServes == ProjectsSpec => []LiveIsNewest
<1>1. ProjectsInit => ProjectsInv
  <2> SUFFICES ASSUME ProjectsInit PROVE ProjectsInv
    OBVIOUS
  <2>1. NoProject \in RowRec
    BY DEF NoProject, RowRec, PStatus, PKinds
  <2>2. << >> \in Seq(Nat) /\ << >> \in Seq(DepRec) /\ DOMAIN << >> = {}
    BY EmptySeq
  <2>3. PTyped
    BY <2>1, <2>2 DEF ProjectsInit, PTyped
  <2>4. Numbers = {} /\ \A p \in Proj : DOMAIN pqueue[p] = {}
    BY <2>2 DEF ProjectsInit, Numbers
  <2>5. ASSUME NEW p \in Proj PROVE ProjectSound(p)
    <3>1. \A k : ~InLine(k, p)
      BY <2>4 DEF ProjectsInit, InLine, InQueue, InBuild
    <3>2. deploymentsOf(p) = {} /\ Unfinished(p) = {}
      BY <2>4 DEF deploymentsOf, Unfinished
    <3>3. OfProject(p) /\ ReadyFirst(p) /\ OpenInLine(p) /\ NewestLives(p) /\ RowsOn(p)
      BY <2>4, <3>1, <3>2 DEF OfProject, ReadyFirst, OpenInLine, NewestLives, RowsOn
    <3>4. QueueRises(p) /\ OneBuild(p) /\ BuildKind(p)
      BY <2>4 DEF ProjectsInit, QueueRises, OneBuild, BuildKind
    <3> QED
      BY <3>3, <3>4 DEF ProjectSound
  <2> QED
    BY <2>3, <2>5 DEF ProjectsInit, ProjectsInv
<1>2. ProjectsInv /\ [ProjectsNext]_pvars => ProjectsInv'
  <2> SUFFICES ASSUME ProjectsInv, [ProjectsNext]_pvars PROVE ProjectsInv'
    OBVIOUS
  <2>1. CASE CreateProject \/ AutoBind \/ RedeployAsked \/ DeleteProject
    BY <2>1, RowsMove
  <2>2. CASE PushHook \/ redeploy \/ RedeployAnswered \/ createRun
    BY <2>2, ArrivalsMove
  <2>3. CASE Pump
    BY <2>3, PumpMoves
  <2>4. CASE Cloned
    BY <2>4, ClonedMoves
  <2>5. CASE ImageBuilt \/ DockerRuns
    BY <2>5, ContainersMove
  <2>6. CASE BuildBreaks \/ deployProjectAgent \/ ScriptExits \/ DockerRefuses \/ Unhealthy \/ Replaced
    BY <2>6, OthersEnd
  <2>7. CASE Healthy
    BY <2>7, HealthyMoves
  <2>8. CASE ProjectsRestart
    BY <2>8, RestartMoves
  <2>9. CASE UNCHANGED pvars
    <3>1. UNCHANGED <<prow, dep, pqueue, pbuilds, plive, pasked>>
      BY <2>9 DEF pvars
    <3>2. ASSUME NEW p \in Proj, ProjectSound(p) PROVE ProjectSound(p)'
      <4>1. \A i \in Numbers : dep[i].p = p => prow[p].on
        BY <3>2 DEF ProjectSound, RowsOn
      <4>2. Numbers' = Numbers
        BY <3>1 DEF Numbers
      <4> QED
        BY <3>1, <3>2, <4>1, <4>2, ProjectStill
    <3> QED
      BY <3>1, <3>2, ProjectFrame DEF ProjectsInv, PTyped
  <2> QED
    BY <2>1, <2>2, <2>3, <2>4, <2>5, <2>6, <2>7, <2>8, <2>9 DEF ProjectsNext
<1>3. ProjectsInv => LiveIsNewest
  BY DEF ProjectsInv, ProjectSound, NewestLives, LiveIsNewest
<1> QED
  BY <1>1, <1>2, <1>3, PTL DEF ProjectsSpec

-----------------------------------------------------------------------------
(* The registry of shared agents and its feed (SharedAgents). *)

Visibility == {"public", "org", "unlisted", "private"}
SpecRows == [ver : Nat, kind : {"linked", "hosted"}, owner : People \cup {NoTeam},
          vis : Visibility, team : Team \cup {NoTeam}]
FeedEvent == [a : AgentId, ver : Nat, aud : SpecRows]
WorkTyped(w) ==
  /\ w.a \in AgentId
  /\ \/ w.op = "tell" /\ w.e \in FeedEvent /\ w.e.a = w.a
     \/ w.op \in {"create", "update"} /\ w.p \in People /\ w.sh \in Sharings /\ w.prior \in SpecRows

\* The types of the registry; an agent that is not there is NoAgent; nobody's cursor is of
\* a later start of the node, or past the end of this start's feed.
RegistryTyped ==
  /\ sspec \in [AgentId -> SpecRows]
  /\ \A a \in AgentId : On(a) \/ sspec[a] = NoAgent
  /\ slast \in [People -> [AgentId -> Nat]]
FeedTyped ==
  /\ sfeed = [boot |-> sfeed.boot, seq |-> sfeed.seq, events |-> sfeed.events]
  /\ sfeed.boot \in Nat /\ sfeed.seq \in Nat /\ sfeed.events \in Seq(FeedEvent)
  /\ Len(sfeed.events) <= sfeed.seq
FollowTyped ==
  /\ sfollow \in [People -> [boot : Nat, cursor : Nat, know : [AgentId -> Nat]]]
  /\ \A p \in People : /\ sfollow[p].boot <= sfeed.boot
                       /\ sfollow[p].boot = sfeed.boot => sfollow[p].cursor <= sfeed.seq
SharedTyped ==
  RegistryTyped /\ FeedTyped /\ FollowTyped /\ \A w \in swork : WorkTyped(w)

\* The event with a number, while the feed holds it; and what p has yet to read of a.
EventAt(n) == sfeed.events[n - dropped]
News(p, a) == {n \in sfollow[p].cursor + 1 .. sfeed.seq : EventAt(n).a = a /\ visibleTo(EventAt(n), p)}

\* p has read on from where it was: its cursor is of this start, and the feed reaches back to it.
FollowsOn(p) == sfollow[p].boot = sfeed.boot /\ sfollow[p].cursor > 0 /\ ~ Gap(sfollow[p].cursor)
\* p knows the newest change of a, or will read it, or a never concerned it.
Informed(p, a) ==
  \/ sfollow[p].know[a] >= slast[p][a]
  \/ \E n \in News(p, a) : EventAt(n).ver >= slast[p][a]
  \/ sfollow[p].know[a] = 0 /\ ~ listsAgentFor(sspec[a], p) /\ News(p, a) = {}
Telling(w, a, p) == w.op = "tell" /\ w.a = a /\ visibleTo(w.e, p)

\* Whoever may list an agent has its version as the newest change.
LastIsListed ==
  \A p \in People, a \in AgentId :
    On(a) /\ listsAgentFor(sspec[a], p) => slast[p][a] = sspec[a].ver
\* What waits to be told is the newest change, and never of a linked agent that is there.
TellsNewest ==
  \A w \in swork : w.op = "tell" /\ w.a \notin sodd =>
    \A p \in People : visibleTo(w.e, p) => w.e.ver = slast[p][w.a]
LinkedIsTold == \A a \in AgentId \ sodd : On(a) /\ sspec[a].kind = "linked" => ~ Waits(a)
\* A follower is informed, or somebody is about to tell it.
Reached ==
  \A p \in People \ smisled, a \in AgentId \ sodd :
    FollowsOn(p) => Informed(p, a) \/ \E w \in swork : Telling(w, a, p)
FeedInv == SharedTyped /\ LastIsListed /\ TellsNewest /\ LinkedIsTold /\ Reached

\* What a change of x to s says, when it says it well: its event is seen by those who could
\* list x before or can now, and carries the version they are to know.
NewVer(x, s) == IF s.ver = 0 THEN sspec[x].ver + 1 ELSE s.ver
Concerns(x, s, p) == listsAgentFor(sspec[x], p) \/ listsAgentFor(s, p)
Says(x, s, e) ==
  /\ e.a = x /\ e.ver = NewVer(x, s)
  /\ \A p \in People : visibleTo(e, p) <=> Concerns(x, s, p)

\* The wider of two audiences of one owner sees what either sees, if not both are organizations.
LEMMA WiderSeesBoth ==
  ASSUME NEW b \in SpecRows, NEW s \in SpecRows, b.owner = s.owner,
         b.vis = "org" /\ s.vis = "org" => b.team = s.team, NEW p
  PROVE  listsAgentFor(widerAudience(b, s), p) <=> listsAgentFor(b, p) \/ listsAgentFor(s, p)
<1>1. b.vis \in Visibility /\ s.vis \in Visibility
  BY DEF SpecRows
<1>2. CASE b.owner = p
  BY <1>2 DEF listsAgentFor, widerAudience
<1>3. CASE b.owner # p
  <2> DEFINE Lists(x) == listsAgentFor(x, p)
  <2>1. \A x \in {b, s} : Lists(x) <=> x.vis = "public" \/ (x.vis = "org" /\ orgRoleOf(p, x.team) > 0)
    BY <1>3 DEF listsAgentFor, RoleFor
  <2>2. widerAudience(b, s) = IF Rank(b.vis) >= Rank(s.vis) THEN b ELSE s
    BY DEF widerAudience
  <2> HIDE DEF Lists
  <2>3. Rank("public") = 3 /\ Rank("org") = 2 /\ Rank("unlisted") = 1 /\ Rank("private") = 0
    BY DEF Rank
  <2>4. Lists(widerAudience(b, s)) <=> Lists(b) \/ Lists(s)
    <3>1. CASE b.vis = s.vis
      <4>1. Lists(b) <=> Lists(s)
        BY <2>1, <3>1
      <4> QED
        BY <2>2, <4>1
    <3>2. CASE b.vis # s.vis
      <4>1. CASE Rank(b.vis) >= Rank(s.vis)
        <5>1. Lists(s) => Lists(b)
          BY <1>1, <2>1, <2>3, <3>2, <4>1 DEF Visibility
        <5> QED
          BY <2>2, <4>1, <5>1
      <4>2. CASE ~ (Rank(b.vis) >= Rank(s.vis))
        <5>1. Lists(b) => Lists(s)
          BY <1>1, <2>1, <2>3, <3>2, <4>2 DEF Visibility
        <5> QED
          BY <2>2, <4>2, <5>1
      <4> QED
        BY <4>1, <4>2
    <3> QED
      BY <3>1, <3>2
  <2> QED
    BY <2>4 DEF Lists
<1> QED
  BY <1>2, <1>3

-----------------------------------------------------------------------------
(* What the operations are made of. *)

LEMMA NobodyIsNoTeam ==
  ASSUME NEW p \in People
  PROVE  NoAgent \in SpecRows /\ ~ listsAgentFor(NoAgent, p)
<1>1. NoTeam \notin People
  BY SharedAssumption
<1>2. NoAgent.owner = NoTeam /\ NoAgent.vis = "private"
  BY DEF NoAgent
<1>3. NoAgent \in SpecRows
  BY DEF NoAgent, SpecRows, Visibility
<1> QED
  BY <1>1, <1>2, <1>3 DEF listsAgentFor, RoleFor

\* A change keeps the types, and the newest change of whoever may list an agent is its version.
LEMMA PutFacts ==
  ASSUME RegistryTyped, LastIsListed, NEW x \in AgentId, NEW s \in SpecRows,
         s.ver # 0 \/ s = NoAgent, Put(x, s), UNCHANGED srole
  PROVE  /\ RegistryTyped' /\ LastIsListed'
         /\ sspec'[x] = s
         /\ \A a \in AgentId \ {x} : sspec'[a] = sspec[a]
         /\ \A p \in People, a \in AgentId :
              slast'[p][a] = IF a = x /\ Concerns(x, s, p) THEN NewVer(x, s) ELSE slast[p][a]
<1>1. /\ sspec' = [sspec EXCEPT ![x] = s]
      /\ slast' = [p \in People |-> IF Concerns(x, s, p)
                                    THEN [slast[p] EXCEPT ![x] = NewVer(x, s)] ELSE slast[p]]
  BY DEF Put, Concerns, NewVer
<1>2. sspec \in [AgentId -> SpecRows] /\ slast \in [People -> [AgentId -> Nat]]
  BY DEF RegistryTyped
<1>3. sspec' \in [AgentId -> SpecRows] /\ sspec'[x] = s
      /\ \A a \in AgentId \ {x} : sspec'[a] = sspec[a]
  BY <1>1, <1>2
<1>4. s.ver \in Nat /\ sspec[x].ver \in Nat
  BY <1>2 DEF SpecRows
<1>5. NewVer(x, s) \in Nat
  BY <1>4 DEF NewVer
<1>6. \A p \in People : slast[p] \in [AgentId -> Nat]
  BY <1>2
<1>7. \A p \in People : slast'[p] \in [AgentId -> Nat]
        /\ \A a \in AgentId :
              slast'[p][a] = IF a = x /\ Concerns(x, s, p) THEN NewVer(x, s) ELSE slast[p][a]
  <2> TAKE p \in People
  <2>1. CASE Concerns(x, s, p)
    <3>1. slast'[p] = [slast[p] EXCEPT ![x] = NewVer(x, s)]
      BY <1>1, <2>1
    <3> QED
      BY <1>5, <1>6, <2>1, <3>1
  <2>2. CASE ~ Concerns(x, s, p)
    <3>1. slast'[p] = slast[p]
      BY <1>1, <2>2
    <3> QED
      BY <1>6, <2>2, <3>1
  <2> QED
    BY <2>1, <2>2
<1>8. slast' \in [People -> [AgentId -> Nat]]
  <2>1. DOMAIN slast' = People /\ slast' = [p \in People |-> slast'[p]]
    BY <1>1
  <2> QED
    BY <1>7, <2>1
<1>9. \A a \in AgentId : On(a)' \/ sspec'[a] = NoAgent
  BY <1>3 DEF RegistryTyped, On
<1>10. LastIsListed'
  <2> SUFFICES ASSUME NEW p \in People, NEW a \in AgentId, On(a)', listsAgentFor(sspec[a], p)'
      PROVE slast'[p][a] = sspec'[a].ver
    BY DEF LastIsListed
  <2>1. listsAgentFor(sspec'[a], p)
    BY DEF listsAgentFor, RoleFor, orgRoleOf
  <2>2. CASE a = x
    <3>1. Concerns(x, s, p) /\ s.ver # 0
      BY <1>3, <2>1, <2>2 DEF Concerns, On
    <3> QED
      BY <1>3, <1>7, <2>2, <3>1 DEF NewVer
  <2>3. CASE a # x
    <3>1. sspec'[a] = sspec[a]
      BY <1>3, <2>3
    <3> QED
      BY <1>7, <2>1, <2>3, <3>1 DEF LastIsListed, On
  <2> QED
    BY <2>2, <2>3
<1> QED
  BY <1>3, <1>7, <1>8, <1>9, <1>10 DEF RegistryTyped

\* The feed grows at one end, and what falls out at the other has the lowest numbers.
LEMMA FeedGrows ==
  ASSUME FeedTyped, NEW e \in FeedEvent, sfeed' = append(sfeed, e)
  PROVE  /\ FeedTyped' /\ sfeed'.boot = sfeed.boot /\ sfeed'.seq = sfeed.seq + 1
         /\ dropped \in Nat /\ dropped' \in Nat /\ dropped <= dropped' /\ dropped' <= sfeed.seq
         /\ \A n \in dropped' + 1 .. sfeed.seq : EventAt(n)' = EventAt(n)
         /\ \A n : n = sfeed.seq + 1 => EventAt(n)' = e
<1>a. PICK es : es = sfeed.events
  OBVIOUS
<1>b. PICK rest : rest = IF Len(es) = FeedMax THEN Tail(es) ELSE es
  OBVIOUS
<1>1. es \in Seq(FeedEvent) /\ Len(es) \in Nat /\ Len(es) <= sfeed.seq /\ sfeed.seq \in Nat
      /\ sfeed.boot \in Nat
  BY <1>a, LenProperties DEF FeedTyped
<1>2. /\ sfeed' = [boot |-> sfeed.boot, seq |-> sfeed.seq + 1, events |-> Append(rest, e)]
  <2>1. sfeed' = [sfeed EXCEPT !.seq = @ + 1, !.events = Append(rest, e)]
    BY <1>a, <1>b DEF append
  <2> QED
    BY <2>1 DEF FeedTyped
<1>3. PICK d \in {0, 1} : /\ rest \in Seq(FeedEvent) /\ Len(rest) \in Nat /\ Len(rest) + d = Len(es)
                          /\ \A i \in 1 .. Len(rest) : rest[i] = es[i + d]
  <2>1. CASE Len(es) = FeedMax
    <3>1. es # << >> /\ rest = Tail(es)
      BY <1>1, <1>b, <2>1, SharedAssumption, EmptySeq
    <3>2. rest \in Seq(FeedEvent) /\ Len(rest) = Len(es) - 1 /\ \A i \in 1 .. Len(rest) : rest[i] = es[i + 1]
      BY <1>1, <3>1, HeadTailProperties
    <3>3. Len(rest) \in Nat /\ Len(rest) + 1 = Len(es)
      BY <1>1, <3>2, LenProperties
    <3> QED
      BY <3>2, <3>3
  <2>2. CASE Len(es) # FeedMax
    <3>1. rest = es
      BY <1>b, <2>2
    <3>2. \A i \in 1 .. Len(rest) : i + 0 = i
      BY <1>1, <3>1
    <3>3. \A i \in 1 .. Len(rest) : rest[i] = es[i + 0]
      BY <3>1, <3>2
    <3> QED
      BY <1>1, <3>1, <3>3
  <2> QED
    BY <2>1, <2>2
<1> DEFINE new == Append(rest, e)
<1>4. /\ new \in Seq(FeedEvent) /\ Len(new) = Len(rest) + 1 /\ new[Len(rest) + 1] = e
      /\ \A i \in 1 .. Len(rest) : new[i] = rest[i]
  BY <1>3, AppendProperties
<1> HIDE DEF new
<1>5. sfeed'.boot = sfeed.boot /\ sfeed'.seq = sfeed.seq + 1 /\ sfeed'.events = new
  BY <1>2 DEF new
<1>6. dropped = sfeed.seq - Len(es) /\ dropped' = sfeed.seq - Len(rest)
  <2>1. dropped' = sfeed'.seq - Len(sfeed'.events) /\ dropped = sfeed.seq - Len(es)
    BY <1>a DEF dropped
  <2> QED
    BY <1>1, <1>3, <1>4, <1>5, <2>1
<1>7. dropped \in Nat /\ dropped' \in Nat /\ dropped' = dropped + d /\ dropped' <= sfeed.seq
  BY <1>1, <1>3, <1>6
<1>8. ASSUME NEW n \in dropped' + 1 .. sfeed.seq PROVE EventAt(n)' = EventAt(n)
  <2>1. n - dropped' \in 1 .. Len(rest) /\ n - dropped = (n - dropped') + d
    <3>1. n \in Int /\ dropped' + 1 <= n /\ n <= sfeed.seq /\ d \in Nat
      BY <1>1, <1>3, <1>7
    <3>2. PICK k \in Nat, m \in Nat, r \in Nat, q \in Nat :
            k = dropped' /\ m = dropped /\ r = Len(rest) /\ q = sfeed.seq
      BY <1>1, <1>3, <1>7
    <3>3. k = q - r /\ k = m + d /\ n \in Int /\ d \in Nat /\ k + 1 <= n /\ n <= q
      BY <1>1, <1>3, <1>6, <1>7, <3>1, <3>2
    <3>4. n - k \in 1 .. r /\ n - m = (n - k) + d
      BY <3>3
    <3> QED
      BY <3>2, <3>4
  <2>2. new[n - dropped'] = es[n - dropped]
    BY <1>3, <1>4, <2>1
  <2> QED
    BY <1>5, <1>a, <2>2 DEF EventAt
<1>9. ASSUME NEW n, n = sfeed.seq + 1 PROVE EventAt(n)' = e
  <2>1. n - dropped' = Len(rest) + 1
    BY <1>1, <1>3, <1>6, <1>9
  <2>2. EventAt(n)' = new[n - dropped']
    BY <1>5 DEF EventAt
  <2> QED
    BY <1>4, <2>1, <2>2
<1>10. FeedTyped'
  <2>1. sfeed' = [boot |-> sfeed'.boot, seq |-> sfeed'.seq, events |-> sfeed'.events]
    BY <1>2
  <2>2. sfeed'.seq \in Nat /\ Len(sfeed'.events) <= sfeed'.seq
    BY <1>1, <1>3, <1>4, <1>5
  <2> QED
    BY <1>1, <1>4, <1>5, <2>1, <2>2 DEF FeedTyped
<1> QED
  BY <1>5, <1>7, <1>8, <1>9, <1>10

-----------------------------------------------------------------------------
(* What a follower has read, and what it has still to read. *)

LEMMA SeenStill ==
  ASSUME UNCHANGED srole
  PROVE  /\ \A e, p : visibleTo(e, p)' <=> visibleTo(e, p)
         /\ \A s, p : listsAgentFor(s, p)' <=> listsAgentFor(s, p)
BY DEF visibleTo, listsAgentFor, RoleFor, orgRoleOf

\* Nothing is told, and the newest change of a for p is what it was.
LEMMA InformedStays ==
  ASSUME UNCHANGED <<srole, sfeed, sfollow>>, NEW p, NEW a, slast'[p][a] = slast[p][a],
         listsAgentFor(sspec'[a], p) => listsAgentFor(sspec[a], p)
  PROVE  Informed(p, a) => Informed(p, a)'
<1>1. News(p, a)' = News(p, a) /\ \A n : EventAt(n)' = EventAt(n)
  BY SeenStill DEF News, EventAt, dropped
<1>2. listsAgentFor(sspec[a], p)' <=> listsAgentFor(sspec'[a], p)
  BY DEF listsAgentFor, RoleFor, orgRoleOf
<1> QED
  BY <1>1, <1>2 DEF Informed

\* Who follows after an event followed before it, and has that event to read if it is of a
\* and p sees it.
LEMMA NewsGrow ==
  ASSUME FeedTyped, FollowTyped, NEW e \in FeedEvent, sfeed' = append(sfeed, e),
         UNCHANGED <<srole, sfollow>>, NEW p \in People, FollowsOn(p)', NEW a
  PROVE  /\ FollowsOn(p)
         /\ \A n \in News(p, a) : n \in News(p, a)' /\ EventAt(n)' = EventAt(n)
         /\ \A n \in News(p, a)' : n \in News(p, a) \/ (e.a = a /\ visibleTo(e, p))
         /\ e.a = a /\ visibleTo(e, p) =>
              \E n \in News(p, a)' : EventAt(n)' = e
<1> USE FeedGrows
<1>1. /\ sfeed'.seq = sfeed.seq + 1 /\ sfeed'.boot = sfeed.boot /\ sfeed.seq \in Nat
      /\ dropped \in Nat /\ dropped' \in Nat /\ dropped <= dropped' /\ dropped' <= sfeed.seq
  BY DEF FeedTyped
<1>2. \A n \in dropped' + 1 .. sfeed.seq : EventAt(n)' = EventAt(n)
  OBVIOUS
<1>3. \A n : n = sfeed.seq + 1 => EventAt(n)' = e
  OBVIOUS
<1>4. PICK c \in Nat : c = sfollow[p].cursor
  BY DEF FollowTyped
<1>5. sfollow'[p] = sfollow[p] /\ c = sfollow'[p].cursor
  BY <1>4
<1>6. sfollow[p].boot = sfeed.boot /\ c > 0 /\ dropped' <= c /\ c <= sfeed.seq
  BY <1>1, <1>4, <1>5 DEF FollowsOn, Gap, FollowTyped
<1>7. FollowsOn(p)
  BY <1>1, <1>4, <1>6 DEF FollowsOn, Gap
<1>8. /\ \A n : n \in News(p, a) <=> n \in c + 1 .. sfeed.seq /\ EventAt(n).a = a /\ visibleTo(EventAt(n), p)
      /\ \A n : n \in News(p, a)' <=> n \in c + 1 .. sfeed.seq + 1 /\ EventAt(n)'.a = a /\ visibleTo(EventAt(n)', p)
  <2>1. News(p, a) = {n \in c + 1 .. sfeed.seq : EventAt(n).a = a /\ visibleTo(EventAt(n), p)}
    BY <1>4 DEF News
  <2>2. News(p, a)' = {n \in c + 1 .. sfeed'.seq : EventAt(n)'.a = a /\ visibleTo(EventAt(n), p)'}
    BY <1>5 DEF News
  <2>3. \A n : visibleTo(EventAt(n), p)' <=> visibleTo(EventAt(n)', p)
    BY DEF visibleTo, listsAgentFor, RoleFor, orgRoleOf
  <2> QED
    BY <1>1, <2>1, <2>2, <2>3
<1>9. \A n \in c + 1 .. sfeed.seq : n \in dropped' + 1 .. sfeed.seq /\ n \in c + 1 .. sfeed.seq + 1
  <2>1. PICK k \in Nat, q \in Nat : k = dropped' /\ q = sfeed.seq
    BY <1>1
  <2>2. k <= c /\ c <= q
    BY <1>6, <2>1
  <2>3. \A n \in c + 1 .. q : n \in k + 1 .. q /\ n \in c + 1 .. q + 1
    BY <2>2
  <2> QED
    BY <2>1, <2>3
<1>10. \A n \in c + 1 .. sfeed.seq + 1 : n \in c + 1 .. sfeed.seq \/ n = sfeed.seq + 1
  BY <1>1
<1>11. sfeed.seq + 1 \in c + 1 .. sfeed.seq + 1
  BY <1>1, <1>6
<1>12. \A n \in News(p, a) : n \in News(p, a)' /\ EventAt(n)' = EventAt(n)
  BY <1>2, <1>8, <1>9
<1>13. \A n \in News(p, a)' : n \in News(p, a) \/ (e.a = a /\ visibleTo(e, p))
  <2> TAKE n \in News(p, a)'
  <2>1. CASE n \in c + 1 .. sfeed.seq
    BY <1>2, <1>8, <1>9, <2>1
  <2>2. CASE n = sfeed.seq + 1
    BY <1>3, <1>8, <2>2
  <2> QED
    BY <1>8, <1>10, <2>1, <2>2
<1>14. e.a = a /\ visibleTo(e, p) => \E n \in News(p, a)' : EventAt(n)' = e
  <2> SUFFICES ASSUME e.a = a, visibleTo(e, p) PROVE \E n \in News(p, a)' : EventAt(n)' = e
    OBVIOUS
  <2>1. PICK n : n = sfeed.seq + 1
    OBVIOUS
  <2>2. EventAt(n)' = e /\ n \in c + 1 .. sfeed.seq + 1
    BY <1>3, <1>11, <2>1
  <2> QED
    BY <1>8, <2>2
<1> QED
  BY <1>7, <1>12, <1>13, <1>14

\* What was told does not concern p, or is the newest change of a.
LEMMA InformedGrows ==
  ASSUME FeedTyped, FollowTyped, NEW e \in FeedEvent, sfeed' = append(sfeed, e),
         UNCHANGED <<srole, sfollow>>, NEW p \in People, FollowsOn(p)', NEW a \in AgentId
  PROVE  /\ e.a = a /\ visibleTo(e, p) /\ e.ver >= slast'[p][a] => Informed(p, a)'
         /\ /\ ~ (e.a = a /\ visibleTo(e, p)) /\ slast'[p][a] = slast[p][a]
            /\ listsAgentFor(sspec'[a], p) => listsAgentFor(sspec[a], p)
            => (Informed(p, a) => Informed(p, a)')
<1>1. /\ \A n \in News(p, a) : n \in News(p, a)' /\ EventAt(n)' = EventAt(n)
      /\ \A n \in News(p, a)' : n \in News(p, a) \/ (e.a = a /\ visibleTo(e, p))
      /\ e.a = a /\ visibleTo(e, p) => \E n \in News(p, a)' : EventAt(n)' = e
  BY NewsGrow
<1>2. listsAgentFor(sspec[a], p)' <=> listsAgentFor(sspec'[a], p)
  BY DEF listsAgentFor, RoleFor, orgRoleOf
<1>3. ASSUME e.a = a, visibleTo(e, p), e.ver >= slast'[p][a] PROVE Informed(p, a)'
  <2>1. PICK n \in News(p, a)' : EventAt(n)' = e
    BY <1>1, <1>3
  <2> QED
    BY <1>3, <2>1 DEF Informed
<1>4. ASSUME ~ (e.a = a /\ visibleTo(e, p)), slast'[p][a] = slast[p][a],
             listsAgentFor(sspec'[a], p) => listsAgentFor(sspec[a], p), Informed(p, a)
      PROVE  Informed(p, a)'
  <2>1. CASE sfollow[p].know[a] >= slast[p][a]
    BY <1>4, <2>1 DEF Informed
  <2>2. CASE \E n \in News(p, a) : EventAt(n).ver >= slast[p][a]
    <3>1. PICK n \in News(p, a) : EventAt(n).ver >= slast[p][a]
      BY <2>2
    <3>2. n \in News(p, a)' /\ EventAt(n)' = EventAt(n)
      BY <1>1
    <3> QED
      BY <1>4, <3>1, <3>2 DEF Informed
  <2>3. CASE sfollow[p].know[a] = 0 /\ ~ listsAgentFor(sspec[a], p) /\ News(p, a) = {}
    <3>1. News(p, a)' = {}
      BY <1>1, <1>4, <2>3
    <3> QED
      BY <1>2, <1>4, <2>3, <3>1 DEF Informed
  <2> QED
    BY <1>4, <2>1, <2>2, <2>3 DEF Informed
<1> QED
  BY <1>3, <1>4

-----------------------------------------------------------------------------
(* A change that is told at once, and one that waits to be told. *)

\* What a change does to agents other than its own, and to those it does not concern.
LEMMA OthersUntouched ==
  ASSUME SharedTyped, LastIsListed, NEW x \in AgentId, NEW s \in SpecRows,
         s.ver # 0 \/ s = NoAgent, Put(x, s), UNCHANGED srole,
         NEW p \in People, NEW a \in AgentId, a # x \/ ~ Concerns(x, s, p)
  PROVE  /\ slast'[p][a] = slast[p][a]
         /\ listsAgentFor(sspec'[a], p) => listsAgentFor(sspec[a], p)
<1>1. /\ sspec'[x] = s /\ \A b \in AgentId \ {x} : sspec'[b] = sspec[b]
      /\ \A q \in People, b \in AgentId :
           slast'[q][b] = IF b = x /\ Concerns(x, s, q) THEN NewVer(x, s) ELSE slast[q][b]
  BY PutFacts DEF SharedTyped
<1>2. CASE a = x
  BY <1>1, <1>2 DEF Concerns
<1>3. CASE a # x
  BY <1>1, <1>3
<1> QED
  BY <1>2, <1>3

LEMMA ChangeTold ==
  ASSUME FeedInv, NEW x \in AgentId, NEW s \in SpecRows, s.ver # 0 \/ s = NoAgent, Put(x, s),
         NEW e \in FeedEvent, sfeed' = append(sfeed, e),
         swork' \subseteq swork, \A w \in swork : w.op = "tell" => w \in swork',
         sodd \subseteq sodd', e.a = x, x \notin sodd' => ~ Waits(x) /\ Says(x, s, e),
         UNCHANGED <<srole, sfollow, smisled>>
  PROVE  FeedInv'
<1>1. SharedTyped /\ LastIsListed /\ TellsNewest /\ LinkedIsTold /\ Reached
  BY DEF FeedInv
<1>2. RegistryTyped /\ FeedTyped /\ FollowTyped /\ \A w \in swork : WorkTyped(w)
  BY <1>1 DEF SharedTyped
<1>3. /\ RegistryTyped' /\ LastIsListed' /\ sspec'[x] = s
      /\ \A a \in AgentId \ {x} : sspec'[a] = sspec[a]
      /\ \A p \in People, a \in AgentId :
           slast'[p][a] = IF a = x /\ Concerns(x, s, p) THEN NewVer(x, s) ELSE slast[p][a]
  BY <1>1, <1>2, PutFacts
<1>4. FeedTyped' /\ sfeed'.boot = sfeed.boot /\ sfeed'.seq = sfeed.seq + 1
  BY <1>2, FeedGrows
<1>5. FollowTyped'
  <2>1. sfeed.seq \in Nat /\ sfollow' = sfollow
    BY <1>2 DEF FeedTyped
  <2>2. ASSUME NEW p \in People PROVE /\ sfollow[p].boot <= sfeed'.boot
                                      /\ sfollow[p].boot = sfeed'.boot => sfollow[p].cursor <= sfeed'.seq
    <3>1. sfollow[p].cursor \in Nat
      BY <1>2 DEF FollowTyped
    <3> QED
      BY <1>2, <1>4, <2>1, <3>1 DEF FollowTyped
  <2> QED
    BY <1>2, <2>1, <2>2 DEF FollowTyped
<1>6. SharedTyped'
  <2>1. \A w \in swork' : WorkTyped(w)'
    BY <1>2 DEF WorkTyped
  <2> QED
    BY <1>3, <1>4, <1>5, <2>1 DEF SharedTyped
<1>7. TellsNewest'
  <2> SUFFICES ASSUME NEW w \in swork', w.op = "tell", w.a \notin sodd', NEW p \in People, visibleTo(w.e, p)'
      PROVE w.e.ver = slast'[p][w.a]
    BY DEF TellsNewest
  <2>1. w \in swork /\ w.a \in AgentId /\ w.a \notin sodd /\ visibleTo(w.e, p)
    BY <1>2, SeenStill DEF WorkTyped
  <2>2. w.a # x
    BY <2>1 DEF Waits
  <2> QED
    BY <1>1, <1>3, <2>1, <2>2 DEF TellsNewest
<1>8. LinkedIsTold'
  <2> SUFFICES ASSUME NEW a \in AgentId \ sodd', On(a)', sspec'[a].kind = "linked" PROVE ~ Waits(a)'
    BY DEF LinkedIsTold
  <2>1. ~ Waits(a)
    BY <1>1, <1>3 DEF LinkedIsTold, On
  <2> QED
    BY <2>1 DEF Waits
<1>9. Reached'
  <2> SUFFICES ASSUME NEW p \in People \ smisled', NEW a \in AgentId \ sodd', FollowsOn(p)',
                      ~ \E w \in swork' : Telling(w, a, p)'
      PROVE Informed(p, a)'
    BY DEF Reached
  <2>1. FollowsOn(p)
    BY <1>2, NewsGrow
  <2>2. Informed(p, a)
    <3>1. ~ \E w \in swork : Telling(w, a, p)
      BY SeenStill DEF Telling
    <3> QED
      BY <1>1, <2>1, <3>1 DEF Reached
  <2>3. CASE a = x /\ Concerns(x, s, p)
    <3>1. visibleTo(e, p) /\ e.a = a /\ e.ver = slast'[p][a]
      BY <1>3, <2>3 DEF Says
    <3>2. e.ver >= slast'[p][a]
      BY <3>1 DEF FeedEvent
    <3> QED
      BY <1>2, <3>1, <3>2, InformedGrows
  <2>4. CASE a # x \/ ~ Concerns(x, s, p)
    <3>1. ~ (e.a = a /\ visibleTo(e, p))
      <4>1. CASE a = x
        BY <2>4, <4>1 DEF Says
      <4>2. CASE a # x
        <5>1. e.a = x
          OBVIOUS
        <5> QED
          BY <4>2, <5>1
      <4> QED
        BY <4>1, <4>2
    <3>2. slast'[p][a] = slast[p][a] /\ (listsAgentFor(sspec'[a], p) => listsAgentFor(sspec[a], p))
      BY <1>1, <2>4, OthersUntouched
    <3> QED
      BY <1>2, <2>2, <3>1, <3>2, InformedGrows
  <2> QED
    BY <2>3, <2>4
<1> QED
  BY <1>3, <1>6, <1>7, <1>8, <1>9 DEF FeedInv

LEMMA ChangeWaits ==
  ASSUME FeedInv, NEW x \in AgentId, NEW s \in SpecRows, s.ver # 0 \/ s = NoAgent, Put(x, s),
         s.kind = "hosted" \/ s = NoAgent, NEW e \in FeedEvent, swork' = swork \cup {Tell(e)},
         sodd \subseteq sodd', e.a = x, x \notin sodd' => ~ Waits(x) /\ Says(x, s, e),
         UNCHANGED <<srole, sfeed, sfollow, smisled>>
  PROVE  FeedInv'
<1>1. SharedTyped /\ LastIsListed /\ TellsNewest /\ LinkedIsTold /\ Reached
  BY DEF FeedInv
<1>2. RegistryTyped /\ FeedTyped /\ FollowTyped /\ \A w \in swork : WorkTyped(w)
  BY <1>1 DEF SharedTyped
<1>3. /\ RegistryTyped' /\ LastIsListed' /\ sspec'[x] = s
      /\ \A a \in AgentId \ {x} : sspec'[a] = sspec[a]
      /\ \A p \in People, a \in AgentId :
           slast'[p][a] = IF a = x /\ Concerns(x, s, p) THEN NewVer(x, s) ELSE slast[p][a]
  BY <1>1, <1>2, PutFacts
<1>4. Tell(e).op = "tell" /\ Tell(e).a = x /\ Tell(e).e = e
  BY DEF Tell
<1>5. SharedTyped'
  <2>1. FeedTyped' /\ FollowTyped'
    BY <1>2 DEF FeedTyped, FollowTyped
  <2>2. WorkTyped(Tell(e))
    BY <1>4 DEF WorkTyped
  <2>3. \A w \in swork' : WorkTyped(w)'
    BY <1>2, <2>2 DEF WorkTyped
  <2> QED
    BY <1>3, <2>1, <2>3 DEF SharedTyped
<1>6. TellsNewest'
  <2> SUFFICES ASSUME NEW w \in swork', w.op = "tell", w.a \notin sodd', NEW p \in People, visibleTo(w.e, p)'
      PROVE w.e.ver = slast'[p][w.a]
    BY DEF TellsNewest
  <2>1. visibleTo(w.e, p)
    BY SeenStill
  <2>2. CASE w \in swork
    <3>1. w.a \in AgentId /\ w.a \notin sodd
      BY <1>2, <2>2 DEF WorkTyped
    <3>2. w.a # x
      BY <2>2 DEF Waits
    <3> QED
      BY <1>1, <1>3, <2>1, <2>2, <3>1, <3>2 DEF TellsNewest
  <2>3. CASE w = Tell(e)
    <3>1. Says(x, s, e) /\ w.e = e /\ w.a = x
      BY <1>4, <2>3
    <3> QED
      BY <1>3, <2>1, <3>1 DEF Says
  <2> QED
    BY <2>2, <2>3
<1>7. LinkedIsTold'
  <2> SUFFICES ASSUME NEW a \in AgentId \ sodd', On(a)', sspec'[a].kind = "linked" PROVE ~ Waits(a)'
    BY DEF LinkedIsTold
  <2>1. a # x
    <3>1. NoAgent.ver = 0
      BY DEF NoAgent
    <3> QED
      BY <1>3, <3>1 DEF On
  <2>2. ~ Waits(a)
    BY <1>1, <1>3, <2>1 DEF LinkedIsTold, On
  <2> QED
    BY <1>4, <2>1, <2>2 DEF Waits
<1>8. Reached'
  <2> SUFFICES ASSUME NEW p \in People \ smisled', NEW a \in AgentId \ sodd', FollowsOn(p)',
                      ~ \E w \in swork' : Telling(w, a, p)'
      PROVE Informed(p, a)'
    BY DEF Reached
  <2>1. FollowsOn(p)
    BY DEF FollowsOn, Gap, dropped
  <2>2. \A w \in swork' : ~ Telling(w, a, p)
    BY SeenStill DEF Telling
  <2>3. Informed(p, a)
    BY <1>1, <2>1, <2>2 DEF Reached
  <2>4. a # x \/ ~ Concerns(x, s, p)
    BY <1>4, <2>2 DEF Telling, Says
  <2>5. slast'[p][a] = slast[p][a] /\ (listsAgentFor(sspec'[a], p) => listsAgentFor(sspec[a], p))
    BY <1>1, <2>4, OthersUntouched
  <2> QED
    BY <2>3, <2>5, InformedStays
<1> QED
  BY <1>3, <1>5, <1>6, <1>7, <1>8 DEF FeedInv

\* Nothing changes but what waits for an upstream.
LEMMA WorkMoves ==
  ASSUME FeedInv, \A w \in swork' : WorkTyped(w), \A w : w.op = "tell" => (w \in swork' <=> w \in swork),
         UNCHANGED <<srole, sspec, slast, sfeed, sfollow, sodd, smisled>>
  PROVE  FeedInv'
<1>1. SharedTyped /\ LastIsListed /\ TellsNewest /\ LinkedIsTold /\ Reached
  BY DEF FeedInv
<1>2. SharedTyped'
  <2>1. \A w \in swork' : WorkTyped(w)'
    BY DEF WorkTyped
  <2> QED
    BY <1>1, <2>1 DEF SharedTyped, RegistryTyped, FeedTyped, FollowTyped, On
<1>3. LastIsListed'
  BY <1>1, SeenStill DEF LastIsListed, On
<1>4. TellsNewest'
  BY <1>1, SeenStill DEF TellsNewest
<1>5. LinkedIsTold'
  BY <1>1 DEF LinkedIsTold, On, Waits
<1>6. Reached'
  <2> SUFFICES ASSUME NEW p \in People \ smisled', NEW a \in AgentId \ sodd', FollowsOn(p)',
                      ~ \E w \in swork' : Telling(w, a, p)'
      PROVE Informed(p, a)'
    BY DEF Reached
  <2>1. FollowsOn(p)
    BY DEF FollowsOn, Gap, dropped
  <2>2. \A w \in swork : ~ Telling(w, a, p)
    BY SeenStill DEF Telling
  <2>3. Informed(p, a)
    BY <1>1, <2>1, <2>2 DEF Reached
  <2>4. slast'[p][a] = slast[p][a] /\ sspec'[a] = sspec[a]
    OBVIOUS
  <2> QED
    BY <2>3, <2>4, InformedStays
<1> QED
  BY <1>2, <1>3, <1>4, <1>5, <1>6 DEF FeedInv

-----------------------------------------------------------------------------
(* Each operation says its change well. *)

LEMMA SharingsAre ==
  ASSUME NEW sh \in Sharings
  PROVE  sh[1] \in Visibility /\ sh[2] \in Team \cup {NoTeam}
BY DEF Sharings, Visibility

LEMMA SharedAre ==
  ASSUME NEW s \in SpecRows, NEW sh \in Sharings
  PROVE  LET n == Shared(s, sh) IN
         /\ n \in SpecRows /\ n.ver = s.ver + 1 /\ n.ver # 0 /\ n.kind = s.kind /\ n.owner = s.owner
         /\ n.vis = sh[1] /\ n.team = sh[2]
<1>1. sh[1] \in Visibility /\ sh[2] \in Team \cup {NoTeam}
  BY SharingsAre
<1>2. Shared(s, sh) = [s EXCEPT !.ver = s.ver + 1, !.vis = sh[1], !.team = sh[2]]
  BY DEF Shared
<1>3. s.ver \in Nat /\ s.ver + 1 \in Nat /\ s.ver + 1 # 0
  BY DEF SpecRows
<1> QED
  BY <1>1, <1>2, <1>3 DEF SpecRows

LEMMA NewAre ==
  ASSUME NEW kind \in {"linked", "hosted"}, NEW p \in People, NEW sh \in Sharings
  PROVE  New(kind, p, sh) \in SpecRows /\ New(kind, p, sh).ver = 1 /\ New(kind, p, sh).kind = kind
BY SharingsAre DEF New, SpecRows

LEMMA EventsAre ==
  ASSUME NEW x \in AgentId, NEW v \in Nat, NEW aud \in SpecRows
  PROVE  /\ Event(x, v, aud) \in FeedEvent
         /\ Event(x, v, aud).a = x /\ Event(x, v, aud).ver = v /\ Event(x, v, aud).aud = aud
BY DEF Event, FeedEvent

LEMMA ChangeIsSaid ==
  ASSUME NEW x \in AgentId, sspec[x] \in SpecRows, NEW sh \in Sharings, NEW s, s = Shared(sspec[x], sh),
         NEW e, e = Event(x, sspec[x].ver + 1, widerAudience(sspec[x], s))
  PROVE  e \in FeedEvent /\ e.a = x /\ (~ TeamMoved(sspec[x], sh) => Says(x, s, e))
<1>1. /\ s \in SpecRows /\ s.ver = sspec[x].ver + 1 /\ s.ver # 0 /\ s.owner = sspec[x].owner
      /\ s.vis = sh[1] /\ s.team = sh[2]
  BY SharedAre
<1>2. widerAudience(sspec[x], s) \in SpecRows /\ sspec[x].ver + 1 \in Nat
  BY <1>1 DEF widerAudience, SpecRows
<1>3. /\ e \in FeedEvent /\ e.a = x /\ e.ver = sspec[x].ver + 1
      /\ e.aud = widerAudience(sspec[x], s)
  BY <1>2, EventsAre
<1>4. ASSUME ~ TeamMoved(sspec[x], sh) PROVE Says(x, s, e)
  <2>1. sspec[x].vis = "org" /\ s.vis = "org" => sspec[x].team = s.team
    BY <1>1, <1>4 DEF TeamMoved
  <2>2. \A p \in People : visibleTo(e, p) <=> Concerns(x, s, p)
    BY <1>1, <1>3, <2>1, WiderSeesBoth DEF visibleTo, Concerns
  <2>3. e.ver = NewVer(x, s)
    BY <1>1, <1>3 DEF NewVer
  <2> QED
    BY <1>3, <2>2, <2>3 DEF Says
<1> QED
  BY <1>3, <1>4

LEMMA NewIsSaid ==
  ASSUME NEW x \in AgentId, sspec[x] = NoAgent, NEW kind \in {"linked", "hosted"}, NEW q \in People,
         NEW sh \in Sharings, NEW s, s = New(kind, q, sh), NEW e, e = Event(x, 1, s)
  PROVE  e \in FeedEvent /\ e.a = x /\ Says(x, s, e)
<1>1. s \in SpecRows /\ s.ver = 1 /\ 1 \in Nat
  BY NewAre
<1>2. e \in FeedEvent /\ e.a = x /\ e.ver = 1 /\ e.aud = s
  BY <1>1, EventsAre
<1>3. \A p \in People : visibleTo(e, p) <=> Concerns(x, s, p)
  BY <1>2, NobodyIsNoTeam DEF visibleTo, Concerns
<1> QED
  BY <1>1, <1>2, <1>3 DEF Says, NewVer

LEMMA EndIsSaid ==
  ASSUME NEW x \in AgentId, sspec[x] \in SpecRows, NEW e, e = Event(x, sspec[x].ver + 1, sspec[x])
  PROVE  e \in FeedEvent /\ e.a = x /\ Says(x, NoAgent, e)
<1>1. sspec[x].ver + 1 \in Nat /\ NoAgent.ver = 0
  BY DEF SpecRows, NoAgent
<1>2. e \in FeedEvent /\ e.a = x /\ e.ver = sspec[x].ver + 1 /\ e.aud = sspec[x]
  BY <1>1, EventsAre
<1>3. \A p \in People : visibleTo(e, p) <=> Concerns(x, NoAgent, p)
  BY <1>2, NobodyIsNoTeam DEF visibleTo, Concerns
<1> QED
  BY <1>1, <1>2, <1>3 DEF Says, NewVer

LEMMA OddFacts ==
  ASSUME NEW x, NEW c \in BOOLEAN, Odd(x, c)
  PROVE  sodd \subseteq sodd' /\ (x \notin sodd' => ~ c /\ ~ Waits(x))
BY DEF Odd

-----------------------------------------------------------------------------
(* The operations. *)

LEMMA RowsAre ==
  ASSUME FeedInv
  PROVE  /\ \A a \in AgentId : sspec[a] \in SpecRows /\ (On(a) \/ sspec[a] = NoAgent)
         /\ \A w \in swork : WorkTyped(w)
         /\ \A x, s : Put(x, s) /\ x \in AgentId => sspec'[x] = s
BY DEF FeedInv, SharedTyped, RegistryTyped, Put

LEMMA LinkAsked ==
  ASSUME FeedInv, LinkAsks
  PROVE  FeedInv'
<1>1. PICK a \in AgentId, p \in People, sh \in Sharings :
        \/ swork' = swork \cup {[op |-> "create", a |-> a, p |-> p, sh |-> sh, prior |-> NoAgent]}
        \/ swork' = swork \cup {[op |-> "update", a |-> a, p |-> p, sh |-> sh, prior |-> sspec[a]]}
  BY DEF LinkAsks
<1>2. PICK w : /\ swork' = swork \cup {w} /\ w.op \in {"create", "update"} /\ w.a \in AgentId
               /\ w.p \in People /\ w.sh \in Sharings /\ w.prior \in SpecRows
  <2>1. NoAgent \in SpecRows /\ sspec[a] \in SpecRows
    BY RowsAre, NobodyIsNoTeam
  <2>2. \A op \in {"create", "update"}, s \in SpecRows :
          LET w == [op |-> op, a |-> a, p |-> p, sh |-> sh, prior |-> s] IN
          w.op \in {"create", "update"} /\ w.a \in AgentId /\ w.p \in People /\ w.sh \in Sharings
          /\ w.prior \in SpecRows
    OBVIOUS
  <2>3. PICK op \in {"create", "update"}, s \in SpecRows :
          swork' = swork \cup {[op |-> op, a |-> a, p |-> p, sh |-> sh, prior |-> s]}
    BY <1>1, <2>1
  <2> QED
    BY <2>2, <2>3
<1>3. \A v \in swork' : WorkTyped(v)
  <2>1. WorkTyped(w)
    BY <1>2 DEF WorkTyped
  <2> QED
    BY <1>2, <2>1, RowsAre
<1>4. \A v : v.op = "tell" => (v \in swork' <=> v \in swork)
  BY <1>2
<1>5. UNCHANGED <<srole, sspec, slast, sfeed, sfollow, sodd, smisled>>
  BY DEF LinkAsks
<1> QED
  BY <1>3, <1>4, <1>5, WorkMoves

\* A request that came back to an agent it cannot be applied to changes nothing.
LEMMA WorkDropped ==
  ASSUME FeedInv, NEW w \in swork, w.op # "tell", swork' = swork \ {w},
         UNCHANGED <<srole, sspec, slast, sfeed, sfollow, sodd, smisled>>
  PROVE  FeedInv'
<1>1. (\A v \in swork' : WorkTyped(v)) /\ \A v : v.op = "tell" => (v \in swork' <=> v \in swork)
  BY RowsAre
<1> QED
  BY <1>1, WorkMoves

LEMMA LinkIsCreated ==
  ASSUME FeedInv, LinkCreated
  PROVE  FeedInv'
<1>1. PICK w \in swork :
        /\ w.op = "create" /\ swork' = swork \ {w}
        /\ IF On(w.a) THEN UNCHANGED <<sspec, slast, sfeed, sodd>>
           ELSE /\ Put(w.a, New("linked", w.p, w.sh))
                /\ sfeed' = append(sfeed, Event(w.a, 1, sspec'[w.a]))
                /\ Odd(w.a, WasThere(w.a))
  BY DEF LinkCreated
<1>2. UNCHANGED <<srole, sfollow, smisled>> /\ w.op # "tell"
  BY <1>1 DEF LinkCreated
<1>3. CASE On(w.a)
  BY <1>1, <1>2, <1>3, WorkDropped
<1>4. CASE ~ On(w.a)
  <2>1. w.a \in AgentId /\ w.p \in People /\ w.sh \in Sharings
    BY <1>1, RowsAre DEF WorkTyped
  <2>2. PICK x, s, e :
          x = w.a /\ x \in AgentId /\ s = New("linked", w.p, w.sh) /\ e = Event(x, 1, s)
    BY <2>1
  <2>3. Put(x, s) /\ sspec'[x] = s /\ sspec[x] = NoAgent
    BY <1>1, <1>4, <2>2, RowsAre
  <2>4. sfeed' = append(sfeed, e) /\ Odd(x, WasThere(x))
    BY <1>1, <1>4, <2>2, <2>3
  <2>5. s \in SpecRows /\ s.ver # 0
    BY <2>1, <2>2, NewAre
  <2>6. e \in FeedEvent /\ e.a = x /\ Says(x, s, e)
    BY <2>1, <2>2, <2>3, NewIsSaid
  <2>7. sodd \subseteq sodd' /\ (x \notin sodd' => ~ Waits(x))
    BY <2>4 DEF Odd
  <2>8. swork' \subseteq swork /\ \A v \in swork : v.op = "tell" => v \in swork'
    BY <1>1
  <2> QED
    BY <1>2, <2>2, <2>3, <2>4, <2>5, <2>6, <2>7, <2>8, ChangeTold
<1> QED
  BY <1>3, <1>4

LEMMA LinkIsUpdated ==
  ASSUME FeedInv, LinkUpdated
  PROVE  FeedInv'
<1>1. PICK w \in swork :
        /\ w.op = "update" /\ swork' = swork \ {w}
        /\ IF ~ On(w.a) \/ sspec[w.a].kind # "linked" THEN UNCHANGED <<sspec, slast, sfeed, sodd>>
           ELSE /\ Put(w.a, Shared(sspec[w.a], w.sh))
                /\ sfeed' = append(sfeed, Event(w.a, sspec'[w.a].ver, widerAudience(w.prior, sspec'[w.a])))
                /\ Odd(w.a, TeamMoved(w.prior, w.sh) \/ sspec[w.a] # w.prior)
  BY DEF LinkUpdated
<1>2. UNCHANGED <<srole, sfollow, smisled>> /\ w.op # "tell"
  BY <1>1 DEF LinkUpdated
<1>3. CASE ~ On(w.a) \/ sspec[w.a].kind # "linked"
  BY <1>1, <1>2, <1>3, WorkDropped
<1>4. CASE ~ (~ On(w.a) \/ sspec[w.a].kind # "linked")
  <2>1. w.a \in AgentId /\ w.sh \in Sharings /\ w.prior \in SpecRows
    BY <1>1, RowsAre DEF WorkTyped
  <2>2. PICK x, s, e :
          x = w.a /\ x \in AgentId /\ s = Shared(sspec[x], w.sh) /\ e = Event(x, s.ver, widerAudience(w.prior, s))
    BY <2>1
  <2>3. Put(x, s) /\ sspec'[x] = s /\ sspec[x] \in SpecRows
    BY <1>1, <1>4, <2>2, RowsAre
  <2>4. sfeed' = append(sfeed, e) /\ Odd(x, TeamMoved(w.prior, w.sh) \/ sspec[x] # w.prior)
    BY <1>1, <1>4, <2>2, <2>3
  <2>5. s \in SpecRows /\ s.ver = sspec[x].ver + 1 /\ s.ver # 0
    BY <2>1, <2>2, <2>3, SharedAre
  <2>6. e \in FeedEvent /\ e.a = x
    <3>1. widerAudience(w.prior, s) \in SpecRows /\ s.ver \in Nat
      BY <2>1, <2>5 DEF widerAudience, SpecRows
    <3> QED
      BY <2>2, <3>1, EventsAre
  <2>7. sodd \subseteq sodd' /\ (x \notin sodd' => /\ ~ TeamMoved(w.prior, w.sh) /\ sspec[x] = w.prior
                                                  /\ ~ Waits(x))
    BY <2>4 DEF Odd
  <2>8. x \notin sodd' => Says(x, s, e)
    <3> SUFFICES ASSUME x \notin sodd' PROVE Says(x, s, e)
      OBVIOUS
    <3>1. sspec[x] = w.prior /\ ~ TeamMoved(sspec[x], w.sh)
      BY <2>7
    <3>2. e = Event(x, sspec[x].ver + 1, widerAudience(sspec[x], s))
      BY <2>2, <2>5, <3>1
    <3> QED
      BY <2>1, <2>2, <2>3, <3>1, <3>2, ChangeIsSaid
  <2>9. swork' \subseteq swork /\ \A v \in swork : v.op = "tell" => v \in swork'
    BY <1>1
  <2> QED
    BY <1>2, <2>2, <2>3, <2>4, <2>5, <2>6, <2>7, <2>8, <2>9, ChangeTold
<1> QED
  BY <1>3, <1>4

LEMMA HostCreated ==
  ASSUME FeedInv, HostCreates
  PROVE  FeedInv'
<1>1. PICK x \in AgentId, q \in People, sh \in Sharings :
        /\ ~ On(x) /\ Put(x, New("hosted", q, sh))
        /\ swork' = swork \cup {Tell(Event(x, 1, sspec'[x]))} /\ Odd(x, WasThere(x))
  BY DEF HostCreates
<1>2. PICK s, e : s = New("hosted", q, sh) /\ e = Event(x, 1, s)
  OBVIOUS
<1>3. Put(x, s) /\ sspec'[x] = s /\ sspec[x] = NoAgent /\ swork' = swork \cup {Tell(e)}
  <2>1. Put(x, s) /\ sspec'[x] = s /\ sspec[x] = NoAgent
    BY <1>1, <1>2, RowsAre
  <2> QED
    BY <1>1, <1>2, <2>1
<1>4. s \in SpecRows /\ s.ver # 0 /\ s.kind = "hosted"
  BY <1>2, NewAre
<1>5. e \in FeedEvent /\ e.a = x /\ Says(x, s, e)
  BY <1>2, <1>3, NewIsSaid
<1>6. sodd \subseteq sodd' /\ (x \notin sodd' => ~ Waits(x))
  BY <1>1 DEF Odd
<1>7. UNCHANGED <<srole, sfeed, sfollow, smisled>>
  BY DEF HostCreates
<1> QED
  BY <1>3, <1>4, <1>5, <1>6, <1>7, ChangeWaits

LEMMA HostUpdated ==
  ASSUME FeedInv, HostUpdates
  PROVE  FeedInv'
<1>1. PICK x \in AgentId, sh \in Sharings :
        /\ sspec[x].kind = "hosted" /\ Put(x, Shared(sspec[x], sh))
        /\ swork' = swork \cup {Tell(Event(x, sspec[x].ver + 1, widerAudience(sspec[x], sspec'[x])))}
        /\ Odd(x, TeamMoved(sspec[x], sh))
  BY DEF HostUpdates
<1>2. PICK s, e : s = Shared(sspec[x], sh) /\ e = Event(x, sspec[x].ver + 1, widerAudience(sspec[x], s))
  OBVIOUS
<1>3. Put(x, s) /\ sspec'[x] = s /\ sspec[x] \in SpecRows
  BY <1>1, <1>2, RowsAre
<1>4. swork' = swork \cup {Tell(e)}
  BY <1>1, <1>2, <1>3
<1>5. s \in SpecRows /\ s.ver # 0 /\ s.kind = "hosted"
  BY <1>1, <1>2, <1>3, SharedAre
<1>6. e \in FeedEvent /\ e.a = x /\ (~ TeamMoved(sspec[x], sh) => Says(x, s, e))
  BY <1>2, <1>3, ChangeIsSaid
<1>7. sodd \subseteq sodd' /\ (x \notin sodd' => ~ TeamMoved(sspec[x], sh) /\ ~ Waits(x))
  BY <1>1 DEF Odd
<1>8. UNCHANGED <<srole, sfeed, sfollow, smisled>>
  BY DEF HostUpdates
<1> QED
  BY <1>3, <1>4, <1>5, <1>6, <1>7, <1>8, ChangeWaits

LEMMA HostRemoved ==
  ASSUME FeedInv, HostRemoves
  PROVE  FeedInv'
<1>1. PICK x \in AgentId :
        /\ Put(x, NoAgent)
        /\ swork' = swork \cup {Tell(Event(x, sspec[x].ver + 1, sspec[x]))} /\ Odd(x, FALSE)
  BY DEF HostRemoves
<1>2. PICK s, e : s = NoAgent /\ e = Event(x, sspec[x].ver + 1, sspec[x])
  OBVIOUS
<1>3. Put(x, s) /\ s \in SpecRows /\ swork' = swork \cup {Tell(e)}
  <2>1. NoAgent \in SpecRows
    BY DEF NoAgent, SpecRows, Visibility
  <2> QED
    BY <1>1, <1>2, <2>1
<1>4. e \in FeedEvent /\ e.a = x /\ Says(x, s, e)
  BY <1>2, RowsAre, EndIsSaid
<1>5. sodd \subseteq sodd' /\ (x \notin sodd' => ~ Waits(x))
  BY <1>1 DEF Odd
<1>6. UNCHANGED <<srole, sfeed, sfollow, smisled>>
  BY DEF HostRemoves
<1> QED
  BY <1>2, <1>3, <1>4, <1>5, <1>6, ChangeWaits

LEMMA LinkIsRemoved ==
  ASSUME FeedInv, LinkRemoved
  PROVE  FeedInv'
<1>1. PICK x \in AgentId :
        /\ On(x) /\ sspec[x].kind = "linked" /\ Put(x, NoAgent)
        /\ sfeed' = append(sfeed, Event(x, sspec[x].ver + 1, sspec[x]))
  BY DEF LinkRemoved
<1>2. PICK s, e : s = NoAgent /\ e = Event(x, sspec[x].ver + 1, sspec[x])
  OBVIOUS
<1>3. Put(x, s) /\ s \in SpecRows /\ sfeed' = append(sfeed, e)
  <2>1. NoAgent \in SpecRows
    BY DEF NoAgent, SpecRows, Visibility
  <2> QED
    BY <1>1, <1>2, <2>1
<1>4. e \in FeedEvent /\ e.a = x /\ Says(x, s, e)
  BY <1>2, RowsAre, EndIsSaid
<1>5. UNCHANGED <<srole, swork, sfollow, sodd, smisled>>
  BY DEF LinkRemoved
<1>6. x \notin sodd' => ~ Waits(x)
  BY <1>1, <1>5 DEF FeedInv, LinkedIsTold
<1> QED
  BY <1>2, <1>3, <1>4, <1>5, <1>6, ChangeTold

LEMMA SharingIsSet ==
  ASSUME FeedInv, SetSharing
  PROVE  FeedInv'
<1>1. PICK x \in AgentId, sh \in Sharings :
        /\ Put(x, Shared(sspec[x], sh))
        /\ sfeed' = append(sfeed, Event(x, sspec[x].ver + 1, widerAudience(sspec[x], sspec'[x])))
        /\ Odd(x, TeamMoved(sspec[x], sh))
  BY DEF SetSharing
<1>2. PICK s, e : s = Shared(sspec[x], sh) /\ e = Event(x, sspec[x].ver + 1, widerAudience(sspec[x], s))
  OBVIOUS
<1>3. Put(x, s) /\ sspec'[x] = s /\ sspec[x] \in SpecRows
  BY <1>1, <1>2, RowsAre
<1>4. sfeed' = append(sfeed, e)
  BY <1>1, <1>2, <1>3
<1>5. s \in SpecRows /\ s.ver # 0
  BY <1>2, <1>3, SharedAre
<1>6. e \in FeedEvent /\ e.a = x /\ (~ TeamMoved(sspec[x], sh) => Says(x, s, e))
  BY <1>2, <1>3, ChangeIsSaid
<1>7. sodd \subseteq sodd' /\ (x \notin sodd' => ~ TeamMoved(sspec[x], sh) /\ ~ Waits(x))
  BY <1>1 DEF Odd
<1>8. UNCHANGED <<srole, swork, sfollow, smisled>>
  BY DEF SetSharing
<1> QED
  BY <1>3, <1>4, <1>5, <1>6, <1>7, <1>8, ChangeTold

LEMMA ToldMoves ==
  ASSUME FeedInv, Told
  PROVE  FeedInv'
<1>1. PICK w \in swork : w.op = "tell" /\ swork' = swork \ {w} /\ sfeed' = append(sfeed, w.e)
  BY DEF Told
<1>2. UNCHANGED <<srole, sspec, slast, sfollow, sodd, smisled>>
  BY DEF Told
<1>3. SharedTyped /\ LastIsListed /\ TellsNewest /\ LinkedIsTold /\ Reached
  BY DEF FeedInv
<1>4. RegistryTyped /\ FeedTyped /\ FollowTyped /\ \A v \in swork : WorkTyped(v)
  BY <1>3 DEF SharedTyped
<1>5. w.e \in FeedEvent /\ w.e.a = w.a /\ w.a \in AgentId
  BY <1>1, <1>4 DEF WorkTyped
<1>6. FeedTyped' /\ sfeed'.boot = sfeed.boot /\ sfeed'.seq = sfeed.seq + 1
  BY <1>1, <1>4, <1>5, FeedGrows
<1>7. SharedTyped'
  <2>1. RegistryTyped'
    BY <1>2, <1>4 DEF RegistryTyped, On
  <2>2. FollowTyped'
    <3>1. sfeed.seq \in Nat /\ sfollow' = sfollow
      BY <1>2, <1>4 DEF FeedTyped
    <3>2. ASSUME NEW p \in People PROVE /\ sfollow[p].boot <= sfeed'.boot
                                        /\ sfollow[p].boot = sfeed'.boot => sfollow[p].cursor <= sfeed'.seq
      <4>1. sfollow[p].cursor \in Nat
        BY <1>4 DEF FollowTyped
      <4> QED
        BY <1>4, <1>6, <3>1, <4>1 DEF FollowTyped
    <3> QED
      BY <1>4, <3>1, <3>2 DEF FollowTyped
  <2>3. \A v \in swork' : WorkTyped(v)'
    BY <1>1, <1>4 DEF WorkTyped
  <2> QED
    BY <1>6, <2>1, <2>2, <2>3 DEF SharedTyped
<1>8. LastIsListed'
  BY <1>2, <1>3, SeenStill DEF LastIsListed, On
<1>9. TellsNewest'
  BY <1>1, <1>2, <1>3, SeenStill DEF TellsNewest
<1>10. LinkedIsTold'
  BY <1>1, <1>2, <1>3 DEF LinkedIsTold, On, Waits
<1>11. Reached'
  <2> SUFFICES ASSUME NEW p \in People \ smisled', NEW a \in AgentId \ sodd', FollowsOn(p)',
                      ~ \E v \in swork' : Telling(v, a, p)'
      PROVE Informed(p, a)'
    BY DEF Reached
  <2>1. UNCHANGED <<srole, sfollow>>
    BY <1>2
  <2>2. FollowsOn(p)
    BY <1>1, <1>4, <1>5, <2>1, NewsGrow
  <2>3. CASE w.e.a = a /\ visibleTo(w.e, p)
    <3>1. w.e.ver = slast[p][a]
      BY <1>1, <1>2, <1>3, <1>5, <2>3 DEF TellsNewest
    <3>2. w.e.ver >= slast'[p][a]
      BY <1>2, <1>5, <3>1 DEF FeedEvent
    <3> QED
      BY <1>1, <1>4, <1>5, <2>1, <2>3, <3>2, InformedGrows
  <2>4. CASE ~ (w.e.a = a /\ visibleTo(w.e, p))
    <3>1. \A v \in swork : ~ Telling(v, a, p)
      BY <1>1, <1>2, <1>5, <2>4, SeenStill DEF Telling
    <3>2. Informed(p, a)
      BY <1>2, <1>3, <2>2, <3>1 DEF Reached
    <3>3. slast'[p][a] = slast[p][a] /\ sspec'[a] = sspec[a]
      BY <1>2
    <3> QED
      BY <1>1, <1>4, <1>5, <2>1, <2>4, <3>2, <3>3, InformedGrows
  <2> QED
    BY <2>3, <2>4
<1> QED
  BY <1>7, <1>8, <1>9, <1>10, <1>11 DEF FeedInv

\* A start of the node leaves no follower with a cursor of this start, and nothing to tell.
LEMMA FeedRestarts ==
  ASSUME FeedInv, SharedRestart
  PROVE  FeedInv'
<1>1. /\ sfeed' = [boot |-> sfeed.boot + 1, seq |-> 0, events |-> << >>] /\ swork' = {}
      /\ UNCHANGED <<srole, sspec, slast, sfollow, smisled>>
  BY DEF SharedRestart
<1>2. RegistryTyped /\ FeedTyped /\ FollowTyped /\ LastIsListed
  BY DEF FeedInv, SharedTyped
<1>3. sfeed'.boot = sfeed.boot + 1 /\ sfeed'.seq = 0 /\ sfeed'.events = << >> /\ sfeed.boot \in Nat
  BY <1>1, <1>2 DEF FeedTyped
<1>4. FeedTyped'
  <2>1. << >> \in Seq(FeedEvent) /\ Len(<< >>) = 0
    BY EmptySeq
  <2> QED
    BY <1>1, <1>3, <2>1 DEF FeedTyped
<1>5. \A p \in People : sfollow'[p].boot <= sfeed'.boot /\ sfollow'[p].boot # sfeed'.boot
  <2> TAKE p \in People
  <2>1. sfollow[p].boot \in Nat /\ sfollow[p].boot <= sfeed.boot
    BY <1>2 DEF FollowTyped
  <2> QED
    BY <1>1, <1>3, <2>1
<1>6. FollowTyped' /\ RegistryTyped'
  BY <1>1, <1>2, <1>5 DEF FollowTyped, RegistryTyped, On
<1>7. SharedTyped'
  BY <1>1, <1>4, <1>6 DEF SharedTyped
<1>8. LastIsListed'
  BY <1>1, <1>2, SeenStill DEF LastIsListed, On
<1>9. TellsNewest' /\ LinkedIsTold'
  BY <1>1 DEF TellsNewest, LinkedIsTold, Waits
<1>10. Reached'
  BY <1>5 DEF Reached, FollowsOn
<1> QED
  BY <1>7, <1>8, <1>9, <1>10 DEF FeedInv

\* What p knows of a, after it applied the n events of es to what it had.
HasNewest(know, es, n, p, a) ==
  /\ Newest(know, es, p)[a] \in Nat /\ Newest(know, es, p)[a] >= know[a]
  /\ \A i \in 1 .. n : es[i].a = a /\ visibleTo(es[i], p) => Newest(know, es, p)[a] >= es[i].ver
  /\ (\A i \in 1 .. n : ~ (es[i].a = a /\ visibleTo(es[i], p))) => Newest(know, es, p)[a] = know[a]
AreEvents(es, n) == DOMAIN es = 1 .. n /\ \A i \in 1 .. n : es[i].ver \in Nat

\* A follower applies the highest version of what it read and what it had.
LEMMA NewestFacts ==
  ASSUME NEW know \in [AgentId -> Nat], NEW n \in Nat, NEW es, AreEvents(es, n), NEW p, NEW a \in AgentId
  PROVE  HasNewest(know, es, n, p, a)
<1>0. DOMAIN es = 1 .. n /\ \A i \in 1 .. n : es[i].ver \in Nat
  BY DEF AreEvents
<1> DEFINE D == {j \in DOMAIN es : es[j].a = a /\ visibleTo(es[j], p)}
           S == D \cup {0}
           f == [i \in S |-> IF i = 0 THEN know[a] ELSE es[i].ver]
           vs == {know[a]} \cup {es[i].ver : i \in D}
<1>1. Newest(know, es, p)[a] = CHOOSE v \in vs : \A x \in vs : v >= x
  BY DEF Newest
<1>2. IsFiniteSet(S) /\ S # {} /\ 0 \notin D /\ D \subseteq 1 .. n
  <2>1. IsFiniteSet(1 .. n)
    <3>1. PICK lo \in Int, hi \in Int : lo = 1 /\ hi = n
      OBVIOUS
    <3>2. IsFiniteSet(lo .. hi)
      BY FS_Interval
    <3> QED
      BY <3>1, <3>2
  <2>2. D \subseteq 1 .. n
    BY <1>0
  <2>3. IsFiniteSet(D)
    BY <2>1, <2>2, FS_Subset
  <2>4. IsFiniteSet(D \cup {0})
    BY <2>3, FS_AddElement
  <2> QED
    BY <2>2, <2>4
<1>3. \A i \in S : f[i] \in Nat
  BY <1>0, <1>2
<1>4. vs = {f[i] : i \in S}
  <2>1. f[0] = know[a] /\ \A i \in D : f[i] = es[i].ver
    BY <1>2
  <2> HIDE DEF f, D
  <2>2. {f[i] : i \in S} = {f[0]} \cup {f[i] : i \in D}
    OBVIOUS
  <2> QED
    BY <2>1, <2>2
<1> HIDE DEF f, D, S, vs
<1>5. /\ Max({f[i] : i \in S}) \in Nat
      /\ \A i \in S : f[i] <= Max({f[j] : j \in S})
  BY <1>2, <1>3, Largest
<1>6. Newest(know, es, p)[a] = Max(vs)
  BY <1>1 DEF Max
<1>7. PICK m \in Nat : m = Newest(know, es, p)[a]
  BY <1>4, <1>5, <1>6
<1>8. \A v \in vs : v <= m
  BY <1>4, <1>5, <1>6, <1>7
<1>9. know[a] \in vs /\ know[a] \in Nat /\ \A i \in D : es[i].ver \in vs /\ es[i].ver \in Nat
  BY <1>0, <1>2 DEF vs
<1>10. m >= know[a] /\ \A i \in D : m >= es[i].ver
  BY <1>8, <1>9
<1>11. ASSUME \A i \in 1 .. n : ~ (es[i].a = a /\ visibleTo(es[i], p)) PROVE m = know[a]
  <2>1. D = {}
    BY <1>0, <1>11 DEF D
  <2>2. vs = {know[a]}
    BY <2>1 DEF vs
  <2> QED
    BY <1>1, <1>7, <1>9, <2>2
<1>12. \A i \in 1 .. n : es[i].a = a /\ visibleTo(es[i], p) => i \in D
  BY <1>0 DEF D
<1> QED
  BY <1>7, <1>10, <1>11, <1>12 DEF HasNewest

\* What a follower reads from its cursor on is its news.
IsNews(new, n, q) ==
  /\ AreEvents(new, n)
  /\ \A a : \A k \in News(q, a) : \E i \in 1 .. n : new[i] = EventAt(k)
  /\ \A a : \A i \in 1 .. n : new[i].a = a /\ visibleTo(new[i], q) => News(q, a) # {}

LEMMA ReadOn ==
  ASSUME FeedTyped, FollowTyped, NEW q \in People, ~ Gap(sfollow[q].cursor), NEW new,
         new = SubSeq(sfeed.events, sfollow[q].cursor - dropped + 1, Len(sfeed.events))
  PROVE  \E n \in Nat : IsNews(new, n, q)
<1>1. PICK c \in Nat, s \in Nat, d \in Int, l \in Nat :
        c = sfollow[q].cursor /\ s = sfeed.seq /\ d = dropped /\ l = Len(sfeed.events)
  <2>1. sfollow[q].cursor \in Nat /\ sfeed.seq \in Nat /\ Len(sfeed.events) \in Nat
    BY LenProperties DEF FeedTyped, FollowTyped
  <2> QED
    BY <2>1 DEF dropped
<1>2. d = s - l /\ d \in Nat /\ l <= s /\ d <= c /\ c <= s
  <2>1. d = s - l /\ l <= s
    BY <1>1 DEF FeedTyped, dropped
  <2>2. ~ (c > s) /\ ~ (c < d)
    BY <1>1 DEF Gap
  <2> QED
    BY <2>1, <2>2
<1>3. PICK es : es = sfeed.events
  OBVIOUS
<1>4. es \in Seq(FeedEvent) /\ l = Len(es)
  BY <1>1, <1>3 DEF FeedTyped
<1>5. \A i \in 1 .. l : es[i] \in FeedEvent
  BY <1>4, ElementOfSeq
<1>6. PICK m \in Nat \ {0} : m = c - d + 1
  BY <1>2
<1>7. PICK n \in Nat : n = s - c
  BY <1>2
<1>8. new = SubSeq(es, m, l)
  BY <1>1, <1>3, <1>6
<1>9. /\ new \in Seq(FeedEvent) /\ Len(new) = (IF m <= l THEN l - m + 1 ELSE 0)
      /\ \A i \in 1 .. l - m + 1 : new[i] = es[m + i - 1]
  <2>1. \A i \in m .. l : es[i] \in FeedEvent
    BY <1>5
  <2>2. m \in Int /\ l \in Int
    OBVIOUS
  <2> QED
    <3>1. /\ SubSeq(es, m, l) \in Seq(FeedEvent)
          /\ Len(SubSeq(es, m, l)) = (IF m <= l THEN l - m + 1 ELSE 0)
          /\ \A i \in 1 .. l - m + 1 : SubSeq(es, m, l)[i] = es[m + i - 1]
      BY <2>1, <2>2, SubSeqProperties
    <3> QED
      BY <1>8, <3>1
<1>10. l - m + 1 = n
  BY <1>2, <1>6, <1>7
<1>11. Len(new) = n
  <2>1. CASE m <= l
    BY <1>9, <1>10, <2>1
  <2>2. CASE ~ (m <= l)
    <3>1. n = 0
      BY <1>10, <2>2
    <3> QED
      BY <1>9, <2>2, <3>1
  <2> QED
    BY <2>1, <2>2
<1>12. DOMAIN new = 1 .. n /\ \A i \in 1 .. n : new[i] \in FeedEvent
  BY <1>9, <1>11, LenProperties, ElementOfSeq
<1>13. \A i \in 1 .. n : new[i] = EventAt(c + i) /\ c + i \in c + 1 .. s
  <2> TAKE i \in 1 .. n
  <2>1. m + i - 1 = (c + i) - d /\ c + i \in c + 1 .. s
    BY <1>2, <1>6, <1>7
  <2>2. new[i] = es[(c + i) - d]
    BY <1>9, <1>10, <2>1
  <2> QED
    BY <1>1, <1>3, <2>1, <2>2 DEF EventAt
<1>14. \A k \in c + 1 .. s : \E i \in 1 .. n : k = c + i
  <2> TAKE k \in c + 1 .. s
  <2>1. k - c \in 1 .. n /\ k = c + (k - c)
    BY <1>7
  <2> QED
    BY <2>1
<1>15. \A a : News(q, a) = {k \in c + 1 .. s : EventAt(k).a = a /\ visibleTo(EventAt(k), q)}
  BY <1>1 DEF News
<1>16. \A a : \A k \in News(q, a) : \E i \in 1 .. n : new[i] = EventAt(k)
  BY <1>13, <1>14, <1>15
<1>17. \A a : \A i \in 1 .. n : new[i].a = a /\ visibleTo(new[i], q) => c + i \in News(q, a)
  BY <1>13, <1>15
<1>18. \A i \in 1 .. n : new[i].ver \in Nat
  BY <1>12 DEF FeedEvent
<1> QED
  BY <1>12, <1>16, <1>17, <1>18 DEF IsNews, AreEvents

LEMMA PollMoves ==
  ASSUME FeedInv, Poll
  PROVE  FeedInv'
<1>1. PICK q \in People :
        LET f == sfollow[q]
            new == SubSeq(sfeed.events, f.cursor - dropped + 1, Len(sfeed.events))
        IN
        /\ sfollow' = [sfollow EXCEPT ![q] = [boot |-> sfeed.boot, cursor |-> sfeed.seq, know |->
             IF f.cursor = 0 \/ Gap(f.cursor) THEN Listed(q) ELSE Newest(f.know, new, q)]]
        /\ smisled' = IF f.boot # sfeed.boot /\ f.cursor > 0 /\ ~ Gap(f.cursor) THEN smisled \cup {q} ELSE smisled
  BY DEF Poll
<1>2. UNCHANGED <<srole, sspec, slast, swork, sfeed, sodd>>
  BY DEF Poll
<1>3. PICK f, new, K :
        /\ f = sfollow[q] /\ new = SubSeq(sfeed.events, f.cursor - dropped + 1, Len(sfeed.events))
        /\ K = IF f.cursor = 0 \/ Gap(f.cursor) THEN Listed(q) ELSE Newest(f.know, new, q)
  OBVIOUS
<1>4. /\ sfollow' = [sfollow EXCEPT ![q] = [boot |-> sfeed.boot, cursor |-> sfeed.seq, know |-> K]]
      /\ smisled' = IF f.boot # sfeed.boot /\ f.cursor > 0 /\ ~ Gap(f.cursor) THEN smisled \cup {q} ELSE smisled
  BY <1>1, <1>3
<1>5. SharedTyped /\ LastIsListed /\ TellsNewest /\ LinkedIsTold /\ Reached
  BY DEF FeedInv
<1>6. RegistryTyped /\ FeedTyped /\ FollowTyped /\ \A v \in swork : WorkTyped(v)
  BY <1>5 DEF SharedTyped
<1>7. f.cursor \in Nat /\ f.know \in [AgentId -> Nat] /\ sfeed.boot \in Nat /\ sfeed.seq \in Nat
  BY <1>3, <1>6 DEF FeedTyped, FollowTyped
<1>8. /\ sfollow'[q].boot = sfeed.boot /\ sfollow'[q].cursor = sfeed.seq /\ sfollow'[q].know = K
      /\ \A p \in People \ {q} : sfollow'[p] = sfollow[p]
  BY <1>4, <1>6 DEF FollowTyped
<1>9. /\ K \in [AgentId -> Nat]
      /\ q \notin smisled' => \A a \in AgentId \ sodd :
           \/ K[a] >= slast[q][a]
           \/ K[a] = 0 /\ ~ listsAgentFor(sspec[a], q)
           \/ \E w \in swork : Telling(w, a, q)
  <2>1. CASE f.cursor = 0 \/ Gap(f.cursor)
    <3>1. K = [a \in AgentId |-> IF On(a) /\ listsAgentFor(sspec[a], q) THEN sspec[a].ver ELSE 0]
      BY <1>3, <2>1 DEF Listed
    <3>2. ASSUME NEW a \in AgentId PROVE /\ K[a] \in Nat
                                         /\ K[a] >= slast[q][a] \/ (K[a] = 0 /\ ~ listsAgentFor(sspec[a], q))
      <4>1. sspec[a].ver \in Nat /\ slast[q][a] \in Nat
        BY <1>6 DEF RegistryTyped, SpecRows
      <4>2. CASE On(a) /\ listsAgentFor(sspec[a], q)
        <5>1. K[a] = sspec[a].ver /\ slast[q][a] = sspec[a].ver
          BY <1>5, <3>1, <4>2 DEF LastIsListed
        <5> QED
          BY <4>1, <5>1
      <4>3. CASE ~ (On(a) /\ listsAgentFor(sspec[a], q))
        <5>1. K[a] = 0
          BY <3>1, <4>3
        <5>2. ~ listsAgentFor(sspec[a], q)
          BY <1>6, <4>3, NobodyIsNoTeam DEF RegistryTyped
        <5> QED
          BY <5>1, <5>2
      <4> QED
        BY <4>2, <4>3
    <3>3. K = [a \in AgentId |-> K[a]]
      BY <3>1
    <3> QED
      BY <3>2, <3>3
  <2>2. CASE ~ (f.cursor = 0 \/ Gap(f.cursor))
    <3>1. K = Newest(f.know, new, q) /\ f.cursor > 0 /\ ~ Gap(sfollow[q].cursor)
      BY <1>3, <1>7, <2>2
    <3>2. PICK n \in Nat : IsNews(new, n, q)
      <4>1. new = SubSeq(sfeed.events, sfollow[q].cursor - dropped + 1, Len(sfeed.events))
        BY <1>3
      <4> QED
        BY <1>6, <3>1, <4>1, ReadOn
    <3>3. ASSUME NEW a \in AgentId
          PROVE  /\ K[a] \in Nat /\ K[a] >= f.know[a]
                 /\ \A i \in 1 .. n : new[i].a = a /\ visibleTo(new[i], q) => K[a] >= new[i].ver
                 /\ (\A i \in 1 .. n : ~ (new[i].a = a /\ visibleTo(new[i], q))) => K[a] = f.know[a]
      <4>1. PICK know \in [AgentId -> Nat] : know = f.know
        BY <1>7
      <4>2. AreEvents(new, n)
        BY <3>2 DEF IsNews, AreEvents
      <4>3. HasNewest(know, new, n, q, a)
        BY <4>2, NewestFacts
      <4> QED
        BY <3>1, <4>1, <4>3 DEF HasNewest
    <3>4. K \in [AgentId -> Nat]
      <4>1. K = [a \in AgentId |-> K[a]]
        BY <3>1 DEF Newest
      <4> QED
        BY <3>3, <4>1
    <3>5. ASSUME q \notin smisled', NEW a \in AgentId \ sodd, ~ \E w \in swork : Telling(w, a, q)
          PROVE  K[a] >= slast[q][a] \/ (K[a] = 0 /\ ~ listsAgentFor(sspec[a], q))
      <4>1. f.boot = sfeed.boot /\ q \notin smisled
        BY <1>4, <2>2, <3>1, <3>5
      <4>2. FollowsOn(q)
        BY <1>3, <3>1, <4>1 DEF FollowsOn
      <4>3. Informed(q, a)
        BY <1>5, <3>5, <4>1, <4>2 DEF Reached
      <4>4. f.know[a] \in Nat /\ slast[q][a] \in Nat /\ K[a] \in Nat
        BY <1>6, <1>7, <3>3 DEF RegistryTyped
      <4>5. CASE f.know[a] >= slast[q][a]
        <5>1. K[a] >= f.know[a]
          BY <3>3
        <5> QED
          BY <4>4, <4>5, <5>1
      <4>6. CASE \E k \in News(q, a) : EventAt(k).ver >= slast[q][a]
        <5>1. PICK k \in News(q, a) : EventAt(k).ver >= slast[q][a]
          BY <4>6
        <5>2. PICK i \in 1 .. n : new[i] = EventAt(k)
          BY <3>2, <5>1 DEF IsNews, AreEvents
        <5>3. new[i].a = a /\ visibleTo(new[i], q)
          BY <5>1, <5>2 DEF News
        <5>4. K[a] >= new[i].ver /\ new[i].ver >= slast[q][a] /\ new[i].ver \in Nat
          BY <3>2, <3>3, <5>1, <5>2, <5>3 DEF IsNews, AreEvents
        <5> QED
          BY <4>4, <5>4
      <4>7. CASE f.know[a] = 0 /\ ~ listsAgentFor(sspec[a], q) /\ News(q, a) = {}
        <5>1. \A i \in 1 .. n : ~ (new[i].a = a /\ visibleTo(new[i], q))
          BY <3>2, <4>7 DEF IsNews, AreEvents
        <5>2. K[a] = f.know[a]
          BY <3>3, <5>1
        <5> QED
          BY <4>7, <5>2
      <4> QED
        BY <1>3, <4>3, <4>5, <4>6, <4>7 DEF Informed
    <3> QED
      BY <3>4, <3>5
  <2> QED
    BY <2>1, <2>2
<1>10. SharedTyped'
  <2>1. FollowTyped'
    <3>1. [boot |-> sfeed.boot, cursor |-> sfeed.seq, know |-> K] \in [boot : Nat, cursor : Nat, know : [AgentId -> Nat]]
      BY <1>7, <1>9
    <3>2. sfollow' \in [People -> [boot : Nat, cursor : Nat, know : [AgentId -> Nat]]]
      BY <1>4, <1>6, <3>1 DEF FollowTyped
    <3>3. ASSUME NEW p \in People PROVE /\ sfollow'[p].boot <= sfeed.boot
                                        /\ sfollow'[p].boot = sfeed.boot => sfollow'[p].cursor <= sfeed.seq
      <4>1. CASE p = q
        BY <1>7, <1>8, <4>1
      <4>2. CASE p # q
        BY <1>6, <1>8, <4>2 DEF FollowTyped
      <4> QED
        BY <4>1, <4>2
    <3> QED
      BY <1>2, <3>2, <3>3 DEF FollowTyped
  <2>2. RegistryTyped' /\ FeedTyped'
    BY <1>2, <1>6 DEF RegistryTyped, FeedTyped, On
  <2>3. \A v \in swork' : WorkTyped(v)'
    BY <1>2, <1>6 DEF WorkTyped
  <2> QED
    BY <2>1, <2>2, <2>3 DEF SharedTyped
<1>11. LastIsListed' /\ TellsNewest' /\ LinkedIsTold'
  <2>1. LastIsListed'
    BY <1>2, <1>5, SeenStill DEF LastIsListed, On
  <2>2. TellsNewest'
    BY <1>2, <1>5, SeenStill DEF TellsNewest
  <2>3. LinkedIsTold'
    BY <1>2, <1>5 DEF LinkedIsTold, On, Waits
  <2> QED
    BY <2>1, <2>2, <2>3
<1>12. Reached'
  <2> SUFFICES ASSUME NEW p \in People \ smisled', NEW a \in AgentId \ sodd', FollowsOn(p)',
                      ~ \E v \in swork' : Telling(v, a, p)'
      PROVE Informed(p, a)'
    BY DEF Reached
  <2>1. \A w \in swork : ~ Telling(w, a, p)
    BY <1>2, SeenStill DEF Telling
  <2>2. a \in AgentId \ sodd /\ (listsAgentFor(sspec[a], p)' <=> listsAgentFor(sspec[a], p))
        /\ slast'[p][a] = slast[p][a]
    BY <1>2 DEF listsAgentFor, RoleFor, orgRoleOf
  <2>3. CASE p = q
    <3>1. K[a] >= slast[q][a] \/ (K[a] = 0 /\ ~ listsAgentFor(sspec[a], q))
      BY <1>9, <2>1, <2>2, <2>3
    <3>2. News(p, a)' = {}
      <4>1. \A k : k \notin sfeed.seq + 1 .. sfeed.seq
        BY <1>7
      <4>2. sfollow'[p].cursor + 1 = sfeed.seq + 1 /\ sfeed' = sfeed
        BY <1>2, <1>8, <2>3
      <4> QED
        BY <4>1, <4>2 DEF News
    <3> QED
      BY <1>8, <2>2, <2>3, <3>1, <3>2 DEF Informed
  <2>4. CASE p # q
    <3>1. sfollow'[p] = sfollow[p] /\ p \notin smisled
      BY <1>4, <1>8, <2>4
    <3>2. FollowsOn(p)
      BY <1>2, <3>1 DEF FollowsOn, Gap, dropped
    <3>3. Informed(p, a)
      BY <1>5, <2>1, <2>2, <3>1, <3>2 DEF Reached
    <3>4. News(p, a)' = News(p, a) /\ \A n : EventAt(n)' = EventAt(n)
      BY <1>2, <3>1, SeenStill DEF News, EventAt, dropped
    <3> QED
      BY <2>2, <3>1, <3>3, <3>4 DEF Informed
  <2> QED
    BY <2>3, <2>4
<1> QED
  BY <1>10, <1>11, <1>12 DEF FeedInv

-----------------------------------------------------------------------------
LEMMA FeedStarts ==
  ASSUME SharedInit
  PROVE  FeedInv
<1>1. /\ sspec = [a \in AgentId |-> NoAgent] /\ swork = {}
      /\ sfeed = [boot |-> 0, seq |-> 0, events |-> << >>]
      /\ sfollow = [p \in People |-> [boot |-> 0, cursor |-> 0, know |-> [a \in AgentId |-> 0]]]
      /\ slast = [p \in People |-> [a \in AgentId |-> 0]]
  BY DEF SharedInit
<1>2. NoAgent \in SpecRows /\ NoAgent.ver = 0
  BY DEF NoAgent, SpecRows, Visibility
<1>3. RegistryTyped
  BY <1>1, <1>2 DEF RegistryTyped, On
<1>4. FeedTyped
  <2>1. << >> \in Seq(FeedEvent) /\ Len(<< >>) = 0
    BY EmptySeq
  <2> QED
    BY <1>1, <2>1 DEF FeedTyped
<1>5. FollowTyped
  BY <1>1 DEF FollowTyped
<1>6. SharedTyped
  BY <1>1, <1>3, <1>4, <1>5 DEF SharedTyped
<1>7. LastIsListed /\ TellsNewest /\ LinkedIsTold /\ Reached
  BY <1>1, <1>2 DEF LastIsListed, TellsNewest, LinkedIsTold, Reached, Waits, On, FollowsOn
<1> QED
  BY <1>6, <1>7 DEF FeedInv

\* A follower that has read the feed of shared agents to its end knows the newest change of
\* every agent that it may list or knew of, whatever fell out of the feed meanwhile
\* (shared-agents.ts: append, page, visibleTo; the audience of widerAudience).
THEOREM FollowersHear == SharedSpec => []FollowersAreTold
<1>1. SharedInit => FeedInv
  BY FeedStarts
<1>2. FeedInv /\ [SharedNext]_svars => FeedInv'
  <2> SUFFICES ASSUME FeedInv, [SharedNext]_svars PROVE FeedInv'
    OBVIOUS
  <2>1. CASE LinkAsks
    BY <2>1, LinkAsked
  <2>2. CASE LinkCreated \/ LinkUpdated
    BY <2>2, LinkIsCreated, LinkIsUpdated
  <2>3. CASE HostCreates \/ HostUpdates
    BY <2>3, HostCreated, HostUpdated
  <2>4. CASE HostRemoves \/ LinkRemoved
    BY <2>4, HostRemoved, LinkIsRemoved
  <2>5. CASE Told
    BY <2>5, ToldMoves
  <2>6. CASE SetSharing
    BY <2>6, SharingIsSet
  <2>7. CASE Poll
    BY <2>7, PollMoves
  <2>8. CASE SharedRestart
    BY <2>8, FeedRestarts
  <2>9. CASE UNCHANGED svars
    <3>1. (\A w \in swork : WorkTyped(w)) /\ UNCHANGED <<srole, sspec, slast, sfeed, sfollow, swork, sodd, smisled>>
      BY <2>9, RowsAre DEF svars
    <3>2. (\A w \in swork' : WorkTyped(w)) /\ \A w : w.op = "tell" => (w \in swork' <=> w \in swork)
      BY <3>1
    <3> QED
      BY <3>1, <3>2, WorkMoves
  <2> QED
    BY <2>1, <2>2, <2>3, <2>4, <2>5, <2>6, <2>7, <2>8, <2>9 DEF SharedNext
<1>3. FeedInv => FollowersAreTold
  <2> SUFFICES ASSUME FeedInv, NEW p \in People \ smisled, NEW a \in AgentId \ sodd, UpToDate(p),
                      ~ \E w \in swork : w.a = a, listsAgentFor(sspec[a], p) \/ sfollow[p].know[a] # 0
      PROVE sfollow[p].know[a] >= slast[p][a]
    BY DEF FollowersAreTold
  <2>1. FeedTyped /\ Reached
    BY DEF FeedInv, SharedTyped
  <2>2. sfollow[p].boot = sfeed.boot /\ sfollow[p].cursor = sfeed.seq /\ sfollow[p].cursor > 0
    BY DEF UpToDate
  <2>3. sfeed.seq \in Nat /\ Len(sfeed.events) \in Nat
    BY <2>1, LenProperties DEF FeedTyped
  <2>4. ~ Gap(sfollow[p].cursor)
    BY <2>2, <2>3 DEF Gap, dropped
  <2>5. Informed(p, a)
    BY <2>1, <2>2, <2>4 DEF Reached, FollowsOn, Telling
  <2>6. News(p, a) = {}
    <3>1. \A k : k \notin sfeed.seq + 1 .. sfeed.seq
      BY <2>3
    <3> QED
      BY <2>2, <3>1 DEF News
  <2> QED
    BY <2>5, <2>6 DEF Informed
<1> QED
  BY <1>1, <1>2, <1>3, PTL DEF SharedSpec

=============================================================================
