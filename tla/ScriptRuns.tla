----------------------------- MODULE ScriptRuns -----------------------------
(***************************************************************************)
(* Script runs (POST /api/run): run-sandbox.ts, run-routes.ts and the part *)
(* of hosted-agent-gateway.ts a run talks to.  A press takes a slot, waits *)
(* for the runner image, starts a docker client that asks for a container, *)
(* and gives the slot back when that client has ended.  The client and the *)
(* container are two processes: the kill of a run names a container that   *)
(* docker may not have made yet.  The egress of an agent, redirects        *)
(* followed hop by hop, is here too.  Docker and the scripts are outside.  *)
(***************************************************************************)
EXTENDS Naturals, FiniteSets

CONSTANTS
  RunIds,          \* runs that may be in flight at once, enough to overrun
  RunCallers,      \* who presses: addresses and holders of a key
  KeyedCaller,     \* the callers that hold an API key
  Language,        \* one runner image for each
  Host,            \* hosts in the world
  AllowedHosts,    \* the list of the run, or of the agent
  MaxRuns, PerCaller, PerKeyedCaller,
  MaxRedirects,    \* HOSTED_AGENT_EGRESS_MAX_REDIRECTS
  MaxStray,        \* bound: containers left behind, counted up to it
  MaxNodeRestarts  \* bound: restarts of the node

ASSUME ScriptAssumption == IsFiniteSet(RunIds)

VARIABLES
  ready,      \* the sandbox may be used
  images,     \* images[l]: the promise kept for a language
  runs,       \* runs[r]: one run, or NoRun
  mine,       \* perCaller
  active,     \* running: all of them together
  grants,     \* the gateway's run tokens
  tunnels,    \* <<run, host>>: CONNECT tunnels open
  stray,      \* containers on whose client nobody waits
  fetch,      \* the agent's request under way: [at, hop], or NoFetch
  restarts

scriptVars == <<ready, images, runs, mine, active, grants, tunnels, stray, fetch, restarts>>

slots == <<mine, active>>

NoRun == [at |-> "free"]
NoFetch == [hop |-> 0]

AwaitsImage(r) == runs[r].at = "image"
Under(r) == runs[r].at = "client"
Up(r) == Under(r) /\ runs[r].container = "up"

RunsInit ==
  /\ ready = FALSE
  /\ images = [l \in Language |-> "none"]
  /\ runs = [r \in RunIds |-> NoRun]
  /\ mine = [c \in RunCallers |-> 0] /\ active = 0
  /\ grants = {} /\ tunnels = {} /\ stray = 0
  /\ fetch = NoFetch /\ restarts = 0

-----------------------------------------------------------------------------
(* Slots. *)

limit(c) == IF c \in KeyedCaller THEN PerKeyedCaller ELSE PerCaller

(* admit: both counts are looked at and raised in one turn. *)
admit(c) ==
  /\ mine[c] < limit(c) /\ active < MaxRuns
  /\ mine' = [mine EXCEPT ![c] = @ + 1]
  /\ active' = active + 1

(* Mutant: a run that failed before it had a container keeps its slot. *)
releaseSpawned(rs) ==
  /\ mine' = [c \in RunCallers |-> mine[c] - Cardinality(
                {r \in rs : runs[r].caller = c /\ runs[r].at = "client"})]
  /\ active' = active - Cardinality({r \in rs : runs[r].at = "client"})

(* The function admit returns: it works once. *)
release(rs) ==
  /\ mine' = [c \in RunCallers |->
                mine[c] - Cardinality({r \in rs : runs[r].caller = c})]
  /\ active' = active - Cardinality(rs)

(* run's finally: the environment file, the token and the slot go. *)
EndRuns(rs) ==
  /\ runs' = [r \in RunIds |-> IF r \in rs THEN NoRun ELSE runs[r]]
  /\ grants' = grants \ rs
  /\ release(rs)

-----------------------------------------------------------------------------
(* The sandbox. *)

(* removeOrphans: every container with the label goes, whoever waits on it. *)
removeOrphans ==
  /\ stray' = 0
  /\ runs' = [r \in RunIds |->
                IF Up(r) THEN [runs[r] EXCEPT !.container = "gone"]
                ELSE runs[r]]

(* start: the bridge, the gateway's door on it, the orphans. *)
start ==
  /\ ~ready /\ ready' = TRUE /\ removeOrphans
  /\ UNCHANGED <<images, slots, grants, tunnels, fetch, restarts>>

(* stop, at the node's shutdown. *)
stop ==
  /\ ready /\ ready' = FALSE /\ removeOrphans
  /\ UNCHANGED <<images, slots, grants, tunnels, fetch, restarts>>

(* The node's process dies: its clients and its tokens with it, the        *)
(* containers stay.                                                        *)
NodeDies ==
  LET up == Cardinality({r \in RunIds : Up(r)}) IN
  /\ restarts < MaxNodeRestarts /\ stray + up <= MaxStray
  /\ restarts' = restarts + 1 /\ ready' = FALSE
  /\ stray' = stray + up
  /\ runs' = [r \in RunIds |-> NoRun]
  /\ mine' = [c \in RunCallers |-> 0] /\ active' = 0
  /\ images' = [l \in Language |-> "none"]
  /\ grants' = {} /\ tunnels' = {} /\ fetch' = NoFetch

(* ensureImage: the promise of the first to ask is everybody's. *)
ensureImage(l) ==
  images' = [images EXCEPT ![l] = IF @ = "none" THEN "building" ELSE @]

(* warm, after start. *)
warm(l) ==
  /\ ready /\ images[l] = "none" /\ ensureImage(l)
  /\ UNCHANGED <<ready, runs, slots, grants, tunnels, stray, fetch,
                 restarts>>

(* buildImage: inspected, or built from the staged context. *)
buildImage(l) ==
  /\ images[l] = "building"
  /\ images' = [images EXCEPT ![l] = "built"]
  /\ UNCHANGED <<ready, runs, slots, grants, tunnels, stray, fetch,
                 restarts>>

(* A build that fails is forgotten, and every run that waited on it fails. *)
ImageFails(l) ==
  /\ images[l] = "building"
  /\ images' = [images EXCEPT ![l] = "none"]
  /\ EndRuns({r \in RunIds : AwaitsImage(r) /\ runs[r].language = l})
  /\ UNCHANGED <<ready, tunnels, stray, fetch, restarts>>

-----------------------------------------------------------------------------
(* A run. *)

(* POST /api/run: the caller is known, a slot is taken, the image awaited. *)
Press(r, c, l) ==
  /\ ready /\ runs[r] = NoRun
  /\ admit(c) /\ ensureImage(l)
  /\ runs' = [runs EXCEPT ![r] =
       [at |-> "image", caller |-> c, language |-> l, aborted |-> FALSE]]
  /\ UNCHANGED <<ready, grants, tunnels, stray, fetch, restarts>>

(* run after the image: a caller gone meanwhile is answered "cancelled",   *)
(* else the token is issued and the docker client started.                 *)
Launch(r) ==
  /\ AwaitsImage(r) /\ images[runs[r].language] = "built"
  /\ IF runs[r].aborted THEN EndRuns({r})
     ELSE /\ grants' = grants \union {r}
          /\ runs' = [runs EXCEPT ![r] =
               [at |-> "client", caller |-> @.caller, container |-> "none",
                kill |-> "no", client |-> "alive"]]
          /\ UNCHANGED slots
  /\ UNCHANGED <<ready, images, tunnels, stray, fetch, restarts>>

(* Docker makes and starts the container its client asked for. *)
ContainerUp(r) ==
  /\ Under(r) /\ runs[r].container = "none" /\ runs[r].client = "alive"
  /\ runs' = [runs EXCEPT ![r].container = "up"]
  /\ UNCHANGED <<ready, images, slots, grants, tunnels, stray, fetch,
                 restarts>>

(* The script exits, or docker refuses (125): with --rm nothing is left.   *)
ContainerEnds(r) ==
  /\ Under(r) /\ runs[r].container \in {"none", "up"}
  /\ runs[r].client = "alive"
  /\ runs' = [runs EXCEPT ![r].container = "gone"]
  /\ UNCHANGED <<ready, images, slots, grants, tunnels, stray, fetch,
                 restarts>>

(* kill: once; docker is told, and the client is given five seconds. *)
kill(r) == runs' = [runs EXCEPT ![r].kill = "sent"]

(* The caller goes away: the response closes and the signal aborts. *)
onAbort(r) ==
  /\ \/ /\ AwaitsImage(r) /\ ~runs[r].aborted
        /\ runs' = [runs EXCEPT ![r].aborted = TRUE]
     \/ /\ Under(r) /\ runs[r].kill = "no" /\ kill(r)
  /\ UNCHANGED <<ready, images, slots, grants, tunnels, stray, fetch,
                 restarts>>

(* timeoutMs after the client was started. *)
RunTimeout(r) ==
  /\ Under(r) /\ runs[r].kill = "no" /\ kill(r)
  /\ UNCHANGED <<ready, images, slots, grants, tunnels, stray, fetch,
                 restarts>>

(* docker kill, then docker rm -f: both by name, both fail on a name       *)
(* docker has no container for.                                            *)
KillLands(r) ==
  /\ Under(r) /\ runs[r].kill = "sent"
  /\ runs' = [runs EXCEPT ![r].kill = "done",
                ![r].container = IF @ = "up" THEN "gone" ELSE @]
  /\ UNCHANGED <<ready, images, slots, grants, tunnels, stray, fetch,
                 restarts>>

(* A client that is still there five seconds later is killed itself. *)
LeftOver(r) == Under(r) /\ runs[r].kill # "no" /\ runs[r].client = "alive"

ClientKilled(r) ==
  /\ LeftOver(r)
  /\ runs' = [runs EXCEPT ![r].client = "dead"]
  /\ UNCHANGED <<ready, images, slots, grants, tunnels, stray, fetch,
                 restarts>>

(* The client closes: the outcome is answered.  A container that is still  *)
(* up has nobody left who waits on it.                                     *)
Closed(r) ==
  /\ Under(r) /\ (runs[r].client = "dead" \/ runs[r].container = "gone")
  /\ stray' = IF Up(r) /\ stray < MaxStray THEN stray + 1 ELSE stray
  /\ EndRuns({r})
  /\ UNCHANGED <<ready, images, tunnels, fetch, restarts>>

(* It ends by itself, or a kill still under way reaches it. *)
StrayEnds ==
  /\ stray > 0 /\ stray' = stray - 1
  /\ UNCHANGED <<ready, images, runs, slots, grants, tunnels, fetch,
                 restarts>>

-----------------------------------------------------------------------------
(* What a run, and an agent, reaches through the gateway. *)

(* hostedAgentHostAllowed: asked of every hop. *)
Allowed(h, hop) == h \in AllowedHosts

(* tunnel: CONNECT with the run's token to a host on the list. *)
tunnel(r, h) ==
  /\ Up(r) /\ r \in grants /\ Allowed(h, 0) /\ <<r, h>> \notin tunnels
  /\ tunnels' = tunnels \union {<<r, h>>}
  /\ UNCHANGED <<ready, images, runs, slots, grants, stray, fetch, restarts>>

(* Either end closes, or nothing passed for RUN_TUNNEL_IDLE_MS: the end of *)
(* the run closes none.                                                    *)
TunnelEnds(t) ==
  /\ t \in tunnels /\ tunnels' = tunnels \ {t}
  /\ UNCHANGED <<ready, images, runs, slots, grants, stray, fetch,
                 restarts>>

(* hostedAgentEgress: a refusal ends it; an answer is returned, or leads   *)
(* on to the address of its Location.                                      *)
hostedAgentEgress(h) ==
  /\ fetch = NoFetch \/ fetch.hop > 0
  /\ fetch.hop > 0 => fetch.to = h
  /\ IF ~Allowed(h, fetch.hop) THEN fetch' = NoFetch
     ELSE \/ fetch' = NoFetch
          \/ /\ fetch.hop < MaxRedirects
             /\ \E to \in Host : fetch' = [hop |-> fetch.hop + 1, to |-> to]
  /\ UNCHANGED <<ready, images, runs, slots, grants, tunnels, stray, restarts>>

-----------------------------------------------------------------------------
RunsNext ==
  \/ start \/ stop \/ NodeDies \/ StrayEnds
  \/ \E l \in Language : warm(l) \/ buildImage(l) \/ ImageFails(l)
  \/ \E r \in RunIds, c \in RunCallers, l \in Language : Press(r, c, l)
  \/ \E r \in RunIds :
       \/ Launch(r) \/ ContainerUp(r) \/ ContainerEnds(r) \/ onAbort(r)
       \/ RunTimeout(r) \/ KillLands(r) \/ ClientKilled(r) \/ Closed(r)
  \/ \E r \in RunIds, h \in Host : tunnel(r, h)
  \/ \E t \in tunnels : TunnelEnds(t)
  \/ \E h \in Host : hostedAgentEgress(h)

RunsSpec == RunsInit /\ [][RunsNext]_scriptVars

(* Docker's build has a timeout, its commands have one, the timers fire.   *)
RunsFairness ==
  /\ \A l \in Language : WF_scriptVars(buildImage(l) \/ ImageFails(l))
  /\ \A r \in RunIds :
       /\ WF_scriptVars(Launch(r)) /\ WF_scriptVars(RunTimeout(r)) /\ WF_scriptVars(KillLands(r))
       /\ WF_scriptVars(ClientKilled(r)) /\ WF_scriptVars(Closed(r))

RunsFairSpec == RunsSpec /\ RunsFairness

-----------------------------------------------------------------------------
(* The counts that admit a press are those of the runs in flight, whoever  *)
(* was refused, aborted, timed out, failed with a build or lost its        *)
(* container (run-sandbox.ts admit and run's finally): no slot leaks and   *)
(* none is given twice.                                                    *)
SlotsAreRuns ==
  /\ active = Cardinality({r \in RunIds : runs[r] # NoRun})
  /\ \A c \in RunCallers : mine[c] =
       Cardinality({r \in RunIds : runs[r] # NoRun /\ runs[r].caller = c})

=============================================================================
