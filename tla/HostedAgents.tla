----------------------------- MODULE HostedAgents -----------------------------
(* The host of agents that run on the node: a prompt agent answers from a router of the
   process, a code agent from a container that is built in the background, started by the
   first call and stopped when idle, for room or for a change.  Each runtime speaks to the
   gateway with a token of its own.  Sources: src/hosted-agent-host.ts,
   hosted-agent-docker.ts, hosted-agent-gateway.ts (the tokens), hosted-agent-store.ts,
   hosted-agent-routes.ts.

   Abstractions.  What an agent answers, its files and its secrets are left out; Docker is
   a set of images and at most one container per agent name.  A command to Docker takes
   effect at one moment before it returns.  A start does not wait for the containers it
   stops.  A node without Docker is left out.                                           *)
EXTENDS Naturals, FiniteSets
CONSTANTS
    Ag,             \* agent ids
    MaxRunning,     \* o.maxRunning
    MaxHosted       \* bound: creations, updates, removals, node restarts; twice it for the rest
ASSUME HostedAssumption == MaxRunning \in Nat \ {0} /\ MaxHosted \in Nat
VARIABLES
    hspec,      \* store and host.specs: [ver, mode], ver 0 for an agent that does not exist
    hlife,      \* how often the id was created: names the state object of host.state
    hst,        \* the state objects [live, up, tok], by <<id, life>>
    htok,       \* the gateway's tokens: [n, of]
    himg,       \* Docker: the images <<id, version>>
    hcont,      \* Docker: the container of each id: the version it runs, 0 without one
    hjobs,      \* what runs in the background: [kind, a, life, ver, tok, out], out to be stopped for room
    hraced,     \* history: ids removed or turned into prompt agents while a container started
    hnext, hbusy
hvars == <<hspec, hlife, hst, htok, himg, hcont, hjobs, hraced, hnext, hbusy>>
Router == "router"
Container == "container"
NoUp == "none"
NoToken == 0
Fresh == [live |-> 0, up |-> NoUp, tok |-> NoToken]
Here(a) == <<a, hlife[a]>>
Exists(a) == hspec[a].ver # 0
Now(a) == hst[Here(a)]
Job(kind, a, life, ver) == [kind |-> kind, a |-> a, life |-> life, ver |-> ver, tok |-> NoToken, out |-> {}]
Starting(a) == {j \in hjobs : j.a = a /\ j.kind \in {"room", "run"} /\ j.life = hlife[a]}
HBusy == hbusy < MaxHosted /\ hbusy' = hbusy + 1
Turn == hnext < 2 * MaxHosted /\ hnext' = hnext + 1     \* also numbers the tokens
----------------------------------------------------------------------------
issue(a, toks) == toks \cup {[n |-> hnext', of |-> a]}
(* Mutant: the token goes on working. *)
revokeNothing(a, n, toks) == toks
revoke(a, n, toks) == toks \ {[n |-> n, of |-> a]}
revokeAgent(a, toks) == {t \in toks : t.of # a}

running == {a \in Ag : Exists(a) /\ Now(a).up = Container}
(* stopContainer: the token and the address go at once, the container when Docker is done. *)
Stopped(st) == [st EXCEPT !.up = NoUp, !.tok = NoToken]
StopJob(a) == Job("stop", a, hlife[a], 0)
stopContainer(a) ==
    /\ hst' = [hst EXCEPT ![Here(a)] = Stopped(@)]
    /\ htok' = revoke(a, Now(a).tok, htok)
    /\ hjobs' = hjobs \cup {StopJob(a)}
----------------------------------------------------------------------------
HostedInit ==
    /\ hspec = [a \in Ag |-> [ver |-> 0, mode |-> "prompt"]]
    /\ hlife = [a \in Ag |-> 0]
    /\ hst = [s \in Ag \X (0..MaxHosted) |-> Fresh]
    /\ htok = {} /\ himg = {} /\ hcont = [a \in Ag |-> 0] /\ hjobs = {} /\ hraced = {} /\ hnext = 0 /\ hbusy = 0

(* apply: a prompt agent is live on return, a code agent builds in the background. *)
ApplyPrompt(a, st, life) ==
    LET stop == st.up = Container IN
    /\ Turn
    /\ hst' = [hst EXCEPT ![<<a, life>>] = [live |-> hspec'[a].ver, up |-> Router, tok |-> hnext']]
    /\ htok' = issue(a, revoke(a, st.tok, htok))
    /\ hjobs' = IF stop THEN hjobs \cup {StopJob(a)} ELSE hjobs
    /\ hraced' = IF Starting(a) # {} THEN hraced \cup {a} ELSE hraced
ApplyCode(a, st, life) ==
    /\ hst' = [hst EXCEPT ![<<a, life>>] = [st EXCEPT !.up = IF @ = Router THEN NoUp ELSE @]]
    /\ hjobs' = hjobs \cup {Job("build", a, life, hspec'[a].ver)}
    /\ UNCHANGED <<htok, hraced, hnext>>
apply(a, st, life) == IF hspec'[a].mode = "prompt" THEN ApplyPrompt(a, st, life) ELSE ApplyCode(a, st, life)

HostCreate ==
    /\ \E a \in Ag, mode \in {"prompt", "code"} :
           /\ ~Exists(a)
           /\ hspec' = [hspec EXCEPT ![a] = [ver |-> 1, mode |-> mode]]
           /\ hlife' = [hlife EXCEPT ![a] = @ + 1]
           /\ apply(a, Fresh, hlife[a] + 1)
    /\ HBusy /\ UNCHANGED <<himg, hcont>>
HostUpdate ==
    /\ \E a \in Ag, mode \in {"prompt", "code"} :
           /\ Exists(a)
           /\ hspec' = [hspec EXCEPT ![a] = [ver |-> @.ver + 1, mode |-> mode]]
           /\ apply(a, Now(a), hlife[a])
    /\ HBusy /\ UNCHANGED <<hlife, himg, hcont>>
(* DELETE: the store, the host's maps and the tokens at once; then the container; then the images. *)
HostRemove ==
    /\ \E a \in Ag :
           /\ Exists(a)
           /\ hspec' = [hspec EXCEPT ![a] = [ver |-> 0, mode |-> "prompt"]]
           /\ htok' = revokeAgent(a, htok)
           /\ hjobs' = hjobs \cup {Job("remove", a, hlife[a], 0)}
           /\ hraced' = IF Starting(a) # {} THEN hraced \cup {a} ELSE hraced
    /\ HBusy /\ UNCHANGED <<hlife, hst, himg, hcont, hnext>>
----------------------------------------------------------------------------
(* build: what it built counts when the agent is still at that version.  A running
   container of an older one is replaced: the next call starts the new one.              *)
StillWanted(j) == Exists(j.a) /\ hspec[j.a].ver = j.ver
BuildEnds ==
    /\ \E j \in hjobs :
         /\ j.kind = "build"
         /\ himg' = himg \cup {<<j.a, j.ver>>}
         /\ LET s == <<j.a, j.life>>
                st == [hst EXCEPT ![s] = [@ EXCEPT !.live = j.ver]]
            IN IF ~StillWanted(j) THEN UNCHANGED <<hst, htok>> /\ hjobs' = hjobs \ {j}
               ELSE IF hst[s].up # NoUp
               THEN /\ hst' = [st EXCEPT ![Here(j.a)] = Stopped(@)] /\ htok' = revoke(j.a, Now(j.a).tok, htok)
                    /\ hjobs' = (hjobs \ {j}) \cup {StopJob(j.a)}
               ELSE hst' = st /\ hjobs' = hjobs \ {j} /\ UNCHANGED htok
    /\ UNCHANGED <<hspec, hlife, hcont, hraced, hnext, hbusy>>
BuildFails ==       \* an older version that built keeps serving
    /\ \E j \in hjobs : j.kind = "build" /\ hjobs' = hjobs \ {j}
    /\ UNCHANGED <<hspec, hlife, hst, htok, himg, hcont, hraced, hnext, hbusy>>

(* resolve: a call to a code agent that does not run starts it, once for all who wait.
   makeRoom: who is stopped for it is decided now, and done one after the other.         *)
least(m, n) == IF m < n THEN m ELSE n
Resolve ==
    /\ \E a \in Ag :
           /\ Exists(a) /\ hspec[a].mode = "code" /\ Now(a).live # 0 /\ Now(a).up = NoUp /\ Starting(a) = {}
           /\ \E out \in SUBSET (running \ {a}) :
                  /\ Cardinality((running \ {a}) \ out) = least(MaxRunning - 1, Cardinality(running \ {a}))
                  /\ hjobs' = hjobs \cup {[Job("room", a, hlife[a], 0) EXCEPT !.out = out]}
    /\ UNCHANGED <<hspec, hlife, hst, htok, himg, hcont, hraced, hnext, hbusy>>
MakeRoom ==
    /\ \E j \in hjobs : \E v \in j.out :
         LET rest == (hjobs \ {j}) \cup {[j EXCEPT !.out = @ \ {v}]} IN
         IF Exists(v) THEN /\ hst' = [hst EXCEPT ![Here(v)] = Stopped(@)] /\ htok' = revoke(v, Now(v).tok, htok)
                           /\ hjobs' = rest \cup {StopJob(v)}
         ELSE hjobs' = rest \cup {StopJob(v)} /\ UNCHANGED <<hst, htok>>
    /\ UNCHANGED <<hspec, hlife, himg, hcont, hraced, hnext, hbusy>>
StartRuns ==        \* the token is issued and docker run begins
    /\ \E j \in hjobs :
           /\ j.kind = "room" /\ j.out = {}
           /\ Turn /\ htok' = issue(j.a, htok)
           /\ hjobs' = (hjobs \ {j}) \cup {[j EXCEPT !.kind = "run", !.tok = hnext', !.ver = hst[<<j.a, j.life>>].live]}
    /\ UNCHANGED <<hspec, hlife, hst, himg, hcont, hraced, hbusy>>
DockerRun ==        \* rm -f of the name, then run: the container is there, not yet in use
    /\ \E j \in hjobs : /\ j.kind = "run" /\ <<j.a, j.ver>> \in himg /\ hcont[j.a] # j.ver
                        /\ hcont' = [hcont EXCEPT ![j.a] = j.ver]
    /\ UNCHANGED <<hspec, hlife, hst, htok, himg, hjobs, hraced, hnext, hbusy>>
Started ==
    /\ \E j \in hjobs :
         LET s == <<j.a, j.life>> IN
         /\ j.kind = "run" /\ hcont[j.a] = j.ver
         /\ htok' = revoke(j.a, hst[s].tok, htok)
         /\ hst' = [hst EXCEPT ![s] = [@ EXCEPT !.up = Container, !.tok = j.tok]]
         /\ hjobs' = hjobs \ {j}
    /\ UNCHANGED <<hspec, hlife, himg, hcont, hraced, hnext, hbusy>>
StartFails ==       \* no image, no container, no answer in time
    /\ \E j \in hjobs : /\ j.kind = "run"
                        /\ htok' = revoke(j.a, j.tok, htok)
                        /\ hjobs' = (hjobs \ {j}) \cup {[j EXCEPT !.kind = "stop", !.ver = 0, !.tok = NoToken]}
    /\ UNCHANGED <<hspec, hlife, hst, himg, hcont, hraced, hnext, hbusy>>
----------------------------------------------------------------------------
DockerStops ==
    /\ \E j \in hjobs :
           /\ j.kind \in {"stop", "remove"}
           /\ hcont' = [hcont EXCEPT ![j.a] = 0]
           /\ hjobs' = IF j.kind = "stop" THEN hjobs \ {j} ELSE (hjobs \ {j}) \cup {[j EXCEPT !.kind = "images"]}
    /\ UNCHANGED <<hspec, hlife, hst, htok, himg, hraced, hnext, hbusy>>
RemoveImages ==
    /\ \E j \in hjobs : /\ j.kind = "images" /\ hjobs' = hjobs \ {j}
                        /\ himg' = {i \in himg : i[1] # j.a}
    /\ UNCHANGED <<hspec, hlife, hst, htok, hcont, hraced, hnext, hbusy>>
Sweep ==            \* nobody called for idleStopMs; or its secrets changed (restart)
    /\ \E a \in running : stopContainer(a)
    /\ UNCHANGED <<hspec, hlife, himg, hcont, hraced, hnext, hbusy>>
(* The process ends; the next one removes the containers it finds and applies every spec. *)
HostRestart ==
    /\ hjobs' = {Job("build", a, hlife[a], hspec[a].ver) : a \in {x \in Ag : Exists(x) /\ hspec[x].mode = "code"}}
    /\ hcont' = [a \in Ag |-> 0]
    /\ LET prompts == {a \in Ag : Exists(a) /\ hspec[a].mode = "prompt"}
       IN /\ Turn
          /\ htok' = {[n |-> hnext', of |-> a] : a \in prompts}
          /\ hst' = [s \in DOMAIN hst |-> IF s[1] \in prompts /\ s[2] = hlife[s[1]]
                        THEN [live |-> hspec[s[1]].ver, up |-> Router, tok |-> hnext'] ELSE Fresh]
    /\ hraced' = {} /\ HBusy /\ UNCHANGED <<hspec, hlife, himg>>

HostedNext ==
    \/ HostCreate \/ HostUpdate \/ HostRemove \/ BuildEnds \/ BuildFails \/ Resolve \/ MakeRoom \/ StartRuns
    \/ DockerRun \/ Started \/ StartFails \/ DockerStops \/ RemoveImages \/ Sweep \/ HostRestart
HostedSpec == HostedInit /\ [][HostedNext]_hvars
----------------------------------------------------------------------------
\* When nothing of an agent is under way, every token the gateway accepts for it is the one
\* its runtime holds, and no container runs that the host does not know: through builds,
\* failed starts, evictions, sweeps and changes of version (issue, revoke, stopContainer).
\* Exempt is an agent removed or turned into a prompt agent while its container started.
TokensAreHeld == \A a \in Ag \ hraced : (\A j \in hjobs : j.a = a => j.kind \in {"build", "images"}) =>
    /\ \A t \in htok : t.of = a => Exists(a) /\ t.n = Now(a).tok
    /\ hcont[a] # 0 => Exists(a) /\ Now(a).up = Container

=============================================================================
