------------------------------- MODULE Projects -------------------------------
(* Projects: a push of a bound repository becomes a deployment, deployments of a project are
   built in order, at most a few at a time on the node, and a service's container is replaced
   when the next one is healthy.  Sources: src/projects.ts, project-routes.ts,
   project-containers.ts, project-agents.ts, project-manifest.ts.

   Abstractions.  A commit has the kind its manifest resolves to, or "none"; logs, secrets,
   environments and the proxying of /svc are left out.  A project is created once.  Docker is
   external: a container is named by its project and commit.  Creation times differ.       *)
EXTENDS Naturals, Sequences, FiniteSets
CONSTANTS
    Proj, Commit,
    KindOf,             \* what a commit's manifest says: service, agent, script or none
    Operator,           \* who may operate: [Proj -> people], owner and members of the organization
    Callers,
    MaxConcurrent, Retain,
    MaxDeployments, MaxReboots      \* bounds: deployments and runs, restarts
ASSUME ProjectsAssumption ==
    /\ KindOf \in [Commit -> {"service", "agent", "script", "none"}]
    /\ Operator \in [Proj -> SUBSET Callers] /\ "deleted" \notin Proj     \* the project of a deleted row
    /\ MaxConcurrent \in Nat \ {0} /\ Retain \in Nat \ {0} /\ MaxDeployments \in Nat /\ MaxReboots \in Nat
VARIABLES
    prow,       \* the projects: [on, kind, status, last], last the newest deployment's number
    dep,        \* the deployments and runs, by number: [p, sha, run, status, kind]
    pqueue,     \* per project: what waits to be built, in memory
    pbuilds,    \* builds under way: [d, p, sha, run, pc, prior]
    plive,      \* per project: the deployment whose container serves, 0 for none, in memory
    pdocker,    \* external: the containers, <<project, commit>>
    ptokens,    \* the gateway's tokens of containers, by deployment
    pasked,     \* redeploys whose caller is being looked up: the project as it was read
    preboots
pvars == <<prow, dep, pqueue, pbuilds, plive, pdocker, ptokens, pasked, preboots>>
Over == {"ready", "error"}
NoProject == [on |-> FALSE, kind |-> "none", status |-> "idle", last |-> 0]
Numbers == DOMAIN dep
\* Deployments of a project without its runs; the newest has the greatest number.
deploymentsOf(p) == {i \in Numbers : dep[i].p = p /\ ~dep[i].run}
runsOf(p) == {i \in Numbers : dep[i].p = p /\ dep[i].run}
NewestIn(S) == IF S = {} THEN 0 ELSE CHOOSE i \in S : \A j \in S : i >= j
Kept(i) == i \in Numbers /\ dep[i].p \in Proj
mayOperate(who, p) == who \in Operator[p]
----------------------------------------------------------------------------
ProjectsInit ==
    /\ prow = [p \in Proj |-> NoProject] /\ dep = << >> /\ pqueue = [p \in Proj |-> << >>]
    /\ pbuilds = {} /\ plive = [p \in Proj |-> 0] /\ pdocker = {} /\ ptokens = {}
    /\ pasked = {} /\ preboots = 0

create(p, kind) ==
    /\ ~prow[p].on /\ prow[p] = NoProject
    /\ prow' = [prow EXCEPT ![p] = [@ EXCEPT !.on = TRUE, !.kind = kind]]
(* POST /api/projects: the kind is a hint. *)
CreateProject ==
    /\ \E p \in Proj, hint \in {"none", "script"} : create(p, hint)
    /\ UNCHANGED <<dep, pqueue, pbuilds, plive, pdocker, ptokens, pasked, preboots>>
(* POST /api/projects/auto: a pushed repository binds itself, with the kind of its manifest. *)
AutoBind ==
    /\ \E p \in Proj, sha \in Commit : create(p, KindOf[sha])
    /\ UNCHANGED <<dep, pqueue, pbuilds, plive, pdocker, ptokens, pasked, preboots>>

Deployment(p, sha, run) == [p |-> p, sha |-> sha, run |-> run, status |-> "queued", kind |-> "none"]
(* createDeployment: the project's row is written from what the caller holds of it. *)
createDeployment(p, row, sha) ==
    /\ Len(dep) < MaxDeployments
    /\ dep' = Append(dep, Deployment(p, sha, FALSE))
    /\ prow' = [prow EXCEPT ![p] = [row EXCEPT !.status = "queued", !.last = Len(dep) + 1]]
enqueue(p) == pqueue' = [pqueue EXCEPT ![p] = Append(@, Len(dep) + 1)]
(* The push hook. *)
PushHook ==
    /\ \E p \in Proj, sha \in Commit : prow[p].on /\ createDeployment(p, prow[p], sha) /\ enqueue(p)
    /\ UNCHANGED <<pbuilds, plive, pdocker, ptokens, pasked, preboots>>
(* POST /api/deployments/:id/redeploy: the same commit again, or back to an older one. *)
redeploy ==
    /\ \E i \in Numbers, who \in Callers :
         LET p == dep[i].p IN
         /\ Kept(i) /\ prow[p].on /\ mayOperate(who, p) /\ dep[i].sha # "head"
         /\ createDeployment(p, prow[p], dep[i].sha) /\ enqueue(p)
    /\ UNCHANGED <<pbuilds, plive, pdocker, ptokens, pasked, preboots>>
(* POST /api/projects/:id/redeploy for a person an application names: the project is read, the
   application's token is verified, and the row is written from what was read.             *)
RedeployAsked ==
    /\ \E p \in Proj : prow[p].on /\ prow[p].last \in Numbers /\ pasked' = pasked \cup {[p |-> p, row |-> prow[p]]}
    /\ pasked = {} /\ UNCHANGED <<prow, dep, pqueue, pbuilds, plive, pdocker, ptokens, preboots>>
RedeployAnswered ==
    /\ \E r \in pasked :
           /\ pasked' = pasked \ {r}
           /\ IF r.row.last \notin Numbers \/ dep[r.row.last].p # r.p THEN UNCHANGED <<prow, dep, pqueue>>
              ELSE createDeployment(r.p, r.row, dep[r.row.last].sha) /\ enqueue(r.p)
    /\ UNCHANGED <<pbuilds, plive, pdocker, ptokens, preboots>>
(* POST /api/projects/:id/runs: waits with the deployments, is never the project's status. *)
createRun ==
    /\ \E p \in Proj, who \in Callers :
           /\ prow[p].on /\ mayOperate(who, p) /\ prow[p].kind \in {"none", "script"}
           /\ Len(dep) < MaxDeployments
           /\ dep' = Append(dep, Deployment(p, "head", TRUE)) /\ enqueue(p)
    /\ UNCHANGED <<prow, pbuilds, plive, pdocker, ptokens, pasked, preboots>>
(* DELETE: builds under way and the container stay. *)
DeleteProject ==
    /\ \E p \in Proj :
           /\ prow[p].on /\ prow' = [prow EXCEPT ![p].on = FALSE]
           /\ dep' = [i \in Numbers |-> IF dep[i].p = p THEN [dep[i] EXCEPT !.p = "deleted"] ELSE dep[i]]
    /\ UNCHANGED <<pqueue, pbuilds, plive, pdocker, ptokens, pasked, preboots>>
----------------------------------------------------------------------------
(* updateDeployment: the project's status is its newest deployment's. *)
Speaks(i, p) == prow[p].on /\ prow[p].last = i
Updated(i, status, kind) ==
    IF ~Kept(i) THEN UNCHANGED <<prow, dep>>
    ELSE LET p == dep[i].p IN
         /\ dep' = [dep EXCEPT ![i].status = status, ![i].kind = kind]
         /\ prow' = IF Speaks(i, p)
                    THEN [prow EXCEPT ![p].status = status, ![p].kind = IF kind = "none" THEN @ ELSE kind]
                    ELSE prow
(* prune: finished ones beyond the newest Retain, of deployments and of runs. *)
Pruned(d, p) ==
    LET old(S) == {i \in S : d[i].status \in Over /\ Cardinality({j \in S : j > i}) >= Retain}
        gone == old(deploymentsOf(p)) \cup old(runsOf(p))
    IN [i \in DOMAIN d |-> IF i \in gone THEN [d[i] EXCEPT !.p = "deleted"] ELSE d[i]]
(* finish: the record, then the old ones go. *)
finish(b, status) ==
    /\ pbuilds' = pbuilds \ {b}
    /\ IF ~Kept(b.d) THEN UNCHANGED <<prow, dep>>
       ELSE /\ dep' = Pruned([dep EXCEPT ![b.d].status = status], b.p)
            /\ prow' = IF Speaks(b.d, b.p) THEN [prow EXCEPT ![b.p].status = status] ELSE prow

(* pump: one build per project, MaxConcurrent on the node. *)
(* Mutant: a project's next deployment does not wait for the one before. *)
AnyTime(p) == TRUE
Idle(p) == \A b \in pbuilds : b.p # p
Pump ==
    /\ \E p \in Proj :
         LET d == Head(pqueue[p]) IN
         /\ pqueue[p] # << >> /\ Cardinality(pbuilds) < MaxConcurrent /\ Idle(p)
         /\ pqueue' = [pqueue EXCEPT ![p] = Tail(@)]
         /\ IF Kept(d) /\ prow[p].on
            THEN /\ Updated(d, "building", dep[d].kind)
                 /\ pbuilds' = pbuilds \cup {[d |-> d, p |-> p, sha |-> dep[d].sha, run |-> dep[d].run,
                                             pc |-> "clone", prior |-> 0]}
            ELSE UNCHANGED <<prow, dep, pbuilds>>
    /\ UNCHANGED <<plive, pdocker, ptokens, pasked, preboots>>
At(b, pc, sha) == [b EXCEPT !.pc = pc, !.sha = sha]
Goes(b, c) == pbuilds' = (pbuilds \ {b}) \cup {c}
(* build: the clone, the manifest, and what the kind says. *)
Cloned ==
    /\ \E b \in pbuilds, sha \in Commit :
           /\ b.pc = "clone" /\ b.sha \in {sha, "head"} /\ KindOf[sha] # "none"
           /\ IF b.run /\ KindOf[sha] # "script" THEN finish(b, "error")
              ELSE /\ Goes(b, At(b, KindOf[sha], sha))
                   /\ Updated(b.d, "building", KindOf[sha])
    /\ UNCHANGED <<pqueue, plive, pdocker, ptokens, pasked, preboots>>
(* No clone, no manifest, an image that does not build, an agent that is not ready in time, a
   script that fails or cannot start: every call has a limit.                              *)
BuildBreaks ==
    /\ \E b \in pbuilds : b.pc \in {"clone", "service", "agent", "script"} /\ finish(b, "error")
    /\ UNCHANGED <<pqueue, plive, pdocker, ptokens, pasked, preboots>>
deployProjectAgent ==
    /\ \E b \in pbuilds : b.pc = "agent" /\ finish(b, "ready")
    /\ UNCHANGED <<pqueue, plive, pdocker, ptokens, pasked, preboots>>
ScriptExits ==
    /\ \E b \in pbuilds : b.pc = "script" /\ finish(b, "ready")
    /\ UNCHANGED <<pqueue, plive, pdocker, ptokens, pasked, preboots>>
----------------------------------------------------------------------------
ContainerName(b) == <<b.p, b.sha>>
(* deploy: the image is built, a container of that name is removed, a token issued. *)
ImageBuilt ==
    /\ \E b \in pbuilds :
           /\ b.pc = "service" /\ Goes(b, At(b, "run", b.sha))
           /\ pdocker' = pdocker \ {ContainerName(b)} /\ ptokens' = ptokens \cup {b.d}
    /\ UNCHANGED <<prow, dep, pqueue, plive, pasked, preboots>>
DockerRuns ==
    /\ \E b \in pbuilds :
           /\ b.pc = "run" /\ Goes(b, At(b, "health", b.sha))
           /\ pdocker' = pdocker \cup {ContainerName(b)}
    /\ UNCHANGED <<prow, dep, pqueue, plive, ptokens, pasked, preboots>>
DockerRefuses ==
    /\ \E b \in pbuilds : b.pc = "run" /\ finish(b, "error") /\ ptokens' = ptokens \ {b.d}
    /\ UNCHANGED <<pqueue, plive, pdocker, pasked, preboots>>
remove(p, d, sha) == pdocker' = pdocker \ {<<p, sha>>} /\ ptokens' = ptokens \ {d}
(* waitHealthy: the container ended, or did not answer in time. *)
Unhealthy ==
    /\ \E b \in pbuilds : b.pc = "health" /\ finish(b, "error") /\ remove(b.p, b.d, b.sha)
    /\ UNCHANGED <<pqueue, plive, pasked, preboots>>
ShaOf(i) == dep[i].sha
(* waitHealthy answered: the new one serves; one of another name is removed afterwards. *)
Healthy ==
    /\ \E b \in pbuilds :
         LET prior == plive[b.p] IN
         /\ b.pc = "health" /\ plive' = [plive EXCEPT ![b.p] = b.d]
         /\ IF prior # 0 /\ ShaOf(prior) # b.sha
            THEN Goes(b, [b EXCEPT !.pc = "swap", !.prior = prior]) /\ UNCHANGED <<prow, dep>>
            ELSE finish(b, "ready")
    /\ UNCHANGED <<pqueue, pdocker, ptokens, pasked, preboots>>
Replaced ==
    /\ \E b \in pbuilds :
           /\ b.pc = "swap" /\ finish(b, "ready") /\ remove(b.p, b.prior, ShaOf(b.prior))
    /\ UNCHANGED <<pqueue, plive, pasked, preboots>>
----------------------------------------------------------------------------
Ascending(S) == CHOOSE s \in [1..Cardinality(S) -> S] : \A i, j \in DOMAIN s : i < j => s[i] < s[j]
(* recover: what was waiting or building waits again, in order; the newest deployment, when it
   was a service that is ready, is deployed again.  Runs are not looked at.                *)
Unfinished(p) == {i \in deploymentsOf(p) : dep[i].status \in {"queued", "building"}}
BroughtBack(p) == {i \in deploymentsOf(p) : i = NewestIn(deploymentsOf(p)) /\ dep[i].status = "ready" /\ dep[i].kind = "service"}
Again(p) == IF prow[p].on THEN Unfinished(p) \cup BroughtBack(p) ELSE {}
ProjectsRestart ==
    /\ preboots < MaxReboots /\ preboots' = preboots + 1
    /\ pbuilds' = {} /\ pasked' = {} /\ plive' = [p \in Proj |-> 0] /\ pdocker' = {} /\ ptokens' = {}
    /\ pqueue' = [p \in Proj |-> Ascending(Again(p))]
    /\ dep' = [i \in Numbers |-> IF dep[i].p \in Proj /\ i \in Again(dep[i].p) THEN [dep[i] EXCEPT !.status = "queued"] ELSE dep[i]]
    /\ prow' = [p \in Proj |-> IF prow[p].last \in Again(p) THEN [prow[p] EXCEPT !.status = "queued"] ELSE prow[p]]

ProjectsNext ==
    \/ CreateProject \/ AutoBind \/ PushHook \/ redeploy \/ RedeployAsked \/ RedeployAnswered \/ createRun \/ DeleteProject
    \/ Pump \/ Cloned \/ BuildBreaks \/ deployProjectAgent \/ ScriptExits
    \/ ImageBuilt \/ DockerRuns \/ DockerRefuses \/ Unhealthy \/ Healthy \/ Replaced \/ ProjectsRestart
\* Every call of a build has a limit (clone, image, health, agent, script), and the queue is
\* pumped whenever a build ends.
BuildSteps == Pump \/ Cloned \/ BuildBreaks \/ deployProjectAgent \/ ScriptExits \/ ImageBuilt \/ DockerRuns
              \/ DockerRefuses \/ Unhealthy \/ Healthy \/ Replaced
ProjectsSpec == ProjectsInit /\ [][ProjectsNext]_pvars
ProjectsFairSpec == ProjectsSpec /\ WF_pvars(BuildSteps)
----------------------------------------------------------------------------
\* What serves is the newest deployment of a service that ended ready in this process: no older
\* one, built later or slower, takes its place (pump, deploy, recover).
LiveIsNewest == \A p \in Proj : plive[p] # 0 =>
    \A i \in deploymentsOf(p) : dep[i].status = "ready" /\ dep[i].kind = "service" => i <= plive[p]

=============================================================================
