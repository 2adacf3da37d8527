------------------------------ MODULE AgentRepo ------------------------------
(* The repository of a hosted agent (agent-git.ts, agent-git-http.ts), its     *)
(* proposals (agent-pulls.ts, agent-pull-routes.ts) and the repository         *)
(* elsewhere it may follow (agent-mirror.ts, agent-mirror-routes.ts), with the *)
(* wiring of server.ts and the routes of hosted-agent-routes.ts that commit.   *)
(* One agent.  Its specification is kept twice, in the agents' file and as the *)
(* tree of the branch main, and five doors write both: a create, an edit, a    *)
(* push, a merge and a sync, each in several steps with a git process between. *)
EXTENDS Naturals, Sequences

CONSTANTS Tree,         \* contents of an agent's folder
          Runs,         \* those that are a valid agent
          GitCaller,    \* requests that may be under way at once
          Url,          \* repositories elsewhere
          MaxCommits,   \* bound: commits ever made
          MaxEdits      \* bound: versions of the stored agent

ASSUME RunsAssumption == Runs \subseteq Tree /\ Runs # {}

VARIABLES objects,      \* commits: what each holds and the commits behind it
          heads,        \* branch -> commit, 0 for none; a missing repository has none
          repoThere,    \* does the directory of the repository exist?
          agentRow,     \* the row of the agents' file: kept?, tree, version
          proposals,    \* the agent's pulls, by number
          followed,     \* the mirror, or NoMirror
          upstream,     \* Url -> the commit it is on
          request,      \* what each caller's request is doing
          agreeing      \* history: the last change of main ended, undisturbed

repoVars == <<objects, heads, repoThere, agentRow, proposals, followed, upstream, request, agreeing>>

Branches == {"main", "work"}
NoMirror == [url |-> "none", last |-> 0, error |-> FALSE]
Done == [step |-> "none", branch |-> "main", tree |-> "none", old |-> 0, before |-> 0,
         commit |-> 0, pull |-> 0, mirror |-> NoMirror, alone |-> FALSE]

Behind(c) == IF c = 0 THEN {} ELSE objects[c].anc

(* A commit of `t` on top of the commits `ps`. *)
CommitTree(t, ps) ==
    /\ Len(objects) < MaxCommits
    /\ objects' = Append(objects, [tree |-> t,
                    anc |-> (UNION {Behind(p) : p \in ps}) \cup {Len(objects) + 1}])

NewCommit == Len(objects) + 1

RepoInit ==
    /\ \E t \in Runs : objects = <<[tree |-> t, anc |-> {1}]>> /\ agentRow = [kept |-> TRUE, tree |-> t, version |-> 1]
    /\ heads = [b \in Branches |-> IF b = "main" THEN 1 ELSE 0]
    /\ repoThere = TRUE
    /\ proposals = <<>>
    /\ followed = NoMirror
    /\ upstream = [u \in Url |-> 0]
    /\ request = [c \in GitCaller |-> Done]
    /\ agreeing = TRUE

Stop(c) == request' = [request EXCEPT ![c] = Done]
StepsTo(c, step) == request' = [request EXCEPT ![c].step = step]

(* A request begins: those under way are no longer alone. *)
Begins(c, r) ==
    /\ request[c] = Done
    /\ request' = [d \in GitCaller |->
                     IF d = c THEN [r EXCEPT !.alone = \A e \in GitCaller : request[e] = Done]
                     ELSE [request[d] EXCEPT !.alone = FALSE]]
    /\ agreeing' = FALSE

(* It ends having written both copies. *)
EndsWell(c) == Stop(c) /\ agreeing' = request[c].alone

(* applyPushedTree: the stored agent becomes the tree of the commit. *)
applyPushedTree(k) ==
    /\ agentRow.version < MaxEdits
    /\ agentRow' = [agentRow EXCEPT !.tree = objects[k].tree, !.version = @ + 1]

(* POST /api/hosted-agents, then init and the first commit. *)
CreateAgent(c, t) ==
    /\ ~agentRow.kept
    /\ agentRow' = [kept |-> TRUE, tree |-> t, version |-> 1]
    /\ Begins(c, [Done EXCEPT !.step = "create", !.tree = t])
    /\ UNCHANGED <<objects, heads, repoThere, proposals, followed, upstream>>

init(c) ==
    /\ request[c].step = "create"
    /\ repoThere' = TRUE
    /\ StepsTo(c, "commit")
    /\ UNCHANGED <<objects, heads, agentRow, proposals, followed, upstream, agreeing>>

(* PUT /api/hosted-agents/:id: the row, then the parent, then the commit. *)
EditAgent(c, t) ==
    /\ agentRow.kept
    /\ agentRow.version < MaxEdits
    /\ agentRow' = [agentRow EXCEPT !.tree = t, !.version = @ + 1]
    /\ Begins(c, [Done EXCEPT !.step = "parent", !.tree = t])
    /\ UNCHANGED <<objects, heads, repoThere, proposals, followed, upstream>>

EditParent(c) ==
    /\ request[c].step = "parent"
    /\ repoThere' = TRUE
    /\ request' = [request EXCEPT ![c].step = "commit", ![c].old = heads["main"]]
    /\ UNCHANGED <<objects, heads, agentRow, proposals, followed, upstream, agreeing>>

(* commitSpec moves main whatever it has become; its failure is swallowed. *)
commitSpec(c) ==
    /\ request[c].step = "commit"
    /\ \/ /\ repoThere
          /\ CommitTree(request[c].tree, {request[c].old})
          /\ heads' = [heads EXCEPT !["main"] = NewCommit]
          /\ EndsWell(c)
       \/ Stop(c) /\ UNCHANGED <<objects, heads, agreeing>>
    /\ UNCHANGED <<repoThere, agentRow, proposals, followed, upstream>>

(* DELETE /api/hosted-agents/:id: the row now, the repository after a container has stopped. *)
DeleteAgent(c) ==
    /\ agentRow.kept
    /\ agentRow' = [agentRow EXCEPT !.kept = FALSE]
    /\ Begins(c, [Done EXCEPT !.step = "drop"])
    /\ UNCHANGED <<objects, heads, repoThere, proposals, followed, upstream>>

deleteRepo(c) ==
    /\ request[c].step = "drop"
    /\ repoThere' = FALSE
    /\ heads' = [b \in Branches |-> 0]
    /\ proposals' = <<>>
    /\ followed' = NoMirror
    /\ Stop(c)
    /\ UNCHANGED <<objects, agentRow, upstream, agreeing>>

-----------------------------------------------------------------------------
(* A push (serve and cgi): refused for a mirrored agent; main is read before   *)
(* the git process starts.  `old` is the head the client built upon.           *)
serve(c, b, t) ==
    /\ agentRow.kept /\ repoThere
    /\ followed = NoMirror
    /\ Begins(c, [Done EXCEPT !.step = "receive", !.branch = b, !.tree = t,
                              !.old = heads[b], !.before = heads["main"]])
    /\ UNCHANGED <<objects, heads, repoThere, agentRow, proposals, followed, upstream>>

(* The hook's question: is the tree that main would hold an agent? *)
check(b, t) == b = "main" => t \in Runs

(* git-receive-pack: the hook is asked, and the ref moves only from the head the client knew. *)
ReceivePack(c) ==
    LET r == request[c] IN
    /\ r.step = "receive"
    /\ \/ /\ repoThere /\ heads[r.branch] = r.old /\ check(r.branch, r.tree)
          /\ CommitTree(r.tree, {r.old})
          /\ heads' = [heads EXCEPT ![r.branch] = NewCommit]
          /\ StepsTo(c, "close")
       \/ StepsTo(c, "close") /\ UNCHANGED <<objects, heads>>
    /\ UNCHANGED <<repoThere, agentRow, proposals, followed, upstream, agreeing>>

(* Mutant: the response is ended without applying. *)
MovedAway(r) == FALSE

(* Only when main is there and moved is the agent applied again. *)
MainMoved(r) == heads["main"] # 0 /\ heads["main"] # r.before

cgi(c) ==
    /\ request[c].step = "close"
    /\ IF MainMoved(request[c])
       THEN StepsTo(c, "read") /\ UNCHANGED agreeing
       ELSE Stop(c) /\ agreeing' = (request[c].alone /\ heads["main"] \notin {0, request[c].before})
    /\ UNCHANGED <<objects, heads, repoThere, agentRow, proposals, followed, upstream>>

(* afterPush: the tree main has now is read, with a process for every file. *)
readSpec(c) ==
    /\ request[c].step = "read"
    /\ IF heads["main"] = 0 THEN Stop(c)
       ELSE request' = [request EXCEPT ![c].step = "apply", ![c].commit = heads["main"]]
    /\ UNCHANGED <<objects, heads, repoThere, agentRow, proposals, followed, upstream, agreeing>>

afterPush(c) ==
    /\ request[c].step = "apply"
    /\ \/ agentRow.kept /\ applyPushedTree(request[c].commit) /\ EndsWell(c)
       \/ ~agentRow.kept /\ Stop(c) /\ UNCHANGED <<agentRow, agreeing>>
    /\ UNCHANGED <<objects, heads, repoThere, proposals, followed, upstream>>

-----------------------------------------------------------------------------
(* POST .../pulls: the head's branch must exist. *)
OpenPull ==
    /\ agentRow.kept /\ repoThere /\ heads["work"] # 0 /\ heads["main"] # 0
    /\ Len(proposals) = 0 \/ (Len(proposals) = 1 /\ proposals[1].state # "open")
    /\ proposals' = Append(proposals, [state |-> "open", commit |-> 0])
    /\ UNCHANGED <<objects, heads, repoThere, agentRow, followed, upstream, request, agreeing>>

ClosePull(n) ==
    /\ proposals[n].state = "open"
    /\ proposals' = [proposals EXCEPT ![n].state = "closed"]
    /\ UNCHANGED <<objects, heads, repoThere, agentRow, followed, upstream, request, agreeing>>

(* POST .../merge, up to the two heads mergeTree resolves. *)
MergePull(c, n) ==
    /\ agentRow.kept /\ repoThere
    /\ proposals[n].state = "open"
    /\ heads["main"] # 0 /\ heads["work"] # 0
    /\ Begins(c, [Done EXCEPT !.step = "merge", !.old = heads["main"], !.commit = heads["work"], !.pull = n])
    /\ UNCHANGED <<objects, heads, repoThere, agentRow, proposals, followed, upstream>>

(* update, of a proposal that may be gone. *)
markMerged(n, k) ==
    proposals' = IF n \in DOMAIN proposals
                 THEN [proposals EXCEPT ![n] = [state |-> "merged", commit |-> k]] ELSE proposals

(* The head is already in. *)
MergeNothing(c) ==
    /\ request[c].step = "merge"
    /\ request[c].commit \in Behind(request[c].old)
    /\ markMerged(request[c].pull, request[c].old)
    /\ Stop(c)
    /\ UNCHANGED <<objects, heads, repoThere, agentRow, followed, upstream, agreeing>>

(* The result is held to the bar of a push. *)
mayMerge(c, t) == t \in Runs

(* The worktree's merge: a conflict, an agent that would not run, or a commit  *)
(* whose tree is stored at once; the branch moves after another process.       *)
mergeTree(c, t) ==
    /\ request[c].step = "merge"
    /\ request[c].commit \notin Behind(request[c].old)
    /\ \/ Stop(c) /\ UNCHANGED <<objects, agentRow>>
       \/ /\ mayMerge(c, t) /\ repoThere /\ agentRow.kept
          /\ CommitTree(t, {request[c].old, request[c].commit})
          /\ agentRow.version < MaxEdits
          /\ agentRow' = [agentRow EXCEPT !.tree = t, !.version = @ + 1]
          /\ request' = [request EXCEPT ![c].step = "setRef", ![c].commit = NewCommit]
    /\ UNCHANGED <<heads, repoThere, proposals, followed, upstream, agreeing>>

(* setRef compares with nothing. *)
setRef(k) == [heads EXCEPT !["main"] = k]

FinishMerge(c) ==
    /\ request[c].step = "setRef"
    /\ \/ /\ repoThere
          /\ heads' = setRef(request[c].commit)
          /\ markMerged(request[c].pull, request[c].commit)
          /\ EndsWell(c)
       \/ ~repoThere /\ Stop(c) /\ UNCHANGED <<heads, proposals, agreeing>>
    /\ UNCHANGED <<objects, repoThere, agentRow, followed, upstream>>

-----------------------------------------------------------------------------
(* Somebody pushes to the repository elsewhere. *)
RemoteMoves(u, t) ==
    /\ CommitTree(t, {})
    /\ upstream' = [upstream EXCEPT ![u] = NewCommit]
    /\ UNCHANGED <<heads, repoThere, agentRow, proposals, followed, request, agreeing>>

(* PUT .../mirror; POST .../mirror/sync and the webhook sync what is kept. *)
AttachMirror(c, u) ==
    LET m == [NoMirror EXCEPT !.url = u] IN
    /\ agentRow.kept
    /\ followed' = m
    /\ Begins(c, [Done EXCEPT !.step = "fetch", !.mirror = m])
    /\ UNCHANGED <<objects, heads, repoThere, agentRow, proposals, upstream>>

SyncMirror(c) ==
    /\ agentRow.kept /\ followed # NoMirror
    /\ Begins(c, [Done EXCEPT !.step = "fetch", !.mirror = followed])
    /\ UNCHANGED <<objects, heads, repoThere, agentRow, proposals, followed, upstream>>

(* DELETE .../mirror: what runs stays. *)
DetachMirror ==
    /\ followed # NoMirror
    /\ followed' = NoMirror
    /\ UNCHANGED <<objects, heads, repoThere, agentRow, proposals, upstream, request, agreeing>>

(* patch: of whatever mirror the agent has by now. *)
patch(f) == followed' = IF followed = NoMirror THEN followed ELSE f

(* Is what was fetched an agent? *)
fetchedRuns(k) == k # 0 /\ objects[k].tree \in Runs

(* fetchMirror, and apply when it brought another commit than the last and it  *)
(* is an agent.  An unreachable or missing repository is an error of the row.  *)
fetchMirror(c) ==
    LET m == request[c].mirror
        k == upstream[m.url]
    IN
    /\ request[c].step = "fetch"
    /\ \/ /\ k # 0 /\ repoThere /\ k # m.last /\ fetchedRuns(k) /\ agentRow.kept
          /\ applyPushedTree(k)
          /\ request' = [request EXCEPT ![c].step = "land", ![c].commit = k]
          /\ UNCHANGED followed
       \/ /\ k = 0 \/ k = m.last \/ ~fetchedRuns(k) \/ ~repoThere \/ ~agentRow.kept
          /\ patch([followed EXCEPT !.error = ~(k # 0 /\ k = m.last)])
          /\ Stop(c)
          /\ UNCHANGED agentRow
    /\ UNCHANGED <<objects, heads, repoThere, proposals, upstream, agreeing>>

(* land, then the commit is remembered as the last one taken. *)
land(c) ==
    /\ request[c].step = "land"
    /\ \/ /\ repoThere
          /\ heads' = setRef(request[c].commit)
          /\ patch([followed EXCEPT !.last = request[c].commit, !.error = FALSE])
          /\ EndsWell(c)
       \/ ~repoThere /\ patch([followed EXCEPT !.error = TRUE]) /\ Stop(c) /\ UNCHANGED <<heads, agreeing>>
    /\ UNCHANGED <<objects, repoThere, agentRow, proposals, upstream>>

-----------------------------------------------------------------------------
(* The node stops: requests are lost, the files and the repository are kept. *)
StopNode ==
    /\ \E c \in GitCaller : request[c] # Done
    /\ request' = [c \in GitCaller |-> Done]
    /\ agreeing' = FALSE
    /\ UNCHANGED <<objects, heads, repoThere, agentRow, proposals, followed, upstream>>

RepoStep(c) ==
    \/ \E t \in Runs : CreateAgent(c, t) \/ EditAgent(c, t)
    \/ init(c) \/ EditParent(c) \/ commitSpec(c) \/ DeleteAgent(c) \/ deleteRepo(c)
    \/ \E b \in Branches, t \in Tree : serve(c, b, t)
    \/ ReceivePack(c) \/ cgi(c) \/ readSpec(c) \/ afterPush(c)
    \/ \E n \in DOMAIN proposals : MergePull(c, n)
    \/ MergeNothing(c) \/ FinishMerge(c)
    \/ \E t \in Tree : mergeTree(c, t)
    \/ \E u \in Url : AttachMirror(c, u)
    \/ SyncMirror(c) \/ fetchMirror(c) \/ land(c)

RepoNext ==
    \/ \E c \in GitCaller : RepoStep(c)
    \/ OpenPull
    \/ \E n \in DOMAIN proposals : ClosePull(n)
    \/ \E u \in Url, t \in Tree : RemoteMoves(u, t)
    \/ DetachMirror
    \/ StopNode

RepoSpec == RepoInit /\ [][RepoNext]_repoVars

-----------------------------------------------------------------------------
(* A change of main that nothing overlapped leaves the row of the agents' file *)
(* and the branch main with one content: "every way of moving it has to end in *)
(* the same place or they will drift" (server.ts:797-798).                     *)
OneAnswer ==
    agreeing /\ agentRow.kept /\ heads["main"] # 0 => agentRow.tree = objects[heads["main"]].tree

=============================================================================
