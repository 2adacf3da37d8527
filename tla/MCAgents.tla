------------------------------- MODULE MCAgents -------------------------------
(* Small instances of the components around agents: HostedAgents, SharedAgents,    *)
(* Projects, AgentRepo, ScriptRuns and AgentMesh.  They share no state the models   *)
(* keep, so one run checks them side by side: `part` says which of them moves, and   *)
(* the others stay in their initial states.                                           *)
EXTENDS HostedAgents, SharedAgents, Projects, AgentRepo, ScriptRuns, AgentMesh, TLC

VARIABLE part
agentsVars == <<part, hvars, svars, pvars, repoVars, scriptVars, meshVars>>

Parts == {"HostedAgents", "SharedAgents", "Projects", "AgentRepo", "ScriptRuns", "AgentMesh"}
Still == /\ (part # "HostedAgents" => UNCHANGED hvars) /\ (part # "SharedAgents" => UNCHANGED svars)
         /\ (part # "Projects" => UNCHANGED pvars) /\ (part # "AgentRepo" => UNCHANGED repoVars)
         /\ (part # "ScriptRuns" => UNCHANGED scriptVars) /\ (part # "AgentMesh" => UNCHANGED meshVars)
         /\ UNCHANGED part

Init == /\ part \in Parts
        /\ HostedInit /\ SharedInit /\ ProjectsInit /\ RepoInit /\ RunsInit /\ MeshInit
        /\ part # "AgentRepo" => agentRow.tree = "x"
Next == \/ part = "HostedAgents" /\ HostedNext /\ Still
        \/ part = "SharedAgents" /\ SharedNext /\ Still
        \/ part = "Projects" /\ ProjectsNext /\ Still
        \/ part = "AgentRepo" /\ RepoNext /\ Still
        \/ part = "ScriptRuns" /\ RunsNext /\ Still
        \/ part = "AgentMesh" /\ MeshNext /\ Still
Spec == Init /\ [][Next]_agentsVars

(* One person is a member of a team in one, and of none in the other. *)
OneMap == {[x \in {"t", "u"} \X {"p", "q"} |->
              IF x = <<"t", "q">> THEN 4 ELSE IF x = <<"u", "q">> THEN 0 ELSE 2]}

KindOfCommit == ("s" :> "service") @@ ("t" :> "service") @@ ("c" :> "script") @@ ("g" :> "agent")
OperatorOf == [p \in {"p1"} |-> {"m"}]

(* Two requests overlap early in the history of the repository, or when a deletion    *)
(* comes before the last step of a merge or a sync.                                   *)
Early == /\ Len(proposals) <= (IF followed = NoMirror /\ upstream["u"] = 0 THEN 2 ELSE 1)
         /\ \/ \A c, d \in GitCaller : c = d \/ request[c] = Done \/ request[d] = Done
            \/ Len(objects) + agentRow.version <= 2 /\ upstream["u"] = 0 /\ followed = NoMirror
            \/ \E c, d \in GitCaller : request[c].step = "drop" /\ request[d].step \in {"setRef", "land"}

(* The callers of git are told apart by nothing. *)
CallersAlike == Permutations(GitCaller)

(* The allowed hosts are asked while nothing runs. *)
FetchApart == fetch # NoFetch => \A r \in RunIds : runs[r] = NoRun

(* Own agents change while no peer has declared anything, and peers one by one. *)
Labels == {{}, {"eu"}, {"eu", "gpu"}}
Asked == {{}, {"eu"}, {"gpu"}}
OwnAgents == \/ linked # [i \in AgentIds |-> NoOne] \/ probes # {} \/ answering # Upstreams
             \/ \E i \in AgentIds : health[i] # Unknown
MeshApart ==
  /\ Cardinality(verdicts) <= 1
  /\ OwnAgents => verdicts = {} /\ \A p \in MeshPeers : declared[p] = {}
  /\ declared["q"] # {} => verdicts = {} /\ ~registryFresh

Apart == Early /\ FetchApart /\ MeshApart
===============================================================================
