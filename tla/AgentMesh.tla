----------------------------- MODULE AgentMesh ------------------------------
(***************************************************************************)
(* The front door of a node's agents and the hop to agents on other nodes  *)
(* (src/agents.ts, src/sam.ts).                                            *)
(*                                                                         *)
(* An id is served here when the operator's config or a linked row names an*)
(* upstream for it; otherwise the peer that advertised it last holds the   *)
(* name, and the call goes to that peer once the labels gate has let it.   *)
(* Probes, the peer table, attestations and calls are each answered after a*)
(* wait, and everything around them moves in between.  An upstream's card  *)
(* is the upstream itself; a label is a whole key=value pair.              *)
(***************************************************************************)
EXTENDS FiniteSets, Naturals

CONSTANTS AgentIds, Upstreams, MeshPeers,
          ConfigAgent,    \* the ids config.agents names
          LabelSets,      \* the label sets a peer may attest
          Requirements,   \* what X-Sam-Required-Labels may ask
          EgressFloor,    \* sam.egressRequireLabels
          LabelAuthority, \* the peers' attestations this operator accepts
          MaxSeen         \* bound: rounds of gossip heard

ASSUME MeshAssumption == ConfigAgent \subseteq AgentIds /\ MaxSeen \in Nat \ {0}

VARIABLES linked,    \* id -> upstream of the linked row, or NoOne
          answering, \* upstreams that answer
          health,    \* id -> what the last probe or call found
          probes,    \* cards being asked for
          table,     \* peer -> its adverts and when they were heard
          registry,  \* id -> the peer that holds the short name
          registryFresh, \* it is younger than REGISTRY_TTL_MS
          declared,  \* peer -> the labels it attests now
          verdicts,  \* positive verdicts of the gate; "labels", what each rests
                     \* on, is history
          call       \* the call under way; "basis" likewise

meshVars == <<linked, answering, health, probes, table, registry, registryFresh,
              declared, verdicts, call>>

NoOne   == "none"
Unknown == [reach |-> "unknown", card |-> NoOne, fresh |-> FALSE]
NotHeard == [ads |-> {}, seen |-> 0]
NoCallYet == [pc |-> "none", id |-> NoOne, peer |-> NoOne, req |-> {}, basis |-> {}]

-----------------------------------------------------------------------------
(* What this node proxies, and what it knows of it.                        *)

\* A config agent wins a contested id.
listAgents ==
  [i \in AgentIds |-> IF i \in ConfigAgent THEN "config" ELSE linked[i]]

find(i) == listAgents[i] # NoOne

up(u) == u = "config" \/ u \in answering

Link ==
  /\ \E i \in AgentIds \ ConfigAgent, u \in Upstreams \cup {NoOne} :
       /\ u # linked[i]
       /\ linked' = [linked EXCEPT ![i] = u]
  /\ UNCHANGED <<answering, health, probes, table, registry, registryFresh,
                 declared, verdicts, call>>

UpstreamMoves ==
  /\ \E u \in Upstreams :
       answering' = IF u \in answering THEN answering \ {u} ELSE answering \cup {u}
  /\ UNCHANGED <<linked, health, probes, table, registry, registryFresh, declared,
                 verdicts, call>>

\* Gossip and the list ask only when they have no recent answer.
fetchCard ==
  /\ \E i \in AgentIds :
       /\ find(i) /\ ~health[i].fresh
       /\ [id |-> i, at |-> listAgents[i]] \notin probes
       /\ probes' = probes \cup {[id |-> i, at |-> listAgents[i]]}
  /\ UNCHANGED <<linked, answering, health, table, registry, registryFresh,
                 declared, verdicts, call>>

\* Whoever reads the card of one of this node's agents has it asked for anew.
serveCard ==
  /\ \E i \in AgentIds :
       /\ find(i) /\ health[i].fresh
       /\ [id |-> i, at |-> listAgents[i]] \notin probes
       /\ probes' = probes \cup {[id |-> i, at |-> listAgents[i]]}
  /\ UNCHANGED <<linked, answering, health, table, registry, registryFresh,
                 declared, verdicts, call>>

probeUpstreamCard(u) ==
  IF up(u) THEN [reach |-> "yes", card |-> u, fresh |-> TRUE]
  ELSE [reach |-> "no", card |-> NoOne, fresh |-> TRUE]

CardAnswers ==
  /\ \E p \in probes :
       /\ probes' = probes \ {p}
       /\ health' = [health EXCEPT ![p.id] = probeUpstreamCard(p.at)]
  /\ UNCHANGED <<linked, answering, table, registry, registryFresh, declared,
                 verdicts, call>>

HealthAges ==
  /\ \E i \in AgentIds : /\ health[i].fresh
                         /\ health' = [health EXCEPT ![i].fresh = FALSE]
  /\ UNCHANGED <<linked, answering, probes, table, registry, registryFresh,
                 declared, verdicts, call>>

-----------------------------------------------------------------------------
(* Peers and their adverts.                                                *)

Round == CHOOSE n \in 0..MaxSeen :
           /\ \A p \in MeshPeers : table[p].seen <= n
           /\ n = 0 \/ \E p \in MeshPeers : table[p].seen = n

Hear ==
  /\ Round < MaxSeen
  /\ \E p \in MeshPeers, ads \in SUBSET AgentIds :
       table' = [table EXCEPT ![p] = [ads |-> ads, seen |-> Round + 1]]
  /\ UNCHANGED <<linked, answering, health, probes, registry, registryFresh,
                 declared, verdicts, call>>

\* A day without a word, or the row itself goes.
currentAgentAdvert(p) == table[p].seen > 0

PeerGoesQuiet ==
  /\ \E p \in MeshPeers : /\ currentAgentAdvert(p)
                          /\ table' = [table EXCEPT ![p] = NotHeard]
  /\ UNCHANGED <<linked, answering, health, probes, registry, registryFresh,
                 declared, verdicts, call>>

Offers(i) == {p \in MeshPeers : currentAgentAdvert(p) /\ i \in table[p].ads}

\* Between peers the fresher advert holds the name.
registered ==
  [i \in AgentIds |->
     IF Offers(i) = {} THEN NoOne
     ELSE CHOOSE p \in Offers(i) : \A q \in Offers(i) : table[q].seen <= table[p].seen]

\* What a short name is resolved with: the registry while it is young.
Names == IF registryFresh THEN registry ELSE registered

\* GET /api/agents: this node's own rows and one per advert of a peer, each with
\* the address to hand out: the short one, or the peer's path through the mesh.
listRows ==
  {[id |-> i, by |-> "here", short |-> TRUE] : i \in {j \in AgentIds : find(j)}}
  \cup
  {[id |-> r[2], by |-> r[1], short |-> Names[r[2]] = r[1]] :
     r \in {x \in MeshPeers \X AgentIds : currentAgentAdvert(x[1]) /\ x[2] \in table[x[1]].ads}}

RegistryAges ==
  /\ registryFresh /\ registryFresh' = FALSE
  /\ UNCHANGED <<linked, answering, health, probes, table, registry, declared,
                 verdicts, call>>

\* Where a peer's address answers, from the peer table and never from the path.
resolve(p) == p \in MeshPeers /\ currentAgentAdvert(p)

-----------------------------------------------------------------------------
(* Labels.                                                                 *)

PeerDeclares ==
  /\ \E p \in MeshPeers, L \in LabelSets :
       L # declared[p] /\ declared' = [declared EXCEPT ![p] = L]
  /\ UNCHANGED <<linked, answering, health, probes, table, registry,
                 registryFresh, verdicts, call>>

satisfiesRequirement(L, req) == req = {} \/ L \cap req # {}

satisfiesFloor(L) == EgressFloor \subseteq L

\* An attestation with no labels is not served; one nobody vouches for is none.
verifyAttestation(p) == p \in LabelAuthority /\ declared[p] # {}

(* Mutant: one verdict for the peer, whatever was required.                *)
PeerKey(p, req) == [peer |-> p, req |-> {}]

GateKey(p, req) == [peer |-> p, req |-> req]

Hits(p, req) == {v \in verdicts : v.key = GateKey(p, req)}

VerdictExpires ==
  /\ \E v \in verdicts :
       verdicts' = {w \in verdicts : w.key # v.key}
  /\ UNCHANGED <<linked, answering, health, probes, table, registry,
                 registryFresh, declared, call>>

-----------------------------------------------------------------------------
(* A call.                                                                 *)

Begin(pc, i, p, req) ==
  call' = [pc |-> pc, id |-> i, peer |-> p, req |-> req, basis |-> {}]
Step(pc)             == call' = [call EXCEPT !.pc = pc]
CallOnly == UNCHANGED <<linked, answering, health, probes, table, registry,
                        registryFresh, declared, verdicts>>

\* The front door: an agent of this node first, whoever else runs the id.
callAgent ==
  /\ call.pc = "none"
  /\ \E i \in AgentIds, req \in Requirements :
       Begin(IF find(i) THEN "local" ELSE "resolving", i, listAgents[i], req)
  /\ CallOnly

\* The card of an agent nobody here runs is the peer's, fetched and rewritten: the
\* node itself keeps only the registry it looked the name up in.
serveRemoteCard ==
  /\ \E i \in AgentIds : ~find(i)
  /\ registry' = Names /\ registryFresh' = TRUE
  /\ UNCHANGED <<linked, answering, health, probes, table, declared, verdicts, call>>

\* The mesh path names the peer.
meshCall ==
  /\ call.pc = "none"
  /\ \E i \in AgentIds, p \in MeshPeers, req \in Requirements :
       resolve(p) /\ Begin("gate", i, p, req)
  /\ CallOnly

\* The registry is rebuilt from the peer table, which is read after a wait.
remote ==
  /\ call.pc = "resolving"
  /\ registry' = Names /\ registryFresh' = TRUE
  /\ IF Names[call.id] # NoOne /\ resolve(Names[call.id])
     THEN call' = [call EXCEPT !.pc = "gate", !.peer = Names[call.id]]
     ELSE call' = NoCallYet
  /\ UNCHANGED <<linked, answering, health, probes, table, declared, verdicts>>

GatePasses ==
  /\ call.pc = "gate"
  /\ \/ call.req = {} /\ EgressFloor = {}
     \/ Hits(call.peer, call.req) # {}
  /\ call' = [call EXCEPT !.pc = "forward",
                          !.basis = {v.labels : v \in Hits(call.peer, call.req)}]
  /\ CallOnly

GateAsks ==
  /\ call.pc = "gate"
  /\ ~(call.req = {} /\ EgressFloor = {})
  /\ Hits(call.peer, call.req) = {}
  /\ Step("attesting")
  /\ CallOnly

\* The attestation arrives, says enough, and the verdict is kept.
Attested ==
  /\ call.pc = "attesting"
  /\ verifyAttestation(call.peer)
  /\ satisfiesRequirement(declared[call.peer], call.req)
  /\ satisfiesFloor(declared[call.peer])
  /\ verdicts' = verdicts \cup
       {[key |-> GateKey(call.peer, call.req), labels |-> declared[call.peer]]}
  /\ call' = [call EXCEPT !.pc = "forward", !.basis = {declared[call.peer]}]
  /\ UNCHANGED <<linked, answering, health, probes, table, registry,
                 registryFresh, declared>>

\* It does not come, or does not say enough: nothing leaves.
Refused ==
  /\ call.pc = "attesting"
  /\ call' = NoCallYet
  /\ CallOnly

\* The peer answers, or does not, and the call is over either way.
relayCall ==
  /\ call.pc = "forward"
  /\ call' = NoCallYet
  /\ CallOnly

\* This node's own agent: the outcome of the call is news about its health.
forward ==
  /\ call.pc = "local"
  /\ health' = [health EXCEPT ![call.id] =
       IF up(call.peer) THEN [@ EXCEPT !.reach = "yes", !.fresh = TRUE]
       ELSE [reach |-> "no", card |-> NoOne, fresh |-> TRUE]]
  /\ call' = NoCallYet
  /\ UNCHANGED <<linked, answering, probes, table, registry, registryFresh,
                 declared, verdicts>>

MeshRestart ==
  /\ health' = [i \in AgentIds |-> Unknown] /\ probes' = {}
  /\ registry' = [i \in AgentIds |-> NoOne] /\ registryFresh' = FALSE
  /\ verdicts' = {} /\ call' = NoCallYet
  /\ UNCHANGED <<linked, answering, table, declared>>

-----------------------------------------------------------------------------
MeshInit ==
  /\ linked = [i \in AgentIds |-> NoOne] /\ answering = Upstreams
  /\ health = [i \in AgentIds |-> Unknown] /\ probes = {}
  /\ table = [p \in MeshPeers |-> NotHeard]
  /\ registry = [i \in AgentIds |-> NoOne] /\ registryFresh = FALSE
  /\ declared = [p \in MeshPeers |-> {}]
  /\ verdicts = {} /\ call = NoCallYet

MeshNext ==
  \/ Link \/ UpstreamMoves \/ fetchCard \/ serveCard \/ CardAnswers \/ HealthAges
  \/ Hear \/ PeerGoesQuiet \/ RegistryAges \/ PeerDeclares \/ VerdictExpires
  \/ callAgent \/ serveRemoteCard \/ meshCall \/ remote \/ GatePasses \/ GateAsks \/ Attested
  \/ Refused \/ relayCall \/ forward \/ MeshRestart

MeshSpec == MeshInit /\ [][MeshNext]_meshVars

-----------------------------------------------------------------------------
(* No body leaves for a peer unless, within the life of a verdict, that    *)
(* peer attested labels that meet both what this very call requires and the*)
(* operator's floor, whatever other calls were let through meanwhile       *)
(* (gateFor, src/sam.ts).                                                  *)
BodyNeedsLabels ==
  call.pc = "forward" /\ ~(call.req = {} /\ EgressFloor = {}) =>
    \E L \in call.basis : satisfiesRequirement(L, call.req) /\ satisfiesFloor(L)

=============================================================================
