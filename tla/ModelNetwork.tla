---------------------------- MODULE ModelNetwork ----------------------------
(* Where a call of a model goes and what it waits for: the surface for keys    *)
(* (openai-surface.ts), the visitor's door (free-tier-routes.ts), a hosted     *)
(* agent's door (hosted-agent-gateway.ts) and the door for other nodes         *)
(* (peer-models.ts), over the backends a node declares (inference-backends.ts) *)
(* and the gate in front of each card (modality-gate.ts).  What a node knows   *)
(* of the models of another is what gossip last brought; the other may have    *)
(* been restarted with different ones since.                                   *)
EXTENDS Naturals, FiniteSets, Sequences

CONSTANTS Node, Backend, Model, Calls,
          Kind,         \* Backend -> "chat", "image", ... (speech and decisions are as images)
          Names,        \* Backend -> the sequence of models it serves
          Slots,        \* Backend -> how many calls its card takes at once
          Setups,       \* Node -> the sets of backends it may be started with
          Preferred,    \* Node -> [chat models pinned by its operator -> node]
          PerMinute,    \* bound: calls of a peer in a minute
          MaxDeep,      \* bound: calls of this node's model waiting before one is refused
          MaxStarts     \* bound: restarts

NoNode == "any"
NoBackend == "none"

ASSUME SetupAssumption ==
    \A n \in Node : \A s \in Setups[n] : \A x, y \in s : x # y =>
        \A i \in DOMAIN Names[x], j \in DOMAIN Names[y] : Names[x][i] # Names[y][j]

VARIABLES serves,       \* Node -> the backends it was started with
          known,        \* Node -> Node -> the backends of the other, {} when stale or unknown
          heard,        \* Node -> the peers it heard from, freshest first
          call,         \* what each call is doing
          hits,         \* Node -> calls of other nodes in the last minute, refused ones too
          starts        \* restarts so far

netVars == <<serves, known, heard, call, hits, starts>>

NoCall == [step |-> "none", door |-> "v1", at |-> NoNode, kind |-> "chat", named |-> "", to |-> NoNode,
         backend |-> NoBackend, lane |-> "gate", class |-> 0, ran |-> "", client |-> "none"]

NetInit ==
    /\ serves \in {f \in [Node -> SUBSET Backend] : \A n \in Node : f[n] \in Setups[n]}
    /\ known = [n \in Node |-> [p \in Node |-> {}]]
    /\ heard = [n \in Node |-> <<>>]
    /\ call = [c \in Calls |-> NoCall]
    /\ hits = [n \in Node |-> 0]
    /\ starts = 0

ModelsOf(x) == {Names[x][i] : i \in DOMAIN Names[x]}

(* backendForModel, and the first backend of a modality. *)
backendForModel(n, m) == {x \in serves[n] : m \in ModelsOf(x)}
backendsFor(n, k) == {x \in serves[n] : Kind[x] = k}

(* peerModelTargetById: the named node, else the freshest that advertised it;  *)
(* with no model named, the freshest peer with the modality.                   *)
Advertises(n, p, k, m) == \E x \in known[n][p] : Kind[x] = k /\ (m = "" \/ m \in ModelsOf(x))
target(n, k, m, pin) ==
    LET rows == SelectSeq(heard[n], LAMBDA p : Advertises(n, p, k, m) /\ pin \in {NoNode, p})
    IN IF rows = <<>> THEN NoNode ELSE rows[1]

(* Does the reference name this node? *)
here(n, pin) == pin \in {NoNode, n}

(* routeModelRef and resolve: an operator's pin of a bare chat id goes first;  *)
(* then this node's own backend of that kind; then a peer's.                   *)
routeModelRef(n, k, m, pin, door) ==
    LET pinned == door = "v1" /\ k = "chat" /\ pin = NoNode /\ m \in DOMAIN Preferred[n]
        own == {x \in backendForModel(n, m) : here(n, pin) /\ Kind[x] = k}
        to == IF pinned THEN target(n, k, m, Preferred[n][m])
              ELSE target(n, k, m, IF here(n, pin) THEN NoNode ELSE pin)
    IN IF own # {} /\ ~pinned THEN [own |-> CHOOSE x \in own : TRUE, to |-> NoNode]
       ELSE [own |-> NoBackend, to |-> to]

(* mediaRoute: this node's first backend of the modality, else the freshest peer. *)
mediaRoute(n, k) ==
    IF backendsFor(n, k) # {} THEN [own |-> CHOOSE x \in backendsFor(n, k) : TRUE, to |-> NoNode]
    ELSE [own |-> NoBackend, to |-> target(n, k, "", NoNode)]

(* The queue a call of a backend waits in.  A gate stands before every card    *)
(* that is not the language model's; the node's own chat waits for the lease   *)
(* of the runtime, a peer's in a queue made at its first call, an agent's in   *)
(* none.                                                                       *)
Lane(x, door) ==
    CASE Kind[x] # "chat" -> "gate"
      [] door = "peer" -> "chatGates"
      [] door = "agent" -> "none"
      [] OTHER -> "lease"

(* The class: a visitor's press is served after what was paid for. *)
Class(door) == IF door = "free" THEN 1 ELSE 0

Waiting(x, l) == {c \in Calls : call[c].step = "queued" /\ call[c].backend = x /\ call[c].lane = l}
Running(x) == {c \in Calls : call[c].step = "running" /\ call[c].backend = x}
InLane(x, l) == {c \in Running(x) : call[c].lane = l}

(* run: the call joins the queue of its card. *)
Join(r, x, door) == [r EXCEPT !.step = "queued", !.backend = x, !.lane = Lane(x, door), !.class = Class(door)]

(* What the caller is told: of a call that is over nothing else is kept. *)
CallOver(what) == [NoCall EXCEPT !.step = "over", !.client = what]
Serve(c, r) == call' = [call EXCEPT ![c] = r] /\ UNCHANGED <<serves, known, heard, hits, starts>>

Follow(c, r, route) ==
    Serve(c, IF route.own # NoBackend THEN Join(r, route.own, r.door)
             ELSE IF route.to # NoNode THEN [r EXCEPT !.step = "sent", !.to = route.to]
             ELSE CallOver("refused"))

Asked(door, n, k, m) == [NoCall EXCEPT !.door = door, !.at = n, !.kind = k, !.named = m, !.client = "waits"]

(* POST /v1/images/generations, /v1/audio/transcriptions and /v1/systemone:    *)
(* routed by the model named.                                                  *)
V1Media(c, n, m, pin) ==
    /\ call[c] = NoCall
    /\ Follow(c, Asked("v1", n, "image", m), routeModelRef(n, "image", m, pin, "v1"))

(* POST /v1/chat/completions: a chat of this node's own model is refused when  *)
(* the wait could not be promised.                                             *)
V1Chat(c, n, m, pin) ==
    LET route == routeModelRef(n, "chat", m, pin, "v1") IN
    /\ call[c] = NoCall
    /\ IF route.own # NoBackend /\ Cardinality(Waiting(route.own, "lease")) >= MaxDeep
       THEN Serve(c, CallOver("refused"))
       ELSE Follow(c, Asked("v1", n, "chat", m), route)

(* POST /api/image, /api/transcribe and /api/decide. *)
FreeMedia(c, n, m, pin) ==
    /\ call[c] = NoCall
    /\ Follow(c, Asked("free", n, "image", m), routeModelRef(n, "image", m, pin, "free"))

(* POST /api/peer-chat takes only the model of another node. *)
PeerChat(c, n, m, pin) ==
    LET route == routeModelRef(n, "chat", m, pin, "free") IN
    /\ call[c] = NoCall
    /\ route.own = NoBackend
    /\ Follow(c, Asked("free", n, "chat", m), route)

(* llm: the model of the agent's specification. *)
AgentChat(c, n, m, pin) ==
    /\ call[c] = NoCall
    /\ Follow(c, Asked("agent", n, "chat", m), routeModelRef(n, "chat", m, pin, "agent"))

(* transcribe and image of the gateway name no model. *)
AgentMedia(c, n, k) ==
    /\ call[c] = NoCall
    /\ Follow(c, Asked("agent", n, k, ""), mediaRoute(n, k))

(* Mutant: a peer that does not serve the model named answers with its first. *)
firstOfKind(p, k, m) == backendsFor(p, k)

(* What the door for peers finds for a model named, or for none. *)
wantedBackend(p, k, m) == {x \in backendsFor(p, k) : m = "" \/ m \in ModelsOf(x)}

(* At the provider: over the limit of the minute, not served, or queued. *)
AtProvider(c) ==
    LET r == call[c]
        found == wantedBackend(r.to, r.kind, r.named)
    IN /\ hits[r.to] <= PerMinute
       /\ hits' = [hits EXCEPT ![r.to] = @ + 1]
       /\ IF hits[r.to] + 1 > PerMinute \/ found = {}
          THEN call' = [call EXCEPT ![c] = CallOver("refused")]
          ELSE \E x \in found : call' = [call EXCEPT ![c] = Join(r, x, "peer")]
       /\ UNCHANGED <<serves, known, heard, starts>>

(* POST /p2p/models/transcription, image and decision; POST /p2p/models/chat. *)
PeerMediaDoor(c) == call[c].step = "sent" /\ call[c].kind # "chat" /\ AtProvider(c)
PeerChatDoor(c) == call[c].step = "sent" /\ call[c].kind = "chat" /\ AtProvider(c)

(* The provider was turned off for peers, or cannot be reached. *)
PeerFails(c) ==
    /\ call[c].step = "sent"
    /\ Serve(c, CallOver("failed"))

(* A minute passes for the window of the calls counted. *)
MinutePasses(n) ==
    /\ hits[n] > 0
    /\ hits' = [hits EXCEPT ![n] = 0]
    /\ UNCHANGED <<serves, known, heard, call, starts>>

(* Is there a slot in the queue the call waits in? *)
Room(c) ==
    \/ call[c].lane = "none"
    \/ Cardinality(InLane(call[c].backend, call[c].lane)) < Slots[call[c].backend]

(* The model the upstream is asked for: the door for peers asks for the first  *)
(* model of the backend of a picture or a recording, a chat's for the one named. *)
Upstream(r) ==
    IF r.kind # "chat" /\ (r.to # NoNode \/ r.named = "") THEN Names[r.backend][1] ELSE r.named

(* pump: the lowest class first.  Inside a class any of those waiting (the     *)
(* order is that of StakeQueue).                                               *)
PumpCard(c) ==
    LET r == call[c] IN
    /\ r.step = "queued"
    /\ Room(c)
    /\ \A d \in Waiting(r.backend, r.lane) : r.class <= call[d].class
    /\ Serve(c, [r EXCEPT !.step = "running", !.ran = Upstream(r)])

(* The upstream has answered to the last byte, or failed. *)
Finished(c) ==
    /\ call[c].step = "running"
    /\ \E what \in {"answered", "failed"} :
         Serve(c, CallOver(IF call[c].client = "waits" THEN what ELSE call[c].client))

(* The caller's node waited too long for the other: the other goes on. *)
PeerTimeout(c) ==
    /\ call[c].to # NoNode /\ call[c].client = "waits"
    /\ Serve(c, IF call[c].step = "sent" THEN CallOver("failed") ELSE [call[c] EXCEPT !.client = "failed"])

(* A call is made again with the same name. *)
CallAgain(c) ==
    /\ call[c].step = "over"
    /\ Serve(c, NoCall)

-----------------------------------------------------------------------------
(* Gossip brings the models a peer has now; five minutes of silence and the    *)
(* row no longer counts.                                                       *)
HearPeer(n, p) ==
    /\ n # p
    /\ known' = [known EXCEPT ![n][p] = serves[p]]
    /\ heard' = [heard EXCEPT ![n] = <<p>> \o SelectSeq(@, LAMBDA q : q # p)]
    /\ <<known', heard'>> # <<known, heard>>
    /\ UNCHANGED <<serves, call, hits, starts>>

PeerStale(n, p) ==
    /\ known[n][p] # {}
    /\ known' = [known EXCEPT ![n][p] = {}]
    /\ heard' = [heard EXCEPT ![n] = SelectSeq(@, LAMBDA q : q # p)]
    /\ UNCHANGED <<serves, call, hits, starts>>

(* A node is started again, perhaps with other backends: what it was doing is lost. *)
NodeRestarts(n) ==
    /\ starts < MaxStarts
    /\ starts' = starts + 1
    /\ \E s \in Setups[n] : serves' = [serves EXCEPT ![n] = s]
    /\ call' = [c \in Calls |->
                  IF call[c].at = n THEN NoCall
                  ELSE IF call[c].to = n /\ call[c].step \in {"queued", "running"}
                       THEN CallOver("failed")
                       ELSE call[c]]
    /\ known' = [known EXCEPT ![n] = [p \in Node |-> {}]]
    /\ heard' = [heard EXCEPT ![n] = <<>>]
    /\ hits' = [hits EXCEPT ![n] = 0]

NetStep(c) ==
    \/ \E n \in Node, m \in Model, pin \in Node \cup {NoNode} :
         \/ V1Media(c, n, m, pin) \/ V1Chat(c, n, m, pin)
         \/ FreeMedia(c, n, m, pin) \/ PeerChat(c, n, m, pin) \/ AgentChat(c, n, m, pin)
    \/ \E n \in Node : AgentMedia(c, n, "image")
    \/ PeerMediaDoor(c) \/ PeerChatDoor(c) \/ PeerFails(c)
    \/ PumpCard(c) \/ Finished(c) \/ PeerTimeout(c) \/ CallAgain(c)

NetNext ==
    \/ \E c \in Calls : NetStep(c)
    \/ \E n \in Node : MinutePasses(n) \/ NodeRestarts(n)
    \/ \E n, p \in Node : HearPeer(n, p) \/ PeerStale(n, p)

NetSpec == NetInit /\ [][NetNext]_netVars

-----------------------------------------------------------------------------
(* A caller that names a model is answered by a backend that serves it, and by that *)
(* model, though the node asked was started again with others since its advert; save *)
(* that the door for other nodes asks the backend of a picture or a recording for its *)
(* first model (peer-models.ts:339, 352, 366, 389, openai-surface.ts:426-427).         *)
NamedModelAnswers ==
    \A c \in Calls : LET r == call[c] IN r.ran # "" /\ r.named # "" =>
        /\ r.named \in ModelsOf(r.backend)
        /\ r.ran = r.named \/ (r.kind # "chat" /\ r.to # NoNode /\ r.ran = Names[r.backend][1])

(* A caller that names a model gets that model or a refusal, never a different one of *)
(* the same kind (the comment of the door, peer-models.ts:338).                        *)
NamedModelOrRefusal ==
    \A c \in Calls : call[c].ran # "" /\ call[c].named # "" => call[c].ran = call[c].named
=============================================================================
