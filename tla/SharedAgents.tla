----------------------------- MODULE SharedAgents -----------------------------
(* The registry of shared agents: who registers, changes, shares and removes linked and
   hosted agents, and the feed of those changes that products follow.  The feed is in
   memory and keeps the last events; a follower applies what is newer than it holds and
   lists anew when its cursor is too old.  Sources: src/shared-agents.ts,
   linked-agent-store.ts, linked-agent-routes.ts, hosted-agent-store.ts,
   hosted-agent-routes.ts.

   Abstractions.  What an agent is (address, prompt, files, model, card) is left out, and
   so are the limits per owner; roles in organizations do not change (Organizations).  A
   follower is external: it keeps, per agent, the newest version it was told.            *)
EXTENDS Naturals, Sequences, FiniteSets
CONSTANTS
    AgentId, People, Team,
    TeamRoles,          \* the assignments of roles tried: [Team \X People -> 0..4], 0 for none
    FeedMax,            \* SHARED_AGENT_EVENTS_MAX
    MaxShared           \* bound: changes, and restarts
contributor == 2
writer == 3
administrator == 4
NoTeam == "none"
ASSUME SharedAssumption == /\ \A r \in TeamRoles : r \in [Team \X People -> 0..4]
                           /\ FeedMax \in Nat \ {0} /\ MaxShared \in Nat /\ NoTeam \notin Team \cup People
VARIABLES
    srole,      \* the roles of this behaviour
    sspec,      \* the agents: [ver, kind, owner, vis, team], ver 0 for none
    swork,      \* requests that wait: for the card of an upstream, for the repository, for the host
    sfeed,      \* [boot, seq, events]: the events held, the last one numbered seq
    sfollow,    \* external, what each person's product holds: [boot, cursor, know]
    sodd,       \* history: ids created anew, moved between organizations, or changed while a change waited
    slast,      \* history: the newest change of each agent that concerned each person
    smisled,    \* history: followers whose old cursor the feed took for one of its own
    sbusy
svars == <<srole, sspec, swork, sfeed, sfollow, slast, sodd, smisled, sbusy>>
SBusy == sbusy < MaxShared /\ sbusy' = sbusy + 1
NoAgent == [ver |-> 0, kind |-> "linked", owner |-> NoTeam, vis |-> "private", team |-> NoTeam]
Sharings == {<<v, NoTeam>> : v \in {"public", "unlisted", "private"}} \cup {<<"org", t>> : t \in Team}
On(a) == sspec[a].ver # 0
----------------------------------------------------------------------------
orgRoleOf(p, t) == srole[t, p]
RoleFor(s, p) == IF s.vis = "org" THEN orgRoleOf(p, s.team) ELSE 0
canSeeAgent(s, p) == s.owner = p \/ s.vis \in {"public", "unlisted"} \/ RoleFor(s, p) > 0
canManageAgent(s, p) == s.owner = p \/ RoleFor(s, p) >= writer
canAdministerAgent(s, p) == s.owner = p \/ RoleFor(s, p) >= administrator
canShareInto(p, sh) == sh[1] = "org" => orgRoleOf(p, sh[2]) >= contributor
listsAgentFor(s, p) == s.owner = p \/ s.vis = "public" \/ RoleFor(s, p) > 0

Rank(vis) == CASE vis = "public" -> 3 [] vis = "org" -> 2 [] vis = "unlisted" -> 1 [] vis = "private" -> 0
(* For an update, whoever saw the agent before learns what became of it. *)
(* Mutant: the audience is who sees it afterwards. *)
AudienceAfter(before, after) == after
widerAudience(before, after) == IF Rank(before.vis) >= Rank(after.vis) THEN before ELSE after
Event(a, ver, aud) == [a |-> a, ver |-> ver, aud |-> aud]
\* append: what no longer fits falls out at the other end.
append(feed, e) ==
    [feed EXCEPT !.seq = @ + 1,
                 !.events = IF Len(@) = FeedMax THEN Append(Tail(@), e) ELSE Append(@, e)]
dropped == sfeed.seq - Len(sfeed.events)
visibleTo(e, p) == listsAgentFor(e.aud, p)
----------------------------------------------------------------------------
SharedInit ==
    /\ srole \in TeamRoles
    /\ sspec = [a \in AgentId |-> NoAgent] /\ swork = {}
    /\ sfeed = [boot |-> 0, seq |-> 0, events |-> << >>]
    /\ sfollow = [p \in People |-> [boot |-> 0, cursor |-> 0, know |-> [a \in AgentId |-> 0]]]
    /\ slast = [p \in People |-> [a \in AgentId |-> 0]] /\ sodd = {} /\ smisled = {} /\ sbusy = 0

Shared(s, sh) == [s EXCEPT !.ver = @ + 1, !.vis = sh[1], !.team = sh[2]]
New(kind, p, sh) == [ver |-> 1, kind |-> kind, owner |-> p, vis |-> sh[1], team |-> sh[2]]
Put(a, s) ==
    /\ sspec' = [sspec EXCEPT ![a] = s]
    /\ slast' = [p \in People |-> IF listsAgentFor(sspec[a], p) \/ listsAgentFor(s, p)
                                  THEN [slast[p] EXCEPT ![a] = IF s.ver = 0 THEN sspec[a].ver + 1 ELSE s.ver]
                                  ELSE slast[p]]
\* What makes the order or the audience of an agent's events odd.
Waits(a) == \E w \in swork : w.a = a /\ w.op = "tell"
Odd(a, cond) == sodd' = IF cond \/ Waits(a) THEN sodd \cup {a} ELSE sodd
TeamMoved(s, sh) == s.vis = "org" /\ sh[1] = "org" /\ s.team # sh[2]
Known(a) == \E p \in People : sfollow[p].know[a] # 0
WasThere(a) == Known(a) \/ (\E i \in DOMAIN sfeed.events : sfeed.events[i].a = a) 

(* POST and PUT /api/linked-agents: checked, then the upstream is asked for its card. *)
LinkAsks ==
    /\ \E a \in AgentId, p \in People, sh \in Sharings :
           /\ canShareInto(p, sh)
           /\ \/ ~On(a) /\ swork' = swork \cup {[op |-> "create", a |-> a, p |-> p, sh |-> sh, prior |-> NoAgent]}
              \/ /\ On(a) /\ sspec[a].kind = "linked" /\ sspec[a].owner = p
                 /\ swork' = swork \cup {[op |-> "update", a |-> a, p |-> p, sh |-> sh, prior |-> sspec[a]]}
    /\ SBusy /\ UNCHANGED <<srole, sspec, slast, sfeed, sfollow, sodd, smisled>>
LinkCreated ==
    /\ \E w \in swork :
           /\ w.op = "create" /\ swork' = swork \ {w}
           /\ IF On(w.a) THEN UNCHANGED <<sspec, slast, sfeed, sodd>>     \* taken meanwhile: 409
              ELSE /\ Put(w.a, New("linked", w.p, w.sh))
                   /\ sfeed' = append(sfeed, Event(w.a, 1, sspec'[w.a]))
                   /\ Odd(w.a, WasThere(w.a))
    /\ UNCHANGED <<srole, sfollow, smisled, sbusy>>
(* The update is written over whatever the agent is by now; its event compares with what
   the agent was when the request came.                                                  *)
LinkUpdated ==
    /\ \E w \in swork :
           /\ w.op = "update" /\ swork' = swork \ {w}
           /\ IF ~On(w.a) \/ sspec[w.a].kind # "linked" THEN UNCHANGED <<sspec, slast, sfeed, sodd>>
              ELSE /\ Put(w.a, Shared(sspec[w.a], w.sh))
                   /\ sfeed' = append(sfeed, Event(w.a, sspec'[w.a].ver, widerAudience(w.prior, sspec'[w.a])))
                   /\ Odd(w.a, TeamMoved(w.prior, w.sh) \/ sspec[w.a] # w.prior)
    /\ UNCHANGED <<srole, sfollow, smisled, sbusy>>
----------------------------------------------------------------------------
(* POST and PUT /api/hosted-agents: stored and live at once, told when the repository has
   the commit.                                                                           *)
Tell(e) == [op |-> "tell", a |-> e.a, e |-> e]
HostCreates ==
    /\ \E a \in AgentId, p \in People, sh \in Sharings :
           /\ canShareInto(p, sh) /\ ~On(a)
           /\ Put(a, New("hosted", p, sh))
           /\ swork' = swork \cup {Tell(Event(a, 1, sspec'[a]))}
           /\ Odd(a, WasThere(a))
    /\ SBusy /\ UNCHANGED <<srole, sfeed, sfollow, smisled>>
HostUpdates ==
    /\ \E a \in AgentId, p \in People, sh \in Sharings :
         LET s == sspec[a] IN
         /\ On(a) /\ s.kind = "hosted" /\ canManageAgent(s, p) /\ canShareInto(p, sh)
         /\ sh # <<s.vis, s.team>> => canAdministerAgent(s, p)
         /\ Put(a, Shared(s, sh))
         /\ swork' = swork \cup {Tell(Event(a, s.ver + 1, widerAudience(s, sspec'[a])))}
         /\ Odd(a, TeamMoved(s, sh))
    /\ SBusy /\ UNCHANGED <<srole, sfeed, sfollow, smisled>>
HostRemoves ==      \* told when the containers are gone
    /\ \E a \in AgentId, p \in People :
           /\ On(a) /\ sspec[a].kind = "hosted" /\ canAdministerAgent(sspec[a], p)
           /\ Put(a, NoAgent)
           /\ swork' = swork \cup {Tell(Event(a, sspec[a].ver + 1, sspec[a]))}
           /\ Odd(a, FALSE)
    /\ SBusy /\ UNCHANGED <<srole, sfeed, sfollow, smisled>>
Told ==
    /\ \E w \in swork : w.op = "tell" /\ swork' = swork \ {w} /\ sfeed' = append(sfeed, w.e)
    /\ UNCHANGED <<srole, sspec, slast, sfollow, sodd, smisled, sbusy>>
LinkRemoved ==
    /\ \E a \in AgentId, p \in People :
           /\ On(a) /\ sspec[a].kind = "linked" /\ canAdministerAgent(sspec[a], p)
           /\ Put(a, NoAgent)
           /\ sfeed' = append(sfeed, Event(a, sspec[a].ver + 1, sspec[a]))
    /\ SBusy /\ UNCHANGED <<srole, swork, sfollow, sodd, smisled>>
(* PUT /api/shared-agents/:id/visibility: the owner, an admin of its organization, or the
   operator of the node, who may share with any organization.                            *)
SetSharing ==
    /\ \E a \in AgentId, sh \in Sharings, operator \in BOOLEAN :
         LET s == sspec[a] IN
         /\ On(a)
         /\ operator \/ \E p \in People : canAdministerAgent(s, p) /\ canShareInto(p, sh)
         /\ Put(a, Shared(s, sh))
         /\ sfeed' = append(sfeed, Event(a, s.ver + 1, widerAudience(s, sspec'[a])))
         /\ Odd(a, TeamMoved(s, sh))
    /\ SBusy /\ UNCHANGED <<srole, swork, sfollow, smisled>>
----------------------------------------------------------------------------
Newest(know, es, p) ==
    [a \in AgentId |-> LET vs == {know[a]} \cup {es[i].ver : i \in {j \in DOMAIN es : es[j].a = a /\ visibleTo(es[j], p)}}
                       IN CHOOSE v \in vs : \A x \in vs : v >= x]
Listed(p) == [a \in AgentId |-> IF On(a) /\ listsAgentFor(sspec[a], p) THEN sspec[a].ver ELSE 0]
Gap(after) == after > sfeed.seq \/ after < dropped
Poll ==
    /\ \E p \in People :
         LET f == sfollow[p]
             new == SubSeq(sfeed.events, f.cursor - dropped + 1, Len(sfeed.events))
         IN
         /\ f # [f EXCEPT !.boot = sfeed.boot, !.cursor = sfeed.seq]
         /\ sfollow' = [sfollow EXCEPT ![p] = [boot |-> sfeed.boot, cursor |-> sfeed.seq, know |->
                IF f.cursor = 0 \/ Gap(f.cursor) THEN Listed(p) ELSE Newest(f.know, new, p)]]
         /\ smisled' = IF f.boot # sfeed.boot /\ f.cursor > 0 /\ ~Gap(f.cursor) THEN smisled \cup {p} ELSE smisled
    /\ UNCHANGED <<srole, sspec, slast, swork, sfeed, sodd, sbusy>>
SharedRestart ==    \* the agents are in files, the feed is not
    /\ sfeed' = [boot |-> sfeed.boot + 1, seq |-> 0, events |-> << >>]
    /\ swork' = {} /\ SBusy
    /\ sodd' = sodd \cup {w.a : w \in swork}
    /\ UNCHANGED <<srole, sspec, slast, sfollow, smisled>>

SharedNext ==
    \/ LinkAsks \/ LinkCreated \/ LinkUpdated \/ HostCreates \/ HostUpdates \/ HostRemoves \/ Told
    \/ LinkRemoved \/ SetSharing \/ Poll \/ SharedRestart
SharedSpec == SharedInit /\ [][SharedNext]_svars
----------------------------------------------------------------------------
UpToDate(p) == sfollow[p].boot = sfeed.boot /\ sfollow[p].cursor = sfeed.seq /\ sfollow[p].cursor > 0
\* A follower that has read the feed to its end, without a gap or after listing anew, was told
\* the newest change of every agent that it may list, or knew of and may list no longer
\* (append, widerAudience, visibleTo, page).  Exempt: ids created anew, moves from one
\* organization to another (the audience is the first one's), changes made while another
\* waited to be told or written, and followers whose cursor of before a restart the feed took
\* for one of its own.
FollowersAreTold == \A p \in People \ smisled, a \in AgentId \ sodd :
    UpToDate(p) /\ ~(\E w \in swork : w.a = a) /\ (listsAgentFor(sspec[a], p) \/ sfollow[p].know[a] # 0)
        => sfollow[p].know[a] >= slast[p][a]

=============================================================================
