---------------------------- MODULE Organizations ----------------------------
(* Organizations of a node: who belongs to one and with which role, by a row of its own, by
   the domain of the signed-in address or by a linked AIN organization.  Every handler is
   synchronous, so one request is one step.  Sources: src/organization-store.ts,
   organization-routes.ts, server.ts (the seed).

   Abstractions.  Names, texts, the audit log and the agents of groups are left out; a
   write of the file does not fail, so a restart changes nothing.  What a sign-in vouches
   for (address, AIN organizations) is external and may change between two requests.    *)
EXTENDS Naturals, FiniteSets
CONSTANTS
    Org, Person, Domain, SsoId,
    GivenRoles,         \* the roles requests name, of 0 (read), 1 (contributor), 2 (write), 3 (admin)
    MemberLimit,        \* limits.members
    PerCreator,         \* limits.perCreator
    MaxOrganizations    \* bound: requests that change something
read == 0
write == 2
admin == 3
NoDomain == "none"
Nobody == "nobody"
ASSUME OrganizationsAssumption == GivenRoles \subseteq 0..3 /\ MemberLimit \in Nat \ {0}
                                  /\ PerCreator \in Nat /\ MaxOrganizations \in Nat /\ NoDomain \notin Domain
                                  /\ Nobody \notin Person
VARIABLES
    oorg,       \* the organizations: [on, by, domains, domainRole, sso, members, requests, invites, groups]
    oclaim,     \* what each person's sign-in vouches for: [domain, sso]
    ogiven,     \* history: <<organization, person>> let in by hand and not removed since
    obusy
ovars == <<oorg, oclaim, ogiven, obusy>>
Nowhere == [on |-> FALSE, by |-> Nobody, domains |-> {}, domainRole |-> write, sso |-> {},
            members |-> {}, requests |-> {}, invites |-> {}, groups |-> {}]
Held == {o \in Org : oorg[o].on}
RowsOf(org, p) == {m \in org.members : m.who = p}
----------------------------------------------------------------------------
byDomain(org, p) == oclaim[p].domain \in org.domains
bySso(org, p) == oclaim[p].sso \cap org.sso # {}
(* membership: a row wins; one written down for a domain or AIN organization lasts while
   that claim does.  The role, or none.                                                  *)
(* Mutant: a row is a row. *)
AnyRow(org, p) == RowsOf(org, p)
Explicit(org, p) == {m \in RowsOf(org, p) : m.via \in {"domain", "sso"} => byDomain(org, p) \/ bySso(org, p)}
membership(org, p) ==
    IF Explicit(org, p) # {} THEN {m.role : m \in Explicit(org, p)}
    ELSE {r \in {org.domainRole} : byDomain(org, p) \/ bySso(org, p)}
adminCount(org) == Cardinality({m \in org.members : m.role = admin})

(* setMember: refused when the organization is full or loses its last admin row. *)
CanSet(org, p, role) ==
    /\ RowsOf(org, p) = {} => Cardinality(org.members) < MemberLimit
    /\ (\E m \in RowsOf(org, p) : m.role = admin) /\ role # admin => adminCount(org) > 1
setMember(org, p, role, via) ==
    LET prior == RowsOf(org, p) IN
    [org EXCEPT !.members = (@ \ prior) \cup {[who |-> p, role |-> role, via |->
                                IF prior = {} THEN via ELSE (CHOOSE m \in prior : TRUE).via]},
                !.requests = @ \ {p}]
(* removeMember: out of the members and of every resource group. *)
removeMember(org, p) ==
    [org EXCEPT !.members = @ \ RowsOf(org, p), !.groups = {[g EXCEPT !.members = @ \ {p}] : g \in @}]
MayRemove(org, p) == RowsOf(org, p) # {} /\ ((\E m \in RowsOf(org, p) : m.role = admin) => adminCount(org) > 1)

(* access: a member by domain or AIN organization who shows up is written down first. *)
Visited(o, p) ==
    LET org == oorg[o] IN
    IF Explicit(org, p) # {} THEN org
    ELSE setMember(org, p, org.domainRole, IF byDomain(org, p) THEN "domain" ELSE "sso")
access(o, p, min) ==
    /\ o \in Held
    /\ \E r \in membership(oorg[o], p) : r >= min
    /\ Explicit(oorg[o], p) = {} => CanSet(oorg[o], p, oorg[o].domainRole)

OBusy == obusy < MaxOrganizations /\ obusy' = obusy + 1
Becomes(o, org) == oorg' = [oorg EXCEPT ![o] = org]
LetIn(o, p) == ogiven' = ogiven \cup {<<o, p>>}
----------------------------------------------------------------------------
NoClaims == [domain |-> NoDomain, sso |-> {}]
OrganizationsInit ==
    /\ oorg = [o \in Org |-> Nowhere] /\ oclaim = [p \in Person |-> NoClaims] /\ ogiven = {} /\ obusy = 0

SignsIn ==      \* external: another address, or a change at AIN SSO
    /\ \E p \in Person, d \in Domain \cup {NoDomain}, s \in SUBSET SsoId :
           /\ Cardinality(s) <= 1 /\ [domain |-> d, sso |-> s] # oclaim[p]
           /\ oclaim' = [oclaim EXCEPT ![p] = [domain |-> d, sso |-> s]]
    /\ OBusy /\ UNCHANGED <<oorg, ogiven>>

HolderOfDomain(d) == {o \in Held : d \in oorg[o].domains}
HolderOfSso(s) == {o \in Held : s \in oorg[o].sso}
\* checkDomains and checkSsoOrgs: one's own, and of no other organization.
checkDomains(ds, p, except) == \A d \in ds : d = oclaim[p].domain /\ HolderOfDomain(d) \subseteq except
checkSsoOrgs(ss, p, except) == \A s \in ss : s \in oclaim[p].sso /\ HolderOfSso(s) \subseteq except
(* The creator's one AIN organization comes along, unless it is linked elsewhere. *)
ComesAlong(p) == IF Cardinality(oclaim[p].sso) = 1 THEN {s \in oclaim[p].sso : HolderOfSso(s) = {}} ELSE {}
create(p, ds, role) ==
    [Nowhere EXCEPT !.on = TRUE, !.by = p, !.domains = ds, !.domainRole = role, !.sso = ComesAlong(p),
                    !.members = {[who |-> p, role |-> admin, via |-> "creator"]}]
update(org, ds, ss, role) == [org EXCEPT !.domains = ds, !.sso = ss, !.domainRole = role]
Create ==
    /\ \E o \in Org \ Held, p \in Person, ds \in SUBSET Domain, role \in GivenRoles :
           /\ Cardinality({x \in Held : oorg[x].by = p}) < PerCreator
           /\ checkDomains(ds, p, {})
           /\ Becomes(o, create(p, ds, role))
           /\ LetIn(o, p)
    /\ OBusy /\ UNCHANGED oclaim
Seed ==         \* at boot, on the operator's authority: free domains and no member
    /\ \E o \in Org \ Held, ds \in SUBSET Domain :
           /\ \A d \in ds : HolderOfDomain(d) = {}
           /\ Becomes(o, [Nowhere EXCEPT !.on = TRUE, !.domains = ds])
    /\ OBusy /\ UNCHANGED <<oclaim, ogiven>>
Update ==
    /\ \E o \in Org, p \in Person, ds \in SUBSET Domain, ss \in SUBSET SsoId, role \in GivenRoles :
           /\ access(o, p, admin)
           /\ checkDomains(ds \ oorg[o].domains, p, {o}) /\ checkSsoOrgs(ss \ oorg[o].sso, p, {o})
           /\ Becomes(o, update(Visited(o, p), ds, ss, role))
           /\ oorg' # oorg
    /\ OBusy /\ UNCHANGED <<oclaim, ogiven>>
Delete ==       \* the route refuses while agents are shared with it
    /\ \E o \in Org : /\ \E p \in Person : access(o, p, admin)
                      /\ Becomes(o, Nowhere) /\ ogiven' = {g \in ogiven : g[1] # o}
    /\ OBusy /\ UNCHANGED oclaim
Visit ==        \* any read by a member
    /\ \E o \in Org, p \in Person : access(o, p, read) /\ Becomes(o, Visited(o, p)) /\ oorg' # oorg
    /\ OBusy /\ UNCHANGED <<oclaim, ogiven>>
----------------------------------------------------------------------------
requestJoin(org, p) == [org EXCEPT !.requests = @ \cup {p}]
rejectRequest(org, q) == [org EXCEPT !.requests = @ \ {q}]
createInvite(org, role) ==      \* the used ones go
    [org EXCEPT !.invites = {i \in @ : i.used = Nobody} \cup {[role |-> role, used |-> Nobody]}]
revokeInvite(org, i) == [org EXCEPT !.invites = @ \ {i}]
spend(org, i, p) == [org EXCEPT !.invites = (@ \ {i}) \cup {[i EXCEPT !.used = p]}]
\* An existing member keeps the higher role.
RoleBy(org, i, p) == LET roles == {i.role} \cup {m.role : m \in RowsOf(org, p)}
                     IN CHOOSE r \in roles : \A x \in roles : r >= x
(* useInvite: the invite is used up before the member is set, also when the organization
   turns out to be full.                                                                 *)
useInvite(org, i, p) ==
    LET spent == spend(org, i, p) IN
    IF CanSet(spent, p, RoleBy(org, i, p)) THEN setMember(spent, p, RoleBy(org, i, p), "invite") ELSE spent
\* setGroup keeps of the people named those who are members when it is written.
setGroup(org, named) == [org EXCEPT !.groups = {[members |-> {q \in named : RowsOf(org, q) # {}}]}]
removeGroup(org) == [org EXCEPT !.groups = {}]

AddMember ==    \* by principal, by role, or by approving a request
    /\ \E o \in Org, p, q \in Person, role \in GivenRoles, via \in {"admin", "request", "role"} :
           /\ access(o, p, admin)
           /\ via = "request" => q \in Visited(o, p).requests
           /\ via = "role" => RowsOf(Visited(o, p), q) # {}
           /\ CanSet(Visited(o, p), q, role)
           /\ Becomes(o, setMember(Visited(o, p), q, role, via))
           /\ IF RowsOf(Visited(o, p), q) = {} THEN LetIn(o, q) ELSE UNCHANGED ogiven
    /\ OBusy /\ UNCHANGED oclaim
RemoveMember == \* oneself, or others as an admin
    /\ \E o \in Org, p, q \in Person :
           /\ access(o, p, IF p = q THEN read ELSE admin)
           /\ MayRemove(Visited(o, p), q)
           /\ Becomes(o, removeMember(Visited(o, p), q))
           /\ ogiven' = ogiven \ {<<o, q>>}
    /\ OBusy /\ UNCHANGED oclaim
RequestJoin ==
    /\ \E o \in Held, p \in Person :
           /\ membership(oorg[o], p) = {} /\ p \notin oorg[o].requests
           /\ Becomes(o, requestJoin(oorg[o], p))
    /\ OBusy /\ UNCHANGED <<oclaim, ogiven>>
RejectRequest ==
    /\ \E o \in Org, p \in Person : /\ access(o, p, admin)
                                    /\ \E q \in oorg[o].requests : Becomes(o, rejectRequest(Visited(o, p), q))
    /\ OBusy /\ UNCHANGED <<oclaim, ogiven>>
CreateInvite ==
    /\ \E o \in Org, p \in Person, role \in GivenRoles :
           /\ access(o, p, admin)
           /\ Becomes(o, createInvite(Visited(o, p), role))
    /\ OBusy /\ UNCHANGED <<oclaim, ogiven>>
RevokeInvite == \* also: its time is over
    /\ \E o \in Held : \E i \in oorg[o].invites : Becomes(o, revokeInvite(oorg[o], i))
    /\ OBusy /\ UNCHANGED <<oclaim, ogiven>>
UseInvite ==
    /\ \E o \in Held, p \in Person : \E i \in oorg[o].invites :
           /\ i.used = Nobody
           /\ Becomes(o, useInvite(oorg[o], i, p))
           /\ ogiven' = IF RowsOf(oorg[o], p) = {} /\ RowsOf(oorg'[o], p) # {} THEN ogiven \cup {<<o, p>>} ELSE ogiven
    /\ OBusy /\ UNCHANGED oclaim
SetGroup ==
    /\ \E o \in Org, p \in Person, named \in SUBSET Person :
           access(o, p, write) /\ Becomes(o, setGroup(Visited(o, p), named))
    /\ OBusy /\ UNCHANGED <<oclaim, ogiven>>
RemoveGroup ==
    /\ \E o \in Org, p \in Person : access(o, p, write) /\ oorg[o].groups # {} /\ Becomes(o, removeGroup(Visited(o, p)))
    /\ OBusy /\ UNCHANGED <<oclaim, ogiven>>

OrganizationsNext ==
    \/ SignsIn \/ Create \/ Seed \/ Update \/ Delete \/ Visit \/ AddMember \/ RemoveMember \/ RequestJoin
    \/ RejectRequest \/ CreateInvite \/ RevokeInvite \/ UseInvite \/ SetGroup \/ RemoveGroup
OrganizationsSpec == OrganizationsInit /\ [][OrganizationsNext]_ovars
----------------------------------------------------------------------------
\* Who is in has a claim of the moment or was let in by someone: a row written down when a
\* person of the domain came by lets nobody in once that claim is over, also after a role
\* change or an invite (membership, access).
OffboardedIsOut == \A o \in Held, p \in Person :
    membership(oorg[o], p) # {} => byDomain(oorg[o], p) \/ bySso(oorg[o], p) \/ <<o, p>> \in ogiven

=============================================================================
