------------------------------ MODULE Accounts ------------------------------
(* AIN SSO accounts on a node: the link from an account to the principal it acts as, what
   the provisioning adapter applies to it, the sessions it holds and the API keys made in
   them.  Links, memberships and sessions are rows of one SQLite database; keys are a file
   of their own, which no rollback of the database undoes.  Sources: src/sso.ts,
   sso-routes.ts, openai-api-keys.ts, openai-api-keys-routes.ts, run-actor.ts, store.ts.

   Abstractions.  Tokens and their verification are external: what arrives is genuine, in
   any order and any number of times.  Keys alike in owner, organization, maker and state
   are one key.  A session may ask for a key of any organization its token could name.   *)
EXTENDS Naturals, Sequences, FiniteSets
CONSTANTS
    Acc, SsoOrg,        \* AIN accounts and AIN organizations
    Legacy,             \* principals of before SSO (`google:<sub>`)
    Scripts,            \* what AIN SSO decides: for each <<account, organization>>, the
                        \* states [status, legacy] in the order of their versions
    MaxAccounts         \* bound: sign-ins, keys, failures and restarts
NoPrincipal == "none"
Personal == "personal"
ASSUME AccountsAssumption ==
    /\ Acc \cap Legacy = {} /\ NoPrincipal \notin Acc \cup Legacy /\ Personal \notin SsoOrg
    /\ \A s \in Scripts : \A p \in Acc \X SsoOrg : s[p] \in Seq([status : {"active", "suspended", "deprovisioned"},
                                                                 legacy : Legacy \cup {NoPrincipal, "wallet"}])
    /\ MaxAccounts \in Nat
VARIABLES
    ascript,    \* the script of this behaviour
    aident,     \* sso_identities: the principal of each account, and what proved the link
    amember,    \* sso_memberships: applied version and status per <<account, organization>>
    asess,      \* sessions made through AIN SSO: <<account, principal>>
    akeys,      \* the keys in memory: [owner, org, via, on]
    afile,      \* the keys in the file
    abusy
avars == <<ascript, aident, amember, asess, akeys, afile, abusy>>
ABusy == abusy < MaxAccounts /\ abusy' = abusy + 1
ssoPrincipal(a) == a            \* `sso:<sub>`: an account names its own principal
Known(a) == aident[a].principal # NoPrincipal
HolderOf(p) == {a \in Acc : aident[a].principal = p}
KeysOf(p) == {k \in akeys : k.owner = p}
----------------------------------------------------------------------------
(* isBlocked: suspended somewhere and active nowhere; offboarding is not a block. *)
isBlocked(a) == /\ \E o \in SsoOrg : amember[a, o].status = "suspended"
                /\ ~\E o \in SsoOrg : amember[a, o].status = "active"
orgKeyUsable(p, o) == \A a \in HolderOf(p) : amember[a, o].status \in {"none", "active"}
PrincipalBlocked(p) == \E a \in HolderOf(p) : isBlocked(a)
\* recordForKey: a key that is switched on, and whose organization access holds when it is used.
recordForKey(k) == k.on /\ (k.org # Personal => orgKeyUsable(k.owner, k.org))
HoldsNothing(a) == aident[a].principal = ssoPrincipal(a) /\ KeysOf(aident[a].principal) = {}

AccountsInit ==
    /\ ascript \in Scripts
    /\ aident = [a \in Acc |-> [principal |-> NoPrincipal, proof |-> "none"]]
    /\ amember = [p \in Acc \X SsoOrg |-> [version |-> 0, status |-> "none"]]
    /\ asess = {} /\ akeys = {} /\ afile = {} /\ abusy = 0

Sessions(a) == {s \in asess : s[1] = a}
(* A link that is moved ends the sessions that speak for the old principal. *)
(* Mutant: they go on. *)
SessionsGoOn(a) == asess
SessionsEnded(a) == asess \ Sessions(a)

(* signIn: one transaction.  The account is created, linked to the legacy principal the
   person proved, or asked whether there is one (needs_link: nothing changes).          *)
SignIn(a, link, allowConnect) ==
    /\ ~(Known(a) /\ isBlocked(a))
    /\ \/ /\ ~Known(a) /\ link # NoPrincipal /\ HolderOf(link) = {}
          /\ aident' = [aident EXCEPT ![a] = [principal |-> link, proof |-> "app_proof"]]
          /\ asess' = asess \cup {<<a, link>>}
       \/ /\ ~Known(a) /\ link = NoPrincipal /\ ~allowConnect
          /\ aident' = [aident EXCEPT ![a] = [principal |-> ssoPrincipal(a), proof |-> "sso_login"]]
          /\ asess' = asess \cup {<<a, ssoPrincipal(a)>>}
       \/ /\ Known(a) /\ link # NoPrincipal /\ aident[a].principal # link
          /\ HoldsNothing(a) /\ HolderOf(link) = {}
          /\ aident' = [aident EXCEPT ![a] = [principal |-> link, proof |-> "app_proof"]]
          /\ asess' = SessionsEnded(a) \cup {<<a, link>>}
       \/ /\ Known(a) /\ link \in {NoPrincipal, aident[a].principal}
          /\ ~(link = NoPrincipal /\ allowConnect /\ HoldsNothing(a))
          /\ asess' = asess \cup {<<a, aident[a].principal>>} /\ UNCHANGED aident
    /\ ABusy
    /\ UNCHANGED <<ascript, amember, akeys, afile>>
SessionEnds ==      \* a logout of one OIDC session, or its time is over
    /\ \E s \in asess : asess' = asess \ {s}
    /\ UNCHANGED <<ascript, aident, amember, akeys, afile, abusy>>
LogoutAll ==
    /\ \E a \in Acc : Sessions(a) # {} /\ asess' = asess \ Sessions(a)
    /\ UNCHANGED <<ascript, aident, amember, akeys, afile, abusy>>
----------------------------------------------------------------------------
(* The key store.  issue, ensure and a person's own revocation change memory and then
   write the file, which may fail; what AIN SSO causes is written first.               *)
Persists == \/ afile' = akeys'
            \/ afile' = afile           \* the disk refuses: an error to the caller
Issue(owner, org, via) == akeys' = akeys \cup {[owner |-> owner, org |-> org, via |-> via, on |-> TRUE]} /\ Persists
IssueKey ==         \* POST /api/keys in an SSO session
    /\ \E s \in asess, o \in SsoOrg \cup {Personal} :
           /\ ~isBlocked(s[1]) /\ (o # Personal => orgKeyUsable(s[2], o))
           /\ Issue(s[2], o, s[1])
    /\ ABusy /\ UNCHANGED <<ascript, aident, amember, asess>>
IssueVouched ==     \* POST /api/keys by a Google account the site vouches for
    /\ \E p \in Legacy : ~PrincipalBlocked(p) /\ Issue(p, Personal, NoPrincipal)
    /\ ABusy /\ UNCHANGED <<ascript, aident, amember, asess>>
(* resolveActor and keyFor: a run for a person creates the account as a first sign-in
   would, and makes its one personal run key.                                            *)
RunKey ==
    /\ \E a \in Acc :
         LET p == IF Known(a) THEN aident[a].principal ELSE ssoPrincipal(a) IN
         /\ ~(Known(a) /\ isBlocked(a))
         /\ aident' = IF Known(a) THEN aident ELSE [aident EXCEPT ![a] = [principal |-> p, proof |-> "sso_login"]]
         /\ Issue(p, Personal, a)
    /\ ABusy /\ UNCHANGED <<ascript, amember, asess>>
RevokeKey ==        \* DELETE /api/keys/:prefix
    /\ \E k \in akeys : /\ (\E s \in asess : s[2] = k.owner /\ ~isBlocked(s[1])) \/ (k.owner \in Legacy /\ ~PrincipalBlocked(k.owner))
                        /\ akeys' = akeys \ {k} /\ Persists
    /\ ABusy /\ UNCHANGED <<ascript, aident, amember, asess>>

setOrgKeys(keys, p, o, status) ==
    LET mine == {k \in keys : k.owner = p /\ k.org = o} IN
    CASE status = "active"        -> (keys \ mine) \cup {[k EXCEPT !.on = TRUE] : k \in mine}
      [] status = "suspended"     -> (keys \ mine) \cup {[k EXCEPT !.on = FALSE] : k \in mine}
      [] status = "deprovisioned" -> keys \ mine
(* What an account obtained on a principal that stops being its own. *)
ObtainedThrough(p, a) == {k \in akeys : k.owner = p /\ (k.org # Personal \/ k.via = a)}
----------------------------------------------------------------------------
(* resolveForState: a mapping that now names something else is rolled back, a new one
   links an account that holds nothing; what cannot be linked is left unapplied.        *)
RollBack(a, legacy) == Known(a) /\ aident[a].proof = "legacy_mapping" /\ aident[a].principal # legacy
LinkNew(a, legacy) ==
    /\ Known(a) /\ legacy \in Legacy /\ HolderOf(legacy) = {}
    /\ LET after == IF RollBack(a, legacy) THEN ssoPrincipal(a) ELSE aident[a].principal
       IN /\ aident[a].proof # "app_proof"
          /\ after = ssoPrincipal(a) /\ KeysOf(after) = {}
Linked(a, legacy) ==
    IF ~Known(a) THEN IF legacy \in Legacy THEN [principal |-> legacy, proof |-> "legacy_mapping"]
                                           ELSE [principal |-> ssoPrincipal(a), proof |-> "provisioning"]
    ELSE IF LinkNew(a, legacy) THEN [principal |-> legacy, proof |-> "legacy_mapping"]
    ELSE IF RollBack(a, legacy) THEN [principal |-> ssoPrincipal(a), proof |-> "provisioning"]
    ELSE aident[a]
Refused(a, legacy) == ~Known(a) /\ (legacy = "wallet" \/ (legacy \in Legacy /\ HolderOf(legacy) # {}))
KeysRolledBack(a, legacy) == IF RollBack(a, legacy) THEN akeys \ ObtainedThrough(aident[a].principal, a) ELSE akeys

(* apply: a newer state only.  The keys are written before the database commits; when the
   rest fails, or the node stops, the database keeps the state before and AIN SSO asks again. *)
Apply(a, o, v) ==
    LET state == ascript[a, o][v]
        keys == KeysRolledBack(a, state.legacy)
        all == setOrgKeys(keys, Linked(a, state.legacy).principal, o, state.status)
    IN
    /\ v > amember[a, o].version /\ ~Refused(a, state.legacy)
    /\ \/ /\ aident' = [aident EXCEPT ![a] = Linked(a, state.legacy)]
          /\ amember' = [amember EXCEPT ![<<a, o>>] = [version |-> v, status |-> state.status]]
          /\ asess' = IF state.status # "active" THEN asess \ Sessions(a)
                      ELSE IF RollBack(a, state.legacy) \/ LinkNew(a, state.legacy) THEN SessionsEnded(a) ELSE asess
          /\ akeys' = all /\ UNCHANGED abusy
       \/ akeys' \in {keys, all} /\ akeys' # akeys /\ ABusy /\ UNCHANGED <<aident, amember, asess>>
    /\ afile' = IF akeys' # akeys THEN akeys' ELSE afile
    /\ UNCHANGED <<ascript>>
AccountsRestart ==
    /\ akeys # afile /\ akeys' = afile /\ ABusy
    /\ UNCHANGED <<ascript, aident, amember, asess, afile>>

ASignIn == \E a \in Acc, link \in Legacy \cup {NoPrincipal}, c \in BOOLEAN : SignIn(a, link, c)
AApply == \E a \in Acc, o \in SsoOrg : \E v \in 1..Len(ascript[a, o]) : Apply(a, o, v)
AccountsNext ==
    \/ ASignIn \/ SessionEnds \/ LogoutAll \/ IssueKey \/ IssueVouched \/ RunKey \/ RevokeKey \/ AApply \/ AccountsRestart
AccountsSpec == AccountsInit /\ [][AccountsNext]_avars
----------------------------------------------------------------------------
\* A session acts as the principal its account is linked to now, and a suspended account
\* has none (signIn, apply, relinkSsoIdentity).
SessionsFollow == \A s \in asess : s[2] = aident[s[1]].principal /\ ~isBlocked(s[1])

=============================================================================
