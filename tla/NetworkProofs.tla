--------------------------- MODULE NetworkProofs ---------------------------
(* Machine-checked theorems about who is in and what answers: Accounts,        *)
(* Organizations, NodeAccess, ModelNetwork and LiveTests, for all people,      *)
(* accounts, keys, nodes and backends, in any number of requests.              *)
EXTENDS Accounts, Organizations, NodeAccess, ModelNetwork, LiveTests, FiniteSetTheorems,
        SequenceTheorems, TLAPS

-----------------------------------------------------------------------------
(* Keys that speak for a person (NodeAccess) *)

\* A key that speaks for a person has that person's leave.
BindingsHaveLeave ==
  /\ DOMAIN bindings = Delegate
  /\ \A k \in Delegate : bindings[k] # NoWallet => <<bindings[k], k>> \in leave

\* A session that is opened: for a bound key, by leave of the person it speaks for.
LEMMA OpenedByLeave ==
  ASSUME BindingsHaveLeave, NEW a, viaOf(a) # NoWallet
  PROVE  <<subjectOf(a), viaOf(a)>> \in leave
BY DEF BindingsHaveLeave, subjectOf, viaOf

LEMMA LeaveNext ==
  ASSUME BindingsHaveLeave, EndedKeyIsOut, [AccessNext]_accessVars
  PROVE  BindingsHaveLeave' /\ EndedKeyIsOut'
<1>1. CASE SignInWallet
  <2>1. UNCHANGED <<bindings, leave>>
    BY <1>1 DEF SignInWallet
  <2>2. PICK a : sessions' = sessions \cup {Session(subjectOf(a), viaOf(a), "signature")}
    BY <1>1 DEF SignInWallet, putSession
  <2> QED
    BY <2>1, <2>2, OpenedByLeave DEF BindingsHaveLeave, EndedKeyIsOut, Session
<1>2. CASE Enroll
  BY <1>2 DEF Enroll, putSession, Session, BindingsHaveLeave, EndedKeyIsOut
<1>3. CASE ClaimSession
  BY <1>3 DEF ClaimSession, putSession, Session, BindingsHaveLeave, EndedKeyIsOut
<1>4. CASE Approve
  BY <1>4 DEF Approve, putBinding, BindingsHaveLeave, EndedKeyIsOut
<1>5. CASE EndBinding
  <2>1. PICK k \in Delegate : /\ bindings' = [bindings EXCEPT ![k] = NoWallet]
                              /\ sessions' = {s \in sessions : s.via # k}
                              /\ leave' = leave \ {<<bindings[k], k>>}
    BY <1>5 DEF EndBinding, putBinding, sessionsVia
  <2> QED
    BY <2>1 DEF BindingsHaveLeave, EndedKeyIsOut
<1>6. CASE RemoveOwner
  BY <1>6 DEF RemoveOwner, BindingsHaveLeave, EndedKeyIsOut
<1>7. CASE TokenEnds
  BY <1>7 DEF TokenEnds, BindingsHaveLeave, EndedKeyIsOut
<1>8. ASSUME UNCHANGED <<sessions, bindings, leave>> PROVE BindingsHaveLeave' /\ EndedKeyIsOut'
  BY <1>8 DEF BindingsHaveLeave, EndedKeyIsOut
<1>9. CASE \/ WaitIsOver \/ Challenge \/ ChallengeExpires \/ SignInFails \/ AddOwner
           \/ RequestDevice \/ GrantAges \/ ClaimLink \/ RemoveLink \/ UNCHANGED accessVars
  <2>1. UNCHANGED <<sessions, bindings, leave>>
    BY <1>9 DEF WaitIsOver, Challenge, ChallengeExpires, SignInFails, AddOwner, RequestDevice,
                GrantAges, ClaimLink, RemoveLink, accessVars
  <2> QED
    BY <1>8, <2>1
<1> QED
  BY <1>1, <1>2, <1>3, <1>4, <1>5, <1>6, <1>7, <1>9 DEF AccessNext

(* A session that a bound key signed in with ends when the person ends the key: while it
   lives, that person has approved the key and not ended it since (DELETE
   /api/auth/bindings/:delegate, api.ts 667-673).  Whoever a key was bound to in between,
   its binding is somebody's leave.                                                      *)
THEOREM EndedKeyStaysOut == AccessSpec => []EndedKeyIsOut
<1>1. AccessInit => BindingsHaveLeave /\ EndedKeyIsOut
  BY DEF AccessInit, BindingsHaveLeave, EndedKeyIsOut
<1> QED
  BY <1>1, LeaveNext, PTL DEF AccessSpec

-----------------------------------------------------------------------------
(* Sessions of accounts (Accounts) *)

Principals == Acc \cup Legacy \cup {NoPrincipal}
Link == [principal : Principals, proof : {"none", "app_proof", "sso_login", "legacy_mapping", "provisioning"}]
Membership == [version : Nat, status : {"none", "active", "suspended", "deprovisioned"}]

AccountsTyped ==
  /\ ascript \in Scripts
  /\ aident \in [Acc -> Link]
  /\ amember \in [Acc \X SsoOrg -> Membership]
  /\ asess \subseteq Acc \X Principals

\* What AIN SSO said of an account was applied to one this node knows, and a session is one
\* of an account it knows.
Named == \A s \in asess : s[2] # NoPrincipal
AppliedToKnown == Named /\ \A a \in Acc, o \in SsoOrg : ~Known(a) => amember[a, o].status = "none"

\* An account this node does not know has no session and is not blocked.
LEMMA UnknownHoldsNothing ==
  ASSUME AccountsTyped, AppliedToKnown, SessionsFollow, NEW a \in Acc, ~Known(a)
  PROVE  ~isBlocked(a) /\ \A s \in asess : s[1] # a
BY DEF AppliedToKnown, Named, SessionsFollow, Known, isBlocked

\* A link of an account that changes, with the sessions of the account ended or none.
LEMMA LinkMoves ==
  ASSUME AccountsTyped, AppliedToKnown, SessionsFollow,
         NEW a \in Acc, NEW link \in Link, link.principal # NoPrincipal,
         aident' = [aident EXCEPT ![a] = link], amember' = amember, ascript' = ascript,
         NEW kept \in SUBSET asess, \A s \in kept : s[1] # a,
         NEW made \in SUBSET {<<a, link.principal>>}, asess' = kept \cup made,
         ~isBlocked(a)
  PROVE  AccountsTyped' /\ AppliedToKnown' /\ SessionsFollow'
<1>1. aident' \in [Acc -> Link] /\ aident'[a] = link /\ \A b \in Acc : b # a => aident'[b] = aident[b]
  BY DEF AccountsTyped
<1>2. link.principal \in Principals
  BY DEF Link
<1>3. AccountsTyped'
  BY <1>1, <1>2 DEF AccountsTyped
<1>4. \A s \in asess' : s \in Acc \X Principals /\ (s \in kept \/ s = <<a, link.principal>>)
  BY <1>3 DEF AccountsTyped
<1>5. AppliedToKnown'
  <2>1. \A b \in Acc, o \in SsoOrg : ~Known(b)' => amember'[b, o].status = "none"
    BY <1>1 DEF AppliedToKnown, Known
  <2>2. Named
    BY DEF AppliedToKnown
  <2>3. Named'
    BY <1>4, <2>2 DEF Named
  <2> QED
    BY <2>1, <2>3 DEF AppliedToKnown
<1>6. \A b \in Acc : isBlocked(b)' = isBlocked(b)
  BY DEF isBlocked
<1>7. SessionsFollow'
  BY <1>1, <1>4, <1>6 DEF SessionsFollow, AccountsTyped
<1> QED
  BY <1>3, <1>5, <1>7

LEMMA SessionsSignIn ==
  ASSUME AccountsTyped, AppliedToKnown, SessionsFollow, NEW a \in Acc, NEW link \in Legacy \cup {NoPrincipal},
         NEW c \in BOOLEAN, SignIn(a, link, c)
  PROVE  AccountsTyped' /\ AppliedToKnown' /\ SessionsFollow'
<1>1. NoPrincipal \notin Acc \cup Legacy
  BY AccountsAssumption DEF AccountsAssumption
<1>2. UNCHANGED <<ascript, amember>> /\ (Known(a) => ~isBlocked(a))
  BY DEF SignIn
<1>3. ~isBlocked(a)
  BY <1>2, UnknownHoldsNothing
<1>4. CASE UNCHANGED aident /\ Known(a) /\ asess' = asess \cup {<<a, aident[a].principal>>}
  <2>1. aident[a].principal \in Principals /\ aident[a].principal # NoPrincipal
    BY <1>4 DEF AccountsTyped, Link, Known
  <2>2. \A s \in asess' : s \in asess \/ s = <<a, aident[a].principal>>
    BY <1>4
  <2>3. AccountsTyped'
    BY <1>2, <1>4, <2>1 DEF AccountsTyped
  <2>4. AppliedToKnown'
    <3>1. Named
      BY DEF AppliedToKnown
    <3>2. Named'
      BY <2>1, <2>2, <3>1 DEF Named
    <3> QED
      BY <1>2, <1>4, <3>2 DEF AppliedToKnown, Known
  <2>5. \A b \in Acc : isBlocked(b)' = isBlocked(b)
    BY <1>2 DEF isBlocked
  <2>6. SessionsFollow'
    BY <1>3, <1>4, <2>2, <2>5 DEF SessionsFollow, AccountsTyped
  <2> QED
    BY <2>3, <2>4, <2>6
<1>5. ASSUME NEW p \in Acc \cup Legacy, NEW proof \in {"app_proof", "sso_login"}, NEW kept \in SUBSET asess,
             aident' = [aident EXCEPT ![a] = [principal |-> p, proof |-> proof]],
             asess' = kept \cup {<<a, p>>}, \A s \in kept : s[1] # a
      PROVE  AccountsTyped' /\ AppliedToKnown' /\ SessionsFollow'
  <2> DEFINE moved == [principal |-> p, proof |-> proof]
  <2>1. moved \in Link /\ moved.principal = p /\ p # NoPrincipal
    BY <1>1 DEF Link, Principals
  <2> HIDE DEF moved
  <2>2. aident' = [aident EXCEPT ![a] = moved]
    BY <1>5 DEF moved
  <2> QED
    BY <1>2, <1>3, <1>5, <2>1, <2>2, LinkMoves
<1>6. ~Known(a) => \A s \in asess : s[1] # a
  BY UnknownHoldsNothing
<1>7. \A s \in SessionsEnded(a) : s \in asess /\ s[1] # a
  BY DEF SessionsEnded, Sessions
<1>8. CASE ~Known(a) /\ link # NoPrincipal /\ aident' = [aident EXCEPT ![a] = [principal |-> link, proof |-> "app_proof"]]
           /\ asess' = asess \cup {<<a, link>>}
  BY <1>5, <1>6, <1>8
<1>9. CASE ~Known(a) /\ aident' = [aident EXCEPT ![a] = [principal |-> ssoPrincipal(a), proof |-> "sso_login"]]
           /\ asess' = asess \cup {<<a, ssoPrincipal(a)>>}
  BY <1>5, <1>6, <1>9 DEF ssoPrincipal
<1>10. CASE link # NoPrincipal /\ aident' = [aident EXCEPT ![a] = [principal |-> link, proof |-> "app_proof"]]
            /\ asess' = SessionsEnded(a) \cup {<<a, link>>}
  <2>1. SessionsEnded(a) \in SUBSET asess
    BY <1>7
  <2> QED
    BY <1>5, <1>7, <1>10, <2>1
<1> QED
  BY <1>4, <1>8, <1>9, <1>10 DEF SignIn

\* What a state of AIN SSO makes of the link of its account.
LEMMA LinkedFacts ==
  ASSUME AccountsTyped, NEW a \in Acc, NEW legacy \in Legacy \cup {NoPrincipal, "wallet"}
  PROVE  /\ Linked(a, legacy) \in Link /\ Linked(a, legacy).principal # NoPrincipal
         /\ Known(a) /\ ~LinkNew(a, legacy) /\ ~RollBack(a, legacy) => Linked(a, legacy) = aident[a]
<1>1. NoPrincipal \notin Acc \cup Legacy
  BY AccountsAssumption DEF AccountsAssumption
<1>2. aident[a] \in Link
  BY DEF AccountsTyped
<1>3. \A p \in Acc \cup Legacy, proof \in {"legacy_mapping", "provisioning"} :
        [principal |-> p, proof |-> proof] \in Link
  BY DEF Link, Principals
<1>4. LinkNew(a, legacy) => legacy \in Legacy
  BY DEF LinkNew
<1>5. \/ Known(a) /\ ~LinkNew(a, legacy) /\ ~RollBack(a, legacy) /\ Linked(a, legacy) = aident[a]
      \/ /\ ~Known(a) \/ LinkNew(a, legacy) \/ RollBack(a, legacy)
         /\ \E p \in Acc \cup Legacy, proof \in {"legacy_mapping", "provisioning"} :
              Linked(a, legacy) = [principal |-> p, proof |-> proof]
  <2>1. CASE ~Known(a)
    BY <2>1 DEF Linked, ssoPrincipal
  <2>2. CASE Known(a) /\ LinkNew(a, legacy)
    BY <1>4, <2>2 DEF Linked
  <2>3. CASE Known(a) /\ ~LinkNew(a, legacy) /\ RollBack(a, legacy)
    BY <2>3 DEF Linked, ssoPrincipal
  <2>4. CASE Known(a) /\ ~LinkNew(a, legacy) /\ ~RollBack(a, legacy)
    BY <2>4 DEF Linked
  <2> QED
    BY <2>1, <2>2, <2>3, <2>4
<1>6. CASE Known(a) /\ Linked(a, legacy) = aident[a] /\ ~LinkNew(a, legacy) /\ ~RollBack(a, legacy)
  BY <1>2, <1>6 DEF Known
<1>7. CASE /\ ~Known(a) \/ LinkNew(a, legacy) \/ RollBack(a, legacy)
           /\ \E p \in Acc \cup Legacy, proof \in {"legacy_mapping", "provisioning"} :
                Linked(a, legacy) = [principal |-> p, proof |-> proof]
  <2>1. PICK p \in Acc \cup Legacy, proof \in {"legacy_mapping", "provisioning"} :
          Linked(a, legacy) = [principal |-> p, proof |-> proof]
    BY <1>7
  <2> DEFINE link == [principal |-> p, proof |-> proof]
  <2>2. Linked(a, legacy) = link
    BY <2>1
  <2>3. link \in Link /\ link.principal = p
    BY <1>3
  <2> HIDE DEF link
  <2> QED
    BY <1>1, <1>7, <2>2, <2>3
<1> QED
  BY <1>5, <1>6, <1>7

\* A place in a sequence is a number, and what stands there is of its type.
LEMMA PlaceInSeq ==
  ASSUME NEW Values, NEW seq \in Seq(Values), NEW v \in 1..Len(seq)
  PROVE  v \in Nat /\ seq[v] \in Values
OBVIOUS

\* A state AIN SSO sends has a status, and may name a principal of before.
LEMMA StateFacts ==
  ASSUME AccountsTyped, NEW a \in Acc, NEW o \in SsoOrg, NEW v \in 1..Len(ascript[a, o])
  PROVE  /\ v \in Nat /\ ascript[a, o][v].status \in {"active", "suspended", "deprovisioned"}
         /\ ascript[a, o][v].legacy \in Legacy \cup {NoPrincipal, "wallet"}
<1> DEFINE State == [status : {"active", "suspended", "deprovisioned"}, legacy : Legacy \cup {NoPrincipal, "wallet"}]
           states == ascript[<<a, o>>]
<1>1. states \in Seq(State)
  BY AccountsAssumption DEF AccountsAssumption, AccountsTyped
<1>2. v \in 1..Len(states)
  OBVIOUS
<1> HIDE DEF State, states
<1>4. v \in Nat /\ states[v] \in State
  BY <1>1, <1>2, PlaceInSeq
<1>6. states[v].status \in {"active", "suspended", "deprovisioned"} /\ states[v].legacy \in Legacy \cup {NoPrincipal, "wallet"}
  BY <1>4 DEF State
<1> QED
  BY <1>4, <1>6 DEF states

\* A state that is applied: the sessions that stay speak for a link that stays.
LEMMA SessionsApply ==
  ASSUME AccountsTyped, AppliedToKnown, SessionsFollow, NEW a \in Acc, NEW o \in SsoOrg,
         NEW v \in 1..Len(ascript[a, o]), Apply(a, o, v)
  PROVE  AccountsTyped' /\ AppliedToKnown' /\ SessionsFollow'
<1> DEFINE status == ascript[a, o][v].status  legacy == ascript[a, o][v].legacy
           link == Linked(a, legacy)  row == [version |-> v, status |-> status]
<1>1. CASE UNCHANGED <<aident, amember, asess, ascript>>
  <2>1. \A b \in Acc : isBlocked(b)' = isBlocked(b)
    BY <1>1 DEF isBlocked
  <2>2. AccountsTyped'
    BY <1>1 DEF AccountsTyped
  <2>3. AppliedToKnown'
    BY <1>1 DEF AppliedToKnown, Named, Known
  <2>4. SessionsFollow'
    BY <1>1, <2>1 DEF SessionsFollow, AccountsTyped
  <2> QED
    BY <2>2, <2>3, <2>4
<1>2. CASE /\ aident' = [aident EXCEPT ![a] = link] /\ amember' = [amember EXCEPT ![<<a, o>>] = row]
           /\ ascript' = ascript
           /\ asess' = IF status # "active" THEN asess \ Sessions(a)
                       ELSE IF RollBack(a, legacy) \/ LinkNew(a, legacy) THEN SessionsEnded(a) ELSE asess
  <2>1. /\ v \in Nat /\ status \in {"active", "suspended", "deprovisioned"}
        /\ link \in Link /\ link.principal # NoPrincipal
        /\ Known(a) /\ ~LinkNew(a, legacy) /\ ~RollBack(a, legacy) => link = aident[a]
    BY StateFacts, LinkedFacts
  <2>2. row \in Membership /\ row.status = status
    BY <2>1 DEF Membership
  <2>3. ~Known(a) => \A s \in asess : s[1] # a
    BY UnknownHoldsNothing
  <2>4. \A s \in asess' : s \in asess /\ (s[1] = a => status = "active" /\ link = aident[a])
    BY <1>2, <2>1, <2>3 DEF Sessions, SessionsEnded
  <2> HIDE DEF row, link, status
  <2>5. aident' \in [Acc -> Link] /\ \A b \in Acc : aident'[b] = IF b = a THEN link ELSE aident[b]
    BY <1>2, <2>1 DEF AccountsTyped
  <2>6. /\ amember' \in [Acc \X SsoOrg -> Membership]
        /\ \A b \in Acc, p \in SsoOrg : amember'[<<b, p>>] = IF b = a /\ p = o THEN row ELSE amember[<<b, p>>]
    BY <1>2, <2>2 DEF AccountsTyped
  <2>7. AccountsTyped'
    BY <1>2, <2>4, <2>5, <2>6 DEF AccountsTyped
  <2>8. Named'
    BY <2>4 DEF AppliedToKnown, Named
  <2>9. \A b \in Acc, p \in SsoOrg : aident'[b].principal = NoPrincipal => amember'[<<b, p>>].status = "none"
    BY <2>1, <2>5, <2>6 DEF AppliedToKnown, Known
  <2>10. AppliedToKnown'
    BY <2>8, <2>9 DEF AppliedToKnown, Known
  <2>11. \A b \in Acc : b # a => isBlocked(b)' = isBlocked(b)
    BY <2>6 DEF isBlocked
  <2>12. status = "active" => ~isBlocked(a)'
    <3>1. amember'[<<a, o>>] = row
      BY <2>6
    <3> QED
      BY <2>2, <3>1 DEF isBlocked
  <2>13. SessionsFollow'
    <3> SUFFICES ASSUME NEW s \in asess' PROVE s[2] = aident'[s[1]].principal /\ ~isBlocked(s[1])'
      BY DEF SessionsFollow
    <3>1. s \in asess /\ s[1] \in Acc /\ s[2] = aident[s[1]].principal /\ ~isBlocked(s[1])
      BY <2>4 DEF AccountsTyped, SessionsFollow
    <3>2. CASE s[1] = a
      BY <2>4, <2>5, <2>12, <3>1, <3>2
    <3>3. CASE s[1] # a
      BY <2>5, <2>11, <3>1, <3>3
    <3> QED
      BY <3>2, <3>3
  <2> QED
    BY <2>7, <2>10, <2>13
<1> QED
  BY <1>1, <1>2 DEF Apply

\* A step that leaves links, memberships and the states of AIN SSO alone, and makes no session.
LEMMA SessionsQuiet ==
  ASSUME AccountsTyped, AppliedToKnown, SessionsFollow,
         UNCHANGED <<aident, amember, ascript>>, asess' \subseteq asess
  PROVE  AccountsTyped' /\ AppliedToKnown' /\ SessionsFollow'
<1>1. \A a \in Acc : isBlocked(a)' = isBlocked(a)
  BY DEF isBlocked
<1>2. AccountsTyped'
  BY DEF AccountsTyped
<1>3. AppliedToKnown'
  BY DEF AppliedToKnown, Named, Known
<1>4. SessionsFollow'
  BY <1>1 DEF SessionsFollow, AccountsTyped
<1> QED
  BY <1>2, <1>3, <1>4

LEMMA SessionsRunKey ==
  ASSUME AccountsTyped, AppliedToKnown, SessionsFollow, RunKey
  PROVE  AccountsTyped' /\ AppliedToKnown' /\ SessionsFollow'
<1>1. UNCHANGED <<ascript, amember, asess>>
  BY DEF RunKey
<1>2. PICK a \in Acc : aident' = IF Known(a) THEN aident
                                 ELSE [aident EXCEPT ![a] = [principal |-> IF Known(a) THEN aident[a].principal ELSE ssoPrincipal(a),
                                                             proof |-> "sso_login"]]
  BY DEF RunKey
<1>3. CASE Known(a)
  BY <1>1, <1>2, <1>3, SessionsQuiet
<1>4. CASE ~Known(a)
  <2> DEFINE link == [principal |-> a, proof |-> "sso_login"]
  <2>1. aident' = [aident EXCEPT ![a] = link]
    BY <1>2, <1>4 DEF ssoPrincipal
  <2>2. link \in Link /\ link.principal # NoPrincipal
    BY AccountsAssumption DEF AccountsAssumption, Link, Principals
  <2>3. ~isBlocked(a) /\ \A s \in asess : s[1] # a
    BY <1>4, UnknownHoldsNothing
  <2> HIDE DEF link
  <2>4. asess' = asess \cup {} /\ asess \in SUBSET asess /\ {} \in SUBSET {<<a, link.principal>>}
    BY <1>1
  <2> QED
    BY <1>1, <2>1, <2>2, <2>3, <2>4, LinkMoves
<1> QED
  BY <1>3, <1>4

LEMMA SessionsNext ==
  ASSUME AccountsTyped, AppliedToKnown, SessionsFollow, [AccountsNext]_avars
  PROVE  AccountsTyped' /\ AppliedToKnown' /\ SessionsFollow'
<1>1. CASE ASignIn
  BY <1>1, SessionsSignIn DEF ASignIn
<1>2. CASE AApply
  BY <1>2, SessionsApply DEF AApply
<1>3. CASE RunKey
  BY <1>3, SessionsRunKey
<1>4. CASE SessionEnds \/ LogoutAll
  <2>1. UNCHANGED <<aident, amember, ascript>> /\ asess' \subseteq asess
    BY <1>4 DEF SessionEnds, LogoutAll
  <2> QED
    BY <2>1, SessionsQuiet
<1>5. CASE IssueKey \/ IssueVouched \/ RevokeKey \/ AccountsRestart \/ UNCHANGED avars
  <2>1. UNCHANGED <<aident, amember, ascript>> /\ asess' \subseteq asess
    BY <1>5 DEF IssueKey, IssueVouched, RevokeKey, AccountsRestart, avars
  <2> QED
    BY <2>1, SessionsQuiet
<1> QED
  BY <1>1, <1>2, <1>3, <1>4, <1>5 DEF AccountsNext

(* In every state a session of AIN SSO acts as the principal its account is linked to now,
   and no session is one of an account that is suspended, however sign-ins, provisioned
   states in any order, rollbacks of a link, run keys, failed writes and restarts follow
   each other (signIn and apply, sso.ts).                                                *)
THEOREM SessionsStayTrue == AccountsSpec => []SessionsFollow
<1>1. AccountsInit => AccountsTyped /\ AppliedToKnown /\ SessionsFollow
  <2> SUFFICES ASSUME AccountsInit PROVE AccountsTyped /\ AppliedToKnown /\ SessionsFollow
    OBVIOUS
  <2> DEFINE none == [principal |-> NoPrincipal, proof |-> "none"]  row == [version |-> 0, status |-> "none"]
  <2>1. none \in Link /\ row \in Membership /\ row.status = "none"
    BY DEF Link, Membership, Principals
  <2> HIDE DEF none, row
  <2>2. /\ ascript \in Scripts /\ aident = [a \in Acc |-> none] /\ asess = {}
        /\ amember = [p \in Acc \X SsoOrg |-> row]
    BY DEF AccountsInit, none, row
  <2>3. AccountsTyped
    BY <2>1, <2>2 DEF AccountsTyped
  <2>4. \A a \in Acc, o \in SsoOrg : amember[<<a, o>>] = row
    BY <2>2
  <2>5. AppliedToKnown
    BY <2>1, <2>2, <2>4 DEF AppliedToKnown, Named
  <2>6. SessionsFollow
    BY <2>2 DEF SessionsFollow
  <2> QED
    BY <2>3, <2>5, <2>6
<1> QED
  BY <1>1, SessionsNext, PTL DEF AccountsSpec

-----------------------------------------------------------------------------
(* Who is a member (Organizations) *)

\* The rows of an organization that were not written down for a claim, each of a person let in.
LetInRows(o, org, given) == \A m \in org.members : m.via \in {"domain", "sso"} \/ <<o, m.who>> \in given
OrgFields == {"on", "by", "domains", "domainRole", "sso", "members", "requests", "invites", "groups"}
Shaped(org) == org = [f \in OrgFields |-> org[f]]
Members(o, org, given) == Shaped(org) /\ LetInRows(o, org, given)

MembersLetIn == DOMAIN oorg = Org /\ oorg = [o \in Org |-> oorg[o]] /\ \A o \in Org : Members(o, oorg[o], ogiven)

\* One organization changes, and its rows remain those of claims and of people let in.
LEMMA MembersChange ==
  ASSUME MembersLetIn, NEW o \in Org, NEW org, Becomes(o, org),
         Members(o, org, ogiven'), \A q \in Org : \A p : q # o /\ <<q, p>> \in ogiven => <<q, p>> \in ogiven'
  PROVE  MembersLetIn'
<1>1. oorg' = [q \in Org |-> IF q = o THEN org ELSE oorg[q]]
  BY DEF MembersLetIn, Becomes
<1>2. \A q \in Org : q # o => Members(q, oorg[q], ogiven')
  BY DEF MembersLetIn, Members, LetInRows
<1> QED
  BY <1>1, <1>2 DEF MembersLetIn

LEMMA MoreLetIn ==
  ASSUME NEW o, NEW org, NEW given, NEW more, Members(o, org, given), given \subseteq more
  PROVE  Members(o, org, more)
BY DEF Members, LetInRows

\* setMember: the row of a person keeps how the person came in.
LEMMA SetMemberKeeps ==
  ASSUME NEW o, NEW org, NEW given, Members(o, org, given), NEW p, NEW role, NEW via,
         via \in {"domain", "sso"} \/ <<o, p>> \in given \/ RowsOf(org, p) # {}
  PROVE  Members(o, setMember(org, p, role, via), given)
<1> DEFINE prior == RowsOf(org, p)
           how == IF prior = {} THEN via ELSE (CHOOSE m \in prior : TRUE).via
           row == [who |-> p, role |-> role, via |-> how]
           after == setMember(org, p, role, via)
<1>1. how \in {"domain", "sso"} \/ <<o, p>> \in given
  <2>1. CASE prior = {}
    BY <2>1
  <2>2. CASE prior # {}
    <3>1. PICK m \in prior : how = m.via
      BY <2>2
    <3> QED
      BY <3>1 DEF RowsOf, Members, LetInRows
  <2> QED
    BY <2>1, <2>2
<1>2. after = [org EXCEPT !.members = (@ \ prior) \cup {row}, !.requests = @ \ {p}]
  BY DEF setMember
<1>3. row.who = p /\ row.via = how
  OBVIOUS
<1> HIDE DEF row, how, prior, after
<1>4. Shaped(after) /\ after.members = (org.members \ prior) \cup {row}
  BY <1>2 DEF Members, Shaped, OrgFields
<1> QED
  BY <1>1, <1>3, <1>4 DEF Members, LetInRows, after

\* access: who comes by on a claim is written down with that claim.
LEMMA VisitedKeeps ==
  ASSUME MembersLetIn, NEW o \in Org, NEW p
  PROVE  Members(o, Visited(o, p), ogiven)
<1>1. Members(o, oorg[o], ogiven)
  BY DEF MembersLetIn
<1> DEFINE via == IF byDomain(oorg[o], p) THEN "domain" ELSE "sso"
<1>2. via \in {"domain", "sso"}
  OBVIOUS
<1> HIDE DEF via
<1>3. Members(o, setMember(oorg[o], p, oorg[o].domainRole, via), ogiven)
  BY <1>1, <1>2, SetMemberKeeps
<1> QED
  BY <1>1, <1>3 DEF Visited, via

\* A change of the record that takes no row in.
LEMMA FewerRows ==
  ASSUME NEW o, NEW org, NEW given, Members(o, org, given), NEW after, Shaped(after),
         after.members \subseteq org.members
  PROVE  Members(o, after, given)
BY DEF Members, LetInRows

\* The changes of the record by operations that take no row in.
LEMMA RecordChanges ==
  ASSUME NEW o, NEW org, NEW given, Members(o, org, given)
  PROVE  /\ \A ds, ss, role : Members(o, update(org, ds, ss, role), given)
         /\ \A p : Members(o, removeMember(org, p), given)
         /\ \A p : Members(o, requestJoin(org, p), given) /\ Members(o, rejectRequest(org, p), given)
         /\ \A role : Members(o, createInvite(org, role), given)
         /\ \A i : Members(o, revokeInvite(org, i), given)
         /\ \A i, p : Members(o, spend(org, i, p), given)
         /\ \A named : Members(o, setGroup(org, named), given)
         /\ Members(o, removeGroup(org), given)
<1>1. Shaped(org)
  BY DEF Members
<1>2. \A ds, ss, role : Members(o, update(org, ds, ss, role), given)
  <2> SUFFICES ASSUME NEW ds, NEW ss, NEW role PROVE Members(o, update(org, ds, ss, role), given)
    OBVIOUS
  <2>1. Shaped(update(org, ds, ss, role)) /\ update(org, ds, ss, role).members = org.members
    BY <1>1 DEF Shaped, OrgFields, update
  <2> QED
    BY <2>1, FewerRows
<1>3. \A p : Members(o, removeMember(org, p), given)
  <2> SUFFICES ASSUME NEW p PROVE Members(o, removeMember(org, p), given)
    OBVIOUS
  <2>1. Shaped(removeMember(org, p)) /\ removeMember(org, p).members \subseteq org.members
    BY <1>1 DEF Shaped, OrgFields, removeMember
  <2> QED
    BY <2>1, FewerRows
<1>4. \A p : Members(o, requestJoin(org, p), given) /\ Members(o, rejectRequest(org, p), given)
  <2> SUFFICES ASSUME NEW p PROVE Members(o, requestJoin(org, p), given) /\ Members(o, rejectRequest(org, p), given)
    OBVIOUS
  <2>1. Shaped(requestJoin(org, p)) /\ requestJoin(org, p).members \subseteq org.members
    BY <1>1 DEF Shaped, OrgFields, requestJoin
  <2>2. Shaped(rejectRequest(org, p)) /\ rejectRequest(org, p).members \subseteq org.members
    BY <1>1 DEF Shaped, OrgFields, rejectRequest
  <2> QED
    BY <2>1, <2>2, FewerRows
<1>5. \A role : Members(o, createInvite(org, role), given)
  <2> SUFFICES ASSUME NEW role PROVE Members(o, createInvite(org, role), given)
    OBVIOUS
  <2>1. Shaped(createInvite(org, role)) /\ createInvite(org, role).members \subseteq org.members
    BY <1>1 DEF Shaped, OrgFields, createInvite
  <2> QED
    BY <2>1, FewerRows
<1>6. \A i : Members(o, revokeInvite(org, i), given)
  <2> SUFFICES ASSUME NEW i PROVE Members(o, revokeInvite(org, i), given)
    OBVIOUS
  <2>1. Shaped(revokeInvite(org, i)) /\ revokeInvite(org, i).members \subseteq org.members
    BY <1>1 DEF Shaped, OrgFields, revokeInvite
  <2> QED
    BY <2>1, FewerRows
<1>7. \A i, p : Members(o, spend(org, i, p), given)
  <2> SUFFICES ASSUME NEW i, NEW p PROVE Members(o, spend(org, i, p), given)
    OBVIOUS
  <2>1. Shaped(spend(org, i, p)) /\ spend(org, i, p).members \subseteq org.members
    BY <1>1 DEF Shaped, OrgFields, spend
  <2> QED
    BY <2>1, FewerRows
<1>8. \A named : Members(o, setGroup(org, named), given)
  <2> SUFFICES ASSUME NEW named PROVE Members(o, setGroup(org, named), given)
    OBVIOUS
  <2>1. Shaped(setGroup(org, named)) /\ setGroup(org, named).members \subseteq org.members
    BY <1>1 DEF Shaped, OrgFields, setGroup
  <2> QED
    BY <2>1, FewerRows
<1>9. Members(o, removeGroup(org), given)
  <2>1. Shaped(removeGroup(org)) /\ removeGroup(org).members \subseteq org.members
    BY <1>1 DEF Shaped, OrgFields, removeGroup
  <2> QED
    BY <2>1, FewerRows
<1> QED
  BY <1>2, <1>3, <1>4, <1>5, <1>6, <1>7, <1>8, <1>9

LEMMA MembersNext ==
  ASSUME MembersLetIn, [OrganizationsNext]_ovars
  PROVE  MembersLetIn'
<1>1. ASSUME NEW o \in Org, NEW org, Becomes(o, org), UNCHANGED ogiven, Members(o, org, ogiven) PROVE MembersLetIn'
  BY <1>1, MembersChange
<1>2. CASE Create
  <2>1. PICK o \in Org \ Held, p \in Person, ds \in SUBSET Domain, role \in GivenRoles :
          Becomes(o, create(p, ds, role)) /\ LetIn(o, p)
    BY <1>2 DEF Create
  <2>2. Shaped(create(p, ds, role)) /\ create(p, ds, role).members = {[who |-> p, role |-> admin, via |-> "creator"]}
    BY DEF Shaped, OrgFields, create, Nowhere
  <2>3. <<o, p>> \in ogiven' /\ ogiven \subseteq ogiven'
    BY <2>1 DEF LetIn
  <2>4. Members(o, create(p, ds, role), ogiven')
    BY <2>2, <2>3 DEF Members, LetInRows
  <2> QED
    BY <2>1, <2>3, <2>4, MembersChange
<1>3. CASE Seed
  <2>1. PICK o \in Org, ds \in SUBSET Domain : Becomes(o, [Nowhere EXCEPT !.on = TRUE, !.domains = ds]) /\ UNCHANGED ogiven
    BY <1>3 DEF Seed
  <2>2. Members(o, [Nowhere EXCEPT !.on = TRUE, !.domains = ds], ogiven)
    BY DEF Members, LetInRows, Shaped, OrgFields, Nowhere
  <2> QED
    BY <1>1, <2>1, <2>2
<1>4. CASE Delete
  <2>1. PICK o \in Org : Becomes(o, Nowhere) /\ ogiven' = {g \in ogiven : g[1] # o}
    BY <1>4 DEF Delete
  <2>2. Members(o, Nowhere, ogiven')
    BY DEF Members, LetInRows, Shaped, OrgFields, Nowhere
  <2>3. \A q \in Org : \A p : q # o /\ <<q, p>> \in ogiven => <<q, p>> \in ogiven'
    BY <2>1
  <2> QED
    BY <2>1, <2>2, <2>3, MembersChange
<1>5. CASE Update
  <2>1. PICK o \in Org, p \in Person, ds \in SUBSET Domain, ss \in SUBSET SsoId, role \in GivenRoles :
           Becomes(o, update(Visited(o, p), ds, ss, role)) /\ UNCHANGED ogiven
    BY <1>5 DEF Update
  <2> QED
    BY <1>1, <2>1, VisitedKeeps, RecordChanges
<1>6. CASE Visit
  <2>1. PICK o \in Org, p \in Person : Becomes(o, Visited(o, p)) /\ UNCHANGED ogiven
    BY <1>6 DEF Visit
  <2> QED
    BY <1>1, <2>1, VisitedKeeps
<1>7. CASE AddMember
  <2>1. PICK o \in Org, p \in Person, q \in Person, role \in GivenRoles, via \in {"admin", "request", "role"} :
          /\ Becomes(o, setMember(Visited(o, p), q, role, via))
          /\ IF RowsOf(Visited(o, p), q) = {} THEN LetIn(o, q) ELSE UNCHANGED ogiven
    BY <1>7 DEF AddMember
  <2> DEFINE org == Visited(o, p)
  <2>2. ogiven \subseteq ogiven' /\ (<<o, q>> \in ogiven' \/ RowsOf(org, q) # {})
    BY <2>1 DEF LetIn
  <2>3. Members(o, org, ogiven')
    BY <2>2, VisitedKeeps, MoreLetIn
  <2> HIDE DEF org
  <2>4. Members(o, setMember(org, q, role, via), ogiven')
    BY <2>2, <2>3, SetMemberKeeps
  <2> QED
    BY <2>1, <2>2, <2>4, MembersChange DEF org
<1>8. CASE RemoveMember
  <2>1. PICK o \in Org, p \in Person, q \in Person :
          Becomes(o, removeMember(Visited(o, p), q)) /\ ogiven' = ogiven \ {<<o, q>>}
    BY <1>8 DEF RemoveMember
  <2> DEFINE org == Visited(o, p)
  <2>2. Members(o, org, ogiven)
    BY VisitedKeeps
  <2> HIDE DEF org
  <2>3. Shaped(removeMember(org, q)) /\ removeMember(org, q).members = org.members \ RowsOf(org, q)
    BY <2>2 DEF Members, Shaped, OrgFields, removeMember
  <2>4. Members(o, removeMember(org, q), ogiven')
    BY <2>1, <2>2, <2>3 DEF Members, LetInRows, RowsOf
  <2> QED
    BY <2>1, <2>4, MembersChange DEF org
<1>9. CASE RequestJoin
  <2>1. PICK o \in Org, p \in Person : Becomes(o, requestJoin(oorg[o], p)) /\ UNCHANGED ogiven
    BY <1>9 DEF RequestJoin, Held
  <2> QED
    BY <1>1, <2>1, RecordChanges DEF MembersLetIn
<1>10. CASE RejectRequest
  <2>1. PICK o \in Org, p \in Person : \E q : Becomes(o, rejectRequest(Visited(o, p), q)) /\ UNCHANGED ogiven
    BY <1>10 DEF RejectRequest
  <2> QED
    BY <1>1, <2>1, VisitedKeeps, RecordChanges
<1>11. CASE CreateInvite
  <2>1. PICK o \in Org, p \in Person, role \in GivenRoles : Becomes(o, createInvite(Visited(o, p), role)) /\ UNCHANGED ogiven
    BY <1>11 DEF CreateInvite
  <2> QED
    BY <1>1, <2>1, VisitedKeeps, RecordChanges
<1>12. CASE RevokeInvite
  <2>1. PICK o \in Org : \E i : Becomes(o, revokeInvite(oorg[o], i)) /\ UNCHANGED ogiven
    BY <1>12 DEF RevokeInvite, Held
  <2> QED
    BY <1>1, <2>1, RecordChanges DEF MembersLetIn
<1>13. CASE UseInvite
  <2>1. PICK o \in Org, p \in Person : \E i :
          /\ Becomes(o, useInvite(oorg[o], i, p))
          /\ ogiven' = IF RowsOf(oorg[o], p) = {} /\ RowsOf(oorg'[o], p) # {} THEN ogiven \cup {<<o, p>>} ELSE ogiven
    BY <1>13 DEF UseInvite, Held
  <2>2. PICK i : Becomes(o, useInvite(oorg[o], i, p))
    BY <2>1
  <2> DEFINE spent == spend(oorg[o], i, p)
             rank == RoleBy(oorg[o], i, p)
  <2>3. Members(o, spent, ogiven) /\ spent.members = oorg[o].members
    <3>1. Members(o, oorg[o], ogiven)
      BY DEF MembersLetIn
    <3>2. spent.members = oorg[o].members
      BY <3>1 DEF Members, Shaped, OrgFields, spend
    <3> QED
      BY <3>1, <3>2, RecordChanges
  <2>4. ogiven \subseteq ogiven'
    BY <2>1
  <2>5. Members(o, spent, ogiven')
    BY <2>3, <2>4, MoreLetIn
  <2> HIDE DEF spent, rank
  <2>6. CASE Becomes(o, spent)
    BY <2>4, <2>5, <2>6, MembersChange
  <2>7. CASE Becomes(o, setMember(spent, p, rank, "invite"))
    <3>1. oorg'[o] = setMember(spent, p, rank, "invite")
      BY <2>7 DEF Becomes, MembersLetIn
    <3>2. RowsOf(setMember(spent, p, rank, "invite"), p) # {}
      <4> DEFINE row == [who |-> p, role |-> rank, via |-> IF RowsOf(spent, p) = {} THEN "invite"
                                                          ELSE (CHOOSE m \in RowsOf(spent, p) : TRUE).via]
      <4>1. row.who = p
        OBVIOUS
      <4>2. row \in setMember(spent, p, rank, "invite").members
        BY <2>3 DEF setMember, Members, Shaped, OrgFields
      <4> QED
        BY <4>1, <4>2 DEF RowsOf
    <3>3. RowsOf(spent, p) = RowsOf(oorg[o], p)
      BY <2>3 DEF RowsOf
    <3>4. <<o, p>> \in ogiven' \/ RowsOf(spent, p) # {}
      BY <2>1, <3>1, <3>2, <3>3
    <3>5. Members(o, setMember(spent, p, rank, "invite"), ogiven')
      BY <2>5, <3>4, SetMemberKeeps
    <3> QED
      BY <2>4, <2>7, <3>5, MembersChange
  <2>8. useInvite(oorg[o], i, p) = IF CanSet(spent, p, rank) THEN setMember(spent, p, rank, "invite") ELSE spent
    BY DEF useInvite, spent, rank
  <2> QED
    BY <2>2, <2>6, <2>7, <2>8
<1>14. CASE SetGroup
  <2>1. PICK o \in Org, p \in Person, named \in SUBSET Person : Becomes(o, setGroup(Visited(o, p), named)) /\ UNCHANGED ogiven
    BY <1>14 DEF SetGroup
  <2> QED
    BY <1>1, <2>1, VisitedKeeps, RecordChanges
<1>15. CASE RemoveGroup
  <2>1. PICK o \in Org, p \in Person : Becomes(o, removeGroup(Visited(o, p))) /\ UNCHANGED ogiven
    BY <1>15 DEF RemoveGroup
  <2> QED
    BY <1>1, <2>1, VisitedKeeps, RecordChanges
<1>16. CASE SignsIn \/ UNCHANGED ovars
  <2>1. UNCHANGED <<oorg, ogiven>>
    BY <1>16 DEF SignsIn, ovars
  <2> QED
    BY <2>1 DEF MembersLetIn, Members, LetInRows, Shaped
<1> QED
  BY <1>2, <1>3, <1>4, <1>5, <1>6, <1>7, <1>8, <1>9, <1>10, <1>11, <1>12, <1>13, <1>14, <1>15, <1>16
  DEF OrganizationsNext

(* Whoever is in an organization has a claim of the moment, or was let in by someone and
   not removed since: a row written down when a person of the domain, or of a linked AIN
   organization, came by lets nobody in once that claim is over, whatever role changes,
   invites, approvals and removals the row went through (membership and setMember,
   organization-store.ts).                                                               *)
THEOREM OffboardedStaysOut == OrganizationsSpec => []OffboardedIsOut
<1>1. OrganizationsInit => MembersLetIn
  <2> SUFFICES ASSUME OrganizationsInit PROVE MembersLetIn
    OBVIOUS
  <2>1. \A o \in Org : Members(o, Nowhere, ogiven)
    BY DEF Members, LetInRows, Shaped, OrgFields, Nowhere
  <2>2. oorg = [o \in Org |-> Nowhere]
    BY DEF OrganizationsInit
  <2> QED
    BY <2>1, <2>2 DEF MembersLetIn
<1>2. MembersLetIn => OffboardedIsOut
  <2> SUFFICES ASSUME MembersLetIn, NEW o \in Held, NEW p \in Person, membership(oorg[o], p) # {}
               PROVE  byDomain(oorg[o], p) \/ bySso(oorg[o], p) \/ <<o, p>> \in ogiven
    BY DEF OffboardedIsOut
  <2>1. CASE Explicit(oorg[o], p) # {}
    <3>1. PICK m \in oorg[o].members : /\ m.who = p
                                       /\ m.via \in {"domain", "sso"} => byDomain(oorg[o], p) \/ bySso(oorg[o], p)
      BY <2>1 DEF Explicit, RowsOf
    <3> QED
      BY <3>1 DEF MembersLetIn, Members, LetInRows, Held
  <2>2. CASE Explicit(oorg[o], p) = {}
    BY <2>2 DEF membership
  <2> QED
    BY <2>1, <2>2
<1> QED
  BY <1>1, <1>2, MembersNext, PTL DEF OrganizationsSpec

-----------------------------------------------------------------------------
(* What answers a call that names a model (ModelNetwork) *)

CallFields == {"step", "door", "at", "kind", "named", "to", "backend", "lane", "class", "ran", "client"}

\* A call that waits for a card or runs on it: the backend has the model named, and what the
\* upstream is asked for is what Upstream makes of the call.
Rightly(r) ==
  /\ r = [f \in CallFields |-> r[f]]
  /\ r.step # "running" => r.ran = ""
  /\ r.step \in {"queued", "running"} /\ r.named # "" => Kind[r.backend] = r.kind /\ r.named \in ModelsOf(r.backend)
  /\ r.step = "running" => r.ran = Upstream(r)

CallsRight == call = [c \in Calls |-> call[c]] /\ \A c \in Calls : Rightly(call[c])

\* No picture, recording or decision is made by a backend of several models.
OneModelEach ==
  \A c \in Calls : LET r == call[c] IN
    r.step = "running" /\ r.kind # "chat" => ModelsOf(r.backend) \subseteq {Names[r.backend][1]}

LEMMA OverIsRight ==
  ASSUME NEW what
  PROVE  Rightly(NoCall) /\ Rightly(CallOver(what))
BY DEF Rightly, NoCall, CallOver, CallFields

\* run: a call joins the queue of a backend that has what it names.
LEMMA JoinIsRight ==
  ASSUME NEW r, Rightly(r), r.ran = "", NEW x, NEW door,
         r.named # "" => Kind[x] = r.kind /\ r.named \in ModelsOf(x)
  PROVE  Rightly(Join(r, x, door))
<1>1. /\ Join(r, x, door) = [f \in CallFields |-> Join(r, x, door)[f]]
      /\ Join(r, x, door).step = "queued" /\ Join(r, x, door).backend = x
      /\ Join(r, x, door).named = r.named /\ Join(r, x, door).kind = r.kind /\ Join(r, x, door).ran = ""
  BY DEF Rightly, Join, CallFields
<1> QED
  BY <1>1 DEF Rightly

LEMMA SentIsRight ==
  ASSUME NEW r, Rightly(r), r.ran = "", NEW to
  PROVE  Rightly([r EXCEPT !.step = "sent", !.to = to])
BY DEF Rightly, CallFields

\* routeModelRef: a backend of this node's own that it finds has the model, and the kind.
LEMMA RouteIsRight ==
  ASSUME NEW n, NEW k, NEW m, NEW pin, NEW door, routeModelRef(n, k, m, pin, door).own # NoBackend
  PROVE  Kind[routeModelRef(n, k, m, pin, door).own] = k /\ m \in ModelsOf(routeModelRef(n, k, m, pin, door).own)
<1> DEFINE own == {x \in backendForModel(n, m) : here(n, pin) /\ Kind[x] = k}
<1>1. own # {} /\ routeModelRef(n, k, m, pin, door).own = CHOOSE x \in own : TRUE
  BY DEF routeModelRef
<1>2. routeModelRef(n, k, m, pin, door).own \in own
  BY <1>1
<1> QED
  BY <1>2 DEF backendForModel

LEMMA ServeKeeps ==
  ASSUME CallsRight, NEW c \in Calls, NEW r, Rightly(r), call' = [call EXCEPT ![c] = r]
  PROVE  CallsRight'
<1>1. call' = [d \in Calls |-> IF d = c THEN r ELSE call[d]]
  BY DEF CallsRight
<1>2. \A d \in Calls : Rightly(call'[d])
  BY <1>1 DEF CallsRight
<1>3. \A d \in Calls : Rightly(call[d])'
  BY <1>2 DEF Rightly, Upstream, ModelsOf
<1> QED
  BY <1>1, <1>3 DEF CallsRight

LEMMA FollowKeeps ==
  ASSUME CallsRight, NEW c \in Calls, NEW r, Rightly(r), r.ran = "", NEW route, Follow(c, r, route),
         route.own # NoBackend /\ r.named # "" => Kind[route.own] = r.kind /\ r.named \in ModelsOf(route.own)
  PROVE  CallsRight'
<1>1. CASE route.own # NoBackend
  <2>1. Rightly(Join(r, route.own, r.door))
    BY <1>1, JoinIsRight
  <2>2. call' = [call EXCEPT ![c] = Join(r, route.own, r.door)]
    BY <1>1 DEF Follow, Serve
  <2> QED
    BY <2>1, <2>2, ServeKeeps
<1>2. CASE route.own = NoBackend /\ route.to # NoNode
  <2>1. Rightly([r EXCEPT !.step = "sent", !.to = route.to])
    BY SentIsRight
  <2>2. call' = [call EXCEPT ![c] = [r EXCEPT !.step = "sent", !.to = route.to]]
    BY <1>2 DEF Follow, Serve
  <2> QED
    BY <2>1, <2>2, ServeKeeps
<1>3. CASE route.own = NoBackend /\ route.to = NoNode
  <2>1. call' = [call EXCEPT ![c] = CallOver("refused")]
    BY <1>3 DEF Follow, Serve
  <2> QED
    BY <2>1, OverIsRight, ServeKeeps
<1> QED
  BY <1>1, <1>2, <1>3

\* A call of a door that names a model.
LEMMA AskKeeps ==
  ASSUME CallsRight, NEW c \in Calls, NEW door, NEW n, NEW k, NEW m, NEW pin, NEW by,
         Follow(c, Asked(door, n, k, m), routeModelRef(n, k, m, pin, by))
  PROVE  CallsRight'
<1> DEFINE route == routeModelRef(n, k, m, pin, by)
<1>0. PICK r : r = Asked(door, n, k, m)
  OBVIOUS
<1>1. Rightly(r) /\ r.ran = "" /\ r.kind = k /\ r.named = m
  BY <1>0 DEF Rightly, Asked, NoCall, CallFields
<1>2. route.own # NoBackend => Kind[route.own] = k /\ m \in ModelsOf(route.own)
  BY RouteIsRight
<1>3. Follow(c, r, route)
  BY <1>0
<1> HIDE DEF route
<1> QED
  BY <1>1, <1>2, <1>3, FollowKeeps

LEMMA DoorsKeep ==
  ASSUME CallsRight, NEW c \in Calls, NEW n, NEW m, NEW pin,
         V1Media(c, n, m, pin) \/ V1Chat(c, n, m, pin) \/ FreeMedia(c, n, m, pin) \/ PeerChat(c, n, m, pin)
         \/ AgentChat(c, n, m, pin) \/ AgentMedia(c, n, "image")
  PROVE  CallsRight'
<1>1. CASE V1Media(c, n, m, pin)
  BY <1>1, AskKeeps DEF V1Media
<1>2. CASE V1Chat(c, n, m, pin)
  <2>1. CASE Serve(c, CallOver("refused"))
    BY <2>1, OverIsRight, ServeKeeps DEF Serve
  <2>2. CASE Follow(c, Asked("v1", n, "chat", m), routeModelRef(n, "chat", m, pin, "v1"))
    BY <2>2, AskKeeps
  <2> QED
    BY <1>2, <2>1, <2>2 DEF V1Chat
<1>3. CASE FreeMedia(c, n, m, pin)
  BY <1>3, AskKeeps DEF FreeMedia
<1>4. CASE PeerChat(c, n, m, pin)
  BY <1>4, AskKeeps DEF PeerChat
<1>5. CASE AgentChat(c, n, m, pin)
  BY <1>5, AskKeeps DEF AgentChat
<1>6. CASE AgentMedia(c, n, "image")
  <2> DEFINE route == mediaRoute(n, "image")
  <2>0. PICK r : r = Asked("agent", n, "image", "")
    OBVIOUS
  <2>1. Rightly(r) /\ r.ran = "" /\ r.named = ""
    BY <2>0 DEF Rightly, Asked, NoCall, CallFields
  <2>2. Follow(c, r, route)
    BY <1>6, <2>0 DEF AgentMedia
  <2> HIDE DEF route
  <2> QED
    BY <2>1, <2>2, FollowKeeps
<1> QED
  BY <1>1, <1>2, <1>3, <1>4, <1>5, <1>6

LEMMA CallsNext ==
  ASSUME CallsRight, [NetNext]_netVars
  PROVE  CallsRight'
<1>1. ASSUME NEW c \in Calls, AtProvider(c), call[c].step = "sent" PROVE CallsRight'
  <2> DEFINE r == call[c]  found == wantedBackend(r.to, r.kind, r.named)
  <2>1. Rightly(r) /\ r.ran = ""
    BY <1>1 DEF CallsRight, Rightly
  <2>2. ASSUME NEW x \in found PROVE r.named # "" => Kind[x] = r.kind /\ r.named \in ModelsOf(x)
    BY <2>2 DEF wantedBackend, backendsFor
  <2>3. \/ call' = [call EXCEPT ![c] = CallOver("refused")]
        \/ \E x \in found : call' = [call EXCEPT ![c] = Join(r, x, "peer")]
    BY <1>1 DEF AtProvider
  <2> HIDE DEF r, found
  <2>4. ASSUME NEW x \in found, call' = [call EXCEPT ![c] = Join(r, x, "peer")] PROVE CallsRight'
    <3>1. Rightly(Join(r, x, "peer"))
      BY <2>1, <2>2, JoinIsRight
    <3> QED
      BY <2>4, <3>1, ServeKeeps
  <2>5. CASE call' = [call EXCEPT ![c] = CallOver("refused")]
    BY <2>5, OverIsRight, ServeKeeps
  <2> QED
    BY <2>3, <2>4, <2>5
<1>2. ASSUME NEW c \in Calls, PumpCard(c) PROVE CallsRight'
  <2> DEFINE r == call[c]
  <2>1. Rightly(r) /\ r.step = "queued"
    BY <1>2 DEF PumpCard, CallsRight
  <2>2. call' = [call EXCEPT ![c] = [r EXCEPT !.step = "running", !.ran = Upstream(r)]]
    BY <1>2 DEF PumpCard, Serve
  <2> HIDE DEF r
  <2> DEFINE s == [r EXCEPT !.step = "running", !.ran = Upstream(r)]
  <2>3. /\ s = [f \in CallFields |-> s[f]] /\ s.step = "running" /\ s.ran = Upstream(r)
        /\ s.named = r.named /\ s.kind = r.kind /\ s.backend = r.backend /\ s.to = r.to
    BY <2>1 DEF Rightly, CallFields
  <2> HIDE DEF s
  <2>4. Upstream(s) = Upstream(r)
    BY <2>3 DEF Upstream
  <2>5. Rightly(s)
    BY <2>1, <2>3, <2>4 DEF Rightly
  <2> QED
    BY <2>2, <2>5, ServeKeeps DEF s
<1>3. ASSUME NEW c \in Calls, PeerTimeout(c) PROVE CallsRight'
  <2> DEFINE r == call[c]  s == [r EXCEPT !.client = "failed"]
  <2>1. Rightly(r)
    BY DEF CallsRight
  <2>2. \/ call' = [call EXCEPT ![c] = CallOver("failed")]
        \/ call' = [call EXCEPT ![c] = s]
    BY <1>3 DEF PeerTimeout, Serve
  <2> HIDE DEF r
  <2>3. /\ s = [f \in CallFields |-> s[f]] /\ s.step = r.step /\ s.ran = r.ran
        /\ s.named = r.named /\ s.kind = r.kind /\ s.backend = r.backend /\ s.to = r.to
    BY <2>1 DEF Rightly, CallFields
  <2> HIDE DEF s
  <2>4. Rightly(s)
    BY <2>1, <2>3 DEF Rightly, Upstream
  <2> QED
    BY <2>2, <2>4, OverIsRight, ServeKeeps
<1>4. ASSUME NEW c \in Calls, NetStep(c) PROVE CallsRight'
  <2>1. CASE \E n \in Node, m \in Model, pin \in Node \cup {NoNode} :
               V1Media(c, n, m, pin) \/ V1Chat(c, n, m, pin) \/ FreeMedia(c, n, m, pin)
               \/ PeerChat(c, n, m, pin) \/ AgentChat(c, n, m, pin)
    BY <2>1, DoorsKeep
  <2>2. CASE \E n \in Node : AgentMedia(c, n, "image")
    BY <2>2, DoorsKeep
  <2>3. CASE PeerMediaDoor(c) \/ PeerChatDoor(c)
    BY <1>1, <2>3 DEF PeerMediaDoor, PeerChatDoor
  <2>4. CASE PumpCard(c)
    BY <1>2, <2>4
  <2>5. CASE PeerTimeout(c)
    BY <1>3, <2>5
  <2>6. CASE PeerFails(c) \/ Finished(c) \/ CallAgain(c)
    <3>1. (\E what : call' = [call EXCEPT ![c] = CallOver(what)]) \/ call' = [call EXCEPT ![c] = NoCall]
      BY <2>6 DEF PeerFails, Finished, CallAgain, Serve
    <3> QED
      BY <3>1, OverIsRight, ServeKeeps
  <2> QED
    BY <1>4, <2>1, <2>2, <2>3, <2>4, <2>5, <2>6 DEF NetStep
<1>5. ASSUME NEW n \in Node, NodeRestarts(n) PROVE CallsRight'
  <2>1. call' = [c \in Calls |->
                  IF call[c].at = n THEN NoCall
                  ELSE IF call[c].to = n /\ call[c].step \in {"queued", "running"} THEN CallOver("failed") ELSE call[c]]
    BY <1>5 DEF NodeRestarts
  <2>2. \A c \in Calls : call'[c] \in {NoCall, CallOver("failed"), call[c]}
    BY <2>1
  <2>3. \A c \in Calls : Rightly(call'[c])
    BY <2>2, OverIsRight DEF CallsRight
  <2>4. \A c \in Calls : Rightly(call[c])'
    BY <2>3 DEF Rightly, Upstream, ModelsOf
  <2>5. call' = [c \in Calls |-> call'[c]]
    BY <2>1
  <2> QED
    BY <2>4, <2>5 DEF CallsRight
<1>6. CASE UNCHANGED call
  <2>1. \A c \in Calls : Rightly(call'[c])
    BY <1>6 DEF CallsRight
  <2>2. \A c \in Calls : Rightly(call[c])'
    BY <2>1 DEF Rightly, Upstream, ModelsOf
  <2> QED
    BY <1>6, <2>2 DEF CallsRight
<1>7. CASE UNCHANGED netVars \/ (\E n \in Node : MinutePasses(n)) \/ (\E n, p \in Node : HearPeer(n, p) \/ PeerStale(n, p))
  <2>1. UNCHANGED call
    BY <1>7 DEF netVars, MinutePasses, HearPeer, PeerStale
  <2> QED
    BY <1>6, <2>1
<1> QED
  BY <1>4, <1>5, <1>7 DEF NetNext

(* A call that names a model is answered by a backend that serves it, though the node asked
   was started again with others since its advert; and by that model, except that the door
   for other nodes asks the upstream for the first model of a backend of pictures,
   recordings or decisions (peer-models.ts 339, 352, 366, 389).  So where no such backend
   has several models, a caller that names a model gets that model or a refusal.          *)
THEOREM NamedModelIsServed == NetSpec => [](NamedModelAnswers /\ (OneModelEach => NamedModelOrRefusal))
<1>1. NetInit => CallsRight
  BY OverIsRight DEF NetInit, CallsRight
<1>2. CallsRight => NamedModelAnswers
  BY DEF CallsRight, Rightly, NamedModelAnswers, Upstream
<1>3. CallsRight /\ NamedModelAnswers /\ OneModelEach => NamedModelOrRefusal
  <2> SUFFICES ASSUME CallsRight, NamedModelAnswers, OneModelEach, NEW c \in Calls,
                      call[c].ran # "", call[c].named # ""
               PROVE  call[c].ran = call[c].named
    BY DEF NamedModelOrRefusal
  <2>1. call[c].step = "running"
    BY DEF CallsRight, Rightly
  <2>2. /\ call[c].named \in ModelsOf(call[c].backend)
        /\ call[c].ran = call[c].named \/ (call[c].kind # "chat" /\ call[c].ran = Names[call[c].backend][1])
    BY DEF NamedModelAnswers
  <2> QED
    BY <2>1, <2>2 DEF OneModelEach
<1> QED
  BY <1>1, <1>2, <1>3, CallsNext, PTL DEF NetSpec

-----------------------------------------------------------------------------
(* Receipts of live tests (LiveTests) *)

EntryFields == {"n", "model", "from", "upto", "state", "receipts"}
EntryShaped(e) == e = [f \in EntryFields |-> e[f]]

\* The batches of the journal are numbered from one on, each with a number of its own.
NumberedAs(entries) ==
  /\ IsFiniteSet(entries) /\ Cardinality(entries) <= MaxEntries
  /\ \A e \in entries : EntryShaped(e) /\ e.n \in 1..Cardinality(entries)
  /\ \A d, e \in entries : d.n = e.n => d = e

\* A batch that waits was not offered to the ledger, any other at most once; and no number
\* beyond the last was offered.
OfferedOnce(entries) ==
  /\ offers \in [1..MaxEntries -> Nat]
  /\ \A m \in 1..MaxEntries : m > Cardinality(entries) => offers[m] = 0
  /\ \A e \in entries : offers[e.n] <= 1 /\ (e.state = "pending" => offers[e.n] = 0)

\* What a flush has still to submit has no answer yet.
Flushing(entries) ==
  /\ \A e \in entries : e.n \in flush => e.state \in {"pending", "submitting"}
  /\ \A n \in flush : n \in 1..Cardinality(entries)

Over(r) == r.of \in Test /\ test[r.of] = "ended"

\* Each receipt a visitor has is in the journal or in one batch of it; the test of each
\* receipt is over.
PlacedIn(recs, entries) ==
  /\ \A r \in recs : Over(r)
  /\ \A r \in handed : r \in recs \/ \E e \in entries : r \in e.receipts
  /\ \A e \in entries : \A r \in e.receipts : r \notin recs /\ Over(r)
  /\ \A d, e \in entries : (\E r \in d.receipts : r \in e.receipts) => d = e

\* Receipts and batches lie in the time since the last flush, or of their flush.
TimelyIn(started, recs, entries) ==
  /\ started \in Nat
  /\ IsFiniteSet(recs) /\ \A r \in recs : r.at \in Nat /\ r.at >= started
  /\ \A e \in entries : Valid(e)

\* All this of one journal, and it holds of what is in memory and of what is on disk.
KeptIn(j) ==
  /\ j = [started |-> j.started, receipts |-> j.receipts, entries |-> j.entries]
  /\ NumberedAs(j.entries) /\ OfferedOnce(j.entries)
  /\ PlacedIn(j.receipts, j.entries) /\ TimelyIn(j.started, j.receipts, j.entries)

ReceiptsInv ==
  /\ KeptIn(journal) /\ KeptIn(disk) /\ Flushing(journal.entries)
  /\ DOMAIN test = Test /\ clock \in Nat

\* What has as many members as it is made from.
LEMMA ImageSize ==
  ASSUME NEW S, IsFiniteSet(S), NEW f, \A x, y \in S : f[x] = f[y] => x = y
  PROVE  IsFiniteSet({f[x] : x \in S}) /\ Cardinality({f[x] : x \in S}) = Cardinality(S)
<1> DEFINE T == {f[x] : x \in S}  g == [x \in S |-> f[x]]
<1>1. g \in Bijection(S, T)
  BY DEF Bijection, Injection, IsInjective, Surjection
<1>2. ExistsBijection(S, T)
  BY <1>1 DEF ExistsBijection
<1> HIDE DEF T
<1>3. IsFiniteSet(T) /\ Cardinality(T) = Cardinality(S)
  BY <1>2, FS_Bijection
<1> QED
  BY <1>3 DEF T

\* A finite set can be numbered from any number on.
LEMMA Numbering ==
  ASSUME NEW M, IsFiniteSet(M), NEW k \in Nat
  PROVE  /\ Cardinality(M) \in Nat
         /\ \E f \in [M -> k + 1..k + Cardinality(M)] : \A x, y \in M : f[x] = f[y] => x = y
<1>1. Cardinality(M) \in Nat /\ ExistsBijection(1..Cardinality(M), M)
  BY FS_CardinalityType
<1> DEFINE size == Cardinality(M)
<1>2. PICK g \in Bijection(1..size, M) : TRUE
  BY <1>1 DEF ExistsBijection
<1>3. g \in [1..size -> M] /\ \A m \in M : \E i \in 1..size : g[i] = m
  BY <1>2 DEF Bijection, Injection, Surjection
<1> DEFINE place(m) == CHOOSE i \in 1..size : g[i] = m
           f == [m \in M |-> k + place(m)]
<1>4. \A m \in M : place(m) \in 1..size /\ g[place(m)] = m
  BY <1>3
<1> HIDE DEF place, size
<1>5. size \in Nat
  BY <1>1 DEF size
<1>6. f \in [M -> k + 1..k + size]
  BY <1>4, <1>5
<1>7. ASSUME NEW x \in M, NEW y \in M, f[x] = f[y] PROVE x = y
  <2>1. place(x) = place(y)
    BY <1>4, <1>5, <1>7
  <2> QED
    BY <1>4, <2>1
<1> QED
  BY <1>1, <1>6, <1>7 DEF size

MarkedIn(entries, n, s) == {IF e.n = n THEN [e EXCEPT !.state = s] ELSE e : e \in entries}

\* Marked: the state of one batch, and nothing else of any.
LEMMA MarkedEntries ==
  ASSUME NEW entries, NumberedAs(entries), NEW n, NEW s, NEW marked,
         marked = MarkedIn(entries, n, s)
  PROVE  /\ NumberedAs(marked) /\ Cardinality(marked) = Cardinality(entries)
         /\ \A m \in marked : \E e \in entries :
              /\ m.n = e.n /\ m.model = e.model /\ m.from = e.from /\ m.upto = e.upto /\ m.receipts = e.receipts
              /\ m.state = IF e.n = n THEN s ELSE e.state
         /\ \A e \in entries : \E m \in marked : m.receipts = e.receipts
<1> DEFINE f == [e \in entries |-> IF e.n = n THEN [e EXCEPT !.state = s] ELSE e]
<1>1. \A e \in entries :
        /\ EntryShaped(f[e])
        /\ f[e].n = e.n /\ f[e].model = e.model /\ f[e].from = e.from /\ f[e].upto = e.upto
        /\ f[e].receipts = e.receipts /\ f[e].state = IF e.n = n THEN s ELSE e.state
  BY DEF NumberedAs, EntryShaped, EntryFields
<1>2. marked = {f[e] : e \in entries}
  BY DEF MarkedIn
<1> HIDE DEF f
<1>3. \A d, e \in entries : f[d] = f[e] => d = e
  BY <1>1 DEF NumberedAs
<1>4. IsFiniteSet(marked) /\ Cardinality(marked) = Cardinality(entries)
  BY <1>2, <1>3, ImageSize DEF NumberedAs
<1>5. NumberedAs(marked)
  <2>1. \A m \in marked : EntryShaped(m) /\ m.n \in 1..Cardinality(marked)
    BY <1>1, <1>2, <1>4 DEF NumberedAs
  <2>2. ASSUME NEW d \in marked, NEW e \in marked, d.n = e.n PROVE d = e
    <3>1. PICK x \in entries, y \in entries : d = f[x] /\ e = f[y]
      BY <1>2
    <3> QED
      BY <1>1, <2>2, <3>1 DEF NumberedAs
  <2> QED
    BY <1>4, <2>1, <2>2 DEF NumberedAs
<1> QED
  BY <1>1, <1>2, <1>4, <1>5

\* Tests that are over stay so.
TestsGoOn == DOMAIN test' = Test /\ \A t \in Test : test[t] = "ended" => test'[t] = "ended"

\* A step that leaves a journal, and what was handed out and offered, alone.
LEMMA KeptStill ==
  ASSUME NEW j, KeptIn(j), UNCHANGED <<handed, offers>>, TestsGoOn
  PROVE  KeptIn(j)'
<1>1. NumberedAs(j.entries)'
  BY DEF KeptIn, NumberedAs, EntryShaped
<1>2. OfferedOnce(j.entries)'
  BY DEF KeptIn, OfferedOnce
<1>3. PlacedIn(j.receipts, j.entries)'
  BY DEF KeptIn, PlacedIn, Over, TestsGoOn
<1>4. TimelyIn(j.started, j.receipts, j.entries)'
  BY DEF KeptIn, TimelyIn, Valid
<1> QED
  BY <1>1, <1>2, <1>3, <1>4 DEF KeptIn

\* What is so of one journal is so of another with the same contents.
LEMMA KeptSame ==
  ASSUME NEW j, KeptIn(j)'
  PROVE  (disk' = j => KeptIn(disk)') /\ (journal' = j => KeptIn(journal)')
BY DEF KeptIn, NumberedAs, EntryShaped, OfferedOnce, PlacedIn, Over, TimelyIn, Valid

\* save: what is on disk is the journal of memory, or what it was.
LEMMA SavedKeeps ==
  ASSUME ReceiptsInv, TestsGoOn, clock' \in Nat, Flushing(journal.entries)',
         NEW j, journal' = j, KeptIn(j)',
         disk' = j \/ (disk' = disk /\ UNCHANGED <<handed, offers>>)
  PROVE  ReceiptsInv'
<1>1. PICK d : d = disk
  OBVIOUS
<1>2. KeptIn(d)
  BY <1>1 DEF ReceiptsInv, KeptIn, NumberedAs, EntryShaped, OfferedOnce, PlacedIn, Over, TimelyIn, Valid
<1>3. KeptIn(disk)'
  <2>1. CASE disk' = j
    BY <2>1, KeptSame
  <2>2. CASE disk' = disk /\ UNCHANGED <<handed, offers>>
    <3>1. KeptIn(d)'
      BY <1>2, <2>2, KeptStill
    <3> QED
      BY <1>1, <2>2, <3>1, KeptSame
  <2> QED
    BY <2>1, <2>2
<1> QED
  BY <1>3, KeptSame DEF ReceiptsInv, TestsGoOn

\* A step that leaves the journal and what was handed out alone.
LEMMA JournalQuiet ==
  ASSUME ReceiptsInv, UNCHANGED <<journal, disk, handed, offers>>, clock' \in Nat,
         flush' \subseteq flush, TestsGoOn
  PROVE  ReceiptsInv'
<1>1. PICK j : j = journal
  OBVIOUS
<1>2. KeptIn(j)
  BY <1>1 DEF ReceiptsInv, KeptIn, NumberedAs, EntryShaped, OfferedOnce, PlacedIn, Over, TimelyIn, Valid
<1>3. KeptIn(j)'
  BY <1>2, KeptStill
<1>4. Flushing(journal.entries)'
  BY DEF ReceiptsInv, Flushing
<1> QED
  BY <1>1, <1>3, <1>4, SavedKeeps

\* completed: the receipt of a test that ends is new to the journal and to all batches.
LEMMA AnswerKeeps ==
  ASSUME ReceiptsInv, NEW t \in Test, NEW whole, Answer(t, whole)
  PROVE  ReceiptsInv'
<1>1. test[t] = "running" /\ test' = [test EXCEPT ![t] = "ended"] /\ UNCHANGED <<clock, flush, offers>>
  BY DEF Answer
<1>2. TestsGoOn /\ test'[t] = "ended" /\ clock' \in Nat
  BY <1>1 DEF ReceiptsInv, TestsGoOn
<1>3. CASE UNCHANGED <<journal, disk, handed>>
  BY <1>1, <1>2, <1>3, JournalQuiet
<1>4. CASE /\ recordable(journal) /\ journal' = [journal EXCEPT !.receipts = @ \cup {Receipt(t)}]
           /\ \/ disk' = journal' /\ handed' = handed \cup {Receipt(t)}
              \/ UNCHANGED <<disk, handed>>
  <2> PICK r : r = Receipt(t)
    OBVIOUS
  <2> PICK recs : recs = journal.receipts
    OBVIOUS
  <2> PICK entries : entries = journal.entries
    OBVIOUS
  <2> PICK started : started = journal.started
    OBVIOUS
  <2>1. r.of = t /\ r.at = clock
    BY DEF Receipt
  <2>2. clock >= started
    BY <1>4 DEF recordable
  <2>3. NumberedAs(entries) /\ OfferedOnce(entries) /\ Flushing(entries)
    BY DEF ReceiptsInv, KeptIn, NumberedAs, EntryShaped, OfferedOnce, Flushing
  <2>4. PlacedIn(recs, entries) /\ TimelyIn(started, recs, entries)
    BY DEF ReceiptsInv, KeptIn, PlacedIn, Over, TimelyIn, Valid
  <2>5. ~Over(r)
    BY <1>1, <2>1 DEF Over
  <2> DEFINE j == [started |-> started, receipts |-> recs \cup {r}, entries |-> entries]
  <2>6. journal' = j
    BY <1>4 DEF ReceiptsInv, KeptIn
  <2>7. handed' \subseteq handed \cup {r}
    BY <1>4
  <2>8. NumberedAs(entries)' /\ OfferedOnce(entries)'
    BY <1>1, <2>3 DEF NumberedAs, OfferedOnce, EntryShaped
  <2>9. PlacedIn(recs \cup {r}, entries)'
    <3>1. \A x \in recs \cup {r} : Over(x)'
      BY <1>2, <2>1, <2>4 DEF PlacedIn, Over, TestsGoOn
    <3>2. \A x \in handed' : x \in recs \cup {r} \/ \E e \in entries : x \in e.receipts
      BY <2>4, <2>7 DEF PlacedIn
    <3>3. \A e \in entries : \A x \in e.receipts : x \notin recs \cup {r} /\ Over(x)'
      BY <1>2, <2>4, <2>5 DEF PlacedIn, Over, TestsGoOn
    <3> QED
      BY <2>4, <3>1, <3>2, <3>3 DEF PlacedIn
  <2>10. TimelyIn(started, recs \cup {r}, entries)'
    <3>1. IsFiniteSet(recs \cup {r})
      BY <2>4, FS_AddElement DEF TimelyIn
    <3> QED
      BY <2>1, <2>2, <2>4, <3>1 DEF TimelyIn, Valid, ReceiptsInv
  <2>11. KeptIn(j)'
    BY <2>8, <2>9, <2>10 DEF KeptIn
  <2>12. Flushing(journal.entries)'
    <3>1. journal'.entries = entries
      BY <2>6
    <3> QED
      BY <1>1, <2>3, <3>1 DEF Flushing
  <2>13. disk' = j \/ (disk' = disk /\ UNCHANGED <<handed, offers>>)
    BY <1>1, <1>4, <2>6
  <2> HIDE DEF j
  <2> QED
    BY <1>2, <2>6, <2>11, <2>12, <2>13, SavedKeeps
<1> QED
  BY <1>3, <1>4 DEF Answer, completed, save

\* A batch is given to the ledger, or the ledger answers: only its state changes.
LEMMA MarkKeeps ==
  ASSUME ReceiptsInv, NEW n, NEW s, journal' = Marked(journal, n, s),
         disk' = journal' \/ (disk' = disk /\ UNCHANGED offers),
         UNCHANGED <<test, clock, handed>>,
         \A e \in journal.entries : LET z == IF e.n = n THEN s ELSE e.state IN
            /\ offers'[e.n] <= 1 /\ (z = "pending" => offers'[e.n] = 0)
            /\ e.n \in flush' => z \in {"pending", "submitting"},
         flush' \subseteq flush, offers' \in [1..MaxEntries -> Nat],
         \A m \in 1..MaxEntries : m > Cardinality(journal.entries) => offers'[m] = offers[m]
  PROVE  ReceiptsInv'
<1> PICK recs : recs = journal.receipts
  OBVIOUS
<1> PICK entries : entries = journal.entries
  OBVIOUS
<1> PICK started : started = journal.started
  OBVIOUS
<1> PICK kept : kept = MarkedIn(entries, n, s)
  OBVIOUS
<1> DEFINE j == [started |-> started, receipts |-> recs, entries |-> kept]
<1>1. journal' = j
  <2>1. journal = [started |-> started, receipts |-> recs, entries |-> entries]
    BY DEF ReceiptsInv, KeptIn
  <2> QED
    BY <2>1 DEF Marked, MarkedIn
<1>2. NumberedAs(entries)
  BY DEF ReceiptsInv, KeptIn, NumberedAs, EntryShaped
<1>3. OfferedOnce(entries) /\ Flushing(entries)
  BY DEF ReceiptsInv, KeptIn, OfferedOnce, Flushing
<1>4. PlacedIn(recs, entries) /\ TimelyIn(started, recs, entries)
  BY DEF ReceiptsInv, KeptIn, PlacedIn, Over, TimelyIn, Valid
<1>5. /\ NumberedAs(kept) /\ Cardinality(kept) = Cardinality(entries)
      /\ \A m \in kept : \E e \in entries :
           /\ m.n = e.n /\ m.model = e.model /\ m.from = e.from /\ m.upto = e.upto /\ m.receipts = e.receipts
           /\ m.state = IF e.n = n THEN s ELSE e.state
      /\ \A e \in entries : \E m \in kept : m.receipts = e.receipts
  BY <1>2, MarkedEntries
<1>6. NumberedAs(kept)'
  BY <1>5 DEF NumberedAs, EntryShaped
<1>7. \A m \in kept : /\ offers'[m.n] <= 1 /\ (m.state = "pending" => offers'[m.n] = 0)
                      /\ m.n \in flush' => m.state \in {"pending", "submitting"}
  <2> SUFFICES ASSUME NEW m \in kept
               PROVE  /\ offers'[m.n] <= 1 /\ (m.state = "pending" => offers'[m.n] = 0)
                      /\ m.n \in flush' => m.state \in {"pending", "submitting"}
    OBVIOUS
  <2>1. PICK e \in entries : m.n = e.n /\ m.state = IF e.n = n THEN s ELSE e.state
    BY <1>5
  <2> QED
    BY <2>1
<1>8. OfferedOnce(kept)'
  <2>1. \A m \in 1..MaxEntries : m > Cardinality(kept) => offers'[m] = 0
    BY <1>3, <1>5 DEF OfferedOnce
  <2> QED
    BY <1>7, <2>1 DEF OfferedOnce
<1>9. Flushing(journal.entries)'
  <2>1. \A m \in flush' : m \in 1..Cardinality(kept)
    BY <1>3, <1>5 DEF Flushing
  <2>2. journal'.entries = kept
    BY <1>1
  <2> QED
    BY <1>7, <2>1, <2>2 DEF Flushing
<1>10. PlacedIn(recs, kept)'
  <2>1. \A m \in kept : \E e \in entries : m.receipts = e.receipts /\ m.n = e.n
    BY <1>5
  <2>2. \A d, e \in kept : (\E r \in d.receipts : r \in e.receipts) => d = e
    <3> SUFFICES ASSUME NEW d \in kept, NEW e \in kept, \E r \in d.receipts : r \in e.receipts PROVE d = e
      OBVIOUS
    <3>1. PICK x \in entries, y \in entries : d.receipts = x.receipts /\ d.n = x.n /\ e.receipts = y.receipts /\ e.n = y.n
      BY <2>1
    <3>2. x = y
      BY <1>4, <3>1 DEF PlacedIn
    <3> QED
      BY <1>5, <3>1, <3>2 DEF NumberedAs
  <2>3. \A e \in kept : \A r \in e.receipts : r \notin recs /\ Over(r)
    BY <1>4, <2>1 DEF PlacedIn
  <2>4. \A r \in handed : r \in recs \/ \E e \in kept : r \in e.receipts
    BY <1>4, <1>5 DEF PlacedIn
  <2> QED
    BY <1>4, <2>2, <2>3, <2>4 DEF PlacedIn, Over
<1>11. TimelyIn(started, recs, kept)'
  <2>1. \A m \in kept : Valid(m)
    <3> SUFFICES ASSUME NEW m \in kept PROVE Valid(m)
      OBVIOUS
    <3>1. PICK e \in entries : m.model = e.model /\ m.from = e.from /\ m.upto = e.upto /\ m.receipts = e.receipts
      BY <1>5
    <3> QED
      BY <1>4, <3>1 DEF TimelyIn, Valid
  <2> QED
    BY <1>4, <2>1 DEF TimelyIn, Valid
<1>12. KeptIn(j)'
  BY <1>6, <1>8, <1>10, <1>11 DEF KeptIn
<1>13. disk' = j \/ (disk' = disk /\ UNCHANGED <<handed, offers>>)
  BY <1>1
<1>14. TestsGoOn /\ clock' \in Nat
  BY DEF ReceiptsInv, TestsGoOn
<1> HIDE DEF j
<1> QED
  BY <1>1, <1>9, <1>12, <1>13, <1>14, SavedKeeps

\* submit: the batch that goes to the ledger waited, and goes once; a batch that could not
\* be saved as on its way does not go.
LEMMA SubmitKeeps ==
  ASSUME ReceiptsInv, NEW n \in 1..MaxEntries, Submit(n)
  PROVE  ReceiptsInv'
<1> DEFINE entries == journal.entries
<1>1. NumberedAs(entries) /\ OfferedOnce(entries) /\ Flushing(entries) /\ MaxEntries \in Nat
  BY LiveBounds DEF ReceiptsInv, KeptIn
<1>2. /\ journal' = Marked(journal, n, "submitting") /\ n \in flush /\ ~InFlight
      /\ UNCHANGED <<test, clock, handed>> /\ flush' \subseteq flush
      /\ \/ disk' = journal' /\ offers' = [offers EXCEPT ![n] = @ + 1]
         \/ disk' = disk /\ offers' = offers /\ flush' = {}
  BY DEF Submit, save
<1> HIDE DEF entries
<1>3. /\ offers' \in [1..MaxEntries -> Nat] /\ n \in 1..Cardinality(entries)
      /\ \A m \in 1..MaxEntries : m # n => offers'[m] = offers[m]
      /\ offers'[n] = offers[n] + 1 \/ offers'[n] = offers[n]
  BY <1>1, <1>2 DEF OfferedOnce, Flushing
<1>4. Cardinality(entries) \in Nat /\ Cardinality(entries) <= MaxEntries
  BY <1>1, FS_CardinalityType DEF NumberedAs
<1>5. \A m \in 1..MaxEntries : m > Cardinality(entries) => offers'[m] = offers[m]
  BY <1>3, <1>4
<1>6. ASSUME NEW e \in entries
      PROVE  LET z == IF e.n = n THEN "submitting" ELSE e.state IN
               /\ offers'[e.n] <= 1 /\ (z = "pending" => offers'[e.n] = 0)
               /\ e.n \in flush' => z \in {"pending", "submitting"}
  <2>1. e.n \in 1..MaxEntries
    BY <1>1, <1>4 DEF NumberedAs
  <2>2. CASE e.n = n
    <3>1. e.state = "pending"
      BY <1>1, <1>2, <2>2 DEF Flushing, InFlight, entries
    <3>2. offers[n] = 0
      BY <1>1, <2>2, <3>1 DEF OfferedOnce
    <3> QED
      BY <1>3, <2>1, <2>2, <3>2
  <2>3. CASE e.n # n
    <3>1. offers'[e.n] = offers[e.n]
      BY <1>3, <2>1, <2>3
    <3> QED
      BY <1>1, <1>2, <2>3, <3>1 DEF OfferedOnce, Flushing
  <2> QED
    BY <2>2, <2>3
<1>7. disk' = journal' \/ (disk' = disk /\ UNCHANGED offers)
  BY <1>2
<1>8. PICK s : s = "submitting"
  OBVIOUS
<1> QED
  BY <1>2, <1>3, <1>5, <1>6, <1>7, <1>8, MarkKeeps DEF entries

\* The ledger answers, or does not: the batch is done with.
LEMMA LedgerKeeps ==
  ASSUME ReceiptsInv, NEW n \in 1..MaxEntries, NEW ok \in BOOLEAN, LedgerAnswers(n, ok)
  PROVE  ReceiptsInv'
<1> DEFINE entries == journal.entries
<1>1. NumberedAs(entries) /\ OfferedOnce(entries) /\ Flushing(entries)
  BY DEF ReceiptsInv, KeptIn
<1>2. PICK s : s = IF ok THEN "submitted" ELSE "unconfirmed"
  OBVIOUS
<1>3. /\ journal' = Marked(journal, n, s) /\ (disk' = journal' \/ disk' = disk)
      /\ flush' \subseteq flush \ {n}
      /\ UNCHANGED <<test, clock, handed, offers>>
      /\ \E e \in entries : e.n = n /\ e.state = "submitting"
  BY <1>2 DEF LedgerAnswers, save
<1>4. ASSUME NEW e \in entries
      PROVE  LET z == IF e.n = n THEN s ELSE e.state IN
               /\ offers'[e.n] <= 1 /\ (z = "pending" => offers'[e.n] = 0)
               /\ e.n \in flush' => z \in {"pending", "submitting"}
  <2>1. offers[e.n] <= 1 /\ (e.state = "pending" => offers[e.n] = 0) /\ (e.n \in flush => e.state \in {"pending", "submitting"})
    BY <1>1 DEF OfferedOnce, Flushing
  <2>2. CASE e.n = n
    BY <1>2, <1>3, <2>1, <2>2
  <2>3. CASE e.n # n
    BY <1>3, <2>1, <2>3
  <2> QED
    BY <2>2, <2>3
<1>5. flush' \subseteq flush /\ offers' \in [1..MaxEntries -> Nat] /\ \A m \in 1..MaxEntries : offers'[m] = offers[m]
  BY <1>1, <1>3 DEF OfferedOnce
<1>6. disk' = journal' \/ (disk' = disk /\ UNCHANGED offers)
  BY <1>3
<1> QED
  BY <1>3, <1>4, <1>5, <1>6, MarkKeeps

\* The batches of a flush: one per model, numbered on, each with the receipts of its model.
LEMMA FlushEntries ==
  ASSUME NumberedAs(journal.entries), IsFiniteSet(journal.receipts),
         Cardinality(journal.entries) + Cardinality({r.model : r \in journal.receipts}) <= MaxEntries
  PROVE  /\ NumberedAs(journal.entries \cup NewEntries)
         /\ Cardinality(journal.entries) \in Nat
         /\ Cardinality(journal.entries \cup NewEntries) \in Nat
         /\ Cardinality(journal.entries) <= Cardinality(journal.entries \cup NewEntries)
         /\ \A e \in NewEntries :
              /\ e.n > Cardinality(journal.entries) /\ e.n \in 1..Cardinality(journal.entries \cup NewEntries)
              /\ e.from = journal.started /\ e.upto = clock /\ e.state = "pending"
              /\ e.receipts = {r \in journal.receipts : r.model = e.model}
         /\ \A r \in journal.receipts : \E e \in NewEntries : e.model = r.model
         /\ \A d, e \in NewEntries : d.model = e.model => d = e
<1> DEFINE recs == journal.receipts  entries == journal.entries  first == Cardinality(entries)
           models == {r.model : r \in recs}
           number == CHOOSE f \in [models -> first + 1..first + Cardinality(models)] :
                       \A m1, m2 \in models : f[m1] = f[m2] => m1 = m2
           f == [m \in models |-> Entry(m, number[m])]
<1>1. first \in Nat
  BY FS_CardinalityType DEF NumberedAs
<1>2. IsFiniteSet(models)
  <2> DEFINE modelOf == [r \in recs |-> r.model]
  <2>1. modelOf \in Surjection(recs, models)
    BY DEF Surjection
  <2> QED
    BY <2>1, FS_Surjection
<1>3. NewEntries = {f[m] : m \in models}
  BY DEF NewEntries
<1> HIDE DEF models
<1>4. /\ Cardinality(models) \in Nat
      /\ number \in [models -> first + 1..first + Cardinality(models)]
      /\ \A m1, m2 \in models : number[m1] = number[m2] => m1 = m2
  BY <1>1, <1>2, Numbering
<1> HIDE DEF number, first
<1>5. \A m \in models :
        /\ EntryShaped(f[m]) /\ f[m].n = number[m] /\ f[m].model = m /\ f[m].from = journal.started
        /\ f[m].upto = clock /\ f[m].state = "pending" /\ f[m].receipts = {r \in recs : r.model = m}
  BY DEF Entry, EntryShaped, EntryFields
<1> HIDE DEF f
<1>6. \A k, m \in models : f[k] = f[m] => k = m
  BY <1>5
<1>7. IsFiniteSet(NewEntries) /\ Cardinality(NewEntries) = Cardinality(models)
  BY <1>2, <1>3, <1>6, ImageSize
<1>8. \A m \in models : number[m] \in Nat /\ number[m] > first /\ number[m] <= first + Cardinality(models)
  BY <1>1, <1>4
<1>9. \A e \in entries : e.n <= first
  BY <1>1 DEF NumberedAs, first
<1>10. entries \cap NewEntries = {}
  BY <1>1, <1>3, <1>5, <1>8, <1>9
<1>11. IsFiniteSet(entries \cup NewEntries) /\ Cardinality(entries \cup NewEntries) = first + Cardinality(models)
  <2>1. IsFiniteSet(entries)
    BY DEF NumberedAs
  <2>2. /\ IsFiniteSet(entries \cup NewEntries)
        /\ Cardinality(entries \cup NewEntries) = Cardinality(entries) + Cardinality(NewEntries) - Cardinality(entries \cap NewEntries)
    BY <1>7, <2>1, FS_Union
  <2>3. Cardinality(entries \cap NewEntries) = 0
    BY <1>10, FS_EmptySet
  <2>4. Cardinality(entries) = first
    BY DEF first
  <2> HIDE DEF entries
  <2> QED
    BY <1>1, <1>4, <1>7, <2>2, <2>3, <2>4
<1>12. ASSUME NEW d \in entries \cup NewEntries, NEW e \in entries \cup NewEntries, d.n = e.n PROVE d = e
  <2>1. CASE d \in entries /\ e \in entries
    BY <1>12, <2>1 DEF NumberedAs
  <2>2. CASE d \in NewEntries /\ e \in NewEntries
    <3>1. PICK k \in models, m \in models : d = f[k] /\ e = f[m]
      BY <1>3, <2>2
    <3> QED
      BY <1>4, <1>5, <1>12, <3>1
  <2>3. \A x \in NewEntries : x.n \in Nat /\ x.n > first
    BY <1>3, <1>5, <1>8
  <2>4. \A x \in entries : x.n \in Nat /\ x.n <= first
    BY <1>1, <1>9 DEF NumberedAs, first
  <2> QED
    BY <1>1, <1>12, <2>1, <2>2, <2>3, <2>4
<1>13. \A e \in NewEntries : /\ EntryShaped(e) /\ e.n \in 1..first + Cardinality(models) /\ e.n > first
                             /\ e.from = journal.started /\ e.upto = clock /\ e.state = "pending"
                             /\ e.receipts = {r \in recs : r.model = e.model}
  BY <1>1, <1>3, <1>4, <1>5, <1>8
<1>14. NumberedAs(entries \cup NewEntries)
  <2>1. \A e \in entries : EntryShaped(e) /\ e.n \in 1..first + Cardinality(models)
    BY <1>1, <1>4 DEF NumberedAs, first
  <2>2. first + Cardinality(models) <= MaxEntries
    BY DEF first, models
  <2> QED
    BY <1>11, <1>12, <1>13, <2>1, <2>2 DEF NumberedAs
<1>15. \A r \in recs : \E e \in NewEntries : e.model = r.model
  <2> SUFFICES ASSUME NEW r \in recs PROVE \E e \in NewEntries : e.model = r.model
    OBVIOUS
  <2>1. r.model \in models
    BY DEF models
  <2> QED
    BY <1>3, <1>5, <2>1
<1>16. \A d, e \in NewEntries : d.model = e.model => d = e
  BY <1>3, <1>5
<1>17. first = Cardinality(entries) /\ first <= first + Cardinality(models) /\ first + Cardinality(models) \in Nat
  BY <1>1, <1>4 DEF first
<1>18. \A e \in NewEntries :
         /\ e.n > Cardinality(entries) /\ e.n \in 1..Cardinality(entries \cup NewEntries)
         /\ e.from = journal.started /\ e.upto = clock /\ e.state = "pending"
         /\ e.receipts = {r \in recs : r.model = e.model}
  BY <1>11, <1>13, <1>17
<1> QED
  BY <1>1, <1>11, <1>14, <1>15, <1>16, <1>17, <1>18

\* submit: the receipts of the journal move into the batches, each into one.
LEMMA FlushKeeps ==
  ASSUME ReceiptsInv, StartFlush
  PROVE  ReceiptsInv'
<1>1. /\ clock > journal.started /\ \A r \in journal.receipts : r.at <= clock
      /\ Cardinality(journal.entries) + Cardinality({r.model : r \in journal.receipts}) <= MaxEntries
      /\ flush' \subseteq {e.n : e \in NewEntries} /\ UNCHANGED <<test, clock, handed, offers>>
      /\ disk' = journal' \/ disk' = disk
      /\ journal' = [started |-> clock, receipts |-> {}, entries |-> journal.entries \cup NewEntries]
  BY DEF StartFlush, save, Rest
<1> PICK recs : recs = journal.receipts
  OBVIOUS
<1> PICK entries : entries = journal.entries
  OBVIOUS
<1> PICK started : started = journal.started
  OBVIOUS
<1> PICK new : new = NewEntries
  OBVIOUS
<1> PICK now : now = clock
  OBVIOUS
<1> PICK after : after = entries \cup new
  OBVIOUS
<1> DEFINE j == [started |-> now, receipts |-> {}, entries |-> after]
<1>2. NumberedAs(entries) /\ OfferedOnce(entries)
  BY DEF ReceiptsInv, KeptIn, NumberedAs, EntryShaped, OfferedOnce
<1>3. PlacedIn(recs, entries) /\ TimelyIn(started, recs, entries) /\ now \in Nat
  BY DEF ReceiptsInv, KeptIn, PlacedIn, Over, TimelyIn, Valid
<1>4. /\ NumberedAs(after) /\ Cardinality(entries) \in Nat /\ Cardinality(after) \in Nat
      /\ Cardinality(entries) <= Cardinality(after)
      /\ \A e \in new :
           /\ e.n > Cardinality(entries) /\ e.n \in 1..Cardinality(after)
           /\ e.from = started /\ e.upto = now /\ e.state = "pending"
           /\ e.receipts = {r \in recs : r.model = e.model}
      /\ \A r \in recs : \E e \in new : e.model = r.model
      /\ \A d, e \in new : d.model = e.model => d = e
  <2>1. NumberedAs(journal.entries) /\ IsFiniteSet(journal.receipts)
    BY DEF ReceiptsInv, KeptIn, TimelyIn
  <2> QED
    BY <1>1, <2>1, FlushEntries
<1>5. journal' = j
  BY <1>1
<1>6. \A e \in after : e \in entries \/ e \in new
  OBVIOUS
<1>7. (\A e \in entries : e \in after) /\ (\A e \in new : e \in after)
  OBVIOUS
<1>8. NumberedAs(after)'
  BY <1>4 DEF NumberedAs, EntryShaped
<1>9. ASSUME NEW e \in entries
      PROVE  offers'[e.n] <= 1 /\ (e.state = "pending" => offers'[e.n] = 0) /\ e.n \notin flush'
  <2>1. e.n \in Nat /\ e.n <= Cardinality(entries)
    BY <1>2, <1>4 DEF NumberedAs
  <2>2. e.n \notin flush'
    BY <1>1, <1>4, <2>1
  <2> QED
    BY <1>1, <1>2, <2>2 DEF OfferedOnce
<1>10. ASSUME NEW e \in new PROVE offers'[e.n] = 0 /\ e.state = "pending"
  <2>1. Cardinality(after) <= MaxEntries /\ MaxEntries \in Nat
    BY <1>4, LiveBounds DEF NumberedAs
  <2>2. e.n > Cardinality(entries) /\ e.n \in 1..Cardinality(after) /\ e.state = "pending"
    BY <1>4
  <2>3. e.n \in 1..MaxEntries
    BY <1>4, <2>1, <2>2
  <2> QED
    BY <1>1, <1>2, <2>2, <2>3 DEF OfferedOnce
<1>11. OfferedOnce(after)'
  <2>1. \A m \in 1..MaxEntries : m > Cardinality(after) => offers'[m] = 0
    BY <1>1, <1>2, <1>4 DEF OfferedOnce
  <2>2. \A e \in after : offers'[e.n] <= 1 /\ (e.state = "pending" => offers'[e.n] = 0)
    BY <1>6, <1>9, <1>10
  <2> QED
    BY <1>1, <1>2, <2>1, <2>2 DEF OfferedOnce
<1>12. Flushing(journal.entries)'
  <2>1. \A e \in after : e.n \in flush' => e.state \in {"pending", "submitting"}
    BY <1>6, <1>9, <1>10
  <2>2. ASSUME NEW m \in flush' PROVE m \in 1..Cardinality(after)
    <3>1. m \in {e.n : e \in new}
      BY <1>1
    <3>2. PICK e \in new : m = e.n
      BY <3>1
    <3> QED
      BY <1>4, <3>2
  <2>3. journal'.entries = after
    BY <1>5
  <2> QED
    BY <2>1, <2>2, <2>3 DEF Flushing
<1>13. PlacedIn({}, after)'
  <2>1. \A r \in handed : \E e \in after : r \in e.receipts
    <3> SUFFICES ASSUME NEW r \in handed PROVE \E e \in after : r \in e.receipts
      OBVIOUS
    <3>1. CASE r \in recs
      <4>1. PICK e \in new : e.model = r.model
        BY <1>4, <3>1
      <4> QED
        BY <1>4, <1>7, <3>1, <4>1
    <3>2. CASE r \notin recs
      BY <1>3, <1>7, <3>2 DEF PlacedIn
    <3> QED
      BY <3>1, <3>2
  <2>2. \A e \in new : \A r \in e.receipts : r \in recs /\ Over(r) /\ r.model = e.model
    BY <1>3, <1>4 DEF PlacedIn
  <2>3. \A e \in entries : \A r \in e.receipts : r \notin recs /\ Over(r)
    BY <1>3 DEF PlacedIn
  <2>4. ASSUME NEW d \in after, NEW e \in after, NEW r \in d.receipts, r \in e.receipts PROVE d = e
    <3>1. CASE d \in entries /\ e \in entries
      BY <1>3, <2>4, <3>1 DEF PlacedIn
    <3>2. CASE d \in new /\ e \in new
      BY <1>4, <2>2, <2>4, <3>2
    <3> QED
      BY <1>6, <2>2, <2>3, <2>4, <3>1, <3>2
  <2>5. \A e \in after : \A r \in e.receipts : Over(r)
    BY <1>6, <2>2, <2>3
  <2> QED
    BY <1>1, <2>1, <2>4, <2>5 DEF PlacedIn, Over
<1>14. TimelyIn(now, {}, after)'
  <2>1. \A e \in new : Valid(e)
    <3> SUFFICES ASSUME NEW e \in new, NEW r \in e.receipts PROVE r.model = e.model /\ r.at \in e.from..e.upto
      BY DEF Valid
    <3>1. r \in recs /\ r.model = e.model /\ e.from = started /\ e.upto = now
      BY <1>4
    <3>2. r.at \in Nat /\ r.at >= started /\ r.at <= now /\ now \in Nat /\ started \in Nat
      BY <1>1, <1>3, <3>1 DEF TimelyIn
    <3> QED
      BY <3>1, <3>2
  <2>2. \A e \in after : Valid(e)
    BY <1>3, <1>6, <2>1 DEF TimelyIn
  <2>3. IsFiniteSet({})
    BY FS_EmptySet
  <2> QED
    BY <1>3, <2>2, <2>3 DEF TimelyIn, Valid
<1>15. KeptIn(j)'
  BY <1>8, <1>11, <1>13, <1>14 DEF KeptIn
<1>16. disk' = j \/ (disk' = disk /\ UNCHANGED <<handed, offers>>)
  BY <1>1, <1>5
<1>17. TestsGoOn /\ clock' \in Nat
  BY <1>1 DEF ReceiptsInv, TestsGoOn
<1> HIDE DEF j
<1> QED
  BY <1>5, <1>12, <1>15, <1>16, <1>17, SavedKeeps

LEMMA ReceiptsNext ==
  ASSUME ReceiptsInv, [LiveNext]_liveVars
  PROVE  ReceiptsInv'
<1>1. ASSUME UNCHANGED <<journal, disk, handed, flush, offers, clock>>,
             UNCHANGED test \/ \E t \in Test : \E s : test[t] # "ended" /\ test' = [test EXCEPT ![t] = s]
      PROVE  ReceiptsInv'
  <2>1. clock' \in Nat /\ flush' \subseteq flush
    BY <1>1 DEF ReceiptsInv
  <2>2. TestsGoOn
    <3>1. CASE UNCHANGED test
      BY <3>1 DEF ReceiptsInv, TestsGoOn
    <3>2. ASSUME NEW t \in Test, NEW s, test[t] # "ended", test' = [test EXCEPT ![t] = s]
          PROVE  TestsGoOn
      BY <3>2 DEF ReceiptsInv, TestsGoOn
    <3> QED
      BY <1>1, <3>1, <3>2
  <2> QED
    BY <1>1, <2>1, <2>2, JournalQuiet
<1>2. ASSUME NEW t \in Test, open(t) \/ Refuse(t) \/ Wait(t) \/ Abort(t) \/ coverIssues(t) PROVE ReceiptsInv'
  <2>1. UNCHANGED <<journal, disk, handed, flush, offers, clock>>
    BY <1>2 DEF open, Refuse, Wait, Abort, coverIssues, journalVars
  <2>2. UNCHANGED test \/ \E s : test[t] # "ended" /\ test' = [test EXCEPT ![t] = s]
    BY <1>2 DEF open, Refuse, Wait, Abort, coverIssues
  <2> QED
    BY <1>1, <2>1, <2>2
<1>3. ASSUME NEW t \in Test, TakeLock(t) PROVE ReceiptsInv'
  <2>1. UNCHANGED <<journal, disk, handed, flush, offers, clock>>
    BY <1>3 DEF TakeLock, journalVars
  <2>2. \E s : test[t] # "ended" /\ test' = [test EXCEPT ![t] = s]
    BY <1>3 DEF TakeLock
  <2> QED
    BY <1>1, <2>1, <2>2
<1>4. CASE (\E v \in Visitors, i \in Ids : cancel(v, i)) \/ (\E t \in Test, v \in Visitors, s \in BOOLEAN : MarkWrong(t, v, s))
           \/ UNCHANGED liveVars
  <2>1. UNCHANGED <<journal, disk, handed, flush, offers, clock>> /\ UNCHANGED test
    BY <1>4 DEF cancel, MarkWrong, journalVars, liveVars
  <2> QED
    BY <1>1, <2>1
<1>5. CASE ClockMoves
  <2>1. UNCHANGED <<journal, disk, handed, flush, offers, test>> /\ clock' \in Nat
    BY <1>5, LiveBounds DEF ClockMoves, journalVars
  <2>2. TestsGoOn
    BY <2>1 DEF ReceiptsInv, TestsGoOn
  <2> QED
    BY <2>1, <2>2, JournalQuiet
<1>6. CASE Restart
  <2>1. /\ UNCHANGED <<disk, handed, offers, clock>> /\ journal' = disk /\ flush' = {}
        /\ test' = [t \in Test |-> IF test[t] \in {"open", "waiting", "running"} THEN "lost" ELSE test[t]]
    BY <1>6 DEF Restart
  <2>2. TestsGoOn /\ clock' \in Nat
    BY <2>1 DEF ReceiptsInv, TestsGoOn
  <2>3. PICK d : d = disk
    OBVIOUS
  <2>4. KeptIn(d)
    BY <2>3 DEF ReceiptsInv, KeptIn, NumberedAs, EntryShaped, OfferedOnce, PlacedIn, Over, TimelyIn, Valid
  <2>5. KeptIn(d)'
    BY <2>1, <2>2, <2>4, KeptStill
  <2>6. Flushing(journal.entries)'
    BY <2>1 DEF Flushing
  <2> QED
    BY <2>1, <2>2, <2>3, <2>5, <2>6, SavedKeeps
<1> QED
  BY <1>2, <1>3, <1>4, <1>5, <1>6, AnswerKeeps, FlushKeeps, SubmitKeeps, LedgerKeeps DEF LiveNext

(* A receipt a visitor was given is on disk in exactly one place: in the journal, or in one
   batch of it.  A batch holds only receipts of its model and its time and goes to the
   ledger at most once, however flushes, answers, new receipts, saves that throw, clocks that
   are set back and restarts interleave (submit and completed, inference-records.ts 51-58, 104-143).    *)
THEOREM ReceiptsStay == LiveSpec => []ReceiptsAreKept
<1>1. LiveInit => ReceiptsInv
  <2> SUFFICES ASSUME LiveInit PROVE ReceiptsInv
    OBVIOUS
  <2>1. /\ journal.started = 1 /\ journal.receipts = {} /\ journal.entries = {} /\ disk = journal
        /\ journal = [started |-> 1, receipts |-> {}, entries |-> {}] /\ handed = {} /\ flush = {} /\ clock = 1 /\ offers = [n \in 1..MaxEntries |-> 0] /\ DOMAIN test = Test
    BY DEF LiveInit
  <2>2. IsFiniteSet({}) /\ Cardinality({}) = 0
    BY FS_EmptySet
  <2>3. NumberedAs(journal.entries)
    BY <2>1, <2>2, LiveBounds DEF NumberedAs
  <2>4. OfferedOnce(journal.entries)
    BY <2>1 DEF OfferedOnce
  <2>5. PlacedIn(journal.receipts, journal.entries)
    BY <2>1 DEF PlacedIn
  <2>6. TimelyIn(journal.started, journal.receipts, journal.entries)
    BY <2>1, <2>2 DEF TimelyIn
  <2>7. KeptIn(journal)
    BY <2>1, <2>3, <2>4, <2>5, <2>6 DEF KeptIn
  <2>8. KeptIn(disk) /\ Flushing(journal.entries)
    BY <2>1, <2>7 DEF Flushing
  <2> QED
    BY <2>1, <2>7, <2>8 DEF ReceiptsInv
<1>2. ReceiptsInv => ReceiptsAreKept
  <2> SUFFICES ASSUME ReceiptsInv PROVE ReceiptsAreKept
    OBVIOUS
  <2>1. /\ OfferedOnce(disk.entries) /\ PlacedIn(disk.receipts, disk.entries)
        /\ \A e \in disk.entries : Valid(e)
    BY DEF ReceiptsInv, KeptIn, TimelyIn
  <2>2. \A e \in disk.entries : Valid(e) /\ offers[e.n] <= 1 /\ (e.state = "pending" => offers[e.n] = 0)
    BY <2>1 DEF OfferedOnce
  <2>3. ASSUME NEW r \in handed
        PROVE  Cardinality({e \in disk.entries : r \in e.receipts}) + (IF r \in disk.receipts THEN 1 ELSE 0) = 1
    <3> DEFINE holders == {e \in disk.entries : r \in e.receipts}
    <3>1. CASE r \in disk.receipts
      <4>1. holders = {}
        BY <2>1, <3>1 DEF PlacedIn
      <4>2. Cardinality(holders) = 0
        BY <4>1, FS_EmptySet
      <4> QED
        BY <3>1, <4>2
    <3>2. CASE r \notin disk.receipts
      <4>1. PICK e \in disk.entries : r \in e.receipts
        BY <2>1, <2>3, <3>2 DEF PlacedIn
      <4>2. holders = {e}
        BY <2>1, <4>1 DEF PlacedIn
      <4>3. Cardinality(holders) = 1
        BY <4>2, FS_Singleton
      <4> QED
        BY <3>2, <4>3
    <3> QED
      BY <3>1, <3>2
  <2> QED
    BY <2>2, <2>3 DEF ReceiptsAreKept
<1> QED
  BY <1>1, <1>2, ReceiptsNext, PTL DEF LiveSpec

\* One row per person, and none in an organization that is not there.
Sound(org) ==
  /\ Shaped(org) /\ IsFiniteSet(org.members)
  /\ \A l, m \in org.members : l.who = m.who => l = m
  /\ ~org.on => org.members = {}
HasAdmin(org) == \E m \in org.members : m.role = admin
AdminStays == \A o \in Org : HasAdmin(oorg[o]) /\ oorg'[o].on => HasAdmin(oorg'[o])
OrgsSound == oorg = [o \in Org |-> oorg[o]] /\ \A o \in Org : Sound(oorg[o])

\* A change after which the record is sound and an admin is left, if there was one.
Keeps(org, after) == Sound(after) /\ after.on = org.on /\ (HasAdmin(org) => HasAdmin(after))

\* The last admin row: a second one is another person's.
LEMMA AnotherAdmin ==
  ASSUME NEW org, Sound(org), adminCount(org) > 1, NEW p
  PROVE  \E m \in org.members : m.role = admin /\ m.who # p
<1> DEFINE admins == {m \in org.members : m.role = admin}
<1>1. IsFiniteSet(admins) /\ Cardinality(admins) > 1
  BY FS_Subset DEF Sound, adminCount
<1>2. admins # {}
  BY <1>1, FS_EmptySet
<1>3. PICK l \in admins : TRUE
  BY <1>2
<1>4. Cardinality({l}) = 1
  BY FS_Singleton
<1>5. admins # {l}
  BY <1>1, <1>4
<1>6. PICK m \in admins : m # l
  BY <1>3, <1>5
<1>7. l.who # m.who
  BY <1>6 DEF Sound
<1> QED
  BY <1>7

\* setMember and removeMember refuse what would leave an organization without its last admin.
LEMMA SetKeepsAdmin ==
  ASSUME NEW org, Sound(org), org.on, NEW p, NEW role, NEW via, CanSet(org, p, role)
  PROVE  Keeps(org, setMember(org, p, role, via))
<1> DEFINE prior == RowsOf(org, p)
           row == [who |-> p, role |-> role, via |-> IF prior = {} THEN via ELSE (CHOOSE m \in prior : TRUE).via]
           after == setMember(org, p, role, via)
<1>1. after = [org EXCEPT !.members = (@ \ prior) \cup {row}, !.requests = @ \ {p}]
  BY DEF setMember
<1>2. row.who = p /\ row.role = role
  OBVIOUS
<1> HIDE DEF row, after
<1>3. Shaped(after) /\ after.on = org.on /\ after.members = (org.members \ prior) \cup {row}
  BY <1>1 DEF Sound, Shaped, OrgFields
<1>4. IsFiniteSet(after.members)
  <2>1. IsFiniteSet(org.members \ prior)
    BY FS_Subset DEF Sound
  <2> QED
    BY <1>3, <2>1, FS_AddElement
<1>5. \A m \in org.members : m.who # p => m \in after.members
  BY <1>3 DEF RowsOf
<1>6. row \in after.members
  BY <1>3
<1>7. \A l, m \in after.members : l.who = m.who => l = m
  BY <1>2, <1>3 DEF Sound, RowsOf
<1>8. ASSUME HasAdmin(org) PROVE HasAdmin(after)
  <2>1. CASE role = admin
    BY <1>2, <1>6, <2>1 DEF HasAdmin
  <2>2. CASE (\E m \in prior : m.role = admin) /\ role # admin
    <3>1. adminCount(org) > 1
      BY <2>2 DEF CanSet
    <3> QED
      BY <1>5, <3>1, AnotherAdmin DEF HasAdmin
  <2>3. CASE ~\E m \in prior : m.role = admin
    BY <1>5, <1>8, <2>3 DEF HasAdmin, RowsOf
  <2> QED
    BY <2>1, <2>2, <2>3
<1> QED
  BY <1>3, <1>4, <1>7, <1>8 DEF Keeps, Sound, after

LEMMA RemoveKeepsAdmin ==
  ASSUME NEW org, Sound(org), NEW p, MayRemove(org, p)
  PROVE  Keeps(org, removeMember(org, p))
<1> DEFINE after == removeMember(org, p)
<1>1. Shaped(after) /\ after.on = org.on /\ after.members = org.members \ RowsOf(org, p)
  BY DEF removeMember, Sound, Shaped, OrgFields
<1> HIDE DEF after
<1>2. IsFiniteSet(after.members)
  BY <1>1, FS_Subset DEF Sound
<1>3. \A m \in org.members : m.who # p => m \in after.members
  BY <1>1 DEF RowsOf
<1>4. ASSUME HasAdmin(org) PROVE HasAdmin(after)
  <2>1. CASE \E m \in RowsOf(org, p) : m.role = admin
    <3>1. adminCount(org) > 1
      BY <2>1 DEF MayRemove
    <3> QED
      BY <1>3, <3>1, AnotherAdmin DEF HasAdmin
  <2>2. CASE ~\E m \in RowsOf(org, p) : m.role = admin
    BY <1>3, <1>4, <2>2 DEF HasAdmin, RowsOf
  <2> QED
    BY <2>1, <2>2
<1> QED
  BY <1>1, <1>2, <1>4 DEF Keeps, Sound, after

\* What leaves the rows alone.
LEMMA SameRows ==
  ASSUME NEW org, Sound(org), NEW after, Shaped(after), after.on = org.on, after.members = org.members
  PROVE  Keeps(org, after)
BY DEF Keeps, Sound, HasAdmin

LEMMA RecordsKeepAdmin ==
  ASSUME NEW org, Sound(org)
  PROVE  /\ \A ds, ss, role : Keeps(org, update(org, ds, ss, role))
         /\ \A p : Keeps(org, requestJoin(org, p)) /\ Keeps(org, rejectRequest(org, p))
         /\ \A role : Keeps(org, createInvite(org, role))
         /\ \A i : Keeps(org, revokeInvite(org, i))
         /\ \A i, p : Keeps(org, spend(org, i, p))
         /\ \A named : Keeps(org, setGroup(org, named))
         /\ Keeps(org, removeGroup(org))
<1>1. Shaped(org)
  BY DEF Sound
<1>2. \A ds, ss, role : LET after == update(org, ds, ss, role)
                        IN Shaped(after) /\ after.on = org.on /\ after.members = org.members
  BY ZenonT(30), <1>1 DEF Shaped, OrgFields, update
<1>3. \A p : LET after == requestJoin(org, p) IN Shaped(after) /\ after.on = org.on /\ after.members = org.members
  BY <1>1 DEF Shaped, OrgFields, requestJoin
<1>4. \A p : LET after == rejectRequest(org, p) IN Shaped(after) /\ after.on = org.on /\ after.members = org.members
  BY <1>1 DEF Shaped, OrgFields, rejectRequest
<1>5. \A role : LET after == createInvite(org, role) IN Shaped(after) /\ after.on = org.on /\ after.members = org.members
  BY <1>1 DEF Shaped, OrgFields, createInvite
<1>6. \A i : LET after == revokeInvite(org, i) IN Shaped(after) /\ after.on = org.on /\ after.members = org.members
  BY <1>1 DEF Shaped, OrgFields, revokeInvite
<1>7. \A i, p : LET after == spend(org, i, p) IN Shaped(after) /\ after.on = org.on /\ after.members = org.members
  BY <1>1 DEF Shaped, OrgFields, spend
<1>8. \A named : LET after == setGroup(org, named) IN Shaped(after) /\ after.on = org.on /\ after.members = org.members
  BY <1>1 DEF Shaped, OrgFields, setGroup
<1>9. LET after == removeGroup(org) IN Shaped(after) /\ after.on = org.on /\ after.members = org.members
  BY <1>1 DEF Shaped, OrgFields, removeGroup
<1> QED
  BY <1>2, <1>3, <1>4, <1>5, <1>6, <1>7, <1>8, <1>9, SameRows

LEMMA KeepsTwice ==
  ASSUME NEW x, NEW y, NEW z, Keeps(x, y), Keeps(y, z)
  PROVE  Keeps(x, z)
BY DEF Keeps

\* access: it lets in only whom the organization could write down.
LEMMA VisitedKeepsAdmin ==
  ASSUME OrgsSound, NEW o \in Org, NEW p, NEW min, access(o, p, min)
  PROVE  Keeps(oorg[o], Visited(o, p)) /\ Sound(Visited(o, p)) /\ Visited(o, p).on
<1>1. Sound(oorg[o]) /\ oorg[o].on
  BY DEF OrgsSound, access, Held
<1>2. CASE Explicit(oorg[o], p) # {}
  <2>1. Visited(o, p) = oorg[o]
    BY <1>2 DEF Visited
  <2> QED
    BY <1>1, <2>1 DEF Keeps
<1>3. CASE Explicit(oorg[o], p) = {}
  <2>1. PICK via : Visited(o, p) = setMember(oorg[o], p, oorg[o].domainRole, via)
    BY <1>3 DEF Visited
  <2>2. CanSet(oorg[o], p, oorg[o].domainRole)
    BY <1>3 DEF access
  <2>3. Keeps(oorg[o], setMember(oorg[o], p, oorg[o].domainRole, via))
    BY <1>1, <2>2, SetKeepsAdmin
  <2> QED
    BY <1>1, <2>1, <2>3 DEF Keeps
<1> QED
  BY <1>2, <1>3

LEMMA OneOrgChanges ==
  ASSUME OrgsSound, NEW o \in Org, NEW org, Becomes(o, org), Sound(org), HasAdmin(oorg[o]) /\ org.on => HasAdmin(org)
  PROVE  OrgsSound' /\ AdminStays
<1>1. oorg' = [q \in Org |-> IF q = o THEN org ELSE oorg[q]]
  BY DEF OrgsSound, Becomes
<1>2. \A q \in Org : oorg'[q] = IF q = o THEN org ELSE oorg[q]
  BY <1>1
<1>3. AdminStays
  BY <1>2 DEF AdminStays
<1>4. \A q \in Org : Sound(oorg'[q])
  BY <1>2 DEF OrgsSound
<1>5. oorg' = [q \in Org |-> oorg'[q]]
  BY <1>1
<1> QED
  BY <1>3, <1>4, <1>5 DEF OrgsSound, Sound, Shaped

LEMMA AdminNext ==
  ASSUME OrgsSound, [OrganizationsNext]_ovars
  PROVE  OrgsSound' /\ AdminStays
<1>1. ASSUME NEW o \in Org, NEW org, Becomes(o, org), Keeps(oorg[o], org) PROVE OrgsSound' /\ AdminStays
  BY <1>1, OneOrgChanges DEF Keeps
<1>2. ASSUME NEW o \in Org, NEW p, NEW min, access(o, p, min), NEW org, Becomes(o, org), Keeps(Visited(o, p), org)
      PROVE  OrgsSound' /\ AdminStays
  <2>1. Keeps(oorg[o], org)
    BY <1>2, VisitedKeepsAdmin, KeepsTwice
  <2> QED
    BY <1>1, <1>2, <2>1
<1>3. CASE Create
  <2>1. PICK o \in Org \ Held, p \in Person, ds \in SUBSET Domain, role \in GivenRoles : Becomes(o, create(p, ds, role))
    BY <1>3 DEF Create
  <2>2. /\ Shaped(create(p, ds, role)) /\ create(p, ds, role).on = TRUE
        /\ create(p, ds, role).members = {[who |-> p, role |-> admin, via |-> "creator"]}
    BY DEF Shaped, OrgFields, create, Nowhere
  <2>3. IsFiniteSet({[who |-> p, role |-> admin, via |-> "creator"]})
    BY FS_Singleton
  <2>4. Sound(create(p, ds, role)) /\ HasAdmin(create(p, ds, role))
    BY <2>2, <2>3 DEF Sound, HasAdmin
  <2> QED
    BY <2>1, <2>4, OneOrgChanges
<1>4. CASE Seed
  <2>1. PICK o \in Org \ Held, ds \in SUBSET Domain : Becomes(o, [Nowhere EXCEPT !.on = TRUE, !.domains = ds])
    BY <1>4 DEF Seed
  <2> DEFINE org == [Nowhere EXCEPT !.on = TRUE, !.domains = ds]
  <2>2. Shaped(org) /\ org.members = {}
    BY DEF Shaped, OrgFields, Nowhere
  <2> HIDE DEF org
  <2>3. Sound(org)
    BY <2>2, FS_EmptySet DEF Sound
  <2>4. ~HasAdmin(oorg[o])
    BY DEF OrgsSound, Sound, HasAdmin, Held
  <2> QED
    BY <2>1, <2>3, <2>4, OneOrgChanges DEF org
<1>5. CASE Delete
  <2>1. PICK o \in Org : Becomes(o, Nowhere)
    BY <1>5 DEF Delete
  <2>2. Shaped(Nowhere) /\ Nowhere.members = {} /\ Nowhere.on = FALSE
    BY DEF Shaped, OrgFields, Nowhere
  <2>3. Sound(Nowhere)
    BY <2>2, FS_EmptySet DEF Sound
  <2> QED
    BY <2>1, <2>2, <2>3, OneOrgChanges
<1>6. CASE Update
  <2>1. PICK o \in Org, p \in Person, ds \in SUBSET Domain, ss \in SUBSET SsoId, role \in GivenRoles :
          access(o, p, admin) /\ Becomes(o, update(Visited(o, p), ds, ss, role))
    BY <1>6 DEF Update
  <2>2. Keeps(Visited(o, p), update(Visited(o, p), ds, ss, role))
    BY <2>1, VisitedKeepsAdmin, RecordsKeepAdmin
  <2> QED
    BY <1>2, <2>1, <2>2
<1>7. CASE Visit
  <2>1. PICK o \in Org, p \in Person : access(o, p, read) /\ Becomes(o, Visited(o, p))
    BY <1>7 DEF Visit
  <2> QED
    BY <1>1, <2>1, VisitedKeepsAdmin
<1>8. CASE AddMember
  <2>1. PICK o \in Org, p \in Person, q \in Person, role \in GivenRoles, via \in {"admin", "request", "role"} :
          /\ access(o, p, admin) /\ CanSet(Visited(o, p), q, role)
          /\ Becomes(o, setMember(Visited(o, p), q, role, via))
    BY <1>8 DEF AddMember
  <2>2. Keeps(Visited(o, p), setMember(Visited(o, p), q, role, via))
    BY <2>1, VisitedKeepsAdmin, SetKeepsAdmin
  <2> QED
    BY <1>2, <2>1, <2>2
<1>9. CASE RemoveMember
  <2>1. PICK o \in Org, p \in Person, q \in Person :
          /\ access(o, p, IF p = q THEN read ELSE admin) /\ MayRemove(Visited(o, p), q)
          /\ Becomes(o, removeMember(Visited(o, p), q))
    BY <1>9 DEF RemoveMember
  <2>2. Keeps(Visited(o, p), removeMember(Visited(o, p), q))
    BY <2>1, VisitedKeepsAdmin, RemoveKeepsAdmin
  <2> QED
    BY <1>2, <2>1, <2>2
<1>10. CASE RequestJoin
  <2>1. PICK o \in Org, p \in Person : Becomes(o, requestJoin(oorg[o], p))
    BY <1>10 DEF RequestJoin, Held
  <2> QED
    BY <1>1, <2>1, RecordsKeepAdmin DEF OrgsSound
<1>11. CASE RejectRequest
  <2>1. PICK o \in Org, p \in Person : access(o, p, admin) /\ \E q : Becomes(o, rejectRequest(Visited(o, p), q))
    BY <1>11 DEF RejectRequest
  <2>2. \A q : Keeps(Visited(o, p), rejectRequest(Visited(o, p), q))
    BY <2>1, VisitedKeepsAdmin, RecordsKeepAdmin
  <2> QED
    BY <1>2, <2>1, <2>2
<1>12. CASE CreateInvite
  <2>1. PICK o \in Org, p \in Person, role \in GivenRoles :
          access(o, p, admin) /\ Becomes(o, createInvite(Visited(o, p), role))
    BY <1>12 DEF CreateInvite
  <2>2. Keeps(Visited(o, p), createInvite(Visited(o, p), role))
    BY <2>1, VisitedKeepsAdmin, RecordsKeepAdmin
  <2> QED
    BY <1>2, <2>1, <2>2
<1>13. CASE RevokeInvite
  <2>1. PICK o \in Org : \E i : Becomes(o, revokeInvite(oorg[o], i))
    BY <1>13 DEF RevokeInvite, Held
  <2> QED
    BY <1>1, <2>1, RecordsKeepAdmin DEF OrgsSound
<1>14. CASE UseInvite
  <2>1. PICK o \in Held, p \in Person : \E i : Becomes(o, useInvite(oorg[o], i, p))
    BY <1>14 DEF UseInvite
  <2>2. PICK i : Becomes(o, useInvite(oorg[o], i, p))
    BY <2>1
  <2> DEFINE spent == spend(oorg[o], i, p)  rank == RoleBy(oorg[o], i, p)
  <2>3. useInvite(oorg[o], i, p) = IF CanSet(spent, p, rank) THEN setMember(spent, p, rank, "invite") ELSE spent
    BY DEF useInvite
  <2>4. Keeps(oorg[o], spent) /\ oorg[o].on
    BY RecordsKeepAdmin DEF OrgsSound, Held
  <2> HIDE DEF spent, rank
  <2>5. ASSUME CanSet(spent, p, rank) PROVE Keeps(oorg[o], setMember(spent, p, rank, "invite"))
    <3>1. Keeps(spent, setMember(spent, p, rank, "invite"))
      BY <2>4, <2>5, SetKeepsAdmin DEF Keeps
    <3> QED
      BY <2>4, <3>1, KeepsTwice
  <2>6. Keeps(oorg[o], useInvite(oorg[o], i, p))
    BY <2>3, <2>4, <2>5
  <2> QED
    BY <1>1, <2>2, <2>6 DEF Held
<1>15. CASE SetGroup
  <2>1. PICK o \in Org, p \in Person, named \in SUBSET Person :
          access(o, p, write) /\ Becomes(o, setGroup(Visited(o, p), named))
    BY <1>15 DEF SetGroup
  <2>2. Keeps(Visited(o, p), setGroup(Visited(o, p), named))
    BY <2>1, VisitedKeepsAdmin, RecordsKeepAdmin
  <2> QED
    BY <1>2, <2>1, <2>2
<1>16. CASE RemoveGroup
  <2>1. PICK o \in Org, p \in Person : access(o, p, write) /\ Becomes(o, removeGroup(Visited(o, p)))
    BY <1>16 DEF RemoveGroup
  <2>2. Keeps(Visited(o, p), removeGroup(Visited(o, p)))
    BY <2>1, VisitedKeepsAdmin, RecordsKeepAdmin
  <2> QED
    BY <1>2, <2>1, <2>2
<1>17. CASE SignsIn \/ UNCHANGED ovars
  <2>1. oorg' = oorg
    BY <1>17 DEF SignsIn, ovars
  <2> QED
    BY <2>1 DEF OrgsSound, AdminStays, Sound, Shaped
<1> QED
  BY <1>3, <1>4, <1>5, <1>6, <1>7, <1>8, <1>9, <1>10, <1>11, <1>12, <1>13, <1>14, <1>15, <1>16, <1>17
  DEF OrganizationsNext

(* An organization that has an admin keeps one until it is deleted: no role change, invite,
   approval, removal, group or visit, also of an admin whose own row was one of a lapsed
   claim, takes the last admin row away (setMember and removeMember,
   organization-store.ts).                                                               *)
THEOREM LastAdminStays == OrganizationsSpec => [][AdminStays]_ovars
<1>1. OrganizationsInit => OrgsSound
  <2> SUFFICES ASSUME OrganizationsInit PROVE OrgsSound
    OBVIOUS
  <2>1. Shaped(Nowhere) /\ Nowhere.members = {}
    BY DEF Shaped, OrgFields, Nowhere
  <2>2. Sound(Nowhere)
    BY <2>1, FS_EmptySet DEF Sound
  <2>3. oorg = [o \in Org |-> Nowhere]
    BY DEF OrganizationsInit
  <2> QED
    BY <2>2, <2>3 DEF OrgsSound
<1>2. OrgsSound /\ [OrganizationsNext]_ovars => OrgsSound' /\ AdminStays
  BY AdminNext
<1> QED
  BY <1>1, <1>2, PTL DEF OrganizationsSpec

=============================================================================
