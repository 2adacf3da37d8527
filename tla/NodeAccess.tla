----------------------------- MODULE NodeAccess -----------------------------
(***************************************************************************)
(* Who is signed in at a node and whose machine may speak for whom         *)
(* (src/api.ts, the auth routes; src/store.ts, sessions, owners, device    *)
(* grants, node links, bindings).                                          *)
(*                                                                         *)
(* A wallet signs a one-time challenge and gets a session.  A delegate, the*)
(* key of a command line or of another node, asks for a code; a signed-in  *)
(* person approves it, which binds the delegate to the person (or links the*)
(* node); the delegate collects a session with the code and from then on   *)
(* signs in with its own key as that person.  The person may end it.  Every*)
(* handler runs without a wait, so each is one step; a signature is what   *)
(* the caller can make, never its bytes.  Sessions that agree on every     *)
(* field are one member of "sessions".                                     *)
(***************************************************************************)
EXTENDS FiniteSets, Naturals

CONSTANTS Wallet,        \* addresses people hold
          Delegate,      \* keys of command lines and of linked nodes
          NodeKey,       \* the node's own address
          ConfigOwners,  \* operatorAddresses of the config file
          Codes,         \* device codes that may be outstanding at once
          FreeTries      \* LOGIN_FREE_TRIES

ASSUME AccessAssumption ==
  /\ NodeKey \notin Wallet \cup Delegate
  /\ ConfigOwners \subseteq Wallet
  /\ Wallet \cap Delegate = {}

VARIABLES ownerRows,   \* addresses granted ownership at run time
          challenges,  \* schemes of the sign-in challenges that are out
          fails,       \* failed sign-ins of the caller's address
          held,        \* that address has to wait
          sessions,    \* live sessions
          grants,      \* code -> what a delegate asked and what came of it
          bindings,    \* delegate -> the person it speaks for
          links,       \* delegate -> the node link in its name
          leave        \* history: <<person, delegate>> approved and not ended

accessVars == <<ownerRows, challenges, fails, held, sessions, grants, bindings,
                links, leave>>

NoWallet == "nobody"
Free   == [state |-> "free", key |-> NoWallet, kind |-> "cli", owner |-> NoWallet]
Unlinked == [owner |-> NoWallet, code |-> NoWallet, token |-> NoWallet]
Schemes  == {"ain", "eip191"}

\* A session names its subject, the key that opened it for them, and how.
Session(who, via, how) == [sub |-> who, via |-> via, how |-> how]

-----------------------------------------------------------------------------
(* Owners and sessions.                                                    *)

owners == {NodeKey} \cup ConfigOwners \cup ownerRows

isOwner(a) == a \in owners

signedIn(a) == \E s \in sessions : s.sub = a

putSession(who, via, how) == sessions' = sessions \cup {Session(who, via, how)}

sessionsOf(a) == {s \in sessions : s.sub = a}

(* Mutant: only the sessions the delegate collected with its code.         *)
sessionsCollected(k) == {s \in sessions : s.via = k /\ s.how = "code"}

sessionsVia(k) == {s \in sessions : s.via = k}

(* A session runs out after thirty days; logout ends the one it came with. *)
TokenEnds ==
  \E s \in sessions :
    /\ sessions' = sessions \ {s}
    /\ UNCHANGED <<ownerRows, challenges, fails, held, grants, bindings, links,
                   leave>>

-----------------------------------------------------------------------------
(* Signing in.                                                             *)

\* Wrong answers past the free tries cost the address time.
loginFailed ==
  /\ fails' = IF fails <= FreeTries THEN fails + 1 ELSE fails
  /\ held'  = (fails >= FreeTries)

WaitIsOver ==
  /\ held
  /\ \/ held' = FALSE /\ UNCHANGED fails
     \/ held' = FALSE /\ fails' = 0
  /\ UNCHANGED <<ownerRows, challenges, sessions, grants, bindings, links, leave>>

Challenge ==
  /\ ~held
  /\ \E s \in Schemes \ challenges : challenges' = challenges \cup {s}
  /\ UNCHANGED <<ownerRows, fails, held, sessions, grants, bindings, links, leave>>

ChallengeExpires ==
  /\ \E s \in challenges : challenges' = challenges \ {s}
  /\ UNCHANGED <<ownerRows, fails, held, sessions, grants, bindings, links, leave>>

subjectOf(a) ==
  IF a \in Delegate /\ bindings[a] # NoWallet THEN bindings[a] ELSE a

viaOf(a) == IF subjectOf(a) # a THEN a ELSE NoWallet

\* A key signs what it was given, under the scheme it was given under: a bound
\* delegate is then the person who bound it.
SignInWallet ==
  /\ ~held
  /\ \E s \in challenges, a \in Wallet \cup Delegate \cup {NodeKey} :
       /\ s = "eip191" => a \in Wallet
       /\ challenges' = challenges \ {s}
       /\ putSession(subjectOf(a), viaOf(a), "signature")
       /\ fails' = 0 /\ UNCHANGED held
  /\ UNCHANGED <<ownerRows, grants, bindings, links, leave>>

\* A signature that does not come from its address, or for no challenge.
SignInFails ==
  /\ ~held
  /\ \E s \in Schemes : challenges' = challenges \ {s}
  /\ loginFailed
  /\ UNCHANGED <<ownerRows, sessions, grants, bindings, links, leave>>

\* From the node's machine: the address signs, becomes an owner, is signed in.
Enroll ==
  /\ \E s \in challenges, a \in Wallet :
       /\ challenges' = challenges \ {s}
       /\ ownerRows' = IF isOwner(a) THEN ownerRows ELSE ownerRows \cup {a}
       /\ putSession(a, NoWallet, "signature")
  /\ UNCHANGED <<fails, held, grants, bindings, links, leave>>

AddOwner ==
  /\ \E a \in Wallet, by \in owners :
       /\ signedIn(by) /\ ~isOwner(a)
       /\ ownerRows' = ownerRows \cup {a}
  /\ UNCHANGED <<challenges, fails, held, sessions, grants, bindings, links, leave>>

\* Never the node's key, a config owner or oneself; the sessions go with it.
RemoveOwner ==
  /\ \E a \in ownerRows, by \in owners :
       /\ signedIn(by) /\ a # by /\ a \notin ConfigOwners
       /\ ownerRows' = ownerRows \ {a}
       /\ sessions' = sessions \ sessionsOf(a)
  /\ UNCHANGED <<challenges, fails, held, grants, bindings, links, leave>>

-----------------------------------------------------------------------------
(* A delegate asks, a person approves, the delegate collects.              *)

putDeviceGrant(c, k, kind) ==
  [state |-> "pending", key |-> k, kind |-> kind, owner |-> NoWallet]

\* An hour past its ten minutes a code that was collected or never approved goes;
\* one that was approved and never collected stays, and stays collectable.
sweepDeviceGrants(gone) ==
  [c \in Codes |-> IF c \in gone THEN Free ELSE grants[c]]

Swept == {c \in Codes : grants[c].state \in {"expired", "claimed"}}

\* A node asks only with a session its own key opened.
RequestDevice ==
  /\ ~held
  /\ \E k \in Delegate, kind \in {"cli", "node"}, gone \in {{}, Swept}, c \in Codes :
       /\ kind = "node" => \E s \in sessions :
            IF s.via # NoWallet THEN s.via = k ELSE s.sub = k
       /\ sweepDeviceGrants(gone)[c] = Free
       /\ grants' = [sweepDeviceGrants(gone) EXCEPT ![c] = putDeviceGrant(c, k, kind)]
  /\ UNCHANGED <<ownerRows, challenges, fails, held, sessions, bindings, links, leave>>

\* The ten minutes of a code run out.
GrantAges ==
  /\ \E c \in Codes : /\ grants[c].state = "pending"
                      /\ grants' = [grants EXCEPT ![c].state = "expired"]
  /\ UNCHANGED <<ownerRows, challenges, fails, held, sessions, bindings, links, leave>>

putNodeLink(c, who) == [owner |-> who, code |-> c, token |-> NoWallet]

putBinding(k, who) == [bindings EXCEPT ![k] = who]

\* Signed in, and a wallet signature over the text that was stored with the code.
Approve ==
  /\ \E c \in Codes, a \in Wallet :
       /\ grants[c].state = "pending" /\ signedIn(a)
       /\ grants' = [grants EXCEPT ![c].state = "approved", ![c].owner = a]
       /\ IF grants[c].kind = "node"
          THEN /\ links' = [links EXCEPT ![grants[c].key] = putNodeLink(c, a)]
               /\ UNCHANGED <<bindings, leave>>
          ELSE /\ bindings' = putBinding(grants[c].key, a)
               /\ leave' = leave \cup {<<a, grants[c].key>>}
               /\ UNCHANGED links
  /\ UNCHANGED <<ownerRows, challenges, fails, held, sessions>>

claimDeviceGrant(c) == [grants EXCEPT ![c].state = "claimed"]

\* A token goes only into the row this very code wrote.
issueNodeLinkToken(c) ==
  /\ links[grants[c].key].owner = grants[c].owner
  /\ links[grants[c].key].code = c

ClaimSession ==
  /\ \E c \in Codes :
       /\ grants[c].state = "approved" /\ grants[c].kind = "cli"
       /\ grants' = claimDeviceGrant(c)
       /\ putSession(grants[c].owner, grants[c].key, "code")
  /\ UNCHANGED <<ownerRows, challenges, fails, held, bindings, links, leave>>

ClaimLink ==
  /\ \E c \in Codes :
       /\ grants[c].state = "approved" /\ grants[c].kind = "node"
       /\ grants' = claimDeviceGrant(c)
       /\ links' = IF issueNodeLinkToken(c)
                   THEN [links EXCEPT ![grants[c].key].token = grants[c].owner]
                   ELSE links
  /\ UNCHANGED <<ownerRows, challenges, fails, held, sessions, bindings, leave>>

-----------------------------------------------------------------------------
(* Ending what speaks for you.                                             *)

RemoveLink ==
  /\ \E k \in Delegate :
       /\ links[k] # Unlinked /\ signedIn(links[k].owner)
       /\ links' = [links EXCEPT ![k] = Unlinked]
  /\ UNCHANGED <<ownerRows, challenges, fails, held, sessions, grants, bindings, leave>>

EndBinding ==
  /\ \E k \in Delegate :
       /\ bindings[k] # NoWallet /\ signedIn(bindings[k])
       /\ bindings' = putBinding(k, NoWallet)
       /\ sessions' = sessions \ sessionsVia(k)
       /\ leave' = leave \ {<<bindings[k], k>>}
  /\ UNCHANGED <<ownerRows, challenges, fails, held, grants, links>>

-----------------------------------------------------------------------------
AccessInit ==
  /\ ownerRows = {} /\ challenges = {} /\ fails = 0 /\ held = FALSE
  /\ sessions = {} /\ leave = {}
  /\ grants = [c \in Codes |-> Free]
  /\ bindings = [k \in Delegate |-> NoWallet]
  /\ links = [k \in Delegate |-> Unlinked]

AccessNext ==
  \/ TokenEnds \/ WaitIsOver \/ Challenge \/ ChallengeExpires \/ SignInWallet
  \/ SignInFails \/ Enroll \/ AddOwner \/ RemoveOwner \/ RequestDevice
  \/ GrantAges \/ Approve \/ ClaimSession \/ ClaimLink
  \/ RemoveLink \/ EndBinding

AccessSpec == AccessInit /\ [][AccessNext]_accessVars

-----------------------------------------------------------------------------
(* Ending a machine ends the sessions its key signed in with: as long as   *)
(* such a session lives, the person it speaks for has approved the key and *)
(* not ended it since, whoever else the key was bound to in between        *)
(* (DELETE /api/auth/bindings/:delegate, src/api.ts).                      *)
EndedKeyIsOut ==
  \A s \in sessions :
    s.via # NoWallet /\ s.how = "signature" => <<s.sub, s.via>> \in leave

=============================================================================
