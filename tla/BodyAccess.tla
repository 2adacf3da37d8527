------------------------------ MODULE BodyAccess ------------------------------
(* Who may fetch the bodies and training sets a node serves, and what the node   *)
(* itself may use of what it holds (market.ts, the token and licence tables of   *)
(* store.ts and the /p2p and dataset routes of api.ts).  A verifier fetches under *)
(* a lease counted per verification; a buyer with a token bound to its address;   *)
(* a derivative with a bearer token.  Holding a body is not the right to use it.  *)
EXTENDS Naturals, FiniteSets, Sequences

CONSTANTS
  Item,           \* listings
  Ours,           \* those this node published and serves
  Order,          \* [Ours -> Nat]: their place in the catalogue
  BodyOf,         \* [Item -> body]: listings may share a body
  SetAccess,      \* [Item -> {"private", "derivative", "public"}]
  Checker,        \* verifiers registered on the network
  Payer,          \* addresses that buy
  Quorum,         \* attestations a listing needs
  LeaseFetches,   \* VERIFY_LEASE_FETCHES
  TokenMax,       \* TOKEN_MAX_REDEMPTIONS
  MaxChallenges, MaxBroken, MaxTokens   \* bounds

ASSUME AccessBounds ==
  /\ Ours \subseteq Item /\ Quorum \in 1..Cardinality(Checker)
  /\ {LeaseFetches, TokenMax} \subseteq Nat \ {0}
  /\ {MaxChallenges, MaxBroken, MaxTokens} \subseteq Nat

VARIABLES
  free,           \* listings priced 0
  round,          \* [Item -> challenges filed]
  attested,       \* [Item -> [Checker -> 0 or 1 + the round its attestation answered]]
  lease,          \* [Item -> [Checker -> [0..MaxChallenges -> fetches]]]: kv verify_lease:*
  copies,         \* [Checker -> bodies it holds]
  settled,        \* [Item -> buyers on the ledger]
  tokens,         \* Seq of rows of the tokens table
  license,        \* [Item -> licences.source of this node, as its rank]
  broken,         \* failures still to come (left), and the downloads that broke off,
                  \* counted as the lease counts fetches (cut)
  at,             \* [Checker -> the entry its round is at, or None]
  tried           \* [Checker -> entries its round has tried]
accessVars == <<free, round, attested, lease, copies, settled, tokens, license, broken, at, tried>>

None == "none"
Rank == [verification |-> 1, free |-> 2, purchase |-> 4, author |-> 5]

(* ------------------------------- verifications ------------------------------ *)
Fresh(i) == {v \in Checker : attested[i][v] = round[i] + 1}
QuorumOk(i) == Cardinality(Fresh(i)) >= Quorum
StandsChallenged(i) == round[i] > 0 /\ ~QuorumOk(i)

(* The entry still waits for this verifier: it never attested, or a challenge is *)
(* addressed to it again.                                                         *)
Waiting(v, i) ==
  /\ ~QuorumOk(i)
  /\ \/ attested[i][v] = 0
     \/ StandsChallenged(i) /\ attested[i][v] <= round[i]

(* The first entry of the catalogue with these bytes that waits: the lease is its  *)
(* own.  A verifier's rounds go through the catalogue in the same order.           *)
FirstWaiting(v, b) ==
  {i \in Ours : /\ BodyOf[i] = b /\ Waiting(v, i)
                /\ \A j \in Ours : BodyOf[j] = b /\ Waiting(v, j) => Order[i] <= Order[j]}

(* Mutant: one lease for the life of a listing. *)
LeaseForLife(i) == 0
LeaseRound(i) == IF StandsChallenged(i) THEN round[i] ELSE 0

LeaseLeft(i, v) == lease[i][v][LeaseRound(i)] < LeaseFetches

(* A round of a verifier goes through the entries that wait for it in the order of *)
(* the catalogue, and tries each once.                                              *)
NextOf(v) == {i \in Ours \ tried[v] :
                /\ Waiting(v, i)
                /\ \A j \in Ours \ tried[v] : Waiting(v, j) => Order[i] <= Order[j]}

(* It fetches the bytes it does not hold (GET /p2p/blob/:sha).  The fetch is        *)
(* counted for the entry the publisher finds, and whether or not the download       *)
(* comes to its end.                                                                *)
VerifierFetch(v, i, whole) ==
  /\ at[v] = None /\ i \in NextOf(v) /\ BodyOf[i] \notin copies[v]
  /\ tried' = [tried EXCEPT ![v] = @ \cup {i}]
  /\ \E j \in FirstWaiting(v, BodyOf[i]) :
       /\ LeaseLeft(j, v)
       /\ lease' = [lease EXCEPT ![j][v][LeaseRound(j)] = @ + 1]
       /\ IF whole THEN /\ copies' = [copies EXCEPT ![v] = @ \cup {BodyOf[i]}]
                        /\ at' = [at EXCEPT ![v] = i] /\ UNCHANGED broken
          ELSE /\ broken.left > 0 /\ UNCHANGED <<copies, at>>
               /\ broken' = [broken EXCEPT !.left = @ - 1, !.cut[j][v][LeaseRound(j)] = @ + 1]
  /\ UNCHANGED <<free, round, attested, settled, tokens, license>>

(* The lease is used up: the fetch is refused, and the round goes on to the next.   *)
FetchRefused(v, i) ==
  /\ at[v] = None /\ i \in NextOf(v) /\ BodyOf[i] \notin copies[v]
  /\ \E j \in FirstWaiting(v, BodyOf[i]) : ~LeaseLeft(j, v)
  /\ tried' = [tried EXCEPT ![v] = @ \cup {i}]
  /\ UNCHANGED <<free, round, attested, lease, copies, settled, tokens, license, broken, at>>

TakeHeld(v, i) ==
  /\ at[v] = None /\ i \in NextOf(v) /\ BodyOf[i] \in copies[v]
  /\ tried' = [tried EXCEPT ![v] = @ \cup {i}]
  /\ at' = [at EXCEPT ![v] = i]
  /\ UNCHANGED <<free, round, attested, lease, copies, settled, tokens, license, broken>>

(* The attestation lands and the verifier gives the body back to its disk.         *)
AttestItem(v) ==
  /\ at[v] # None
  /\ attested' = [attested EXCEPT ![at[v]][v] = round[at[v]] + 1]
  /\ copies' = [copies EXCEPT ![v] = @ \ {BodyOf[at[v]]}] /\ at' = [at EXCEPT ![v] = None]
  /\ UNCHANGED <<free, round, lease, settled, tokens, license, broken, tried>>

(* The measurement fails: the bytes stay for the next attempt.                     *)
RunFails(v) ==
  /\ at[v] # None /\ broken.left > 0 /\ broken' = [broken EXCEPT !.left = @ - 1]
  /\ at' = [at EXCEPT ![v] = None]
  /\ UNCHANGED <<free, round, attested, lease, copies, settled, tokens, license, tried>>

RoundEnds(v) ==
  /\ at[v] = None /\ NextOf(v) = {} /\ tried[v] # {}
  /\ tried' = [tried EXCEPT ![v] = {}]
  /\ UNCHANGED <<free, round, attested, lease, copies, settled, tokens, license, broken, at>>

FileChallenge(i) ==
  /\ i \in Ours /\ QuorumOk(i) /\ round[i] < MaxChallenges
  /\ round' = [round EXCEPT ![i] = @ + 1]
  /\ UNCHANGED <<free, attested, lease, copies, settled, tokens, license, broken, at, tried>>

Reprice(i) ==
  /\ free' = IF i \in free THEN free \ {i} ELSE free \cup {i}
  /\ UNCHANGED <<round, attested, lease, copies, settled, tokens, license, broken, at, tried>>

(* --------------------------------- tokens ----------------------------------- *)
Sellable(i) == i \in Ours /\ QuorumOk(i)
putToken(i, to, kind) ==
  /\ Len(tokens) < MaxTokens
  /\ tokens' = Append(tokens, [item |-> i, to |-> to, kind |-> kind, uses |-> 0, reads |-> 0,
                               live |-> TRUE])

(* issueManifest after a settlement; a replayed payment gets a fresh token.        *)
BuyManifest(p, i) ==
  /\ Sellable(i) /\ i \notin free
  /\ settled' = [settled EXCEPT ![i] = @ \cup {p}]
  /\ putToken(i, p, "blob")
  /\ UNCHANGED <<free, round, attested, lease, copies, license, broken, at, tried>>

(* A teacher's link to its own lesson, a bearer token.                              *)
SaveLesson(i) ==
  /\ i \in Ours /\ putToken(i, None, "blob")
  /\ UNCHANGED <<free, round, attested, lease, copies, settled, license, broken, at, tried>>

deriveIntent(p, i) ==
  /\ i \in Ours /\ SetAccess[i] # "private"
  /\ putToken(i, None, "dataset")
  /\ UNCHANGED <<free, round, attested, lease, copies, settled, license, broken, at, tried>>

checkToken(t) == tokens[t].live

redeemable(t, p) == /\ checkToken(t) /\ tokens[t].kind = "blob"
                    /\ tokens[t].to \in {None, p}
                    /\ tokens[t].uses < TokenMax

(* GET /p2p/blob/:sha with a token. *)
FetchByToken(p, t) ==
  /\ redeemable(t, p)
  /\ tokens' = [tokens EXCEPT ![t].uses = @ + 1]
  /\ UNCHANGED <<free, round, attested, lease, copies, settled, license, broken, at, tried>>

(* GET /p2p/dataset/:sha: the token is looked up, never counted.                     *)
ReadByToken(t) ==
  /\ checkToken(t) /\ tokens[t].kind = "dataset" /\ tokens[t].reads <= TokenMax
  /\ tokens' = [tokens EXCEPT ![t].reads = @ + 1]
  /\ UNCHANGED <<free, round, attested, lease, copies, settled, license, broken, at, tried>>

TokenEnds(t) ==
  /\ tokens[t].live
  /\ tokens' = [tokens EXCEPT ![t].live = FALSE]
  /\ UNCHANGED <<free, round, attested, lease, copies, settled, license, broken, at, tried>>

(* --------------------------------- licences ---------------------------------- *)
(* putLicense: a weaker source never overwrites a stronger one. *)
Stronger(old, new) == IF old >= new THEN old ELSE new

(* licenseOf: what this node published, or what is free now, is licensed when it   *)
(* is looked at.                                                                    *)
licenseOf(i) ==
  IF i \in Ours THEN Stronger(license[i], Rank["author"])
  ELSE IF license[i] # Rank["purchase"] /\ i \in free THEN Stronger(license[i], Rank["free"])
  ELSE license[i]
hasLicense(i) == licenseOf(i) > Rank["verification"]

LookAt(i) ==
  /\ license' = [license EXCEPT ![i] = licenseOf(i)]
  /\ UNCHANGED <<free, round, attested, lease, copies, settled, tokens, broken, at, tried>>

(* grantLicense and ensureBlob: a purchase, or a body fetched to be scored.        *)
Grant(i, source) ==
  /\ i \notin Ours
  /\ license' = [license EXCEPT ![i] = Stronger(@, Rank[source])]
  /\ UNCHANGED <<free, round, attested, lease, copies, settled, tokens, broken, at, tried>>

(* releaseBody of this node's own verifier: the copies it only scored go, with     *)
(* their rows.                                                                      *)
Release(b) ==
  LET sharing == {i \in Item : BodyOf[i] = b} IN
  /\ \A i \in sharing : i \notin Ours /\ license[i] <= Rank["verification"]
  /\ license' = [i \in Item |-> IF i \in sharing THEN 0 ELSE license[i]]
  /\ UNCHANGED <<free, round, attested, lease, copies, settled, tokens, broken, at, tried>>

AccessInit ==
  /\ free = {} /\ round = [i \in Item |-> 0]
  /\ attested = [i \in Item |-> [v \in Checker |-> 0]]
  /\ lease = [i \in Item |-> [v \in Checker |-> [r \in 0..MaxChallenges |-> 0]]]
  /\ copies = [v \in Checker |-> {}] /\ settled = [i \in Item |-> {}] /\ tokens = <<>>
  /\ license = [i \in Item |-> 0] /\ broken = [left |-> MaxBroken, cut |-> lease]
  /\ at = [v \in Checker |-> None] /\ tried = [v \in Checker |-> {}]

AccessNext ==
  \/ \E v \in Checker, i \in Item, w \in BOOLEAN : VerifierFetch(v, i, w)
  \/ \E v \in Checker, i \in Item : TakeHeld(v, i) \/ FetchRefused(v, i)
  \/ \E v \in Checker : AttestItem(v) \/ RunFails(v) \/ RoundEnds(v)
  \/ \E i \in Item : FileChallenge(i) \/ Reprice(i) \/ LookAt(i) \/ SaveLesson(i)
  \/ \E p \in Payer, i \in Item : BuyManifest(p, i) \/ deriveIntent(p, i)
  \/ \E t \in DOMAIN tokens : ReadByToken(t) \/ TokenEnds(t) \/ \E p \in Payer : FetchByToken(p, t)
  \/ \E i \in Item, s \in {"verification", "purchase"} : Grant(i, s)
  \/ \E b \in {BodyOf[i] : i \in Item} : Release(b)

(* A verifier's rounds go on: while an entry waits for it, it fetches and attests. *)
CheckerActs(v) ==
  \/ AttestItem(v) \/ RoundEnds(v)
  \/ \E i \in Item : VerifierFetch(v, i, TRUE) \/ TakeHeld(v, i) \/ FetchRefused(v, i)
AccessFairSpec == /\ AccessInit /\ [][AccessNext]_accessVars
                  /\ \A v \in Checker : WF_accessVars(CheckerActs(v))

(* -------------------------------- properties --------------------------------- *)
(* Every fetch the lease of this verification allows the verifier broke off: the    *)
(* publisher refuses it the body from then on (market.ts:2080-2085).                 *)
LockedOut(v, i) == broken.cut[i][v][LeaseRound(i)] >= LeaseFetches

(* However many challenges were answered before, and although measurements fail and *)
(* downloads break off, a listing that waits for its verifiers gets its quorum: the  *)
(* three fetches bound the retries of one verification (market.ts:2066-2083), unless *)
(* they lock out so many verifiers that the others are too few.  Not so of listings  *)
(* that share a body: the fetch for one is charged to the first that waits.          *)
WaitingIsMet ==
  \A i \in Ours :
    ~QuorumOk(i) ~> QuorumOk(i) \/ Cardinality({v \in Checker : ~LockedOut(v, i)}) < Quorum

===============================================================================
