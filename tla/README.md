# ainize-node in TLA+

Specifications, model-checking runs and proofs for the marketplace node of this
repository (`src/src`, TypeScript).  Every definition is written from the source;
`PROJECT.json` names the lines each one stands for ("map"), the runs, the mutants
that show each property can fail, the hazards of the code and the theorems.

```
tlc -workers 2 -config PayoutsNode.cfg MCPayouts      # one run
tlapm StackProofs.tla                                 # one proof module
```

Contents: 1 the system, 2 how the project is laid out, 3 the modules, 4 the runs, 5 fairness,
6 the proofs, 7 what the code does otherwise, 8 what is not modelled.

## 1. The system

A node is one Node.js process with an SQLite store (node-local facts), a ledger
shared with other nodes (an AIN blockchain, or a gossiped local log), a directory
of patch bodies, a serving model it patches, and an HTTP surface.  "Knowledge" is
a patch to the model: it is announced, attested by verifiers, sold over x402
(HTTP 402, then payment), applied, and pays royalties to the knowledge it was
built on.  Rules the code enforces throughout: publishing is not selling (two
independent nodes attest, and one's own attestation does not count), the seller
must hold the goods, lineage binds the split, teaching is opt-in.

| Component (files under src/src) | State | Operations | Interacts with | Hard behaviour | What makes it correct |
|---|---|---|---|---|---|
| Settlement, seller (`market.ts` 2160-2550, `api.ts` 2689) | nonces, payments seen, grants, settle records | quote, verify, settle, reconcile | buyer, ledger, payouts | presentations repeated and concurrent, a crash between separate writes, a ledger that throws | one sale per payment, no overdraft, no quote burnt by a refusal, every sale gets its rows |
| Payouts (`payouts.ts`) | `payouts` rows; in memory: running, again, forced, in flight, cool-downs | enqueue, pass, retry, nudge, recover | settlement, ledger, timer, operator, payee | a transfer whose reply is lost, a crash in mid transfer, four callers of one runner | a debt is paid at most once, and in the end |
| Purchase, buyer (`market.ts` 2800-3070) | `pending_payments`, purchases, licences | quote, pay, present, finish | seller, ledger, p2p | a crash after the money moved | never paid twice, the receipt never lost |
| Leases (`shared-lease.ts`) | a directory and `holder.json` | claim, release, reclaim | runtime, teaching slot, other processes | each step a system call of another process | exclusion, a live lease is not broken, a dead one is taken back |
| Model queue (`runtime.ts` 195-364, `stake-fair-queue.ts`, `modality-gate.ts`) | waiters, busy, tags, virtual time | exclusive, exclusiveTry, run, pump | chat, teaching, verification, watchdog | requests arriving as sections end | slots, no idle slot with waiters, shares by weight |
| Deposit watcher (`deposit-watcher.ts`, `deposit-ledger-store.ts`, `deposit-chain-reader.ts`) | journal, ledger file, span | scan, persist, save, load | chain RPCs, stake weights | RPC failures, reorganisations, restarts between two files | every final deposit credited once, none forgotten |
| Catalogue (`market.ts`), verifier (`verifier.ts`) | a function of the records; attestations | draft, announce, attest, challenge, retire | ledger, p2p, runtime | records in any order | sellable only when attested by others, retired stays retired |
| Applied stack (`market.ts` 3250-3760, `live-sources.ts`) | `applied` rows, the serving model's table | apply, remove, recover, watchdog | runtime queue | the model restarts by itself | what is recorded is what is loaded, bases below deltas |
| Teaching (`teach*.ts`) | jobs, slot, datasets, drafts | submit, run, cancel, publish | trainer, runtime queue, lease | time-outs, restarts, cancellation against completion | one job per slot, no job stuck, nothing published unasked |
| Gossip (`p2p.ts`) | peers, cursors | pull, push, exchange, fetch a body | other nodes | pages against pushes | a cursor passes only what went in |
| Peer models, inference records, chat queue, API keys, OpenAI surface | small tables and in-memory tickets | | runtime, peers | time-outs and fallbacks | |
| Hosted agents, projects, script runs, agent repositories (`hosted-agent-*.ts`, `project*.ts`, `run-*.ts`, `agent-*.ts`) | spec files, containers, deployments, git repositories | create, deploy, stop, recover | docker, git, drive | container state against stored specs, restarts | one container per spec, deployed is what was pushed |
| Organisations, SSO, site sign-in (`organization-*.ts`, `sso*.ts`, `site-*.ts`) | members, roles, sessions | invite, join, provision, revoke | | orders of revocation and use | no last owner lost, revoked sessions end |
| GC, blobs, disk, drive, store, server, openapi | | | | | |

How the parts meet: a presentation settles in the market, appends to the ledger,
broadcasts to peers and enqueues payout rows; the payouts runner sends transfers
through the same ledger; `server.ts` starts in the order hosted agents, sandbox,
projects, deposit watcher (931), listen (1058), p2p, verifier, teaching, payouts
(1127), reconcile after five seconds (1131) and a 20-second watchdog (1135-1140),
so the API serves sales before payouts have started.  Deposits set the weights of
the model queue.  Teaching, verification, chat and the watchdog all enter the model
through the same queue and, between processes, through the same lease.

## 2. How the project is laid out

One module per component, written in this order, the most important behaviour first:
money (`RoyaltyDebt`, `Payouts`, `Settlement`, `Purchase`, `DepositWatcher`), what
everything waits for (`SharedLease`, `StakeQueue`), the model (`RuntimeStack`,
`Teaching`, `LessonMaking`, `Preflight`, `Datasets`, `LiveTests`), the records of the
network (`Verifier`, `Listings`, `Tracks`, `Gossip`, `BodyAccess`), agents and
containers (`HostedAgents`, `SharedAgents`, `AgentMesh`, `AgentRepo`, `Projects`,
`ScriptRuns`), people and other nodes (`Accounts`, `Organizations`, `NodeAccess`,
`ModelNetwork`).  `RoyaltyDebt` is an abstract specification that `Payouts` implements.

The `MC*` modules are small instances.  Five of them put components side by side:
`MCMoney`, `MCLessons`, `MCRecords`, `MCAgents` and `MCNetwork` extend several modules
and have one more variable, `part`, that says which of them moves in a behaviour; the
others stay in one initial state.  (`MCPayouts` has a `part` too: it holds two instances of
one component, "node" and "chain".)  The components of one such module share no state
the models keep (each models the others as its environment), so a behaviour of all of
them together is a shuffle of behaviours of each, and properties that speak of one
component see nothing else: exploring them one at a time loses nothing and costs the
sum of the state spaces instead of their product.  The state constraints called
`Apart` do the same inside a component for operations that do not meet, and say which.

Proofs are in `*Proofs` modules of their own (section 6).  The map of `PROJECT.json` names
the definitions that stand for code of their own; a helper whose lines lie within those of
the operation that uses it is covered by the row of that operation.

## 3. The modules

### RoyaltyDebt and Payouts (`payouts.ts`)

`RoyaltyDebt` is what a payee is promised: a debt is owed, then honoured; it is
never un-honoured.  `Payouts` is the code: one record per row of the table with its
status (`pending`, `paying`, `paid`, `failed`), its attempts and whether it was
interrupted, and the runner's program counter (`runner.pc`: idle, starting, grouped, between,
claimed, sending, booking, recording), whose values are the awaits of
`processPending` and `attemptGroup`.  Between awaits the code is atomic, which is
what `Yielded` says: no handler runs while the runner is between two statements.
Actions are the handlers: Enqueue (`enqueue`, 77), StartPass and EndRun
(`processPending`, 194), ClaimGroup (125), Send, ReplyOk, ReplyError, Book,
BookThrows (`attemptGroup`), RecordOk, RecordError (`putOnRecord`), TimerFires,
OperatorRetry, Nudge, Crash, Boot (the API listens) and Start (`recoverInterrupted`,
266, which leaves in-flight rows alone).  The chain is the environment: it may apply
a transfer and lose the reply, apply it later, or drop it.  Constants choose how
much help there is: `KeyOnce` (the chain refuses a transfer key it has seen),
`FaithfulErrors` (an error means that nothing was or will be executed), `StoreFaults` (a booking may
throw), `CanBatch`, `HasWallet`, `Nudged`.

### SharedLease (`shared-lease.ts`, used at `runtime.ts` 297-364 and `teach.ts` 1982-2010)

A lease is a directory; each step is one system call, so that any other process may
act between mkdir and the creation of `holder.json`, between the read and the unlink
of a release, and between rename, look and put-back of a reclaim.  `Sees[p]` is the
set of processes whose death p can judge (same boot, same pid namespace); it is
empty for the teaching slot, which never reclaims.  A lease holds the token
`<<process, claim number>>`, the random token of the code.  `astray` is a history variable:
how many leases were moved aside by a process that had read another one there.

### Settlement (`market.ts` 2160-2550)

Quotes, nonces, `payments_seen`, grants, settle records and rows, and one program
counter per presentation whose values are the awaits of `verifyPayment` and
`settlePaymentInner`.  `ahead` is the promise chain of the payer (`serialByPayer`).
`redeem` says that the catalogue this presentation was looked up in shows the sale:
it is up to 1.5 seconds old, and it is read before the presentation waits its turn.
Each table write is its own step, and the node may stop between any two.

### Purchase (`market.ts` 2784-3190)

One knowledge and the calls that buy or collect it (an operator's click, an agent, a
subscription).  `row` is `pending_payments`, one row per quote; `at` is the quote a
call works with; the awaits are the values of `pc`: pricing (family and addresses),
recalling (an owed payment presented first, by `buy`) or redeeming (by `collect`),
asking (the gateway), transferring, presenting, finishing and booking
(`finishPurchase`), fetching (a body on an existing settlement).  The chain executes what it was handed
whoever waits; the seller settles a presented payment once; the record reaches the
catalogue at any time (Show); the body may be forgotten (`forgetBody`, gc).  `mishap`
and `cut` are history variables that say which of the five ways to pay twice were met.

### DepositWatcher (`deposit-watcher.ts`)

One pass (`scanOnce`) walks the chains in order; for each it reads the head, takes a
range of at most `span` blocks below the confirmation depth, reads the logs, converts
and credits each deposit, and persists the journal; only after all chains does it
save the ledger.  `mem` and `disk` are the ledger in memory and on disk, `scanned`
and `journal` likewise.  Any call may fail (`faulty`, up to `MaxFaults` times), a
chain may drop blocks above the depth, and the node may restart anywhere.  `lost`
records, for the properties, what a restart forgot.

### StakeQueue (`runtime.ts` 195-364, `stake-fair-queue.ts`, `modality-gate.ts`)

Queues (the model: one slot; a gate: several) that share one scheduler, as
`server.ts` builds them (181-188, 900).  A request is a caller, a class, and `Work`, its
cost divided by the caller's weight.  Enter tags it (`admit`), Pump picks by class, tag and
arrival (`take`) and advances virtual time; polite requests (`exclusiveTry`) poll and
give up; Forget is `forgetIdle`.  `fresh` and `passed` are history variables for the properties.

### RuntimeStack (`market.ts` 3250-4010, `runtime.ts` 560-745, `store.ts` 1375-1394)

`applied` is the table of rows, `table` the shared model's own (who wrote each cell
last), `journal` what each body displaced.  A request decides its target stack before
it waits for the lock; inside the section each script run is a step and the row that
records it another.  The watchdog and the recovery after a start are requests like any
other.  The model restarts by itself, another node writes cells, scripts fail, the node
stops anywhere.  `astray` and `hurt` are history variables that name the ways the code
itself gives up the two properties (section 7).

### Teaching, LessonMaking, Preflight, Datasets (`teach*.ts`)

`Teaching` is the worker and the life of a lesson: PREFLIGHT, TRAINING, CHECKING,
EXPORTED, READY, published or declined, with an await after every step, cancels,
expiry, two restarts, the restoration of the shared model and the training set that is
edited beside it.  `LessonMaking` is how a lesson is asked for (the queue's gate asked
before and after the awaits of `createJob`), the docker client and the trainer process
of a lesson, and its notes on the chain.  `Preflight` is the probe before a lesson:
both budgets taken first, a stack loaded inside one section, taken off again in
reverse, the pinned bodies written once more; each removal and each writing may fail, which
the code swallows (`torn` is the history of the cells that were left so).  `Datasets` is the file, its questions,
edits, re-reads, copies and the declared parent.

### LiveTests (`chat-queue.ts`, `inference-records.ts`, `/api/chat`)

A test has a ticket under the id its client chose, waits for the lock, may be given up
while it waits, and leaves a receipt.  The journal of receipts and batches is a file;
each save may throw, and memory is then ahead of the disk until a later one works: a receipt
whose save threw is not given to its visitor, and a flush ends at the save that throws.  The
clock may be set back, the node may stop between two saves, the answer of the ledger may be
lost.

### Verifier, Listings, Tracks, Gossip, BodyAccess (`verifier.ts`, `market.ts`, `p2p.ts`, `gc.ts`)

`Verifier` is one verifying node and one knowledge: the polling round over a catalogue
snapshot, a verification by hand beside it, challenges, the grace period of an absent
model, and the body that is fetched, bought, served, forgotten or collected meanwhile.
`Listings` is what an author writes about its own knowledge (drafts, announcement,
the promised supersede list, prices, withdrawal, notices) and what a catalogue makes of
it in any order.  `Tracks` is a subscription: the fee, the purchases, the load, the
20-second sync.  `Gossip` is the peer table and the round (hello, exchange, pages,
cursor) while records are pushed and peers are added and removed; a peer lists its records
with the time it took each (`Taken`), each record has the time its author wrote into it
(`Dated`), and the cursor is a time, as in the code.  `BodyAccess` is who
may fetch a body: leases counted per verification, fetches granted, broken off (`broken`) and
refused, tokens bound to an address, licences.

### HostedAgents, SharedAgents, AgentMesh, AgentRepo, Projects, ScriptRuns

`HostedAgents`: builds, starts, idle stops, room, changes of kind and removal against
containers and the gateway's tokens.  `SharedAgents`: the registry and its feed of
events, and a follower that reads it with a cursor.  `AgentMesh`: who holds an id, the
health of its upstream, and the labels gate before the hop to a peer.  `AgentRepo`: one
agent kept as a row and as the tree of a branch, five doors that write both with git
processes between.  `Projects`: pushes, builds in order, containers that replace each
other, restarts.  `ScriptRuns`: slots, images, the docker client and its container, kill
and time-out, tokens and tunnels.

### Accounts, Organizations, NodeAccess, ModelNetwork

`Accounts`: what an IdP says of an account, version after version, applied to links,
memberships, sessions and a key file of its own.  `Organizations`: rows, invites, claims
by domain or linked organization.  `NodeAccess`: challenges, sessions, device codes,
bindings of keys and their end.  `ModelNetwork`: four doors to a card, gates, rate
windows, and routing to a peer by what gossip said last.

## 4. The runs

Passing runs (bounds in the cfg; distinct states):

| Run | Components and bounds | States | Question |
|---|---|---|---|
| PayoutsNode | 1 crash; "node": 3 rows of 2 sales, no help from the chain; "chain": 2 rows of a sale; used keys refused, lost replies, faulty bookings, nudges, batches | 923 k | PaidOnce; PaidMeansLanded: is paid always on the chain; NodeHonoursDebts: does it implement RoyaltyDebt; EveryDebtSettles: does every debt come to rest? |
| MoneyNode | Settlement (2 quotes of one payer, 3 presentations, both ledgers, faults, 1 stop), Purchase (2 calls, 2 quotes, errors that may lie, 1 stop), StakeQueue (5 requests of 2 callers, 2 queues or classes), DepositWatcher (2 chains, 3 deposits, 2 failures, 1 restart) | 671 k | NoOverdraft, QuoteSpentLast; MoneyIsOnRecord, NeverPaidTwice; NobodyWaitsForNothing, FairShare; FinishedIsCredited, DepositsAreCredited |
| LessonsNode | SharedLease (4 processes, 2 of which reclaim, 2 deaths), LessonMaking (2 requests, 2 lessons), Datasets (2 sets, 2 revisions), Preflight (2 visitors behind one address, 3 knowledges, 2 probes) | 413 k | HoldersAreCounted, DeadIsTakenBack; QueueIsBounded; CopyIsDeclared; ModelIsPutBack |
| StackNode | 3 knowledges (one a delta on another), 2 cells; 3 requests and 1 mishap, or 2 and 2 | 550 k | RecordIsTable, StackIsWanted; RestartIsRepaired |
| TeachNode | 1 lesson with every choice and a mishap, or 2 lessons | 187 k | FilesUntilRestored, CancelIsHonoured; LessonsEnd |
| RecordsNode | Verifier, Gossip (3 endpoints; records of one time, and dated ahead), Tracks (5 items, 2 of which cannot be bought), Listings (5 ids), BodyAccess (3 listings, 3 broken downloads) | 174 k | ServedIsHeld, ChallengesEnd; EveryRecordArrives; KeepsUp; SupersededByNewer; EveryWaitingIsMet |
| AgentsNode | HostedAgents (2), SharedAgents (1 id, 2 people, 2 teams), Projects (1, 4 commits), AgentRepo (2 callers), ScriptRuns (2), AgentMesh (2 peers) | 760 k | TokensAreHeld, FollowersAreTold, LiveIsNewest, OneAnswer, SlotsAreRuns, BodyNeedsLabels |
| NetworkNode | Accounts (2, 2 organisations), Organizations (2), NodeAccess (2 wallets, 1 key, 2 codes), ModelNetwork (2 nodes, 4 backends, one with two models), LiveTests (2, saves that throw) | 787 k | SessionsFollow, OffboardedIsOut, EndedKeyIsOut, NamedModelAnswers, ReceiptsAreKept |

Two components that make new rows are bounded by state constraints as well: in LessonsNode a
behaviour of Datasets has two sets, one lesson and one set written again, or all of these with
every set kept (`FewSets`).  The bounds are the smallest in which the interesting case occurs: two sales so that a
row waits behind another in a group; two presentations of one payment and one of a
second quote, so that replay and overdraft both arise; two chains so that one can fail
after the other is done; four processes, since the race of a reclaim takes a dead
holder, two that reclaim and one that claims; two items that cannot be bought, so that their
backoffs overlap; as many broken downloads as a lease allows fetches; a backend of two models;
a page that ends between two records of one time; a delta over a base that shares a cell with it; two visitors behind one
address, so that a budget is shared and another is not; a full peer table of two; two
versions of a knowledge and a third on top; two deployments, so that one is older; two
codes, so that one is collected after the key ended.  One crash may fall in any state;
the proofs of section 6 cover any number.  Counters are bounded in the guards that
increment them and every bound is a constant of its module (Max...).

Every property has a mutant: an operator above the mutated definition that changes it
as a bug would (a restart that requeues what it was sending, start tags not raised to
the queue's clock, a nonce burnt by a refusal, a slot given back only by a run that was
spawned), under which TLC refutes the property.

Deadlock is not checked where the bounded environment may come to rest with nothing
left to do (all presentations answered, all deposits credited).

Violation runs (PurchaseTwice, LeaseFour, LeaseShared, NamedModel) refute a sentence of the
repository each; see section 7.

## 5. Fairness

Weak fairness of the steps a process takes by itself (awaited calls return: the HTTP
clients have time-outs), of timer and watchdog ticks (`setInterval`), and of the start
of a node that stopped.

* Payouts: the runner's steps, the timer, Boot; strong fairness of Start, which another
  crash can disable again.
* SharedLease: a process that asks goes on asking, and a running step is taken.
* DepositWatcher: Scan, the pass and its next start; DepositsAreCredited rests on the
  bound on faults, that is, on failures ending.
* RuntimeStack: the steps of a section and the ticks; strong fairness of the entry of
  watchdog and recovery, since the lock is free again and again and its queue is served
  in order (StakeQueue).
* Teaching: the worker, the start, the return of the model; strong fairness of the
  picks that compete with other lessons and of the slot.
* Verifier: the round, the grace timer, the cache's expiry; strong fairness of the pick
  of this knowledge by a round that has others to do.
* Gossip: the calls of the round.  Tracks: the sync, the model, a backoff that runs out.
* BodyAccess: a verifier goes on with what it waits for.

Nothing is assumed of buyers, operators, payees, visitors, faults or the chain's good
will: EveryDebtSettles lets a debt end with its automatic attempts used up.

## 6. The proofs

tlapm checks every theorem for every value of the constants that satisfies the
assumptions their modules state: any number of rows, presentations, calls, requests,
chains and processes, any number of crashes.  Constants carry no more than their types,
with one exception that is named below (`KeyOnce` or `Careful`); a peer lists its records in
the order of the times it took them (GossipAssumption), a node's own
listings are finitely many and none of them is another's, the lessons that are ever made are
finitely many, and "none" is no knowledge.

Each proof follows the same argument.  The property alone is not inductive: it says
nothing of what is under way, and the step that could break it is the one that finishes
something.  So the invariant adds facts of what is in flight, is checked by TLC on the
instance of the run first, and is then proved in layers, each inductive relative to those
before it, with one step per action and one lemma per operator the actions share.

| Module | Theorem | States | Inductive invariant |
|---|---|---|---|
| LessonsProofs | HoldersStayCounted, NeverBroken, NoneLeft, UnknownKept | HoldersAreCounted; LiveLeaseStays, LeaseIsHeld, UnknownStays of SharedLease | ClaimsInv, ReadInv, DisplacedInv, StraightInv |
| | QueueStaysBounded | QueueIsBounded of LessonMaking | LessonRows, TrainerShape, WorkerTrains |
| | CopiesAreDeclared | CopyIsDeclared of Datasets | ParentTold, PublishedOnParent |
| | ModelIsServedAgain | ModelIsPutBack of Preflight | OneInside, PinsHeld, SectionShown |
| MoneyProofs | SettleTyping, SoldOnce, NotBurned, OneSale, NeverOverdrawn | types; SalesArePaid, QuoteSpentLast, NoOverdraft of Settlement | SaleFacts, TurnFacts, SpendFacts |
| | BuyTyping, MoneyStaysOnRecord, SettledWasSold, PaysOnce | types; MoneyIsOnRecord, SettledIsSold, NeverPaidTwice of Purchase | RowFacts, Clean |
| | WatchTyping, FinishedStaysCredited, NeverTooEarly, JournalAdvances | types; FinishedIsCredited, OnlyFinalIsCredited of DepositWatcher; the journal only advances | AtRange, DeepInv, CreditInv |
| | SlotsAreKept, NobodyForgotten, FairToAll | slots; NobodyWaitsForNothing, FairShare of StakeQueue | Numbered, Loaded, Fair |
| RecordsProofs | Typing, NoRowIsLost, PaidIsOnChain, NeverPaidTwice, InterruptedNeedsCheck, PaidStays, PayoutsHonourDebts | types; NoneLeftPaying, PaidMeansLanded, PaidOnce, HonoursDebts of Payouts (the run checks HonoursDebts of its "node" instance, as NodeHonoursDebts); action properties | RunnerInv, ChainInv, MoneyInv |
| | ServedBodyIsHeld | ServedIsHeld of Verifier | HeldInv |
| | NewerSupersedes | SupersededByNewer of Listings | InTime, Announcing, Pending, Recorded |
| | CursorPassesWhatIsHeld | what a peer's cursor has passed is held, refused for ever or lost by its times (Gossip) | PeerRows, HeldUpTo |
| | FollowedIsAcquired, FeesStayOnRecord | what is followed and served is licensed; no fee leaves without a row (Tracks) | TracksInv |
| TeachingProofs | LessonFilesAreKept, CancelledIsNotOffered | FilesUntilRestored, CancelIsHonoured of Teaching | FlaggedOnTable, HeldIsActive, PublishedWasChecked, CancelledStays |
| StackProofs | StackTyping, RecordStaysTrue, StackStaysWanted | types; RecordIsTable, StackIsWanted | StackTyped, Journaled, Served; Told, Meant |
| NetworkProofs | SessionsStayTrue | SessionsFollow of Accounts | AccountsTyped, AppliedToKnown |
| | EndedKeyStaysOut | EndedKeyIsOut of NodeAccess | BindingsHaveLeave |
| | OffboardedStaysOut, LastAdminStays | OffboardedIsOut of Organizations; an organization keeps an admin | MembersLetIn; OrgsSound |
| | NamedModelIsServed | NamedModelAnswers of ModelNetwork | CallsRight |
| | ReceiptsStay | ReceiptsAreKept of LiveTests | ReceiptsInv |
| AgentsProofs | NothingLeavesUnlabelled | BodyNeedsLabels of AgentMesh | VerdictsHold, GatedCall |
| | NoSlotLeaks | SlotsAreRuns of ScriptRuns | SlotsInv |
| | CopiesAgree | OneAnswer of AgentRepo | RequestsInv, AgreeInv |
| | NoStrayTokens | TokensAreHeld of HostedAgents | StartsAreNow, TokensExplained, ContainerTended |
| | NewestServes | LiveIsNewest of Projects | ReadyFirst, QueueRises, OpenInLine, OneBuild, BuildKind |
| | FollowersHear | FollowersAreTold of SharedAgents | LastIsListed, TellsNewest, LinkedIsTold, Reached |

**Payouts.**  `Typing` (TypeOK), then three layers: `RunnerInv` (what the runner holds
agrees with the rows: a row is `paying` iff it is held, claimed rows were counted),
`ChainInv` (a paid row landed; a transfer that may still land belongs to a row that is
held, interrupted or retried), `MoneyInv` (at most one transfer of a debt has landed or
may land).  MoneyInv needs either `KeyOnce`, or `Careful` (errors are faithful, bookings
do not throw, nobody nudges): without the chain's help a nudge by the payee of an
interrupted row pays twice, and the theorem says exactly that.  The invariant is needed
because PaidOnce says nothing about a transfer under way: a step that lands a transfer
must know that no other landed.  PayoutsHonourDebts is the refinement: initial states map
to initial states, each step to a step or a stutter of RoyaltyDebt.

**SharedLease.**  Two processes that judge the same death break exclusion (LeaseFour), so
what is proved, for any number of judges, is how far it can break: HoldersAreCounted allows
one holder more for each lease that was moved aside by a process that had read another.
`DisplacedInv` is the count behind it: the holders whose lease is not the one at the path are
at most `astray`.  The step that moves a named lease displaces one holder at most and,
since what was read is a dead process's lease (`ReadInv`), only when it moves another one
(`ClaimsInv` keeps the claims within their bound, so that leases stay in their type).  `StraightInv`
says that until a lease was moved astray what is aside is what was read, or has no name, and that a
live lease at the path is the one its owner holds; LiveLeaseStays follows: a live lease leaves the
path by its holder's hand until then.

**LessonMaking.**  A lesson enters the queue in the one step that asks `queueGate` again
right before the insert, so the steps that matter are all the others: `NoneAdded` is what
each of them keeps, and it needs to know that the worker writes only a lesson that is in
training (`WorkerTrains`) and that no row changes its key.

**Datasets.**  `CopyIsDeclared` speaks of a lesson when it is published and of what its set
said when it was made, revisions earlier.  `ParentTold` keeps the parent of a set that named
one knowledge through every edit, re-read and copy; `PublishedOnParent` carries it to the
lessons.  The property is limited to a set that named that one knowledge when it was made:
a set that names another one only later keeps its parent (section 7).

**Preflight.**  `SectionShown` is the middle of a probe: the model shows what was added on
top of the operator's stack, and of a cell that no pinned body writes the first
addition noted that it was unwritten.  The removal in reverse order then gives such a cell
back its note, and the pinned bodies, written once more, give back the rest;
`PinsHeld` is why they can be, and `OneInside` why nothing was added between the two.  A removal
or a writing that fails is swallowed by the code, and all of it is said of the cells outside
`torn`: the cells of the bodies this happened to.

**Settlement.**  NoOverdraft bounds a sum over the records, and a record is written
several steps after the balance it was allowed by was read.  `Reserved` says that the
balance still stands in between; it is kept because `TurnFacts` holds: of two
presentations of one payer one is in the other's `ahead` (the promise chain of
`serialByPayer`), and one that is being handled has nobody ahead of it, so no other sale
of that payer is recorded meanwhile.  `SaleFacts` ties a spent nonce, its presentation and
its record together (who accepted a quote owns it, alone), which gives QuoteSpentLast,
SalesArePaid and OneSale through every stop and every ledger that throws.

**Purchase.**  `RowFacts` says what a call that waits knows of its row (a transfer it
waits for belongs to a `quoted` row and to no other call; what it presents is paid; what
it finishes is sold), and that a quoted row is waited for or was cut off.  `Clean` says
that until one of the five mishaps happened at most one call is under way, at most one row
committed money, and none did when a quote is asked for; NeverPaidTwice follows, since a
second transfer needs a second committed row.

**DepositWatcher.**  `DeepInv`: a finished block, in memory or in the journal, has the
confirmations above it, also while a range is read, so that no reorganisation the
confirmations allow drops a credited deposit.  `CreditInv` adds what was read of a range
and is not credited yet (`ReadIsKept`); without it the step that ends a range and moves
`scanned` past it could not know that everything in it was credited.

**StakeQueue.**  The facts are operators of the requests' places, tags and numbers, so
that they also speak of the middle of a step (a request came or left, the pump has not
run).  `take` is shown to be a total order of those who wait (BeforeIsOrder, OneIsFirst),
the pump to start its first or nothing; `Loaded` (a queue with a waiter has all its slots
taken) is re-established by one pump since a step frees one slot at most.  FairShare bounds the
sum of what another caller was served while a fresh request waits: `Clocked` and `Spaced`
say that the tags of one caller lie at least their costs apart and above the virtual time
of their arrival, `Shares` that what was served fits between the clock when the request
came and its own tag.

**Verifier.**  The body of a served knowledge may only go when its row says that it was lost;
the one step that takes a body from under the model is `patch forget`, which asked before it
waited: `HeldInv` says that a forget under way of something served is of a body already known
to be lost.

**Listings.**  An announcement picks what it retires, anchors and appends in separate steps,
and a reconciliation works through its list beside it.  Candidate and Supersedes say when one
listing may give way to another by what was listed then; they stay true as listings
are added, because a new anchor is later than every own one (`InTime`), and hold of every
pair that is written (`Recorded`), promised (`Pending`), still to be written (ToDo) or about
to be retired (`Announcing`).  Which listing of a body came first is a minimum
over a set that grows (FirstSeenIsFirst).

**Gossip, Tracks.**  The runs check EveryRecordArrives and KeepsUp, which are liveness; these
theorems are the safety they lean on.  A page moves the cursor of a peer to
the time of its last record (`WholePage`), and one that fails in the middle to just before the
date of the record that failed (`CutPage`).  `HeldUpTo` says of every record at or below the
cursor that it is held or refused for ever, or that the pull may lose it by its times: `Pullable` names
the records of which that cannot be, those no earlier record shares its time with and that
nothing up to them is dated after (section 7).  A subscription buys item by item between awaits; `TracksInv` says
that what it wants is licensed, still to buy, or could not be bought, so that the
announcement and the load at its end speak of licensed items only, and that the row of a fee
that is about to leave is there already, so that a stop after the transfer leaves its trace.

**Teaching.**  The worker, the owner, the operator, the sweep and a restart write the same
row, each with awaits between reading and writing.  `FlaggedOnTable`: a lesson that is on the
shared model is flagged in its row and its file is there.  `HeldIsActive`: the lesson the
worker holds is under way, or was cancelled and carries the flag the worker reads before
its next step.  `PublishedWasChecked`: a lesson that is being published was measured and is not
measured again meanwhile.  `CancelledStays`: of a lesson whose owner was told CANCELLED,
no step that could still offer it is left without the flag, by the worker or by a
publication.  `GoneIsIdle` says that a node that stopped holds nothing, which a start relies on.
One lemma per action says what it leaves of its own lesson, and Elsewhere what it leaves of
every other.

**RuntimeStack.**  The assumptions are types (`StackAssumption`) and what a lineage is
(`LineageAssumption`: no knowledge twice or under itself, and only a delta has bases).
`Right` says of a list of layers that the table shows the topmost that writes a cell and
that each journal holds what lay under its body; RightPut and RightTake are its two laws:
a body loaded on top of a right stack leaves a right stack, and one that comes off through
its journal leaves the stack below it.  Between the script of a verification and its row
the stack is not right, so RecordIsTable is not inductive: `Served` says what holds in each
stage of a section (`Half` is a top row that marks a candidate whose body is not on the
table, `Ghost` one that a failed load left behind and that the restore takes off first,
writing what is there already), and `Journaled` that nothing but a row has a journal.
StackIsWanted needs what each waiting request asks for relative to the stack it saw
(`Told`) and what the section and the snapshot in `runtime.restore` know of the wanted
stack (`Meant`): a section keeps the target it was given, a test its snapshot, and a
snapshot that outlives its run gives the wanted stack back, minus nothing, because no
row that is left with a test's reason is one of its ids.  The attempt to prove
RecordIsTable found a state the model had not met with one mishap (section 7, RuntimeStack).

**Accounts, access, organizations.**  `AppliedToKnown` says that AIN SSO's word was applied
only to an account the node knows and that no session is of an unknown principal, so that a
link that moves finds either no session to keep or the principal already there.
`BindingsHaveLeave` says of the keys what EndedKeyIsOut says of the sessions: a key that
speaks for somebody has that person's leave now, which is what a sign-in between two
bindings of the same key needs.  `MembersLetIn` says that a row which was not written down
for a claim is of a person let in; the theorem then holds whichever of the operations
rewrites a row.  LastAdminStays is an action property over all of them; its invariant
`OrgsSound` (one row per person, none in a deleted organization) makes a second admin row a
second person, so that the counts in `setMember` and `removeMember` mean what they say.

**ModelNetwork.**  `CallsRight` says of a call under way that what it names is served by the
backend it waits for, and of an answer which model gave it.  NamedModelIsServed proves of every
network that a named model is answered by a backend that serves it, and by that model unless the
door for other nodes asked the backend for its first (NamedModelAnswers); where no such backend
that runs has two models (`OneModelEach`) it is that model or a refusal (NamedModelOrRefusal),
which the comment of the door says without the condition, and the run NamedModel refutes.

**LiveTests.**  A save may throw, so memory and disk are two journals: `KeptIn` says of either
that it has each receipt that was given in exactly one place, that the numbers of its batches are
apart, that a batch was offered at most once, and not while it is pending, and that no receipt is
older than the batch it will go into; that last part
is what makes a batch one of its time when the clock is set back.  `Flushing` says of what a flush has still to submit that it is
pending, or being submitted, in memory.  The sizes of the sets of receipts need FS_Bijection and FS_Union.

**Agents.**  BodyNeedsLabels speaks of a call that is leaving, while its labels were read
one or more steps before: `VerdictsHold` says that a verdict kept for a peer rests on labels
that satisfy the requirement it is kept under, so an answer from the cache is as good as
a fresh one.  SlotsAreRuns needs that two runs of one caller are two runs: `SlotsInv` counts the
runs in flight by caller and in all, under `ScriptAssumption` (the ids that are ever given
out are finitely many), through every way a run ends.  OneAnswer compares the row of the
agents' file with the branch main after a change that nothing overlapped, and every
operation writes the two one after the other: `RequestsInv` says of a request that has
written one of them alone that it is the only one and about to write the other with the
same content (Follows), `AgreeInv` that otherwise the two agree and nobody is half way; the graph
of commits only grows (CommitGrows, ReachGrows), so what a request read stays what it was.
TokensAreHeld, in the same way, is the quiet end of three facts that hold all the time: a
start under way is of the agent that exists now (StartsAreNow), a token the gateway accepts
is the runtime's or that of a starting container (TokensExplained), and a container is the
runtime's or something under way starts or stops it (ContainerTended).  An agent removed or
turned while its container started is exempt (`hraced`), as in the property.
LiveIsNewest is about the end of a build, and a build was queued long before: `QueueRises`
and `OneBuild` say that a project's queue is in the order of arrival behind its one build,
`ReadyFirst` that whatever is ready came before everything in line, `OpenInLine` that
nothing unfinished is out of line (which a restart needs, as it makes the queue anew), and
`BuildKind` that only a build with a container of its own ends a service ready.  That
`Ascending` has a value, all of its set and in order, is proved by induction over the
set (InOrder, AscendingIs).
FollowersAreTold speaks of a follower at the end of the feed; `Reached` says of one on the way
there that it is `Informed` (it knows the newest change of the agent, has it to read, or the
agent never concerned it) or that a change of the agent still waits to be told to it.  An event
that falls out of the feed was read by every follower whose cursor the feed accepts
(NewsGrow), and the wider of two audiences of one owner is seen by whoever lists the agent
before or after, unless both are organizations (WiderSeesBoth), which is why a move between
organizations is exempt.  `TellsNewest` says that what waits is the newest change, and
`LinkedIsTold` that a linked agent, whose removal is told at once, has nothing waiting.

**FiniteSums.**  SumFunctionOnSet is a fold over a CHOOSE, and the induction theorems of
the library cannot be instantiated here.  The module proves what the sums need from the
well-foundedness of the numbers (WFMin): a property given as a set of sets that holds of a
set whenever it holds of the set without any one element holds of every finite set
(SmallerSets); hence the greatest element of a finite set of numbers (Largest), and that a
sum over a finite set is well-defined, typed, zero on the empty set, splits off an element
and depends only on the values on the set (SumType, SumZero, SumSplit, SumSame).

**Only model-checked.**  Every safety property of the passing runs is stated by a theorem.
What is left to TLC is liveness (EveryDebtSettles, DeadIsTakenBack, DepositsAreCredited,
RestartIsRepaired, LessonsEnd, ChallengesEnd, EveryRecordArrives, KeepsUp,
EveryWaitingIsMet): fairness and ENABLED are out of tlapm's reach.  What a recursive
definition or a fold computes for every input is out of reach too; the proofs use of them only
what the lemmas of FiniteSums and the module's own lemmas establish.
The components without a property of a run of their own are listed with their reason in
`PROJECT.json`.

## 7. Where the code does otherwise than it says

With a run:

* **LeaseFour** (`shared-lease.ts:64` against `runtime.ts:353`, "Never breaks a live
  lease"): a reclaim renames first and looks second; with two reclaimers and two
  claimers a live lease is aside while another process claims.
* **PurchaseTwice** (`market.ts:2904` against 2900, "finished first — never paid
  twice"): when the re-presentation of an owed payment fails, the node asks for a new
  quote and pays again.
* **NamedModel** (`peer-models.ts:352` against 338, "A caller that names a model gets that model
  or a refusal"): the door for other nodes asks the backend for `models[0]`, whatever was named;
  `inference-backends.ts:20` allows a backend several models.
* **LeaseShared** (`market.ts:2055` against 2079-2083): of two listings that share a
  body, the fetches for one use up the verifier's lease of the other.

Met while modelling; each is in the model, and where a checked property would be
refuted by it, the property names it as an exception:

* Settlement (`market.ts:2428`, 2511-2512 against 2321-2322): a stop between the nonce
  and the settle record leaves the payer refused for good.
* DepositWatcher (`deposit-watcher.ts:163`, 111-112 against 109-110): a restart between
  the journal and the ledger file forgets credits.
* Payouts: the public record of a payout is never retried; a fault while a batch is
  booked re-opens the rows of it that were already told to be paid (so the refinement is checked
  without such faults, and NodeHonoursDebts is of the "node" instance).
* SharedLease: a process that dies between mkdir and `holder.json` leaves a lease nobody takes back.
* StakeQueue: a drained queue does not level the callers of its classes
  (`stake-fair-queue.ts:26-29`); queues share one scheduler, whose clock and costs mix.
* RuntimeStack: targets are computed before the lock (`market.ts` 3458, 3555-3576,
  3585-3597), so overlapping requests undo each other; a live test of a pinned knowledge
  leaves its row under a `chat:` reason (3894 against 3907-3908) and the recovery unloads
  it; a request before the recovery overwrites its snapshot; a restart of the model and
  an apply before the next tick hide missing layers (3580-3583); a verification whose
  body fails to load after its row was marked, and whose row then cannot be taken off,
  keeps a row without its body and drops the snapshot (3696-3706 against "Whatever happened
  above ... the node is left serving what it was serving"), which `hurt` names "marked".
* Teaching: a cancel during `createLessonDraft` is answered CANCELLED and the lesson is
  READY (`teach.ts` 2096); cancelled while it is announced, a lesson is on the record
  without its body (3511-3531); deleting the set removes the personal-data report, and
  publishing then pins such rows (`teach-datasets.ts` 277-280); `private` with
  delete_after_training is pinned for ever (3403-3404).
* LessonMaking: a second restart fails a lesson without ending its trainer (518-520).
* Preflight: a delta is loaded without its base, and its removal writes the base's rows
  (`teach.ts` 876-906); units of an earlier hour are given back to the present one;
  a removal that fails, or a pinned body that cannot be written again, is swallowed
  (`teach.ts` 945-946, 953), and the rows stay as they were left.
* Datasets: an edit, and a set read again, never compute the parent anew
  (`teach-datasets.ts:435` against `teach.ts:3432`), so a set keeps the parent of its first
  reading; copies bypass the quota; a re-upload of a set whose files went
  returns the empty one.
* Verifier: a hash-only attestation cannot be upgraded on a priced knowledge
  (`market.ts:2056-2065`); a body may be released between the check and the purchase.
* Gossip: `maxPeers` is not asked of an inbound hello (`api.ts:2787`); a peer removed
  during its own call comes back as learned; a page may end between two records of one
  time, and the cursor then passes the second (the comment at `p2p.ts:211` says that no record is
  skipped); a failure at a record dated ahead of its arrival moves the cursor past what the page
  still held (231).
* BodyAccess: three downloads that break off lock a verifier out of its verification
  (`market.ts:2082-2085`).
* Tracks: a fee whose answer is lost is paid again (`market.ts` 4611-4637); later periods
  are never paid; two items that cannot be bought, whose
  backoffs alternate, keep the whole list from loading: `layersFor` refuses it (4899-4920).
* Listings: nothing keeps two announcements apart (1549-1580; the model has one at a time); a duplicate body is refused only at the draft; a stop between anchor and
  supersede list loses the list.
* Accounts: keys are revoked in memory before the file is written
  (`openai-api-keys.ts` 195-219), and come back with a restart.
* Organizations: a lapsed claim's row still counts as an admin.
* HostedAgents: a removal during a start leaves a container with a token; a late
  `docker stop` may end the next container.
* SharedAgents: a move between teams is not told to the second team's members; events of
  hosted agents may come out of order.
* Projects: redeploying the commit that serves removes its container first
  (`project-containers.ts:117` against 88-90); runs are not queued again after a restart.
* AgentRepo: row and branch drift under overlapping requests or a crash
  (`server.ts:797-798`); a mirrored agent is not read-only for PUT and merge.
* ModelNetwork: a chat card is reached beside the lease.
* NodeAccess: a code collected after its key ended opens a session that stays
  (`api.ts:667` against 672-673).
* AgentMesh: two rows may show one short address (`agents.ts:551` against 571-572).
* ScriptRuns: a container may come up after its kill (`run-sandbox.ts:493`); tunnels
  outlive their run.
* LiveTests: one id used by two requests breaks the cancel (`chat-queue.ts:14`); a save
  that throws leaves a receipt in memory only, which a later batch may commit although its
  visitor was never given it.
* A transfer below the price is refused at `market.ts:2394`, so the code that would hold
  it (2418-2426) is never reached.

## 8. What is not modelled, and why

Amounts other than the price, part payments and royalty earnings as balance
(Settlement); the bases of a family and the on-chain access receipt (Purchase);
signatures (a presentation is the payer's own); the start block and unreadable files
(DepositWatcher); wall-clock time (expiry, cool-downs and idleness are actions that may
happen at any time; forgetIdle assumes no request waits half an hour); reuse of process
ids (SharedLease); journals shared with other nodes and licences (RuntimeStack); the
parsers and scores (Datasets, Verifier); the wording of listings, reports, cards and
logs.  The protocol library `ainize-core` is not part of this repository: what the node
asks of the ledger is marked external in the map, as are docker, git and the chain RPCs.
HTML, OpenAPI text, file parsing and model inference have no state worth checking.  The
drive mirror, the code inside an agent's container, the Python services and the SDKs
are listed with their reason in `PROJECT.json`.
