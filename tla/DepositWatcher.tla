-------------------------- MODULE DepositWatcher --------------------------
(***************************************************************************)
(* The deposit watcher of src/src/deposit-watcher.ts with the ledger file  *)
(* of deposit-ledger-store.ts: one timer pass after another reads each     *)
(* chain in turn, credits the transfers that are deep enough, and writes   *)
(* down how far it got (the journal) and what it credited (the ledger).    *)
(*                                                                         *)
(* The two files are written at different moments, and every await, disk   *)
(* write and RPC call may fail.  Blocks are numbered from 1; a deposit in  *)
(* block 0 is in no block.                                                 *)
(***************************************************************************)
EXTENDS Naturals, Sequences, FiniteSets, FiniteSetsExt

CONSTANTS
  Chains,         \* the configured chains, in order
  Deposit, ChainOf,  \* the transfers to this node, and the chain of each
  Confirmations,  \* of a chain: how deep a block must be
  VaultShare,     \* the chains whose token needs no conversion
  RpcWidth,       \* of a chain: the widest range its RPC answers
  MinSpan, MaxSpan,  \* DEPOSIT_SCAN_MIN_BLOCKS, maxBlocksPerScan
  FaultKinds,     \* the sets of calls that may fail: "head", "read", "shares",
                  \* "journal", "ledger"
  MaxHead, MaxFaults, MaxRestarts  \* bounds

Chain == {Chains[i] : i \in DOMAIN Chains}

ASSUME DepositAssumption == IsFiniteSet(Deposit) /\ ChainOf \in [Deposit -> Chain]
ASSUME SpanAssumption ==
  /\ Chains \in Seq(Chain) /\ {MaxHead, MaxFaults, MaxRestarts} \subseteq Nat
  /\ Confirmations \in [Chain -> Nat] /\ VaultShare \subseteq Chain
  /\ RpcWidth \in [Chain -> Nat] /\ {MinSpan, MaxSpan} \subseteq Nat \ {0}

VARIABLES
  head, blockOf,    \* the chains: their newest blocks, the block of each deposit
  mem, disk,   \* the ledger: in memory, in deposits.json
  scanned, journal,  \* the last finished block: in memory, in the journal file
  span,        \* the range the RPC last accepted
  phase, turn,    \* the pass: where it is, and at which chain
  safe, width, \* the safe head it read, the range it tries
  todo,        \* the logs it still has to credit
  new, credited,  \* credits of this chain, and of the chains it finished
  lost,        \* history: credits gone in a restart though the journal is past them
  faulty, faults, restarts

blocks  == <<head, blockOf>>
files   == <<disk, journal>>
locals  == <<safe, width, todo, new>>
pass    == <<phase, turn, locals, credited>>
bounds  == <<faulty, faults, restarts>>
watchVars    == <<blocks, mem, scanned, span, files, pass, lost, bounds>>

WatchTypeOK ==
  /\ head \in [Chain -> 0 .. MaxHead] /\ blockOf \in [Deposit -> 0 .. MaxHead]
  /\ mem \in SUBSET Deposit /\ disk \in SUBSET mem
  /\ scanned \in [Chain -> 0 .. MaxHead] /\ journal \in [Chain -> 0 .. MaxHead]
  /\ span \in [Chain -> 1 .. MaxSpan]
  /\ phase \in {"idle", "head", "reading", "crediting", "saving"}
  /\ turn \in 1 .. Len(Chains) + 1
  /\ safe \in 0 .. MaxHead /\ width \in 0 .. MaxSpan
  /\ todo \in SUBSET Deposit
  /\ new \in Nat /\ credited \in Nat
  /\ lost \in SUBSET Deposit
  /\ faulty \in FaultKinds
  /\ faults \in 0 .. MaxFaults /\ restarts \in 0 .. MaxRestarts

WatchInit ==
  /\ head = [c \in Chain |-> 0] /\ blockOf = [d \in Deposit |-> 0]
  /\ mem = {} /\ disk = {}
  /\ scanned = [c \in Chain |-> 0] /\ journal = [c \in Chain |-> 0]
  /\ span = [c \in Chain |-> MaxSpan]
  /\ phase = "idle" /\ turn = 1 /\ safe = 0 /\ width = 0 /\ todo = {}
  /\ new = 0 /\ credited = 0
  /\ lost = {}
  /\ faulty \in FaultKinds /\ faults = 0 /\ restarts = 0

c == Chains[turn]

\* scanChain is left, and its local variables with it.
Drop == safe' = 0 /\ width' = 0 /\ todo' = {} /\ new' = 0
-----------------------------------------------------------------------------
(* The chains *)

Grow(x) ==
  /\ head[x] < MaxHead
  /\ head' = [head EXCEPT ![x] = @ + 1]
  /\ \E S \in SUBSET {d \in Deposit : ChainOf[d] = x /\ blockOf[d] = 0} :
       blockOf' = [d \in Deposit |-> IF d \in S THEN head[x] + 1 ELSE blockOf[d]]
  /\ UNCHANGED <<mem, scanned, span, files, pass, lost, bounds>>

Final(d) == blockOf[d] > 0 /\ blockOf[d] + Confirmations[ChainOf[d]] <= head[ChainOf[d]]

\* A reorganisation no deeper than the confirmations drops the deposit from
\* its block.
Reorg(d) ==
  /\ blockOf[d] > 0 /\ ~Final(d)
  /\ blockOf' = [blockOf EXCEPT ![d] = 0]
  /\ UNCHANGED <<head, mem, scanned, span, files, pass, lost, bounds>>
-----------------------------------------------------------------------------
(* scanOnce *)

\* A tick that finds a pass under way does nothing.
Tick ==
  /\ phase = "idle"
  /\ phase' = "head" /\ turn' = 1 /\ credited' = 0
  /\ UNCHANGED <<blocks, mem, scanned, span, files, locals, lost, bounds>>

\* The finally of scanOnce: whatever chains came to their end are counted.
Leave ==
  /\ phase' = IF credited > 0 THEN "saving" ELSE "idle"
  /\ turn' = 1 /\ credited' = 0 /\ Drop

Finish ==
  /\ phase = "head" /\ turn > Len(Chains)
  /\ Leave
  /\ UNCHANGED <<blocks, mem, scanned, span, files, lost, bounds>>

\* A call fails and the pass is left.
Raise(kind) ==
  /\ kind \in faulty /\ faults < MaxFaults
  /\ faults' = faults + 1
  /\ Leave
  /\ UNCHANGED <<faulty, restarts>>

Save ==
  /\ phase = "saving" /\ phase' = "idle"
  /\ disk' = mem
  /\ UNCHANGED <<blocks, mem, scanned, span, journal, turn, locals, credited, lost,
                 bounds>>

\* onCredited throws: logged, and over.
SaveFails ==
  /\ phase = "saving" /\ phase' = "idle"
  /\ "ledger" \in faulty /\ faults < MaxFaults /\ faults' = faults + 1
  /\ UNCHANGED <<blocks, mem, scanned, span, files, turn, locals, credited, lost,
                 faulty, restarts>>
-----------------------------------------------------------------------------
(* scanChain *)

\* The safe head (0 while no block is deep enough).
Deep(x) == IF head[x] >= Confirmations[x] THEN head[x] - Confirmations[x] ELSE 0

ReadHead ==
  /\ phase = "head" /\ turn <= Len(Chains)
  /\ IF Deep(c) <= scanned[c]
       THEN turn' = turn + 1 /\ UNCHANGED <<phase, safe, width>>
       ELSE phase' = "reading" /\ safe' = Deep(c) /\ width' = span[c] /\ UNCHANGED turn
  /\ UNCHANGED <<blocks, mem, scanned, span, files, todo, new, credited, lost, bounds>>

ReadHeadFails ==
  /\ phase = "head" /\ turn <= Len(Chains)
  /\ Raise("head")
  /\ UNCHANGED <<blocks, mem, scanned, span, files, lost>>

\* The last block of the range.
To == LET end == scanned[c] + width IN IF safe < end THEN safe ELSE end

ReadLogs ==
  /\ phase = "reading"
  /\ To - scanned[c] <= RpcWidth[c]
  /\ todo' = {d \in Deposit : ChainOf[d] = c /\ blockOf[d] \in scanned[c] + 1 .. To}
  /\ span' = [span EXCEPT ![c] = width]
  /\ phase' = "crediting"
  /\ UNCHANGED <<blocks, mem, scanned, files, turn, safe, width, new, credited, lost,
                 bounds>>

\* Mutant of Narrow: a refused range is asked for again.
NarrowNot ==
  /\ phase = "reading" /\ width > MinSpan /\ To - scanned[c] > RpcWidth[c]
  /\ UNCHANGED watchVars

\* A refused range, or any other error, is tried again at half the width.
Narrow ==
  /\ phase = "reading" /\ width > MinSpan
  /\ \/ To - scanned[c] > RpcWidth[c] /\ UNCHANGED faults
     \/ "read" \in faulty /\ faults < MaxFaults /\ faults' = faults + 1
  /\ width' = Max({MinSpan, width \div 2})
  /\ UNCHANGED <<blocks, mem, scanned, span, files, phase, turn, safe, todo, new,
                 credited, lost, faulty, restarts>>

ReadLogsFails ==
  /\ phase = "reading" /\ width <= MinSpan
  /\ \/ Raise("read")
     \/ /\ To - scanned[c] > RpcWidth[c]
        /\ Leave /\ UNCHANGED bounds
  /\ UNCHANGED <<blocks, mem, scanned, span, files, lost>>

\* One transfer: converted at the rate of the moment, and credited unless the
\* ledger has it.
CreditOne ==
  /\ phase = "crediting"
  /\ \E d \in todo :
       /\ mem' = mem \cup {d}
       /\ todo' = todo \ {d}
       /\ new' = IF d \in mem THEN new ELSE new + 1
  /\ UNCHANGED <<blocks, scanned, span, files, phase, turn, safe, width, credited,
                 lost, bounds>>

\* The conversion fails: what this chain credited so far is not counted.
SharesFail ==
  /\ phase = "crediting" /\ todo # {} /\ c \notin VaultShare
  /\ Raise("shares")
  /\ UNCHANGED <<blocks, mem, scanned, span, files, lost>>

\* Mutant of Persist: the range is finished at the safe head.
PersistSafe ==
  /\ phase = "crediting" /\ todo = {}
  /\ scanned' = [scanned EXCEPT ![c] = safe] /\ journal' = scanned'
  /\ credited' = credited + new
  /\ phase' = "head" /\ turn' = turn + 1 /\ Drop
  /\ UNCHANGED <<blocks, mem, span, disk, lost, bounds>>

Persist ==
  /\ phase = "crediting" /\ todo = {}
  /\ scanned' = [scanned EXCEPT ![c] = To] /\ journal' = scanned'
  /\ credited' = credited + new
  /\ phase' = "head" /\ turn' = turn + 1 /\ Drop
  /\ UNCHANGED <<blocks, mem, span, disk, lost, bounds>>

\* The journal cannot be written: the block has been moved on in memory.
PersistFails ==
  /\ phase = "crediting" /\ todo = {}
  /\ scanned' = [scanned EXCEPT ![c] = To]
  /\ Raise("journal")
  /\ UNCHANGED <<blocks, mem, span, files, lost>>
-----------------------------------------------------------------------------
\* The node stops and starts: both files are read again.
WatcherRestarts ==
  /\ restarts < MaxRestarts /\ restarts' = restarts + 1
  /\ mem' = disk /\ scanned' = journal
  /\ lost' = lost \cup {d \in mem \ disk : blockOf[d] <= journal[ChainOf[d]]}
  /\ span' = [x \in Chain |-> MaxSpan]
  /\ phase' = "idle" /\ turn' = 1 /\ credited' = 0 /\ Drop
  /\ UNCHANGED <<blocks, files, faulty, faults>>

Scan == Tick \/ ReadHead \/ ReadLogs \/ Narrow \/ CreditOne \/ Persist \/ Finish \/ Save

WatchNext ==
  \/ \E x \in Chain : Grow(x)
  \/ \E d \in Deposit : Reorg(d)
  \/ Scan
  \/ ReadHeadFails \/ ReadLogsFails \/ SharesFail \/ PersistFails \/ SaveFails
  \/ WatcherRestarts

WatchSpec == WatchInit /\ [][WatchNext]_watchVars

\* The timer fires, awaited calls return, and the failures come to an end.
WatchFairSpec == WatchSpec /\ WF_watchVars(Scan)
-----------------------------------------------------------------------------
(* Properties *)

\* "This only ever advances its journal past blocks it actually finished":
\* every deposit in a finished block is credited, but for what a restart lost.
FinishedIsCredited ==
  \A d \in Deposit :
    blockOf[d] \in 1 .. scanned[ChainOf[d]] => d \in mem \cup lost

\* "Never credit too early": no reorganisation can drop what is credited, in
\* memory or on disk.
OnlyFinalIsCredited == \A d \in mem : Final(d)

\* Every deposit deep enough is credited in the end, whatever the range the
\* RPC takes.
DepositsAreCredited ==
  \A d \in Deposit : Final(d) ~> d \in mem \cup lost

=============================================================================
