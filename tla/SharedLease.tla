---------------------------- MODULE SharedLease ----------------------------
(***************************************************************************)
(* The lease that processes sharing one GPU (or one trainer) take in the   *)
(* file system: src/src/shared-lease.ts, as acquireLock of                 *)
(* src/src/runtime.ts and acquireSlot of src/src/teach.ts use it.          *)
(*                                                                         *)
(* The lease is a directory at a path all of them know, with a file in it  *)
(* that names its holder.  Every step is one system call, by path: another *)
(* process may run, and the caller may die, between any two of them.       *)
(***************************************************************************)
EXTENDS Naturals, FiniteSets

CONSTANTS
  Proc,        \* the processes; a restarted node is a new one
  Sees,        \* Sees[p]: the processes whose death p reclaims a lease for
  MaxClaims,   \* bound: how many claims a process makes
  MaxDeaths    \* bound: how many processes die

\* acquireSlot reclaims nothing (Sees[p] = {}); acquireLock reclaims from the
\* processes of its boot and PID namespace, which leaseLiveness can judge.
ASSUME SeesAssumption == Sees \in [Proc -> SUBSET Proc]
ASSUME BoundAssumption == MaxClaims \in Nat /\ MaxDeaths \in Nat

VARIABLES
  slot,     \* the path: nothing, a directory, a directory with its holder.json
  holder,   \* the lease in that holder.json
  alive,    \* the processes that run
  pc,       \* where each process is
  claims,   \* the claims each process has made
  seen,     \* the dead lease a reclaiming process has read
  moved,    \* what it has moved aside, by the lease in it
  astray    \* ghost: how many leases were moved that were not the one read

leaseVars == <<slot, holder, alive, pc, claims, seen, moved, astray>>

\* A lease_id: the process that drew it and the number of its claim.
Lease   == Proc \X (1 .. MaxClaims)
NoLease == <<>>
Owner(l) == l[1]
Mine(p) == <<p, claims[p]>>

Places == {"out", "trying", "making", "held", "unlinking", "removing",
           "looking", "moving", "checking"}

TypeOK ==
  /\ slot \in {"free", "made", "named"}
  /\ holder \in Lease \cup {NoLease}
  /\ alive \in SUBSET Proc
  /\ pc \in [Proc -> Places]
  /\ claims \in [Proc -> 0 .. MaxClaims]
  /\ seen \in [Proc -> Lease \cup {NoLease}]
  /\ moved \in [Proc -> Lease \cup {NoLease}]
  /\ astray \in Nat

LeaseInit ==
  /\ slot = "free" /\ holder = NoLease
  /\ alive = Proc
  /\ pc = [p \in Proc |-> "out"]
  /\ claims = [p \in Proc |-> 0]
  /\ seen = [p \in Proc |-> NoLease]
  /\ moved = [p \in Proc |-> NoLease]
  /\ astray = 0

At(p, place) == p \in alive /\ pc[p] = place
Go(p, place) == pc' = [pc EXCEPT ![p] = place]
path == <<slot, holder>>
-----------------------------------------------------------------------------
(* claimSharedLease and the release it returns *)

\* A section of this process asks for the lease.
Enter(p) ==
  /\ At(p, "out")
  /\ claims[p] < MaxClaims
  /\ Go(p, "trying")
  /\ UNCHANGED <<path, alive, claims, seen, moved, astray>>

\* mkdirSync: it makes the directory, or finds one there.
Mkdir(p) ==
  /\ At(p, "trying")
  /\ IF slot = "free"
       THEN /\ slot' = "made"
            /\ claims' = [claims EXCEPT ![p] = @ + 1]
            /\ Go(p, "making")
       ELSE /\ Go(p, IF Sees[p] = {} THEN "out" ELSE "looking")
            /\ UNCHANGED <<slot, claims, astray>>
  /\ UNCHANGED <<holder, alive, seen, moved, astray>>

\* holder.json is created exclusively: with the directory gone, or named by
\* another, the write throws and the claim fails.
WriteHolder(p) ==
  /\ At(p, "making")
  /\ IF slot = "made"
       THEN slot' = "named" /\ holder' = Mine(p) /\ Go(p, "held")
       ELSE Go(p, "out") /\ UNCHANGED path
  /\ UNCHANGED <<alive, claims, seen, moved, astray>>

\* The release removes the directory only if it reads its own lease there;
\* otherwise it is over (the error of a read that fails is swallowed).
Release(p) ==
  /\ At(p, "held")
  /\ Go(p, IF slot = "named" /\ holder = Mine(p) THEN "unlinking" ELSE "out")
  /\ UNCHANGED <<path, alive, claims, seen, moved, astray>>

\* rmSync: the file in the directory, then the directory if it is empty.
Unlink(p) ==
  /\ At(p, "unlinking")
  /\ IF slot = "named"
       THEN slot' = "made" /\ holder' = NoLease
       ELSE UNCHANGED path
  /\ Go(p, "removing")
  /\ UNCHANGED <<alive, claims, seen, moved, astray>>

Rmdir(p) ==
  /\ At(p, "removing")
  /\ slot' = IF slot = "made" THEN "free" ELSE slot
  /\ Go(p, "out")
  /\ UNCHANGED <<holder, alive, claims, seen, moved, astray>>
-----------------------------------------------------------------------------
(* reclaimDeadSharedLease *)

\* Mutant of DeadFor: any holder that can be judged counts as dead.
DeadOrAlive(p, l) == Owner(l) \in Sees[p]

\* leaseLiveness is 'dead'.
DeadFor(p, l) == Owner(l) \in Sees[p] \ alive

\* Mutant of Look: acquireLock only waits (as it did before reclaiming).
LookOnly(p) ==
  /\ At(p, "looking")
  /\ Go(p, "trying") \/ Go(p, "out")
  /\ UNCHANGED <<path, alive, claims, seen, moved, astray>>

\* acquireLock reads who holds the lease; unless it is provably dead, the
\* caller waits and tries again, or gives up when its time is over.
Look(p) ==
  /\ At(p, "looking")
  /\ IF slot = "named" /\ DeadFor(p, holder)
       THEN seen' = [seen EXCEPT ![p] = holder] /\ Go(p, "moving")
       ELSE (Go(p, "trying") \/ Go(p, "out")) /\ UNCHANGED seen
  /\ UNCHANGED <<path, alive, claims, moved, astray>>

\* renameSync(directory, aside): what is moved is whatever is there by now.
Move(p) ==
  /\ At(p, "moving")
  /\ IF slot = "free"
       THEN Go(p, "trying") /\ UNCHANGED <<path, moved, astray>>
       ELSE /\ moved' = [moved EXCEPT ![p] = holder]
            /\ slot' = "free" /\ holder' = NoLease
            /\ astray' = IF slot = "named" /\ holder # seen[p] THEN astray + 1 ELSE astray
            /\ Go(p, "checking")
  /\ UNCHANGED <<alive, claims, seen>>

\* It is the dead lease, or unreadable and taken for it: it is deleted.
Discard(p) ==
  /\ At(p, "checking")
  /\ moved[p] \in {seen[p], NoLease}
  /\ Go(p, "trying")
  /\ UNCHANGED <<path, alive, claims, seen, moved, astray>>

\* It is another lease: it goes back, unless the path is taken by a directory
\* that is not empty (renaming over an empty one replaces it).
PutBack(p) ==
  /\ At(p, "checking")
  /\ moved[p] \notin {seen[p], NoLease}
  /\ IF slot = "named"
       THEN UNCHANGED path
       ELSE slot' = "named" /\ holder' = moved[p]
  /\ Go(p, "trying")
  /\ UNCHANGED <<alive, claims, seen, moved, astray>>

\* A process dies where it is; what it left in the file system stays.
Die(p) ==
  /\ p \in alive
  /\ Cardinality(Proc \ alive) < MaxDeaths
  /\ alive' = alive \ {p}
  /\ UNCHANGED <<path, pc, claims, seen, moved, astray>>
-----------------------------------------------------------------------------
Step(p) ==
  \/ Mkdir(p) \/ WriteHolder(p) \/ Release(p) \/ Unlink(p) \/ Rmdir(p)
  \/ Look(p) \/ Move(p) \/ Discard(p) \/ PutBack(p)

LeaseNext == \E p \in Proc : Enter(p) \/ Step(p) \/ Die(p)

LeaseSpec == LeaseInit /\ [][LeaseNext]_leaseVars

\* A process that runs goes on: its system calls return, its waits are
\* bounded and the section it runs under the lease ends.
LeaseFairSpec == LeaseSpec /\ \A p \in Proc : WF_leaseVars(Step(p))
-----------------------------------------------------------------------------
(* Properties *)

\* What the code promises ("Never breaks a live lease", runtime.ts:353) and does
\* not keep: two running processes never both believe that they hold the lease.
MutualExclusion ==
  \A p, q \in Proc : At(p, "held") /\ At(q, "held") => p = q

\* What it does keep: every process that holds the lease beside another is due to
\* one lease that a reclaiming process moved although it had read another.
\* However many processes claim, die and reclaim, at most one runs its section
\* under the lease for certain, and one more for each lease moved astray.
HoldersAreCounted == Cardinality({p \in Proc : At(p, "held")}) <= 1 + astray

\* The lease of a running process leaves the path by that process's own hand,
\* until a lease was moved astray.
LiveLeaseStays ==
  [][\A p \in Proc :
       slot = "named" /\ Owner(holder) = p /\ p \in alive /\ holder' # holder
         => \/ pc[p] = "unlinking" /\ pc'[p] = "removing"
            \/ astray' > 0]_leaseVars

\* Until then a running process leaves no lease at the path when it has released
\* it, so that a lease nobody uses is a dead process's, and reclaimable.
LeaseIsHeld ==
  slot = "named" /\ Owner(holder) \in alive /\ astray = 0
    => At(Owner(holder), "held") \/ At(Owner(holder), "unlinking")

\* And until then the lease of a dead process that no other may judge is never
\* taken: it stays until a person removes it.
UnknownStays ==
  [][slot = "named" /\ Owner(holder) \notin alive
       /\ (\A p \in Proc : Owner(holder) \notin Sees[p])
     => holder' = holder \/ astray' > 0]_leaseVars

\* A dead process's lease is taken back, provided a process that may judge it
\* lives on and keeps asking.
DeadLease(p) == slot = "named" /\ Owner(holder) \in Sees[p] \ alive
DeadIsTakenBack ==
  \A p \in Proc :
    <>[](p \in alive) /\ []<>(pc[p] = "trying") => (DeadLease(p) ~> ~DeadLease(p))
-----------------------------------------------------------------------------
(* The inductive invariant behind the safety properties *)

\* The running processes that hold the lease, or are giving it back, while the
\* path does not carry it.
Displaced == {p \in alive : /\ pc[p] \in {"held", "unlinking"}
                            /\ ~(slot = "named" /\ holder = Mine(p))}

\* Each of them is due to one lease moved astray.
DisplacedInv == IsFiniteSet(Displaced) /\ Cardinality(Displaced) <= astray

\* A named lease at the path is somebody's, and a reclaiming process has read a dead one.
ReadInv ==
  /\ IF slot = "named" THEN holder \in Lease ELSE holder = NoLease
  /\ \A p \in alive : pc[p] = "moving" => seen[p] \in Lease /\ DeadFor(p, seen[p])

\* Until a lease is moved astray, the lease of a running process at the path is
\* the one it holds, and what was moved aside is what was read, or has no name.
StraightInv ==
  astray = 0 =>
    /\ \A p \in alive : pc[p] = "checking" => moved[p] \in {seen[p], NoLease}
    /\ slot = "named" /\ Owner(holder) \in alive
         => /\ holder = Mine(Owner(holder))
            /\ pc[Owner(holder)] \in {"held", "unlinking"}

ClaimsInv ==
  \A p \in Proc :
    /\ pc[p] \in {"trying", "looking", "moving", "checking"} => claims[p] < MaxClaims
    /\ pc[p] = "making" => claims[p] > 0

IInv == TypeOK /\ ClaimsInv /\ ReadInv /\ DisplacedInv /\ StraightInv
=============================================================================
