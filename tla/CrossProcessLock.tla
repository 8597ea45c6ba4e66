-------------------------- MODULE CrossProcessLock --------------------------
(***************************************************************************)
(* The leased lock of client-common/src/cross_process_lock.rs.             *)
(*                                                                         *)
(* Several processes (the application, its notification extension, ...)    *)
(* share one database.  A row of it, the lease, says which process may     *)
(* write, until when, and in which generation.  In each process a          *)
(* CrossProcessLock hands out guards to threads, counts them, and runs a   *)
(* task that renews the lease while there are guards and gives it up when  *)
(* there are none.                                                         *)
(*                                                                         *)
(* Time is relative.  lease.ttl is expiration - now, cut off at -1 (the    *)
(* store compares expiration < now, so a lease is lost at -1, not at 0);   *)
(* wake[p] is what is left of the renew task's sleep; age[p] is the time   *)
(* since p last wrote a full lease.  Tick lets one unit pass, but never    *)
(* leaves work of p that is due undone for more than MaxDelay units: the   *)
(* scheduling latency the renewal has to survive.                          *)
(***************************************************************************)
EXTENDS Integers, FiniteSets

CONSTANTS
    Process,        \* the processes; each is its own holder name
    Thread,         \* the threads of a process that use the lock
    Lease,          \* LEASE_DURATION_MS, in ticks
    Extend,         \* EXTEND_LEASE_EVERY_MS, in ticks
    MaxDelay,       \* scheduling latency on top of Extend, in ticks
    InitialBackoff, \* INITIAL_BACKOFF_MS
    MaxBackoff,     \* the max_backoff argument of spin_lock
    MaxU32,         \* u32::MAX, where saturating_mul stops
    StoreErrors,    \* may the store answer a try_lock with an error?
    MaxGeneration,  \* bound: no call starts once the lock changed hands so often
    NoProcess,      \* holder of a lease row that does not exist yet
    NoThread,       \* the locking_attempt mutex is free
    RenewTask,      \* the locking_attempt mutex is held by the renew task
    Stop            \* WaitingTime::Stop

ASSUME LockConstants ==
    /\ Lease \in Nat /\ Extend \in Nat /\ MaxDelay \in Nat
    /\ InitialBackoff \in Nat \ {0} /\ MaxBackoff \in Nat
    /\ MaxU32 \in Nat /\ MaxBackoff <= MaxU32
    /\ StoreErrors \in BOOLEAN
    /\ MaxGeneration \in Nat
    /\ NoProcess \notin Process
    /\ NoThread \notin Thread /\ RenewTask \notin Thread
    /\ RenewTask # NoThread
    /\ Stop \notin Nat

VARIABLES
    lease,      \* the row of the store: holder, time left, generation
    generation, \* CrossProcessLockInner::generation of each process
    isDirty,    \* CrossProcessLockInner::is_dirty of each process
    pc,         \* where each thread is; "guarded" is a live guard
    report,     \* the CrossProcessLockState its last acquisition returned
    spinning,   \* the threads that are inside spin_lock
    attempt,    \* owner of the locking_attempt mutex
    got,        \* what the store answered to the thread in try_lock_once
    renew,      \* state of the renew task
    wake,       \* time left of its sleep
    age,        \* time since the last full lease this process wrote
    backoff,    \* CrossProcessLock::backoff
    stale       \* ghost: another process obtained the lock since this one
                \* did, and this one has not called clear_dirty since

storeVars  == <<lease, stale>>
threadVars == <<pc, report, spinning, got, backoff>>
innerVars  == <<generation, isDirty>>
taskVars   == <<renew, wake>>
vars == <<storeVars, threadVars, innerVars, taskVars, attempt, age>>

NO_GENERATION    == 0
FIRST_GENERATION == 1

\* The count of Weak pointers to CrossProcessLockInner.
Holders(p) == {t \in Thread : pc[p][t] = "guarded"}

-----------------------------------------------------------------------------
(***************************************************************************)
(* The store: one transaction of try_take_leased_lock.                     *)
(***************************************************************************)
\* Mutant: a lease is over one unit early (<= instead of <).
MayTakeTooEarly(p) == lease.holder \in {p, NoProcess} \/ lease.ttl <= 0

\* The row is ours, or vacant, or its lease ran out.
MayTake(p) == lease.holder \in {p, NoProcess} \/ lease.ttl < 0

\* Mutant: stealing the lease forgets to increment the generation.
GenerationNeverBumped(p) ==
    IF lease.holder = NoProcess THEN FIRST_GENERATION ELSE lease.generation

\* Mutant: every write of the row increments the generation, renewals too.
GenerationAlwaysBumped(p) == lease.generation + 1

GenerationFor(p) ==
    IF lease.holder = p THEN lease.generation
    ELSE IF lease.holder = NoProcess THEN FIRST_GENERATION
    ELSE lease.generation + 1

\* The row after p took it for the given duration.
TryTakeLeasedLock(p, duration) ==
    /\ MayTake(p)
    /\ lease' = [holder |-> p, ttl |-> duration, generation |-> GenerationFor(p)]
    /\ stale' = [q \in Process |->
                    IF q # p /\ lease.holder # p /\ generation[q] # NO_GENERATION
                    THEN TRUE ELSE stale[q]]

-----------------------------------------------------------------------------
Init ==
    /\ lease = [holder |-> NoProcess, ttl |-> -1, generation |-> NO_GENERATION]
    /\ generation = [p \in Process |-> NO_GENERATION]
    /\ isDirty = [p \in Process |-> FALSE]
    /\ pc = [p \in Process |-> [t \in Thread |-> "idle"]]
    /\ report = [p \in Process |-> [t \in Thread |-> "none"]]
    /\ spinning = [p \in Process |-> {}]
    /\ attempt = [p \in Process |-> NoThread]
    /\ got = [p \in Process |-> NO_GENERATION]
    /\ renew = [p \in Process |-> "none"]
    /\ wake = [p \in Process |-> 0]
    /\ age = [p \in Process |-> 0]
    /\ backoff = [p \in Process |-> InitialBackoff]
    /\ stale = [p \in Process |-> FALSE]

\* A thread enters spin_lock; the attempts it makes are try_lock_once calls.
SpinLock(p, t) ==
    /\ pc[p][t] = "idle" /\ t \notin spinning[p]
    /\ lease.generation < MaxGeneration
    /\ spinning' = [spinning EXCEPT ![p] = @ \cup {t}]
    /\ UNCHANGED <<storeVars, innerVars, taskVars, pc, report, got, backoff, attempt, age>>

\* spin_lock returns because its attempt succeeded: the backoff starts over.
SpinReturns(p, t) ==
    /\ backoff' = IF t \in spinning[p] THEN [backoff EXCEPT ![p] = InitialBackoff]
                  ELSE backoff
    /\ spinning' = [spinning EXCEPT ![p] = @ \ {t}]

\* try_lock_once when this process already has guards: one more, reported
\* clean, without looking at the store or at is_dirty.
TryLockOnceHeld(p, t) ==
    /\ pc[p][t] = "idle" /\ attempt[p] = NoThread
    /\ Holders(p) # {}
    /\ pc' = [pc EXCEPT ![p][t] = "guarded"]
    /\ report' = [report EXCEPT ![p][t] = "Clean"]
    /\ SpinReturns(p, t)
    /\ UNCHANGED <<storeVars, innerVars, taskVars, got, attempt, age>>

\* try_lock_once when there is no guard: keep the mutex and ask the store.
TryLockOnceStart(p, t) ==
    /\ pc[p][t] = "idle" /\ attempt[p] = NoThread
    /\ Holders(p) = {}
    /\ t \in spinning[p] \/ lease.generation < MaxGeneration
    /\ pc' = [pc EXCEPT ![p][t] = "locking"]
    /\ attempt' = [attempt EXCEPT ![p] = t]
    /\ UNCHANGED <<storeVars, innerVars, taskVars, report, spinning, got, backoff, age>>

\* The store gives the lease.
TryLockOnceGranted(p, t) ==
    /\ pc[p][t] = "locking"
    /\ TryTakeLeasedLock(p, Lease)
    /\ got' = [got EXCEPT ![p] = lease'.generation]
    /\ age' = [age EXCEPT ![p] = 0]
    /\ pc' = [pc EXCEPT ![p][t] = "granted"]
    /\ UNCHANGED <<innerVars, taskVars, report, spinning, backoff, attempt>>

\* Mutant: the backoff doubles for ever and never tells spin_lock to stop.
BackoffNeverStops(b) == IF 2 * b > MaxU32 THEN MaxU32 ELSE 2 * b

\* The wait doubles, in u32 with saturation, until it reaches max_backoff.
NextBackoff(b) ==
    LET doubled == IF 2 * b > MaxU32 THEN MaxU32 ELSE 2 * b
    IN  IF doubled >= MaxBackoff THEN Stop ELSE doubled

\* The store refuses the lease.  spin_lock goes round once more, or times out
\* if the backoff says so (and leaves the backoff as it is).
TryLockOnceBusy(p, t) ==
    /\ pc[p][t] = "locking"
    /\ ~ MayTake(p)
    /\ pc' = [pc EXCEPT ![p][t] = "idle"]
    /\ attempt' = [attempt EXCEPT ![p] = NoThread]
    /\ \/ /\ t \notin spinning[p]
          /\ UNCHANGED <<spinning, backoff>>
       \/ /\ t \in spinning[p] /\ backoff[p] # Stop
          /\ backoff' = [backoff EXCEPT ![p] = NextBackoff(@)]
          /\ UNCHANGED spinning
       \/ /\ t \in spinning[p] /\ backoff[p] = Stop
          /\ spinning' = [spinning EXCEPT ![p] = @ \ {t}]
          /\ UNCHANGED backoff
    /\ UNCHANGED <<storeVars, innerVars, taskVars, report, got, age>>

\* The store fails: the error goes to the caller of try_lock_once or spin_lock.
TryLockOnceError(p, t) ==
    /\ StoreErrors
    /\ pc[p][t] = "locking"
    /\ pc' = [pc EXCEPT ![p][t] = "idle"]
    /\ attempt' = [attempt EXCEPT ![p] = NoThread]
    /\ spinning' = [spinning EXCEPT ![p] = @ \ {t}]
    /\ UNCHANGED <<storeVars, innerVars, taskVars, report, got, backoff, age>>

\* Swapping the generation: another value than the one seen last is dirt.
Dirtied(p) == generation[p] # NO_GENERATION /\ generation[p] # got[p]

\* Mutant: is_dirty is overwritten by each acquisition instead of latched.
FinishForgetsDirt(p, t) ==
    /\ pc[p][t] = "granted"
    /\ generation' = [generation EXCEPT ![p] = got[p]]
    /\ isDirty' = [isDirty EXCEPT ![p] = Dirtied(p)]
    /\ renew' = [renew EXCEPT ![p] = "check"]
    /\ wake' = [wake EXCEPT ![p] = 0]
    /\ pc' = [pc EXCEPT ![p][t] = "guarded"]
    /\ report' = [report EXCEPT ![p][t] = IF isDirty'[p] THEN "Dirty" ELSE "Clean"]
    /\ attempt' = [attempt EXCEPT ![p] = NoThread]
    /\ SpinReturns(p, t)
    /\ UNCHANGED <<storeVars, got, age>>

\* The rest of try_lock_once: compare generations, replace the renew task, and
\* make the guard.
TryLockOnceFinish(p, t) ==
    /\ pc[p][t] = "granted"
    /\ generation' = [generation EXCEPT ![p] = got[p]]
    /\ isDirty' = [isDirty EXCEPT ![p] = @ \/ Dirtied(p)]
    /\ renew' = [renew EXCEPT ![p] = "check"]
    /\ wake' = [wake EXCEPT ![p] = 0]
    /\ pc' = [pc EXCEPT ![p][t] = "guarded"]
    /\ report' = [report EXCEPT ![p][t] = IF isDirty'[p] THEN "Dirty" ELSE "Clean"]
    /\ attempt' = [attempt EXCEPT ![p] = NoThread]
    /\ SpinReturns(p, t)
    /\ UNCHANGED <<storeVars, got, age>>

\* A guard is dropped.
DropGuard(p, t) ==
    /\ pc[p][t] = "guarded"
    /\ pc' = [pc EXCEPT ![p][t] = "idle"]
    /\ report' = [report EXCEPT ![p][t] = "none"]
    /\ UNCHANGED <<storeVars, innerVars, taskVars, spinning, got, backoff, attempt, age>>

\* The user of a guard has reloaded what the lock protects.
ClearDirty(p, t) ==
    /\ pc[p][t] = "guarded" /\ isDirty[p]
    /\ isDirty' = [isDirty EXCEPT ![p] = FALSE]
    /\ stale' = [stale EXCEPT ![p] = FALSE]
    /\ UNCHANGED <<lease, generation, threadVars, taskVars, attempt, age>>

-----------------------------------------------------------------------------
(***************************************************************************)
(* The renew task.                                                         *)
(***************************************************************************)
\* Mutant: the task sleeps for the whole lease before it renews it.
SleepTooLong(p) ==
    /\ renew[p] = "check" /\ attempt[p] = NoThread
    /\ Holders(p) # {}
    /\ renew' = [renew EXCEPT ![p] = "sleep"]
    /\ wake' = [wake EXCEPT ![p] = Lease]
    /\ UNCHANGED <<storeVars, threadVars, innerVars, attempt, age>>

\* Mutant: the task does not look at the number of guards before it sleeps.
SleepUnconditionally(p) ==
    /\ renew[p] = "check" /\ attempt[p] = NoThread
    /\ renew' = [renew EXCEPT ![p] = "sleep"]
    /\ wake' = [wake EXCEPT ![p] = Extend]
    /\ UNCHANGED <<storeVars, threadVars, innerVars, attempt, age>>

\* There are guards: sleep before the next renewal.
RenewSleep(p) ==
    /\ renew[p] = "check" /\ attempt[p] = NoThread
    /\ Holders(p) # {}
    /\ renew' = [renew EXCEPT ![p] = "sleep"]
    /\ wake' = [wake EXCEPT ![p] = Extend]
    /\ UNCHANGED <<storeVars, threadVars, innerVars, attempt, age>>

\* Mutant: the mutex is dropped before the lease is given up.
StopWithoutMutex(p) ==
    /\ renew[p] = "check" /\ attempt[p] = NoThread
    /\ Holders(p) = {}
    /\ renew' = [renew EXCEPT ![p] = "release"]
    /\ UNCHANGED <<storeVars, threadVars, innerVars, attempt, wake, age>>

\* There are none: keep the mutex and give the lease up.
RenewStop(p) ==
    /\ renew[p] = "check" /\ attempt[p] = NoThread
    /\ Holders(p) = {}
    /\ renew' = [renew EXCEPT ![p] = "release"]
    /\ attempt' = [attempt EXCEPT ![p] = RenewTask]
    /\ UNCHANGED <<storeVars, threadVars, innerVars, wake, age>>

\* The lease of 0 ms; whatever the store answers, the task ends.
RenewRelease(p) ==
    /\ renew[p] = "release"
    /\ \/ TryTakeLeasedLock(p, 0)
       \/ /\ StoreErrors \/ ~ MayTake(p)
          /\ UNCHANGED storeVars
    /\ renew' = [renew EXCEPT ![p] = "none"]
    /\ attempt' = [attempt EXCEPT ![p] = NoThread]
    /\ UNCHANGED <<threadVars, innerVars, wake, age>>

\* The lease is extended; the generation the store returns is not looked at.
RenewExtend(p) ==
    /\ renew[p] = "sleep" /\ wake[p] = 0
    /\ TryTakeLeasedLock(p, Lease)
    /\ age' = [age EXCEPT ![p] = 0]
    /\ renew' = [renew EXCEPT ![p] = "check"]
    /\ UNCHANGED <<threadVars, innerVars, wake, attempt>>

\* The store refuses, or fails: the task ends, the guards stay.
RenewFail(p) ==
    /\ renew[p] = "sleep" /\ wake[p] = 0
    /\ StoreErrors \/ ~ MayTake(p)
    /\ renew' = [renew EXCEPT ![p] = "none"]
    /\ UNCHANGED <<storeVars, threadVars, innerVars, wake, attempt, age>>

-----------------------------------------------------------------------------
(***************************************************************************)
(* The environment.                                                        *)
(***************************************************************************)
\* p has a guard, or is about to make one, and a renewal pending or to start.
RenewalDue(p) ==
    \/ \E t \in Thread : pc[p][t] = "granted"
    \/ Holders(p) # {} /\ renew[p] # "none"

\* How late p may get: MaxDelay, on top of the sleep once that has begun.
Deadline(p) == MaxDelay + (IF renew[p] = "sleep" /\ Holders(p) # {} THEN Extend ELSE 0)

Tick ==
    /\ \A p \in Process : RenewalDue(p) => age[p] < Deadline(p)
    /\ lease' = [lease EXCEPT !.ttl = IF @ < 0 THEN @ ELSE @ - 1]
    /\ wake' = [p \in Process |-> IF wake[p] = 0 THEN 0 ELSE wake[p] - 1]
    /\ age' = [p \in Process |-> IF age[p] <= Extend + MaxDelay THEN age[p] + 1 ELSE age[p]]
    /\ UNCHANGED <<stale, threadVars, innerVars, renew, attempt>>

\* The process dies and starts again: only the row of the store survives.
Restart(p) ==
    /\ generation' = [generation EXCEPT ![p] = NO_GENERATION]
    /\ isDirty' = [isDirty EXCEPT ![p] = FALSE]
    /\ pc' = [pc EXCEPT ![p] = [t \in Thread |-> "idle"]]
    /\ report' = [report EXCEPT ![p] = [t \in Thread |-> "none"]]
    /\ spinning' = [spinning EXCEPT ![p] = {}]
    /\ attempt' = [attempt EXCEPT ![p] = NoThread]
    /\ got' = [got EXCEPT ![p] = NO_GENERATION]
    /\ renew' = [renew EXCEPT ![p] = "none"]
    /\ wake' = [wake EXCEPT ![p] = 0]
    /\ age' = [age EXCEPT ![p] = 0]
    /\ backoff' = [backoff EXCEPT ![p] = InitialBackoff]
    /\ stale' = [stale EXCEPT ![p] = FALSE]
    /\ UNCHANGED lease

-----------------------------------------------------------------------------
TryLockOnce(p, t) ==
    \/ TryLockOnceHeld(p, t)    \/ TryLockOnceStart(p, t)
    \/ TryLockOnceGranted(p, t) \/ TryLockOnceBusy(p, t)
    \/ TryLockOnceError(p, t)   \/ TryLockOnceFinish(p, t)

RenewLoop(p) ==
    \/ RenewSleep(p)  \/ RenewStop(p) \/ RenewRelease(p)
    \/ RenewExtend(p) \/ RenewFail(p)

Next ==
    \/ \E p \in Process :
          \/ \E t \in Thread : \/ SpinLock(p, t)  \/ TryLockOnce(p, t)
                               \/ DropGuard(p, t) \/ ClearDirty(p, t)
          \/ RenewLoop(p)
          \/ Restart(p)
    \/ Tick

\* A thread inside a call of the lock goes on, and so do the renew task and
\* time.  Nobody has to drop a guard, to call the lock or to crash.
Fairness ==
    /\ \A p \in Process :
          /\ WF_vars(RenewLoop(p))
          /\ \A t \in Thread :
                /\ SF_vars(t \in spinning[p] /\ (TryLockOnceHeld(p, t) \/ TryLockOnceStart(p, t)))
                /\ WF_vars(pc[p][t] # "idle" /\ TryLockOnce(p, t))
    /\ WF_vars(Tick)

Spec == Init /\ [][Next]_vars
FairSpec == Spec /\ Fairness

\* What mutual exclusion rests on: the store answers, and a renewal is never
\* so late that the lease it renews is already over.
Timely == ~ StoreErrors /\ Extend + MaxDelay <= Lease

-----------------------------------------------------------------------------
TypeOK ==
    /\ lease \in [holder : Process \cup {NoProcess}, ttl : -1 .. Lease, generation : Nat]
    /\ generation \in [Process -> Nat]
    /\ isDirty \in [Process -> BOOLEAN]
    /\ pc \in [Process -> [Thread -> {"idle", "locking", "granted", "guarded"}]]
    /\ report \in [Process -> [Thread -> {"none", "Clean", "Dirty"}]]
    /\ spinning \in [Process -> SUBSET Thread]
    /\ attempt \in [Process -> Thread \cup {NoThread, RenewTask}]
    /\ got \in [Process -> Nat]
    /\ renew \in [Process -> {"none", "check", "sleep", "release"}]
    /\ wake \in [Process -> 0 .. Extend]
    /\ age \in [Process -> Nat]
    /\ backoff \in [Process -> Nat \cup {Stop}]
    /\ stale \in [Process -> BOOLEAN]

\* No two processes hold guards at the same time: what the lock is for, given
\* that renewals are at most MaxDelay late and the store does not fail
\* (try_lock_once, the renew task, try_take_leased_lock).
MutualExclusion ==
    \A p, q \in Process : Holders(p) # {} /\ Holders(q) # {} => p = q

\* The lock "remains active as long as there's at least one user in a given
\* process" (module documentation): the store's row names the process of every
\* guard, and its lease has not run out.
ActiveWhileUsed ==
    \A p \in Process : Holders(p) # {} => lease.holder = p /\ lease.ttl >= 0

\* Reading cached data under a guard is safe: if another process obtained the
\* lock since this one last obtained it, the guard's process knows it is dirty
\* (the generation comparison of try_lock_once).
DirtyDetected ==
    \A p \in Process : Holders(p) # {} /\ stale[p] => isDirty[p]

\* A generation identifies one tenure: a process that remembers the generation
\* now in the store is the one whose tenure it is, so an equal generation is
\* proof that nobody else had the lock.
GenerationIdentifiesTenure ==
    \A p \in Process :
        generation[p] = lease.generation /\ generation[p] # NO_GENERATION
            => lease.holder = p

\* Dirty is only reported when another process really had the lock: no reload
\* is forced by the process's own releases and renewals.
DirtyIsJustified ==
    \A p \in Process : isDirty[p] => stale[p]

\* The mutex locking_attempt serialises acquisition and release: while the
\* renew task gives the lease up, no thread of its process has a guard or is
\* getting one from the store.
ReleaseExcludesAcquisition ==
    \A p \in Process : renew[p] = "release" =>
        \A t \in Thread : pc[p][t] = "idle"

\* "dirty once, dirty forever, unless clear_dirty is called": an acquisition
\* that happens while is_dirty is set reports Dirty (CrossProcessLockState).
AcquisitionReportsDirt ==
    [][\A p \in Process : \A t \in Thread :
          pc'[p][t] = "guarded" /\ pc[p][t] # "guarded" /\ isDirty'[p]
              => report'[p][t] = "Dirty"]_vars

\* "It's impossible that the generation can be different from the previous
\* generation" (the renew task, on Ok(Some(_))): a successful renewal finds the
\* generation the guards were made with.
RenewalKeepsGeneration ==
    [][\A p \in Process :
          renew[p] = "sleep" /\ renew'[p] = "check" /\ Holders(p) # {} /\ pc' = pc
              => lease'.generation = generation[p]]_vars

\* The parts of the inductive invariant behind the safety properties.
\* The mutex locking_attempt is held by the one thread that is getting the
\* lease, or by the renew task that is giving it up, and then nobody has a guard.
AttemptInv ==
    \A p \in Process :
        /\ \A t \in Thread : pc[p][t] \in {"locking", "granted"} <=> attempt[p] = t
        /\ renew[p] = "release" <=> attempt[p] = RenewTask
        /\ attempt[p] # NoThread => \A t \in Thread : pc[p][t] # "guarded"

\* Generations only grow, from the one of the row that does not exist yet.
GenerationInv ==
    /\ lease.holder = NoProcess => lease.generation = NO_GENERATION
    /\ lease.holder # NoProcess => lease.generation # NO_GENERATION
    /\ \A p \in Process : /\ generation[p] <= lease.generation
                          /\ stale[p] => generation[p] # NO_GENERATION

\* The row belongs to a process that has, or is about to make, a guard, and has
\* at least as long to go as that process's next renewal can take.
TenureInv ==
    \A p \in Process : \A t \in Thread :
        /\ pc[p][t] = "granted" =>
              /\ lease.holder = p /\ lease.generation = got[p]
              /\ age[p] <= MaxDelay /\ lease.ttl >= Lease - age[p]
        /\ pc[p][t] = "guarded" =>
              /\ lease.holder = p /\ lease.generation = generation[p]
              /\ renew[p] \in {"check", "sleep"}
              /\ age[p] <= MaxDelay + (IF renew[p] = "sleep" THEN Extend ELSE 0)
              /\ lease.ttl >= Lease - age[p]

\* Stale, remembered generation and is_dirty agree.
DirtInv ==
    \A p \in Process :
        /\ stale[p] /\ generation[p] = lease.generation => isDirty[p]
        /\ generation[p] \notin {NO_GENERATION, lease.generation} => stale[p]
        /\ isDirty[p] => stale[p]

\* The inductive invariant: nothing about the lock is known to be kept by every
\* step without all of these together.
LockInv == AttemptInv /\ GenerationInv /\ TenureInv /\ GenerationIdentifiesTenure /\ DirtInv

\* What the lock promises, without leases and time.
Abstract == INSTANCE ExclusiveLock WITH
    owner  <- lease.holder,
    users  <- [p \in Process |-> Holders(p)],
    known  <- [p \in Process |-> generation[p] # NO_GENERATION],
    missed <- [p \in Process |-> generation[p] \notin {NO_GENERATION, lease.generation}],
    dirty  <- isDirty

\* With timely renewals the leased lock implements the exclusive lock: every
\* step of try_lock_once, of the guards and of the renew task is a step of that
\* specification or changes nothing it can see.
ImplementsExclusiveLock == Abstract!LockSpec

\* Every spin_lock call ends, with a guard or with TimedOut, whatever the other
\* process does with its own guards.
SpinLockEnds ==
    \A p \in Process : \A t \in Thread :
        t \in spinning[p] ~> t \notin spinning[p]

\* A process that stops using the lock gives it up: the lease does not stay
\* alive with nobody holding a guard and nobody asking for one.
LeaseGivenUp ==
    \A p \in Process :
        lease.holder = p /\ Holders(p) = {}
            ~> lease.holder # p \/ lease.ttl < 0 \/ \E t \in Thread : pc[p][t] # "idle"
=============================================================================
