---------------------- MODULE CrossProcessLockProofs ----------------------
(***************************************************************************)
(* Proofs about CrossProcessLock, for any number of processes and threads  *)
(* and any lease and renewal period.                                       *)
(***************************************************************************)
EXTENDS CrossProcessLock, TLAPS

\* What a transaction of try_take_leased_lock leaves in the store.
LEMMA TakeType ==
  ASSUME TypeOK, NEW p \in Process, NEW d \in 0 .. Lease, TryTakeLeasedLock(p, d)
  PROVE  /\ lease' \in [holder : Process \cup {NoProcess}, ttl : -1 .. Lease, generation : Nat]
         /\ stale' \in [Process -> BOOLEAN]
         /\ lease'.generation \in Nat
<1>1. GenerationFor(p) \in Nat
  BY DEF TypeOK, GenerationFor, FIRST_GENERATION
<1>2. d \in -1 .. Lease
  BY LockConstants
<1> QED
  BY <1>1, <1>2 DEF TypeOK, TryTakeLeasedLock

\* Every variable keeps its type, whatever the store and the scheduler do.
THEOREM TypeCorrect == Spec => []TypeOK
<1>1. Init => TypeOK
  BY LockConstants DEF Init, TypeOK, NO_GENERATION
<1>2. TypeOK /\ [Next]_vars => TypeOK'
  <2> SUFFICES ASSUME TypeOK, [Next]_vars PROVE TypeOK'
    OBVIOUS
  <2> USE LockConstants DEF TypeOK
  <2>1. ASSUME NEW p \in Process, NEW t \in Thread, SpinLock(p, t) PROVE TypeOK'
    BY <2>1 DEF SpinLock, storeVars, innerVars, taskVars
  <2>2. ASSUME NEW p \in Process, NEW t \in Thread, TryLockOnceHeld(p, t) PROVE TypeOK'
    BY <2>2 DEF TryLockOnceHeld, SpinReturns, storeVars, innerVars, taskVars
  <2>3. ASSUME NEW p \in Process, NEW t \in Thread, TryLockOnceStart(p, t) PROVE TypeOK'
    BY <2>3 DEF TryLockOnceStart, storeVars, innerVars, taskVars
  <2>4. ASSUME NEW p \in Process, NEW t \in Thread, TryLockOnceGranted(p, t) PROVE TypeOK'
    BY <2>4, TakeType, Lease \in 0 .. Lease DEF TryLockOnceGranted, innerVars, taskVars
  <2>5. ASSUME NEW p \in Process, NEW t \in Thread, TryLockOnceBusy(p, t) PROVE TypeOK'
    <3>1. backoff[p] # Stop => NextBackoff(backoff[p]) \in Nat \cup {Stop}
      BY DEF NextBackoff
    <3>2. backoff' \in [Process -> Nat \cup {Stop}]
      BY <2>5, <3>1 DEF TryLockOnceBusy
    <3>3. spinning' = spinning \/ spinning' = [spinning EXCEPT ![p] = @ \ {t}]
      BY <2>5 DEF TryLockOnceBusy
    <3>4. CASE spinning' = spinning
      BY <2>5, <3>2, <3>4 DEF TryLockOnceBusy, storeVars, innerVars, taskVars
    <3>5. CASE spinning' = [spinning EXCEPT ![p] = @ \ {t}]
      BY <2>5, <3>2, <3>5 DEF TryLockOnceBusy, storeVars, innerVars, taskVars
    <3> QED
      BY <3>3, <3>4, <3>5
  <2>6. ASSUME NEW p \in Process, NEW t \in Thread, TryLockOnceError(p, t) PROVE TypeOK'
    BY <2>6 DEF TryLockOnceError, storeVars, innerVars, taskVars
  <2>7. ASSUME NEW p \in Process, NEW t \in Thread, TryLockOnceFinish(p, t) PROVE TypeOK'
    BY <2>7 DEF TryLockOnceFinish, SpinReturns, Dirtied, storeVars
  <2>8. ASSUME NEW p \in Process, NEW t \in Thread, DropGuard(p, t) PROVE TypeOK'
    BY <2>8 DEF DropGuard, storeVars, innerVars, taskVars
  <2>9. ASSUME NEW p \in Process, NEW t \in Thread, ClearDirty(p, t) PROVE TypeOK'
    BY <2>9 DEF ClearDirty, threadVars, taskVars
  <2>10. ASSUME NEW p \in Process, RenewSleep(p) PROVE TypeOK'
    BY <2>10 DEF RenewSleep, storeVars, threadVars, innerVars
  <2>11. ASSUME NEW p \in Process, RenewStop(p) PROVE TypeOK'
    BY <2>11 DEF RenewStop, storeVars, threadVars, innerVars
  <2>12. ASSUME NEW p \in Process, RenewRelease(p) PROVE TypeOK'
    BY <2>12, TakeType, 0 \in 0 .. Lease DEF RenewRelease, storeVars, threadVars, innerVars
  <2>13. ASSUME NEW p \in Process, RenewExtend(p) PROVE TypeOK'
    BY <2>13, TakeType, Lease \in 0 .. Lease DEF RenewExtend, threadVars, innerVars
  <2>14. ASSUME NEW p \in Process, RenewFail(p) PROVE TypeOK'
    BY <2>14 DEF RenewFail, storeVars, threadVars, innerVars
  <2>15. ASSUME NEW p \in Process, Restart(p) PROVE TypeOK'
    BY <2>15 DEF Restart, NO_GENERATION
  <2>16. CASE Tick
    <3>1. lease' \in [holder : Process \cup {NoProcess}, ttl : -1 .. Lease, generation : Nat]
      BY <2>16 DEF Tick
    <3>2. wake' \in [Process -> 0 .. Extend] /\ age' \in [Process -> Nat]
      BY <2>16 DEF Tick
    <3> QED
      BY <2>16, <3>1, <3>2 DEF Tick, threadVars, innerVars
  <2>17. CASE UNCHANGED vars
    BY <2>17 DEF vars, storeVars, threadVars, innerVars, taskVars
  <2> QED
    BY <2>1, <2>2, <2>3, <2>4, <2>5, <2>6, <2>7, <2>8, <2>9, <2>10, <2>11, <2>12, <2>13,
       <2>14, <2>15, <2>16, <2>17 DEF Next, TryLockOnce, RenewLoop
<1> QED
  BY <1>1, <1>2, PTL DEF Spec

-----------------------------------------------------------------------------
(***************************************************************************)
(* The mutex locking_attempt.                                              *)
(***************************************************************************)
LEMMA AttemptStep ==
  ASSUME TypeOK, AttemptInv, [Next]_vars
  PROVE  AttemptInv'
<1> USE LockConstants DEF TypeOK, AttemptInv
<1>1. ASSUME NEW p \in Process, NEW t \in Thread, SpinLock(p, t) PROVE AttemptInv'
  BY <1>1 DEF SpinLock, taskVars
<1>2. ASSUME NEW p \in Process, NEW t \in Thread, TryLockOnceHeld(p, t) PROVE AttemptInv'
  BY <1>2 DEF TryLockOnceHeld, taskVars
<1>3. ASSUME NEW p \in Process, NEW t \in Thread, TryLockOnceStart(p, t) PROVE AttemptInv'
  BY <1>3 DEF TryLockOnceStart, Holders, taskVars
<1>4. ASSUME NEW p \in Process, NEW t \in Thread, TryLockOnceGranted(p, t) PROVE AttemptInv'
  BY <1>4 DEF TryLockOnceGranted, taskVars
<1>5. ASSUME NEW p \in Process, NEW t \in Thread, TryLockOnceBusy(p, t) PROVE AttemptInv'
  BY <1>5 DEF TryLockOnceBusy, taskVars
<1>6. ASSUME NEW p \in Process, NEW t \in Thread, TryLockOnceError(p, t) PROVE AttemptInv'
  BY <1>6 DEF TryLockOnceError, taskVars
<1>7. ASSUME NEW p \in Process, NEW t \in Thread, TryLockOnceFinish(p, t) PROVE AttemptInv'
  BY <1>7 DEF TryLockOnceFinish
<1>8. ASSUME NEW p \in Process, NEW t \in Thread, DropGuard(p, t) PROVE AttemptInv'
  BY <1>8 DEF DropGuard, taskVars
<1>9. ASSUME NEW p \in Process, NEW t \in Thread, ClearDirty(p, t) PROVE AttemptInv'
  BY <1>9 DEF ClearDirty, threadVars, taskVars
<1>10. ASSUME NEW p \in Process, RenewSleep(p) PROVE AttemptInv'
  BY <1>10 DEF RenewSleep, threadVars
<1>11. ASSUME NEW p \in Process, RenewStop(p) PROVE AttemptInv'
  BY <1>11 DEF RenewStop, Holders, threadVars
<1>12. ASSUME NEW p \in Process, RenewRelease(p) PROVE AttemptInv'
  BY <1>12 DEF RenewRelease, threadVars
<1>13. ASSUME NEW p \in Process, RenewExtend(p) PROVE AttemptInv'
  BY <1>13 DEF RenewExtend, threadVars
<1>14. ASSUME NEW p \in Process, RenewFail(p) PROVE AttemptInv'
  BY <1>14 DEF RenewFail, threadVars
<1>15. ASSUME NEW p \in Process, Restart(p) PROVE AttemptInv'
  BY <1>15 DEF Restart
<1>16. CASE Tick
  BY <1>16 DEF Tick, threadVars
<1>17. CASE UNCHANGED vars
  BY <1>17 DEF vars, threadVars, taskVars
<1> QED
  BY <1>1, <1>2, <1>3, <1>4, <1>5, <1>6, <1>7, <1>8, <1>9, <1>10, <1>11, <1>12, <1>13,
     <1>14, <1>15, <1>16, <1>17 DEF Next, TryLockOnce, RenewLoop

\* A thread inside the slow path of try_lock_once is alone in its process.
LEMMA OneAcquirer ==
  ASSUME AttemptInv, NEW p \in Process, NEW t \in Thread, pc[p][t] \in {"locking", "granted"},
         NEW u \in Thread
  PROVE  pc[p][u] # "guarded" /\ (u # t => pc[p][u] \notin {"locking", "granted"})
<1>1. attempt[p] = t
  BY DEF AttemptInv
<1>2. attempt[p] # NoThread
  BY <1>1, LockConstants
<1> QED
  BY <1>1, <1>2 DEF AttemptInv

\* While the renew task gives the lease up, no thread of its process holds a
\* guard or is acquiring one: for any store and any scheduling.
THEOREM ReleaseIsExclusive == Spec => []ReleaseExcludesAcquisition
<1>1. Init => AttemptInv
  BY LockConstants DEF Init, AttemptInv
<1>2. TypeOK /\ AttemptInv => ReleaseExcludesAcquisition
  <2> SUFFICES ASSUME TypeOK, AttemptInv, NEW p \in Process, renew[p] = "release",
                      NEW t \in Thread
               PROVE  pc[p][t] = "idle"
    BY DEF ReleaseExcludesAcquisition
  <2>1. attempt[p] # NoThread /\ attempt[p] # t
    BY LockConstants DEF AttemptInv
  <2>2. pc[p][t] \notin {"locking", "granted", "guarded"}
    BY <2>1 DEF AttemptInv
  <2>3. pc[p][t] \in {"idle", "locking", "granted", "guarded"}
    BY DEF TypeOK
  <2> QED
    BY <2>2, <2>3
<1>3. TypeOK /\ AttemptInv /\ [Next]_vars => AttemptInv'
  BY AttemptStep
<1> QED
  BY <1>1, <1>2, <1>3, TypeCorrect, PTL DEF Spec

-----------------------------------------------------------------------------
(***************************************************************************)
(* The lease.                                                              *)
(***************************************************************************)
\* A transaction that takes the lease makes the process its holder; it bumps
\* the generation exactly when the process was not the holder before.
LEMMA TakeEffect ==
  ASSUME TypeOK, GenerationInv, NEW p \in Process, NEW d \in 0 .. Lease,
         TryTakeLeasedLock(p, d)
  PROVE  /\ lease'.holder = p
         /\ lease'.ttl = d
         /\ lease'.generation = IF lease.holder = p THEN lease.generation
                                ELSE lease.generation + 1
         /\ lease.holder \in {p, NoProcess} \/ lease.ttl < 0
         /\ \A q \in Process : stale'[q] = (stale[q] \/ (/\ q # p /\ lease.holder # p
                                                         /\ generation[q] # NO_GENERATION))
<1>1. GenerationFor(p) = IF lease.holder = p THEN lease.generation ELSE lease.generation + 1
  BY DEF TypeOK, GenerationInv, GenerationFor, FIRST_GENERATION, NO_GENERATION
<1> QED
  BY <1>1 DEF TypeOK, TryTakeLeasedLock, MayTake

\* A process that takes the lease for d (no thread of it has been granted the
\* lease or holds a guard, unless the lease is renewed in full) keeps the parts
\* of the invariant that speak of the row, as far as the row is concerned.
LEMMA TakeKeepsTenure ==
  ASSUME Timely, TypeOK, LockInv, NEW p \in Process, NEW d \in 0 .. Lease,
         TryTakeLeasedLock(p, d), UNCHANGED <<generation, isDirty>>
  PROVE  /\ GenerationInv' /\ GenerationIdentifiesTenure' /\ DirtInv'
         /\ \A q \in Process : q # p => \A t \in Thread : pc[q][t] \notin {"granted", "guarded"}
<1> USE LockConstants DEF TypeOK, LockInv, NO_GENERATION
<1>1. lease'.holder = p /\ lease'.generation \in Nat
  BY TakeEffect, TakeType
<1>2. \A q \in Process : stale'[q] = (stale[q] \/ (/\ q # p /\ lease.holder # p
                                                   /\ generation[q] # NO_GENERATION))
  BY TakeEffect
<1>3. lease'.generation = IF lease.holder = p THEN lease.generation ELSE lease.generation + 1
  BY TakeEffect
<1>4. GenerationInv'
  BY <1>1, <1>2, <1>3 DEF GenerationInv
<1>5. GenerationIdentifiesTenure'
  BY <1>1, <1>3 DEF GenerationInv, GenerationIdentifiesTenure
<1>6. DirtInv'
  <2> SUFFICES ASSUME NEW q \in Process
               PROVE  /\ stale'[q] /\ generation[q] = lease'.generation => isDirty[q]
                      /\ generation[q] \notin {NO_GENERATION, lease'.generation} => stale'[q]
                      /\ isDirty[q] => stale'[q]
    BY DEF DirtInv
  <2>1. generation[q] <= lease.generation /\ generation[q] \in Nat /\ lease.generation \in Nat
    BY DEF GenerationInv
  <2>2. CASE lease.holder = p
    <3>1. stale'[q] = stale[q] /\ lease'.generation = lease.generation
      BY <1>2, <1>3, <2>2
    <3> QED
      BY <3>1 DEF DirtInv
  <2>3. CASE lease.holder # p
    <3>1. lease'.generation # generation[q]
      BY <1>3, <2>1, <2>3
    <3>2. generation[q] # NO_GENERATION => stale'[q]
      BY <1>2, <2>3 DEF GenerationIdentifiesTenure, DirtInv
    <3>3. isDirty[q] => stale'[q]
      BY <1>2 DEF DirtInv
    <3> QED
      BY <3>1, <3>2, <3>3
  <2> QED
    BY <2>2, <2>3
<1>7. ASSUME NEW q \in Process, q # p, NEW t \in Thread
      PROVE  pc[q][t] \notin {"granted", "guarded"}
  <2>1. lease.holder \in {p, NoProcess} \/ lease.ttl < 0
    BY TakeEffect
  <2> QED
    BY <1>7, <2>1 DEF TenureInv, Timely
<1> QED
  BY <1>4, <1>5, <1>6, <1>7

LEMMA LockStep ==
  ASSUME Timely, TypeOK, TypeOK', LockInv, [Next]_vars
  PROVE  LockInv'
<1> USE LockConstants DEF TypeOK, LockInv, NO_GENERATION
<1>0. AttemptInv'
  BY AttemptStep
<1>1. ASSUME NEW p \in Process, NEW t \in Thread, SpinLock(p, t) PROVE LockInv'
  BY <1>0, <1>1 DEF SpinLock, storeVars, innerVars, taskVars, GenerationInv, TenureInv,
     GenerationIdentifiesTenure, DirtInv
<1>2. ASSUME NEW p \in Process, NEW t \in Thread, TryLockOnceHeld(p, t) PROVE LockInv'
  BY <1>0, <1>2 DEF TryLockOnceHeld, Holders, storeVars, innerVars, taskVars, GenerationInv,
     TenureInv, GenerationIdentifiesTenure, DirtInv
<1>3. ASSUME NEW p \in Process, NEW t \in Thread, TryLockOnceStart(p, t) PROVE LockInv'
  BY <1>0, <1>3 DEF TryLockOnceStart, storeVars, innerVars, taskVars, GenerationInv, TenureInv,
     GenerationIdentifiesTenure, DirtInv
<1>4. ASSUME NEW p \in Process, NEW t \in Thread, TryLockOnceGranted(p, t) PROVE LockInv'
  <2>1. TryTakeLeasedLock(p, Lease) /\ UNCHANGED <<generation, isDirty>> /\ Lease \in 0 .. Lease
    BY <1>4 DEF TryLockOnceGranted, innerVars
  <2>2. /\ GenerationInv' /\ GenerationIdentifiesTenure' /\ DirtInv'
        /\ \A q \in Process : q # p => \A u \in Thread : pc[q][u] \notin {"granted", "guarded"}
    BY <2>1, TakeKeepsTenure
  <2>3. lease'.holder = p /\ lease'.ttl = Lease
    BY <2>1, TakeEffect
  <2>4. /\ \A q \in Process, u \in Thread :
              q # p \/ u # t => pc'[q][u] \notin {"granted", "guarded"}
        /\ pc'[p][t] = "granted"
    <3>1. pc[p][t] = "locking" /\ pc' = [pc EXCEPT ![p][t] = "granted"]
      BY <1>4 DEF TryLockOnceGranted
    <3>2. \A u \in Thread : u # t => pc[p][u] \notin {"granted", "guarded"}
      BY <3>1, OneAcquirer
    <3> QED
      BY <2>2, <3>1, <3>2
  <2>5. got'[p] = lease'.generation /\ age'[p] = 0
    BY <1>4 DEF TryLockOnceGranted
  <2>6. age'[p] <= MaxDelay /\ lease'.ttl >= Lease - age'[p]
    BY <2>3, <2>5
  <2>7. TenureInv'
    <3> SUFFICES ASSUME NEW q \in Process, NEW u \in Thread
                 PROVE  /\ pc'[q][u] # "guarded"
                        /\ pc'[q][u] = "granted" => q = p
      BY <2>3, <2>5, <2>6 DEF TenureInv
    <3> QED
      BY <2>4
  <2> QED
    BY <1>0, <2>2, <2>7
<1>5. ASSUME NEW p \in Process, NEW t \in Thread, TryLockOnceBusy(p, t) PROVE LockInv'
  BY <1>0, <1>5 DEF TryLockOnceBusy, storeVars, innerVars, taskVars, GenerationInv, TenureInv,
     GenerationIdentifiesTenure, DirtInv
<1>6. ASSUME NEW p \in Process, NEW t \in Thread, TryLockOnceError(p, t) PROVE LockInv'
  BY <1>6 DEF TryLockOnceError, Timely
<1>7. ASSUME NEW p \in Process, NEW t \in Thread, TryLockOnceFinish(p, t) PROVE LockInv'
  <2>1. lease.holder = p /\ got[p] = lease.generation
    BY <1>7 DEF TryLockOnceFinish, TenureInv
  <2>2. GenerationInv'
    BY <1>7, <2>1 DEF TryLockOnceFinish, storeVars, GenerationInv
  <2>3. TenureInv'
    BY <1>7, <2>1 DEF TryLockOnceFinish, storeVars, AttemptInv, TenureInv
  <2>4. GenerationIdentifiesTenure'
    BY <1>7, <2>1 DEF TryLockOnceFinish, storeVars, GenerationIdentifiesTenure
  <2>5. DirtInv'
    BY <1>7, <2>1 DEF TryLockOnceFinish, Dirtied, storeVars, GenerationInv, DirtInv
  <2> QED
    BY <1>0, <2>2, <2>3, <2>4, <2>5
<1>8. ASSUME NEW p \in Process, NEW t \in Thread, DropGuard(p, t) PROVE LockInv'
  BY <1>0, <1>8 DEF DropGuard, storeVars, innerVars, taskVars, GenerationInv, TenureInv,
     GenerationIdentifiesTenure, DirtInv
<1>9. ASSUME NEW p \in Process, NEW t \in Thread, ClearDirty(p, t) PROVE LockInv'
  BY <1>0, <1>9 DEF ClearDirty, threadVars, taskVars, GenerationInv, TenureInv,
     GenerationIdentifiesTenure, DirtInv
<1>10. ASSUME NEW p \in Process, RenewSleep(p) PROVE LockInv'
  BY <1>0, <1>10 DEF RenewSleep, storeVars, threadVars, innerVars, GenerationInv, TenureInv,
     GenerationIdentifiesTenure, DirtInv
<1>11. ASSUME NEW p \in Process, RenewStop(p) PROVE LockInv'
  BY <1>0, <1>11 DEF RenewStop, Holders, storeVars, threadVars, innerVars, GenerationInv,
     TenureInv, GenerationIdentifiesTenure, DirtInv
<1>12. ASSUME NEW p \in Process, RenewRelease(p) PROVE LockInv'
  <2>1. \A t \in Thread : pc[p][t] \notin {"granted", "guarded"}
    BY <1>12 DEF RenewRelease, AttemptInv
  <2>2. CASE TryTakeLeasedLock(p, 0)
    <3>1. /\ GenerationInv' /\ GenerationIdentifiesTenure' /\ DirtInv'
          /\ \A q \in Process : q # p => \A u \in Thread : pc[q][u] \notin {"granted", "guarded"}
      BY <1>12, <2>2, TakeKeepsTenure, 0 \in 0 .. Lease DEF RenewRelease, innerVars
    <3>2. TenureInv'
      BY <1>12, <2>1, <3>1 DEF RenewRelease, threadVars, TenureInv
    <3> QED
      BY <1>0, <3>1, <3>2
  <2>3. CASE UNCHANGED storeVars
    BY <1>0, <1>12, <2>1, <2>3 DEF RenewRelease, storeVars, threadVars, innerVars,
       GenerationInv, TenureInv, GenerationIdentifiesTenure, DirtInv
  <2> QED
    BY <1>12, <2>2, <2>3 DEF RenewRelease
<1>13. ASSUME NEW p \in Process, RenewExtend(p) PROVE LockInv'
  <2>1. TryTakeLeasedLock(p, Lease) /\ UNCHANGED <<generation, isDirty>> /\ Lease \in 0 .. Lease
    BY <1>13 DEF RenewExtend, innerVars
  <2>2. /\ GenerationInv' /\ GenerationIdentifiesTenure' /\ DirtInv'
        /\ \A q \in Process : q # p => \A u \in Thread : pc[q][u] \notin {"granted", "guarded"}
    BY <2>1, TakeKeepsTenure
  <2>3. /\ lease'.holder = p /\ lease'.ttl = Lease
        /\ lease.holder = p => lease'.generation = lease.generation
    BY <2>1, TakeEffect
  <2>4. TenureInv'
    BY <1>13, <2>2, <2>3 DEF RenewExtend, threadVars, innerVars, TenureInv
  <2> QED
    BY <1>0, <2>2, <2>4
<1>14. ASSUME NEW p \in Process, RenewFail(p) PROVE LockInv'
  <2>1. \A t \in Thread : pc[p][t] # "guarded"
    BY <1>14 DEF RenewFail, MayTake, TenureInv, Timely
  <2> QED
    BY <1>0, <1>14, <2>1 DEF RenewFail, storeVars, threadVars, innerVars, GenerationInv,
       TenureInv, GenerationIdentifiesTenure, DirtInv
<1>15. ASSUME NEW p \in Process, Restart(p) PROVE LockInv'
  BY <1>0, <1>15 DEF Restart, GenerationInv, TenureInv, GenerationIdentifiesTenure, DirtInv
<1>16. CASE Tick
  <2>1. /\ lease'.holder = lease.holder /\ lease'.generation = lease.generation
        /\ lease'.ttl = IF lease.ttl < 0 THEN lease.ttl ELSE lease.ttl - 1
    BY <1>16 DEF Tick
  <2>2. GenerationInv' /\ GenerationIdentifiesTenure' /\ DirtInv'
    BY <1>16, <2>1 DEF Tick, innerVars, GenerationInv, GenerationIdentifiesTenure, DirtInv
  <2>3. ASSUME NEW p \in Process, NEW t \in Thread, pc[p][t] \in {"granted", "guarded"}
        PROVE  age[p] < Deadline(p) /\ age'[p] = age[p] + 1
    <3>1. RenewalDue(p)
      BY <2>3 DEF RenewalDue, Holders, TenureInv
    <3>2. age[p] < Deadline(p)
      BY <1>16, <3>1 DEF Tick
    <3> QED
      BY <1>16, <3>2 DEF Tick, Deadline
  <2>4. ASSUME NEW p \in Process, NEW t \in Thread
        PROVE  /\ pc[p][t] = "granted" =>
                    /\ lease'.holder = p /\ lease'.generation = got[p]
                    /\ age'[p] <= MaxDelay /\ lease'.ttl >= Lease - age'[p]
               /\ pc[p][t] = "guarded" =>
                    /\ lease'.holder = p /\ lease'.generation = generation[p]
                    /\ renew[p] \in {"check", "sleep"}
                    /\ age'[p] <= MaxDelay + (IF renew[p] = "sleep" THEN Extend ELSE 0)
                    /\ lease'.ttl >= Lease - age'[p]
    <3>1. age[p] \in Nat /\ lease.ttl \in Int
      OBVIOUS
    <3>2. CASE pc[p][t] = "granted"
      <4>1. Holders(p) = {}
        BY <3>2, OneAcquirer DEF Holders
      <4>2. age[p] < MaxDelay /\ age'[p] = age[p] + 1
        BY <2>3, <3>2, <4>1 DEF Deadline
      <4>3. lease.holder = p /\ lease.generation = got[p] /\ lease.ttl >= Lease - age[p]
        BY <3>2 DEF TenureInv
      <4>4. lease'.ttl >= Lease - age'[p]
        BY <2>1, <3>1, <4>2, <4>3 DEF Timely
      <4> QED
        BY <2>1, <3>1, <3>2, <4>2, <4>3, <4>4
    <3>3. CASE pc[p][t] = "guarded"
      <4>1. Holders(p) # {}
        BY <3>3 DEF Holders
      <4>2. /\ age[p] < MaxDelay + (IF renew[p] = "sleep" THEN Extend ELSE 0)
            /\ age'[p] = age[p] + 1
        BY <2>3, <3>3, <4>1 DEF Deadline
      <4>3. /\ lease.holder = p /\ lease.generation = generation[p]
            /\ renew[p] \in {"check", "sleep"} /\ lease.ttl >= Lease - age[p]
        BY <3>3 DEF TenureInv
      <4>4. lease'.ttl >= Lease - age'[p]
        BY <2>1, <3>1, <4>2, <4>3 DEF Timely
      <4> QED
        BY <2>1, <3>1, <3>3, <4>2, <4>3, <4>4
    <3> QED
      BY <3>2, <3>3
  <2>5. TenureInv'
    BY <1>16, <2>4 DEF Tick, threadVars, innerVars, TenureInv
  <2> QED
    BY <1>0, <2>2, <2>5
<1>17. CASE UNCHANGED vars
  BY <1>0, <1>17 DEF vars, storeVars, threadVars, innerVars, taskVars, GenerationInv, TenureInv,
     GenerationIdentifiesTenure, DirtInv
<1> QED
  BY <1>1, <1>2, <1>3, <1>4, <1>5, <1>6, <1>7, <1>8, <1>9, <1>10, <1>11, <1>12, <1>13,
     <1>14, <1>15, <1>16, <1>17 DEF Next, TryLockOnce, RenewLoop

-----------------------------------------------------------------------------
\* The lease outlives the longest possible wait for its next renewal.
LEMMA ActiveFact ==
  ASSUME Timely, TypeOK, LockInv, NEW p \in Process, NEW t \in Thread, pc[p][t] = "guarded"
  PROVE  lease.holder = p /\ lease.ttl >= 0
<1>1. /\ lease.holder = p /\ lease.ttl >= Lease - age[p]
      /\ age[p] <= MaxDelay + (IF renew[p] = "sleep" THEN Extend ELSE 0)
  BY DEF LockInv, TenureInv
<1> QED
  BY <1>1, LockConstants DEF TypeOK, Timely

\* With a store that answers and renewals that are never Lease late, the
\* invariant holds of every reachable state.
THEOREM LockInvariant == ASSUME Timely PROVE Spec => []LockInv
<1>1. Init => LockInv
  BY LockConstants DEF Init, LockInv, AttemptInv, GenerationInv, TenureInv,
     GenerationIdentifiesTenure, DirtInv, NO_GENERATION
<1>2. TypeOK /\ TypeOK' /\ LockInv /\ [Next]_vars => LockInv'
  BY LockStep
<1> QED
  BY <1>1, <1>2, TypeCorrect, PTL DEF Spec

\* No two processes hold guards at the same time, for any number of processes
\* and threads, as long as renewals are timely.
THEOREM LockIsExclusive == ASSUME Timely PROVE Spec => []MutualExclusion
<1>1. TypeOK /\ LockInv => MutualExclusion
  BY DEF TypeOK, LockInv, TenureInv, MutualExclusion, Holders
<1> QED
  BY <1>1, TypeCorrect, LockInvariant, PTL

\* The lease in the store is alive and in the name of the process of every
\* guard.
THEOREM LockStaysActive == ASSUME Timely PROVE Spec => []ActiveWhileUsed
<1>1. TypeOK /\ LockInv => ActiveWhileUsed
  BY ActiveFact DEF ActiveWhileUsed, Holders
<1> QED
  BY <1>1, TypeCorrect, LockInvariant, PTL

\* A process that holds a guard knows that another process had the lock since:
\* comparing generations misses no foreign tenure.
THEOREM DirtIsDetected == ASSUME Timely PROVE Spec => []DirtyDetected
<1>1. TypeOK /\ LockInv => DirtyDetected
  BY DEF TypeOK, LockInv, TenureInv, DirtInv, DirtyDetected, Holders
<1> QED
  BY <1>1, TypeCorrect, LockInvariant, PTL

\* is_dirty is only set when another process had the lock.
THEOREM DirtIsJustified == ASSUME Timely PROVE Spec => []DirtyIsJustified
<1>1. TypeOK /\ LockInv => DirtyIsJustified
  BY DEF LockInv, DirtInv, DirtyIsJustified
<1> QED
  BY <1>1, TypeCorrect, LockInvariant, PTL

\* A renewal finds the generation its guards were made with: the comment of the
\* renew task is right when renewals are timely.
THEOREM RenewalIsTransparent == ASSUME Timely PROVE Spec => RenewalKeepsGeneration
<1>1. ASSUME TypeOK, LockInv, Next, NEW p \in Process, NEW t \in Thread,
             pc[p][t] = "guarded", renew[p] = "sleep", renew'[p] = "check", pc' = pc
      PROVE  lease'.generation = generation[p]
  <2>1. lease.holder = p /\ lease.generation = generation[p]
    BY <1>1 DEF LockInv, TenureInv
  <2>2. lease.ttl >= 0
    BY <1>1, ActiveFact
  <2>3. ASSUME NEW q \in Process, NEW d \in 0 .. Lease, TryTakeLeasedLock(q, d)
        PROVE  lease'.generation = lease.generation
    <3>1. GenerationInv
      BY <1>1 DEF LockInv
    <3>2. /\ lease.holder \in {q, NoProcess} \/ lease.ttl < 0
          /\ lease.holder = q => lease'.generation = lease.generation
      BY <1>1, <2>3, <3>1, TakeEffect
    <3>3. lease.ttl \in Int /\ lease.holder # NoProcess
      BY <1>1, <2>1, LockConstants DEF TypeOK
    <3> QED
      BY <2>2, <3>2, <3>3
  <2>4. 0 \in 0 .. Lease /\ Lease \in 0 .. Lease
    BY LockConstants
  <2>5. ASSUME NEW q \in Process, NEW u \in Thread,
               SpinLock(q, u) \/ TryLockOnce(q, u) \/ DropGuard(q, u) \/ ClearDirty(q, u)
        PROVE  lease'.generation = lease.generation
    BY <2>3, <2>4, <2>5 DEF TryLockOnce, SpinLock, TryLockOnceHeld, TryLockOnceStart,
       TryLockOnceGranted, TryLockOnceBusy, TryLockOnceError, TryLockOnceFinish, DropGuard,
       ClearDirty, storeVars
  <2>6. ASSUME NEW q \in Process, RenewLoop(q) \/ Restart(q)
        PROVE  lease'.generation = lease.generation
    BY <2>3, <2>4, <2>6 DEF RenewLoop, RenewSleep, RenewStop, RenewRelease, RenewExtend,
       RenewFail, Restart, storeVars
  <2>7. CASE Tick
    BY <1>1, <2>7 DEF Tick, TypeOK
  <2> QED
    BY <1>1, <2>1, <2>5, <2>6, <2>7 DEF Next
<1>2. TypeOK /\ LockInv /\ [Next]_vars =>
        [\A p \in Process :
            renew[p] = "sleep" /\ renew'[p] = "check" /\ Holders(p) # {} /\ pc' = pc
                => lease'.generation = generation[p]]_vars
  BY <1>1 DEF Holders
<1> QED
  BY <1>2, TypeCorrect, LockInvariant, PTL DEF Spec, RenewalKeepsGeneration

-----------------------------------------------------------------------------
\* A step that leaves the holder, the generations, the flags and the guards alone
\* is invisible to the users of the lock.
LEMMA InvisibleStep ==
  ASSUME lease'.holder = lease.holder, lease'.generation = lease.generation,
         UNCHANGED <<generation, isDirty>>,
         \A p \in Process : \A t \in Thread : pc'[p][t] = "guarded" <=> pc[p][t] = "guarded"
  PROVE  UNCHANGED Abstract!lockVars
<1>1. \A p \in Process : Holders(p)' = Holders(p)
  BY DEF Holders
<1> QED
  BY <1>1 DEF Abstract!lockVars

\* A process that writes its name into the row claims the abstract lock, unless
\* it is there already; everybody else who knew the lock has missed something.
LEMMA TakeIsClaim ==
  ASSUME Timely, TypeOK, LockInv, NEW p \in Process, NEW d \in 0 .. Lease,
         TryTakeLeasedLock(p, d), UNCHANGED <<generation, isDirty>>,
         \A q \in Process : \A t \in Thread : pc'[q][t] = "guarded" <=> pc[q][t] = "guarded"
  PROVE  Abstract!Claim(p) \/ UNCHANGED Abstract!lockVars
<1>1. /\ lease'.holder = p
      /\ lease'.generation = IF lease.holder = p THEN lease.generation ELSE lease.generation + 1
  BY TakeEffect DEF LockInv
<1>2. \A q \in Process : Holders(q)' = Holders(q)
  BY DEF Holders
<1>3. CASE lease.holder = p
  BY <1>1, <1>3, InvisibleStep
<1>4. CASE lease.holder # p
  <2>1. \A q \in Process : q # p => Holders(q) = {}
    BY TakeKeepsTenure DEF Holders
  <2>2. \A q \in Process : /\ generation[q] \in Nat /\ lease.generation \in Nat
                           /\ generation[q] <= lease.generation
    BY DEF TypeOK, LockInv, GenerationInv
  <2>3. \A q \in Process : generation[q] # lease'.generation
    BY <1>1, <1>4, <2>2
  <2>4. generation[p] \notin {NO_GENERATION} => generation[p] # lease.generation
    BY <1>4 DEF LockInv, GenerationIdentifiesTenure
  <2>5. \A q \in Process :
          (generation[q] \notin {NO_GENERATION, lease.generation})' =
             (generation[q] \notin {NO_GENERATION, lease.generation}
                \/ (q # p /\ generation[q] # NO_GENERATION))
    BY <2>3, <2>4
  <2> QED
    BY <1>1, <1>2, <1>4, <2>1, <2>5 DEF Abstract!Claim, Abstract!OthersIdle
<1> QED
  BY <1>3, <1>4

\* Every step of the leased lock is a step of the exclusive lock or invisible.
LEMMA RefinementStep ==
  ASSUME Timely, TypeOK, LockInv, [Next]_vars
  PROVE  [Abstract!LockNext]_(Abstract!lockVars)
<1> USE LockConstants DEF TypeOK, NO_GENERATION
<1>1. ASSUME NEW p \in Process, NEW t \in Thread,
             SpinLock(p, t) \/ TryLockOnceStart(p, t) \/ TryLockOnceBusy(p, t)
                 \/ TryLockOnceError(p, t)
      PROVE  UNCHANGED Abstract!lockVars
  <2>1. /\ UNCHANGED <<lease, generation, isDirty>>
        /\ \/ UNCHANGED pc
           \/ pc[p][t] \in {"idle", "locking"} /\ \E l \in {"idle", "locking"} : pc' = [pc EXCEPT ![p][t] = l]
    BY <1>1 DEF SpinLock, TryLockOnceStart, TryLockOnceBusy, TryLockOnceError, storeVars, innerVars
  <2>2. \A q \in Process : \A u \in Thread : pc'[q][u] = "guarded" <=> pc[q][u] = "guarded"
    BY <2>1
  <2> QED
    BY <2>1, <2>2, InvisibleStep
<1>2. ASSUME NEW p \in Process, NEW t \in Thread, TryLockOnceHeld(p, t)
      PROVE  Abstract!Join(p, t)
  <2>1. \A q \in Process : Holders(q)' = IF q = p THEN Holders(q) \cup {t} ELSE Holders(q)
    BY <1>2 DEF TryLockOnceHeld, Holders
  <2>2. t \notin Holders(p) /\ Holders(p) # {} /\ UNCHANGED <<lease, generation, isDirty>>
    BY <1>2 DEF TryLockOnceHeld, Holders, storeVars, innerVars
  <2> QED
    BY <2>1, <2>2 DEF Abstract!Join
<1>3. ASSUME NEW p \in Process, NEW t \in Thread, TryLockOnceGranted(p, t)
      PROVE  Abstract!Claim(p) \/ UNCHANGED Abstract!lockVars
  <2>1. \A q \in Process : \A u \in Thread : pc'[q][u] = "guarded" <=> pc[q][u] = "guarded"
    BY <1>3 DEF TryLockOnceGranted
  <2>2. /\ TryTakeLeasedLock(p, Lease) /\ UNCHANGED <<generation, isDirty>>
        /\ Lease \in 0 .. Lease
    BY <1>3 DEF TryLockOnceGranted, innerVars
  <2> QED
    BY <2>1, <2>2, TakeIsClaim
<1>4. ASSUME NEW p \in Process, NEW t \in Thread, TryLockOnceFinish(p, t)
      PROVE  Abstract!Acquire(p, t)
  <2>1. lease.holder = p /\ got[p] = lease.generation /\ lease.generation # NO_GENERATION
    BY <1>4 DEF TryLockOnceFinish, LockInv, TenureInv, GenerationInv
  <2>2. Holders(p) = {}
    BY <1>4 DEF TryLockOnceFinish, LockInv, AttemptInv, Holders
  <2>3. \A q \in Process : Holders(q)' = IF q = p THEN {t} ELSE Holders(q)
    BY <1>4, <2>2 DEF TryLockOnceFinish, Holders
  <2>4. /\ lease' = lease
        /\ generation' = [generation EXCEPT ![p] = lease.generation]
        /\ isDirty' = [isDirty EXCEPT ![p] =
                          @ \/ generation[p] \notin {NO_GENERATION, lease.generation}]
    BY <1>4, <2>1 DEF TryLockOnceFinish, Dirtied, storeVars
  <2>5. /\ [q \in Process |-> Holders(q)][p] = {}
        /\ [q \in Process |-> Holders(q)]' =
              [[q \in Process |-> Holders(q)] EXCEPT ![p] = {t}]
    BY <2>2, <2>3
  <2>6. \A q \in Process : generation'[q] = IF q = p THEN lease.generation ELSE generation[q]
    BY <2>4
  <2>7. [q \in Process |-> generation[q] # NO_GENERATION]' =
           [[q \in Process |-> generation[q] # NO_GENERATION] EXCEPT ![p] = TRUE]
    BY <2>1, <2>6
  <2>8. [q \in Process |-> generation[q] \notin {NO_GENERATION, lease.generation}]' =
           [[q \in Process |-> generation[q] \notin {NO_GENERATION, lease.generation}]
               EXCEPT ![p] = FALSE]
    BY <2>4, <2>6
  <2>9. isDirty' = [isDirty EXCEPT ![p] =
           @ \/ [q \in Process |-> generation[q] \notin {NO_GENERATION, lease.generation}][p]]
    BY <2>4
  <2> QED
    BY <2>1, <2>4, <2>5, <2>7, <2>8, <2>9 DEF Abstract!Acquire
<1>5. ASSUME NEW p \in Process, NEW t \in Thread, DropGuard(p, t)
      PROVE  Abstract!Release(p, t)
  <2>1. \A q \in Process : Holders(q)' = IF q = p THEN Holders(q) \ {t} ELSE Holders(q)
    BY <1>5 DEF DropGuard, Holders
  <2>2. t \in Holders(p) /\ UNCHANGED <<lease, generation, isDirty>>
    BY <1>5 DEF DropGuard, Holders, storeVars, innerVars
  <2> QED
    BY <2>1, <2>2 DEF Abstract!Release
<1>6. ASSUME NEW p \in Process, NEW t \in Thread, ClearDirty(p, t)
      PROVE  Abstract!Clear(p)
  <2>1. /\ Holders(p) # {} /\ UNCHANGED <<lease, generation, pc>>
        /\ isDirty' = [isDirty EXCEPT ![p] = FALSE]
    BY <1>6 DEF ClearDirty, Holders, threadVars
  <2>2. \A q \in Process : Holders(q)' = Holders(q)
    BY <2>1 DEF Holders
  <2> QED
    BY <2>1, <2>2 DEF Abstract!Clear
<1>7. ASSUME NEW p \in Process, RenewSleep(p) \/ RenewStop(p) \/ RenewFail(p)
      PROVE  UNCHANGED Abstract!lockVars
  <2>1. UNCHANGED <<lease, generation, isDirty, pc>>
    BY <1>7 DEF RenewSleep, RenewStop, RenewFail, storeVars, threadVars, innerVars
  <2> QED
    BY <2>1, InvisibleStep
<1>8. ASSUME NEW p \in Process, RenewRelease(p) \/ RenewExtend(p)
      PROVE  Abstract!Claim(p) \/ UNCHANGED Abstract!lockVars
  <2>1. UNCHANGED <<generation, isDirty, pc>>
    BY <1>8 DEF RenewRelease, RenewExtend, threadVars, innerVars
  <2>2. \/ \E d \in 0 .. Lease : TryTakeLeasedLock(p, d)
        \/ UNCHANGED lease
    BY <1>8 DEF RenewRelease, RenewExtend, storeVars
  <2>3. CASE UNCHANGED lease
    BY <2>1, <2>3, InvisibleStep
  <2>4. CASE \E d \in 0 .. Lease : TryTakeLeasedLock(p, d)
    BY <2>1, <2>4, TakeIsClaim
  <2> QED
    BY <2>2, <2>3, <2>4
<1>9. ASSUME NEW p \in Process, Restart(p) PROVE Abstract!Forget(p)
  <2>1. \A q \in Process : Holders(q)' = IF q = p THEN {} ELSE Holders(q)
    BY <1>9 DEF Restart, Holders
  <2>2. /\ lease' = lease
        /\ generation' = [generation EXCEPT ![p] = NO_GENERATION]
        /\ isDirty' = [isDirty EXCEPT ![p] = FALSE]
    BY <1>9 DEF Restart
  <2> QED
    BY <2>1, <2>2 DEF Abstract!Forget
<1>10. CASE Tick
  <2>1. /\ lease'.holder = lease.holder /\ lease'.generation = lease.generation
        /\ UNCHANGED <<generation, isDirty, pc>>
    BY <1>10 DEF Tick, threadVars, innerVars
  <2> QED
    BY <2>1, InvisibleStep
<1>11. CASE UNCHANGED vars
  <2>1. UNCHANGED <<lease, generation, isDirty, pc>>
    BY <1>11 DEF vars, storeVars, threadVars, innerVars
  <2> QED
    BY <2>1, InvisibleStep
<1> QED
  BY <1>1, <1>2, <1>3, <1>4, <1>5, <1>6, <1>7, <1>8, <1>9, <1>10, <1>11
  DEF Next, TryLockOnce, RenewLoop, Abstract!LockNext

\* With timely renewals and a store that answers, the leased lock implements the
\* exclusive lock, on which EventCacheStateLock is built: to its users leases,
\* renewals and generations are invisible.
THEOREM LeasedLockRefines == ASSUME Timely PROVE Spec => ImplementsExclusiveLock
<1>1. ASSUME Init PROVE Abstract!LockInit
  <2>1. \A p \in Process : Holders(p) = {}
    BY <1>1 DEF Init, Holders
  <2>2. \A p \in Process : generation[p] = NO_GENERATION
    BY <1>1 DEF Init
  <2>3. [p \in Process |-> generation[p] # NO_GENERATION] = [p \in Process |-> FALSE]
    BY <2>2
  <2>4. [p \in Process |-> generation[p] \notin {NO_GENERATION, lease.generation}]
           = [p \in Process |-> FALSE]
    BY <2>2
  <2> QED
    BY <1>1, <2>1, <2>3, <2>4 DEF Init, Abstract!LockInit
<1>2. TypeOK /\ LockInv /\ [Next]_vars => [Abstract!LockNext]_(Abstract!lockVars)
  BY RefinementStep
<1> QED
  BY <1>1, <1>2, TypeCorrect, LockInvariant, PTL
  DEF Spec, ImplementsExclusiveLock, Abstract!LockSpec
=============================================================================
