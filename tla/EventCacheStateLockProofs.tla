--------------------- MODULE EventCacheStateLockProofs ---------------------
(***************************************************************************)
(* Theorems about EventCacheStateLock, for any processes, threads, callers *)
(* and operations, with a store that may fail and processes that restart.  *)
(***************************************************************************)
EXTENDS EventCacheStateLock, TLAPS

\* The labels of the three locks inside a process, and of the store guard.
ReadLabels == {"rlocked", "reading"}
WriteLabels == {"upgraded", "wlocked", "wdirty", "writing", "inserting", "clocked", "cguard",
                "ccleared"}
MutexLabels == {"mutex", "rlocked", "upgrading", "upgraded"}
GuardLabels == {"upgrading", "upgraded", "reading", "wdirty", "writing", "cguard", "ccleared",
                "dropping", "direct"}

\* CacheExclusion within one process, thread by thread.
LabelInv ==
    \A p \in Process : \A t \in Thread :
        /\ pc[p][t] \in GuardLabels <=> t \in users[p]
        /\ \A u \in Thread :
              /\ pc[p][t] \in WriteLabels /\ pc[p][u] \in WriteLabels => t = u
              /\ pc[p][t] \in WriteLabels => pc[p][u] \notin ReadLabels
              /\ pc[p][t] \in MutexLabels /\ pc[p][u] \in MutexLabels => t = u

\* Guards are made by the owner alone, and whoever knows the lock and does not
\* own it any more will find that it missed something.  Caches are only there
\* in a process that has had the lock.
OwnerInv ==
    \A p \in Process :
        /\ users[p] # {} => owner = p /\ known[p]
        /\ known[p] => owner # NoProcess
        /\ known[p] /\ owner # p => missed[p]
        /\ cache[p] # "none" => known[p]

\* The inductive invariant.
StateLockInv == LabelInv /\ OwnerInv /\ StalenessRemembered

-----------------------------------------------------------------------------
\* What store.lock() does to the lock: one more guard for t, made by the owner,
\* and what p missed becomes dirt.
LEMMA StoreLockEffect ==
  ASSUME TypeOK, NEW p \in Process, NEW t \in Thread, NEW report, StoreLock(p, t, report)
  PROVE  /\ users' \in [Process -> SUBSET Thread]
         /\ \A q \in Process : users'[q] = IF q = p THEN users[q] \cup {t} ELSE users[q]
         /\ users[p] = {} => owner = p
         /\ owner' = owner
         /\ known' \in [Process -> BOOLEAN] /\ missed' \in [Process -> BOOLEAN]
         /\ dirty' \in [Process -> BOOLEAN]
         /\ \A q \in Process : q # p => /\ known'[q] = known[q]
                                        /\ missed'[q] = missed[q] /\ dirty'[q] = dirty[q]
         /\ users[p] = {} => known'[p]
         /\ known[p] => known'[p]
         /\ dirty[p] \/ missed[p] => dirty'[p] \/ missed'[p]
         /\ ~ missed[p] => ~ missed'[p]
         /\ users[p] # {} => missed'[p] = missed[p] /\ known'[p] = known[p]
<1>1. CASE Acquire(p, t)
  BY <1>1 DEF TypeOK, Acquire
<1>2. CASE Join(p, t)
  BY <1>2 DEF TypeOK, Join
<1> QED
  BY <1>1, <1>2 DEF StoreLock

\* A thread goes to a label, and pc stays in its type.
LEMMA GotoType ==
  ASSUME TypeOK, NEW p \in Process, NEW t \in Thread, NEW label \in Labels, Goto(p, t, label)
  PROVE  pc' \in [Process -> [Thread -> Labels]]
BY DEF TypeOK, Goto

\* Every variable stays in its type, whatever is called and whatever fails.
THEOREM TypeCorrect == Spec => []TypeOK
<1>1. Init => TypeOK
  BY RestartsAssumption DEF Init, LockInit, TypeOK, Labels
<1>2. TypeOK /\ [Next]_vars => TypeOK'
  <2> SUFFICES ASSUME TypeOK, [Next]_vars PROVE TypeOK'
    OBVIOUS
  <2>1. ASSUME NEW p \in Process, ProcessClaims(p) PROVE TypeOK'
    BY <2>1 DEF TypeOK, ProcessClaims, Claim, stateVars
  <2>2. ASSUME NEW p \in Process, ProcessRestarts(p) PROVE TypeOK'
    <3>1. "idle" \in Labels
      BY DEF Labels
    <3> QED
      BY <2>2, <3>1, RestartsAssumption DEF TypeOK, ProcessRestarts, Forget
  <2>3. ASSUME NEW p \in Process, NEW t \in Thread,
               \/ ReadBegin(p, t) \/ WriteBegin(p, t) \/ ClearBegin(p, t) \/ DirectBegin(p, t)
               \/ ReadLocked(p, t) \/ ReadUpgrade(p, t) \/ ReloadFails(p, t)
               \/ ClearFails(p, t) \/ DropState(p, t) \/ StoreLockTimesOut(p, t) \/ Inserted(p, t)
        PROVE  TypeOK'
    <3>1. (\E label \in Labels : Goto(p, t, label)) /\ UNCHANGED <<lockVars, cache, restarts>>
      BY <2>3 DEF Labels, ReadBegin, WriteBegin, ClearBegin, DirectBegin, ReadLocked, ReadUpgrade,
         ReloadFails, ClearFails, DropState, StoreLockTimesOut, Inserted
    <3> QED
      BY <3>1, GotoType DEF TypeOK, lockVars
  <2>4. ASSUME NEW p \in Process, NEW t \in Thread,
               \/ ReadStoreLock(p, t) \/ WriteStoreLock(p, t) \/ ClearStoreLock(p, t)
               \/ DirectStoreLock(p, t)
        PROVE  TypeOK'
    <3>1. /\ \E report \in {"Clean", "Dirty"} : StoreLock(p, t, report)
          /\ \E label \in Labels : Goto(p, t, label)
          /\ UNCHANGED <<cache, restarts>>
      BY <2>4 DEF ReadStoreLock, WriteStoreLock, ClearStoreLock, DirectStoreLock, Labels
    <3>2. PICK report \in {"Clean", "Dirty"} : StoreLock(p, t, report)
      BY <3>1
    <3>3. /\ users' \in [Process -> SUBSET Thread] /\ owner' = owner
          /\ known' \in [Process -> BOOLEAN] /\ missed' \in [Process -> BOOLEAN]
          /\ dirty' \in [Process -> BOOLEAN]
      BY <3>2, StoreLockEffect
    <3>4. pc' \in [Process -> [Thread -> Labels]]
      BY <3>1, GotoType
    <3> QED
      BY <3>1, <3>3, <3>4 DEF TypeOK
  <2>5. ASSUME NEW p \in Process, NEW t \in Thread,
               ReloadSucceeds(p, t) \/ ClearReload(p, t)
        PROVE  TypeOK'
    <3>1. /\ \E label \in Labels : Goto(p, t, label)
          /\ Clear(p) \/ UNCHANGED lockVars
          /\ cache' = [cache EXCEPT ![p] = Reloaded(@)] /\ UNCHANGED restarts
      BY <2>5 DEF ReloadSucceeds, ClearReload, Labels
    <3> QED
      BY <3>1, GotoType DEF TypeOK, Reloaded, Clear, lockVars
  <2>6. ASSUME NEW p \in Process, NEW t \in Thread, Update(p, t) \/ ClearStore(p, t)
        PROVE  TypeOK'
    <3>1. cache' \in [Process -> {"none", "fresh", "stale", "cleared"}]
      <4>1. \A q \in Process : cache[q] \in {"none", "fresh", "stale", "cleared"}
        BY DEF TypeOK
      <4> QED
        BY <2>6, <4>1 DEF Update, ClearStore, Outdated, Cleared
    <3>2. /\ (\E label \in Labels : Goto(p, t, label)) \/ UNCHANGED pc
          /\ UNCHANGED <<lockVars, restarts>>
      BY <2>6 DEF Update, ClearStore, Labels
    <3> QED
      BY <3>1, <3>2, GotoType DEF TypeOK, lockVars
  <2>7. ASSUME NEW p \in Process, NEW t \in Thread, DropStore(p, t) PROVE TypeOK'
    <3>1. "idle" \in Labels
      BY DEF Labels
    <3>2. pc' \in [Process -> [Thread -> Labels]]
      BY <2>7, <3>1, GotoType DEF DropStore
    <3> QED
      BY <2>7, <3>2 DEF TypeOK, DropStore, Release
  <2>8. ASSUME NEW p \in Process, NEW t \in Thread, Construct(p, t) PROVE TypeOK'
    <3>1. pc' \in [Process -> [Thread -> Labels]]
      BY <2>8, GotoType DEF Construct, Labels
    <3>2. cache' \in [Process -> {"none", "fresh", "stale", "cleared"}]
      BY <2>8 DEF TypeOK, Construct
    <3> QED
      BY <2>8, <3>1, <3>2 DEF TypeOK, Construct, Release
  <2>9. CASE UNCHANGED vars
    BY <2>9 DEF TypeOK, vars, lockVars, stateVars
  <2> QED
    BY <2>1, <2>2, <2>3, <2>4, <2>5, <2>6, <2>7, <2>8, <2>9 DEF Next, Proceed
<1> QED
  BY <1>1, <1>2, PTL DEF Spec

-----------------------------------------------------------------------------
\* CacheExclusion is what LabelInv and OwnerInv say together.
LEMMA ExclusionByLabels ==
  ASSUME TypeOK, LabelInv, OwnerInv PROVE CacheExclusion
<1>1. \A p, q \in Process : p # q => users[p] = {} \/ users[q] = {}
  BY DEF OwnerInv
<1>2. ASSUME NEW p \in Process
      PROVE  /\ \A t, u \in Writers(p) : t = u
             /\ Writers(p) # {} => Readers(p) = {}
             /\ \A t, u \in Upgrader(p) : t = u
  BY DEF LabelInv, At, Writers, Readers, Upgrader, WriteLabels, ReadLabels, MutexLabels
<1>3. ASSUME NEW p \in Process PROVE At(p, GuardLabels) = users[p]
  BY DEF LabelInv, At, TypeOK
<1> QED
  BY <1>1, <1>2, <1>3 DEF CacheExclusion, GuardLabels

\* A thread that moves to a label with the same store guard keeps the locks in
\* order, if the locks that come with the new label are free or its own.
LEMMA MoveKeeps ==
  ASSUME TypeOK, LabelInv, NEW p \in Process, NEW t \in Thread, NEW label \in Labels,
         Goto(p, t, label), UNCHANGED users,
         label \in GuardLabels <=> pc[p][t] \in GuardLabels,
         label \in WriteLabels => \/ pc[p][t] \in WriteLabels
                                  \/ Writers(p) = {} /\ Readers(p) = {},
         label \in ReadLabels => pc[p][t] \in ReadLabels \cup WriteLabels \/ Writers(p) = {},
         label \in MutexLabels => pc[p][t] \in MutexLabels \/ Upgrader(p) = {}
  PROVE  LabelInv'
<1>1. \A q \in Process : \A u \in Thread :
         pc'[q][u] = IF q = p /\ u = t THEN label ELSE pc[q][u]
  BY DEF Goto, TypeOK
<1>2. /\ Writers(p) = {} <=> \A u \in Thread : pc[p][u] \notin WriteLabels
      /\ Readers(p) = {} <=> \A u \in Thread : pc[p][u] \notin ReadLabels
      /\ Upgrader(p) = {} <=> \A u \in Thread : pc[p][u] \notin MutexLabels
  BY DEF Writers, Readers, Upgrader, At, WriteLabels, ReadLabels, MutexLabels
<1>3. WriteLabels \cap ReadLabels = {}
  BY DEF WriteLabels, ReadLabels
<1> QED
  BY <1>1, <1>2, <1>3 DEF LabelInv

\* store.lock() keeps the invariant, if the label reached has a store guard and
\* otherwise the same locks.
LEMMA StoreLockKeeps ==
  ASSUME TypeOK, StateLockInv, NEW p \in Process, NEW t \in Thread, NEW label \in GuardLabels,
         NEW report, StoreLock(p, t, report), Goto(p, t, label), UNCHANGED cache,
         pc[p][t] \notin GuardLabels,
         label \in WriteLabels => pc[p][t] \in WriteLabels,
         label \in ReadLabels => pc[p][t] \in ReadLabels,
         label \in MutexLabels => pc[p][t] \in MutexLabels
  PROVE  StateLockInv'
<1>1. \A q \in Process : \A u \in Thread :
         pc'[q][u] = IF q = p /\ u = t THEN label ELSE pc[q][u]
  BY DEF Goto, TypeOK
<1>2. \A q \in Process : users'[q] = IF q = p THEN users[q] \cup {t} ELSE users[q]
  BY StoreLockEffect
<1>3. LabelInv'
  <2>1. ASSUME NEW q \in Process, NEW u \in Thread
        PROVE  pc'[q][u] \in GuardLabels <=> u \in users'[q]
    <3>1. /\ pc[q][u] \in GuardLabels <=> u \in users[q]
          /\ label \in GuardLabels
      BY DEF StateLockInv, LabelInv
    <3> QED
      BY <1>1, <1>2, <3>1
  <2> QED
    BY <1>1, <2>1 DEF StateLockInv, LabelInv
<1>4. OwnerInv' /\ StalenessRemembered'
  <2>1. /\ users[p] = {} => owner = p /\ known'[p]
        /\ owner' = owner
        /\ \A q \in Process : q # p => /\ known'[q] = known[q]
                                       /\ missed'[q] = missed[q] /\ dirty'[q] = dirty[q]
        /\ dirty[p] \/ missed[p] => dirty'[p] \/ missed'[p]
        /\ users[p] # {} => missed'[p] = missed[p] /\ known'[p] = known[p]
    BY StoreLockEffect
  <2>2. OwnerInv'
    BY <1>2, <2>1, ExclusiveLockConstants DEF StateLockInv, OwnerInv
  <2> QED
    BY <2>1, <2>2 DEF StateLockInv, StalenessRemembered
<1> QED
  BY <1>3, <1>4 DEF StateLockInv

\* Only who has a guard changes the store, and then the caches of the others,
\* who do not own the lock, become stale: they will know it.
LEMMA StoreChangeKeeps ==
  ASSUME TypeOK, StateLockInv, NEW p \in Process, users[p] # {}, UNCHANGED lockVars,
         \A q \in Process : q # p => cache'[q] = Outdated(cache[q]),
         cache'[p] = "stale" => cache[p] = "stale"
  PROVE  OwnerInv' /\ StalenessRemembered'
BY DEF StateLockInv, OwnerInv, StalenessRemembered, Outdated, lockVars

\* Every step keeps the invariant.
LEMMA StateLockStep ==
  ASSUME TypeOK, StateLockInv, [Next]_vars PROVE StateLockInv'
<1>1. ASSUME NEW p \in Process, ProcessClaims(p) PROVE StateLockInv'
  BY <1>1, ExclusiveLockConstants DEF ProcessClaims, Claim, OthersIdle, stateVars, StateLockInv, LabelInv, OwnerInv,
     StalenessRemembered, TypeOK
<1>2. ASSUME NEW p \in Process, ProcessRestarts(p) PROVE StateLockInv'
  <2>1. \A q \in Process : \A u \in Thread :
           pc'[q][u] = IF q = p THEN "idle" ELSE pc[q][u]
    BY <1>2 DEF ProcessRestarts, TypeOK
  <2>2. \A q \in Process : users'[q] = IF q = p THEN {} ELSE users[q]
    BY <1>2 DEF ProcessRestarts, Forget, TypeOK
  <2>3. LabelInv'
    BY <2>1, <2>2 DEF StateLockInv, LabelInv, GuardLabels, WriteLabels, MutexLabels, ReadLabels
  <2>4. OwnerInv' /\ StalenessRemembered'
    BY <1>2, <2>2 DEF ProcessRestarts, Forget, StateLockInv, OwnerInv, StalenessRemembered, TypeOK
  <2> QED
    BY <2>3, <2>4 DEF StateLockInv
<1>3. ASSUME NEW p \in Process, NEW t \in Thread,
             \/ ReadBegin(p, t) \/ WriteBegin(p, t) \/ ClearBegin(p, t) \/ DirectBegin(p, t)
             \/ ReadLocked(p, t) \/ ReadUpgrade(p, t) \/ ReloadFails(p, t)
             \/ ClearFails(p, t) \/ DropState(p, t) \/ StoreLockTimesOut(p, t) \/ Inserted(p, t)
      PROVE  StateLockInv'
  <2>1. UNCHANGED <<lockVars, cache>> /\ UNCHANGED users
    BY <1>3 DEF ReadBegin, WriteBegin, ClearBegin, DirectBegin, ReadLocked, ReadUpgrade,
       ReloadFails, ClearFails, DropState, StoreLockTimesOut, Inserted, lockVars
  <2>2. PICK label \in Labels :
           /\ Goto(p, t, label)
           /\ label \in GuardLabels <=> pc[p][t] \in GuardLabels
           /\ label \in WriteLabels => Writers(p) = {} /\ Readers(p) = {}
           /\ label \in ReadLabels => Writers(p) = {}
           /\ label \in MutexLabels => pc[p][t] \in MutexLabels \/ Upgrader(p) = {}
    BY <1>3 DEF ReadBegin, WriteBegin, ClearBegin, DirectBegin, ReadLocked, ReadUpgrade,
       ReloadFails, ClearFails, DropState, StoreLockTimesOut, Inserted, Labels, GuardLabels,
       WriteLabels, ReadLabels, MutexLabels, AsksForStore
  <2>3. LabelInv'
    BY <2>1, <2>2, MoveKeeps DEF StateLockInv
  <2> QED
    BY <2>1, <2>3 DEF StateLockInv, OwnerInv, StalenessRemembered, lockVars
<1>4. ASSUME NEW p \in Process, NEW t \in Thread,
             \/ ReadStoreLock(p, t) \/ WriteStoreLock(p, t) \/ ClearStoreLock(p, t)
             \/ DirectStoreLock(p, t)
      PROVE  StateLockInv'
  <2>1. UNCHANGED cache /\ pc[p][t] \notin GuardLabels
    BY <1>4 DEF ReadStoreLock, WriteStoreLock, ClearStoreLock, DirectStoreLock, GuardLabels
  <2>2. PICK report \in {"Clean", "Dirty"}, label \in GuardLabels :
           /\ StoreLock(p, t, report) /\ Goto(p, t, label)
           /\ label \in WriteLabels => pc[p][t] \in WriteLabels
           /\ label \in ReadLabels => pc[p][t] \in ReadLabels
           /\ label \in MutexLabels => pc[p][t] \in MutexLabels
    BY <1>4 DEF ReadStoreLock, WriteStoreLock, ClearStoreLock, DirectStoreLock, GuardLabels,
       WriteLabels, ReadLabels, MutexLabels
  <2> QED
    BY <2>1, <2>2, StoreLockKeeps
<1>5. ASSUME NEW p \in Process, NEW t \in Thread,
             ReloadSucceeds(p, t) \/ ClearReload(p, t)
      PROVE  StateLockInv'
  <2>1. /\ cache' = [cache EXCEPT ![p] = Reloaded(@)]
        /\ Clear(p) \/ UNCHANGED lockVars
    BY <1>5 DEF ReloadSucceeds, ClearReload
  <2>2. PICK label \in Labels :
           /\ Goto(p, t, label)
           /\ label \in GuardLabels /\ pc[p][t] \in GuardLabels \cap WriteLabels
           /\ label \notin MutexLabels
    BY <1>5 DEF ReloadSucceeds, ClearReload, Labels, GuardLabels, WriteLabels, MutexLabels
  <2>3. UNCHANGED <<owner, users, known, missed>>
    BY <2>1 DEF Clear, lockVars
  <2>4. LabelInv'
    BY <2>2, <2>3, MoveKeeps DEF StateLockInv
  <2>5. /\ \A q \in Process : cache'[q] = IF q = p THEN Reloaded(cache[q]) ELSE cache[q]
        /\ \A q \in Process : q # p => dirty'[q] = dirty[q]
    <3>1. /\ \A q \in Process : q # p => dirty'[q] = dirty[q]
          /\ cache \in [Process -> {"none", "fresh", "stale", "cleared"}]
      BY <2>1 DEF Clear, lockVars, TypeOK
    <3> QED
      BY <2>1, <3>1
  <2> QED
    BY <2>3, <2>4, <2>5 DEF StateLockInv, OwnerInv, StalenessRemembered, Reloaded
<1>6. ASSUME NEW p \in Process, NEW t \in Thread, Update(p, t) PROVE StateLockInv'
  <2>1. t \in users[p] /\ UNCHANGED <<users, lockVars, pc>>
    BY <1>6 DEF Update, StateLockInv, LabelInv, GuardLabels, lockVars
  <2>2. /\ \A q \in Process : q # p => cache'[q] = Outdated(cache[q])
        /\ cache'[p] = "stale" => cache[p] = "stale"
    BY <1>6 DEF Update
  <2> QED
    BY <2>1, <2>2, StoreChangeKeeps DEF StateLockInv, LabelInv
<1>7. ASSUME NEW p \in Process, NEW t \in Thread, ClearStore(p, t) PROVE StateLockInv'
  <2>1. /\ t \in users[p] /\ UNCHANGED <<users, lockVars>> /\ Goto(p, t, "ccleared")
        /\ pc[p][t] \in GuardLabels \cap WriteLabels
    BY <1>7 DEF ClearStore, StateLockInv, LabelInv, GuardLabels, WriteLabels, lockVars
  <2>2. /\ \A q \in Process : q # p => cache'[q] = Outdated(cache[q])
        /\ cache'[p] = "stale" => cache[p] = "stale"
    BY <1>7 DEF ClearStore, Cleared
  <2>3. "ccleared" \in (Labels \cap GuardLabels) \ (ReadLabels \cup MutexLabels)
    BY DEF Labels, GuardLabels, ReadLabels, MutexLabels
  <2>4. LabelInv'
    BY <2>1, <2>3, MoveKeeps DEF StateLockInv
  <2> QED
    BY <2>1, <2>2, <2>4, StoreChangeKeeps DEF StateLockInv
<1>8. ASSUME NEW p \in Process, NEW t \in Thread, NEW label, Release(p, t), Goto(p, t, label),
             label \notin GuardLabels \cup ReadLabels \cup MutexLabels,
             label \in WriteLabels => pc[p][t] \in WriteLabels,
             \A q \in Process : cache'[q] # cache[q] => q = p /\ cache'[q] = "fresh" /\ known[q]
      PROVE  StateLockInv'
  <2>1. \A q \in Process : \A u \in Thread :
           pc'[q][u] = IF q = p /\ u = t THEN label ELSE pc[q][u]
    BY <1>8 DEF Goto, TypeOK
  <2>2. /\ \A q \in Process : users'[q] = IF q = p THEN users[q] \ {t} ELSE users[q]
        /\ UNCHANGED <<owner, known, missed, dirty>>
    BY <1>8 DEF Release, TypeOK
  <2>3. LabelInv'
    <3>1. ASSUME NEW q \in Process, NEW u \in Thread
          PROVE  pc'[q][u] \in GuardLabels <=> u \in users'[q]
      <4>1. pc[q][u] \in GuardLabels <=> u \in users[q]
        BY DEF StateLockInv, LabelInv
      <4> QED
        BY <1>8, <2>1, <2>2, <4>1
    <3> QED
      BY <1>8, <2>1, <3>1 DEF StateLockInv, LabelInv
  <2> QED
    BY <1>8, <2>2, <2>3 DEF StateLockInv, OwnerInv, StalenessRemembered
<1>9. ASSUME NEW p \in Process, NEW t \in Thread, DropStore(p, t) PROVE StateLockInv'
  <2>1. "idle" \notin GuardLabels \cup WriteLabels \cup ReadLabels \cup MutexLabels
    BY DEF GuardLabels, WriteLabels, ReadLabels, MutexLabels
  <2> QED
    BY <1>8, <1>9, <2>1 DEF DropStore
<1>10. ASSUME NEW p \in Process, NEW t \in Thread, Construct(p, t) PROVE StateLockInv'
  <2>1. /\ Release(p, t) /\ Goto(p, t, "inserting")
        /\ pc[p][t] \in GuardLabels \cap WriteLabels
    BY <1>10 DEF Construct, GuardLabels, WriteLabels
  <2>2. "inserting" \notin GuardLabels \cup ReadLabels \cup MutexLabels
    BY DEF GuardLabels, ReadLabels, MutexLabels
  <2>3. known[p]
    BY <2>1 DEF StateLockInv, LabelInv, OwnerInv
  <2>4. \A q \in Process : cache'[q] # cache[q] => q = p /\ cache'[q] = "fresh"
    BY <1>10 DEF Construct, TypeOK
  <2> QED
    BY <1>8, <2>1, <2>2, <2>3, <2>4
<1>11. CASE UNCHANGED vars
  BY <1>11 DEF vars, lockVars, stateVars, StateLockInv, LabelInv, OwnerInv, StalenessRemembered
<1> QED
  BY <1>1, <1>2, <1>3, <1>4, <1>5, <1>6, <1>7, <1>9, <1>10, <1>11 DEF Next, Proceed

\* The invariant holds of every reachable state.
THEOREM StateLockInvariant == Spec => []StateLockInv
<1>1. Init => StateLockInv
  BY DEF Init, LockInit, StateLockInv, LabelInv, OwnerInv, StalenessRemembered, GuardLabels,
     WriteLabels, ReadLabels, MutexLabels
<1>2. TypeOK /\ StateLockInv /\ [Next]_vars => StateLockInv'
  BY StateLockStep
<1> QED
  BY <1>1, <1>2, TypeCorrect, PTL DEF Spec

\* Two processes never use the store at the same time, and in each of them the
\* caches have one writer or several readers, however read, write,
\* clear_and_reload and the direct users of the store interleave.
THEOREM CachesAreExclusive == Spec => []CacheExclusion
<1>1. TypeOK /\ StateLockInv => CacheExclusion
  BY ExclusionByLabels DEF StateLockInv
<1> QED
  BY <1>1, TypeCorrect, StateLockInvariant, PTL

\* Caches that are behind what another process did to the store belong to a
\* process that is dirty, or will be at its next acquisition.
THEOREM StalenessIsRemembered == Spec => []StalenessRemembered
<1>1. StateLockInv => StalenessRemembered
  BY DEF StateLockInv
<1> QED
  BY <1>1, StateLockInvariant, PTL
=============================================================================
