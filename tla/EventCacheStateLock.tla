------------------------ MODULE EventCacheStateLock ------------------------
(***************************************************************************)
(* StateLock of client-matrix/src/event_cache/states/mod.rs: the in-memory *)
(* caches of all rooms, behind a tokio RwLock in each process, on top of   *)
(* the store's cross-process lock, which says when another process has     *)
(* written to the store and the caches must be reloaded.                   *)
(*                                                                         *)
(* pc tells which locks a thread has:                                      *)
(*   mutex      the upgrade mutex            rlocked    mutex + read lock   *)
(*   upgrading  mutex + store guard          upgraded   ... + write lock    *)
(*   reading    read lock + store guard                                    *)
(*   wlocked    write lock                   wdirty, writing  + store guard *)
(*   inserting  write lock, the store guard before it is already dropped   *)
(*   clocked    write lock                   cguard, ccleared + store guard *)
(*   dropping   store guard, the RwLock guard before it is already dropped *)
(*   direct     store guard, no use of the caches                          *)
(***************************************************************************)
EXTENDS Integers, ExclusiveLock

CONSTANTS
    Ops,         \* the operations in use: "read", "write", "clear", "direct"
    StoreFails,  \* may reading or clearing the store fail?
    Restarts,    \* bound: how often a process may restart
    Callers      \* the threads in use, as pairs of a process and a thread

ASSUME CallersAssumption == Callers \subseteq Process \X Thread
ASSUME RestartsAssumption == Restarts \in Nat

VARIABLES
    pc,       \* where each thread of each process is
    cache,    \* the caches of the process: "none" loaded, or in agreement with the
              \* store ("fresh"), or behind what another process did to it
              \* ("stale"), or behind what this process cleared ("cleared")
    restarts  \* how often a process restarted so far

stateVars == <<pc, cache, restarts>>
vars == <<lockVars, stateVars>>

At(p, labels) == {t \in Thread : pc[p][t] \in labels}
\* Mutant: the read lock is kept while waiting for the write lock.
ReadersWhileUpgrading(p) == At(p, {"rlocked", "upgrading", "reading"})

Readers(p) == At(p, {"rlocked", "reading"})
Writers(p) == At(p, {"upgraded", "wlocked", "wdirty", "writing", "inserting", "clocked", "cguard",
                     "ccleared"})
Upgrader(p) == At(p, {"mutex", "rlocked", "upgrading", "upgraded"})

Goto(p, t, label) == pc' = [pc EXCEPT ![p][t] = label]

Init ==
    /\ LockInit
    /\ pc = [p \in Process |-> [t \in Thread |-> "idle"]]
    /\ cache = [p \in Process |-> "none"]
    /\ restarts = 0

-----------------------------------------------------------------------------
\* The store lock is asked for at these labels, and answers "Clean" or "Dirty".
AsksForStore == {"rlocked", "wlocked", "clocked", "askdirect"}

\* store.lock(): a first guard reports is_dirty, a further one always Clean.
StoreLock(p, t, report) ==
    \/ Acquire(p, t) /\ report = (IF dirty'[p] THEN "Dirty" ELSE "Clean")
    \/ Join(p, t) /\ report = "Clean"

\* A thread waits in spin_lock, and its process obtains the lease.
ProcessClaims(p) ==
    /\ At(p, AsksForStore) # {}
    /\ Claim(p)
    /\ UNCHANGED stateVars

\* spin_lock gives up: the error is returned, and the RwLock guard dropped.
StoreLockTimesOut(p, t) ==
    /\ pc[p][t] \in AsksForStore
    /\ ~ OthersIdle(p)
    /\ Goto(p, t, "idle")
    /\ UNCHANGED <<lockVars, cache, restarts>>

-----------------------------------------------------------------------------
ReadBegin(p, t) ==
    /\ "read" \in Ops
    /\ pc[p][t] = "idle" /\ Upgrader(p) = {}
    /\ Goto(p, t, "mutex")
    /\ UNCHANGED <<lockVars, cache, restarts>>

ReadLocked(p, t) ==
    /\ pc[p][t] = "mutex" /\ Writers(p) = {}
    /\ Goto(p, t, "rlocked")
    /\ UNCHANGED <<lockVars, cache, restarts>>

\* Clean: the caches are used as they are.  Dirty: the read lock is dropped, to
\* be replaced by a write lock.
ReadStoreLock(p, t) ==
    /\ pc[p][t] = "rlocked"
    /\ \/ StoreLock(p, t, "Clean") /\ Goto(p, t, "reading")
       \/ StoreLock(p, t, "Dirty") /\ Goto(p, t, "upgrading")
    /\ UNCHANGED <<cache, restarts>>

\* Mutant: the upgrade does not wait for a writer that came in between.
UpgradeOverWriter(p, t) ==
    /\ pc[p][t] = "upgrading" /\ Readers(p) = {}
    /\ Goto(p, t, "upgraded")
    /\ UNCHANGED <<lockVars, cache, restarts>>

ReadUpgrade(p, t) ==
    /\ pc[p][t] = "upgrading" /\ Writers(p) = {} /\ Readers(p) = {}
    /\ Goto(p, t, "upgraded")
    /\ UNCHANGED <<lockVars, cache, restarts>>

\* reload brings the caches there are up to date; what another process does to
\* the store makes them stale; so does clear_all_events of their own process.
Reloaded(c) == IF c = "none" THEN "none" ELSE "fresh"
Outdated(c) == IF c = "none" THEN "none" ELSE "stale"
Cleared(c) == IF c = "fresh" THEN "cleared" ELSE c

\* reload, clear_dirty, and the write lock becomes a read lock, or a write
\* guard is returned.
ReloadSucceeds(p, t) ==
    /\ \/ pc[p][t] = "upgraded" /\ Goto(p, t, "reading")
       \/ pc[p][t] = "wdirty" /\ Goto(p, t, "writing")
    /\ cache' = [cache EXCEPT ![p] = Reloaded(@)]
    /\ Clear(p)
    /\ UNCHANGED restarts

\* reload fails: the guard, that is its RwLock guard and then its store guard,
\* is dropped.
ReloadFails(p, t) ==
    /\ StoreFails
    /\ pc[p][t] \in {"upgraded", "wdirty"}
    /\ Goto(p, t, "dropping")
    /\ UNCHANGED <<lockVars, cache, restarts>>

WriteBegin(p, t) ==
    /\ "write" \in Ops
    /\ pc[p][t] = "idle" /\ Writers(p) = {} /\ Readers(p) = {}
    /\ Goto(p, t, "wlocked")
    /\ UNCHANGED <<lockVars, cache, restarts>>

WriteStoreLock(p, t) ==
    /\ pc[p][t] = "wlocked"
    /\ \/ StoreLock(p, t, "Clean") /\ Goto(p, t, "writing")
       \/ StoreLock(p, t, "Dirty") /\ Goto(p, t, "wdirty")
    /\ UNCHANGED <<cache, restarts>>

\* Under the write guard caches and store are changed together: the caches of the
\* other processes no longer match.
Update(p, t) ==
    /\ pc[p][t] = "writing"
    /\ cache' = [q \in Process |-> IF q = p THEN cache[p] ELSE Outdated(cache[q])]
    /\ UNCHANGED <<lockVars, pc, restarts>>

\* try_insert_once_with gives the store guard of write to the constructor, which
\* loads the cache, or fails, and drops the guard; then the cache is inserted
\* under the state lock alone.
Construct(p, t) ==
    /\ pc[p][t] = "writing"
    /\ \/ cache' = [cache EXCEPT ![p] = IF @ = "none" THEN "fresh" ELSE @]
       \/ StoreFails /\ UNCHANGED cache
    /\ Release(p, t)
    /\ Goto(p, t, "inserting")
    /\ UNCHANGED restarts

Inserted(p, t) ==
    /\ pc[p][t] = "inserting"
    /\ Goto(p, t, "idle")
    /\ UNCHANGED <<lockVars, cache, restarts>>

-----------------------------------------------------------------------------
ClearBegin(p, t) ==
    /\ "clear" \in Ops
    /\ pc[p][t] = "idle" /\ Writers(p) = {} /\ Readers(p) = {}
    /\ Goto(p, t, "clocked")
    /\ UNCHANGED <<lockVars, cache, restarts>>

\* Clean or Dirty is all the same to clear_and_reload.
ClearStoreLock(p, t) ==
    /\ pc[p][t] = "clocked"
    /\ \E report \in {"Clean", "Dirty"} : StoreLock(p, t, report)
    /\ Goto(p, t, "cguard")
    /\ UNCHANGED <<cache, restarts>>

\* clear_all_events: now the store is ahead of this process's caches too.
ClearStore(p, t) ==
    /\ pc[p][t] = "cguard"
    /\ Goto(p, t, "ccleared")
    /\ cache' = [q \in Process |-> IF q # p THEN Outdated(cache[q]) ELSE Cleared(cache[p])]
    /\ UNCHANGED <<lockVars, restarts>>

\* The caches are reloaded; a dirty lock has been dealt with on the way.
ClearReload(p, t) ==
    /\ pc[p][t] = "ccleared"
    /\ Goto(p, t, "dropping")
    /\ cache' = [cache EXCEPT ![p] = Reloaded(@)]
    /\ \/ dirty[p] /\ Clear(p)
       \/ ~ dirty[p] /\ UNCHANGED lockVars
    /\ UNCHANGED restarts

\* clear_all_events or the reload after it fails.
ClearFails(p, t) ==
    /\ StoreFails
    /\ pc[p][t] \in {"cguard", "ccleared"}
    /\ Goto(p, t, "dropping")
    /\ UNCHANGED <<lockVars, cache, restarts>>

-----------------------------------------------------------------------------
\* Sliding sync saves its position in the same store: it takes the store lock
\* without the caches and treats a dirty lock like a clean one.
DirectBegin(p, t) ==
    /\ "direct" \in Ops
    /\ pc[p][t] = "idle"
    /\ Goto(p, t, "askdirect")
    /\ UNCHANGED <<lockVars, cache, restarts>>

\* Mutant: the direct user clears the dirt it does not care about.
DirectClearsDirt(p, t) ==
    /\ pc[p][t] = "askdirect"
    /\ \/ Join(p, t)
       \/ /\ owner = p /\ users[p] = {}
          /\ users' = [users EXCEPT ![p] = {t}]
          /\ known' = [known EXCEPT ![p] = TRUE]
          /\ missed' = [missed EXCEPT ![p] = FALSE]
          /\ dirty' = [dirty EXCEPT ![p] = FALSE]
          /\ UNCHANGED owner
    /\ Goto(p, t, "direct")
    /\ UNCHANGED <<cache, restarts>>

DirectStoreLock(p, t) ==
    /\ pc[p][t] = "askdirect"
    /\ \E report \in {"Clean", "Dirty"} : StoreLock(p, t, report)
    /\ Goto(p, t, "direct")
    /\ UNCHANGED <<cache, restarts>>

\* A guard goes out of scope: its fields are dropped in the order they are
\* declared, the state before the store.
DropState(p, t) ==
    /\ pc[p][t] \in {"reading", "writing"}
    /\ Goto(p, t, "dropping")
    /\ UNCHANGED <<lockVars, cache, restarts>>

DropStore(p, t) ==
    /\ pc[p][t] \in {"dropping", "direct"}
    /\ Release(p, t)
    /\ Goto(p, t, "idle")
    /\ UNCHANGED <<cache, restarts>>

\* A new process has no caches yet.
ProcessRestarts(p) ==
    /\ restarts < Restarts
    /\ restarts' = restarts + 1
    /\ Forget(p)
    /\ pc' = [pc EXCEPT ![p] = [t \in Thread |-> "idle"]]
    /\ cache' = [cache EXCEPT ![p] = "none"]

\* What a thread does once it is inside an operation.
Proceed(p, t) ==
    \/ ReadLocked(p, t) \/ ReadStoreLock(p, t) \/ ReadUpgrade(p, t)
    \/ ReloadSucceeds(p, t) \/ ReloadFails(p, t) \/ WriteStoreLock(p, t) \/ Inserted(p, t)
    \/ ClearStoreLock(p, t) \/ ClearStore(p, t) \/ ClearReload(p, t) \/ ClearFails(p, t)
    \/ DirectStoreLock(p, t) \/ DropState(p, t) \/ DropStore(p, t) \/ StoreLockTimesOut(p, t)

Next ==
    \E p \in Process :
        \/ ProcessClaims(p) \/ ProcessRestarts(p)
        \/ \E t \in {u \in Thread : <<p, u>> \in Callers} :
              \/ ReadBegin(p, t) \/ WriteBegin(p, t) \/ ClearBegin(p, t) \/ DirectBegin(p, t)
              \/ Proceed(p, t) \/ Update(p, t) \/ Construct(p, t)

\* Threads do not stay inside an operation, and tokio's Mutex and RwLock serve
\* their waiters in order, so a thread whose turn keeps coming takes it.
Fairness ==
    /\ \A p \in Process : WF_vars(ProcessClaims(p))
    /\ \A c \in Callers : SF_vars(Proceed(c[1], c[2]))

Spec == Init /\ [][Next]_vars
FairSpec == Spec /\ Fairness

-----------------------------------------------------------------------------
Labels == {"idle", "mutex", "rlocked", "upgrading", "upgraded", "reading", "wlocked", "wdirty",
           "writing", "inserting", "clocked", "cguard", "ccleared", "dropping", "askdirect",
           "direct"}

TypeOK ==
    /\ owner \in Process \cup {NoProcess}
    /\ users \in [Process -> SUBSET Thread]
    /\ known \in [Process -> BOOLEAN] /\ missed \in [Process -> BOOLEAN]
    /\ dirty \in [Process -> BOOLEAN]
    /\ cache \in [Process -> {"none", "fresh", "stale", "cleared"}]
    /\ pc \in [Process -> [Thread -> Labels]]
    /\ restarts \in 0 .. Restarts

\* "If the cross-process lock over the store is dirty, the state is reloaded":
\* nobody is handed a read or write guard over caches that miss what another
\* process wrote to the store (StateLock::read and StateLock::write).
NoStaleUse ==
    \A p \in Process : At(p, {"reading", "writing"}) # {} => cache[p] # "stale"

\* What another process did is never forgotten: the lock's dirtiness, now or at
\* its next acquisition, will make somebody reload the caches, whoever takes the
\* lock first and whatever fails (read, write, clear_and_reload, event_cache_store).
StalenessRemembered ==
    \A p \in Process : cache[p] = "stale" => dirty[p] \/ missed[p]

\* What clear_and_reload cleared is gone from the caches as well, once it returns.
ClearedIsReloaded ==
    \A p \in Process : cache[p] = "cleared" => At(p, {"ccleared"}) # {}

\* Two processes never use the store at the same time, and within a process the
\* caches have one writer or several readers, through all the upgrades and
\* downgrades of read.
CacheExclusion ==
    /\ \A p, q \in Process : p # q => users[p] = {} \/ users[q] = {}
    /\ \A p \in Process :
          /\ \A t, u \in Writers(p) : t = u
          /\ Writers(p) # {} => Readers(p) = {}
          /\ \A t, u \in Upgrader(p) : t = u
          /\ At(p, {"upgrading", "upgraded", "reading", "wdirty", "writing", "cguard",
                    "ccleared", "dropping", "direct"}) = users[p]

\* The upgrade inside read cannot lock up: every operation that has begun ends.
OperationsEnd ==
    \A c \in Callers : pc[c[1]][c[2]] # "idle" ~> pc[c[1]][c[2]] = "idle"
=============================================================================
