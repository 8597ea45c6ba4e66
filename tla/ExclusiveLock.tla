--------------------------- MODULE ExclusiveLock ---------------------------
(***************************************************************************)
(* What client-common/src/cross_process_lock.rs promises its users, with   *)
(* neither leases nor time: one process at a time has guards, and a        *)
(* process that comes back after another one learns that it is dirty.      *)
(* CrossProcessLock implements this when renewals are timely;              *)
(* EventCacheStateLock is built on it.                                     *)
(***************************************************************************)
CONSTANTS Process, Thread, NoProcess

ASSUME ExclusiveLockConstants == NoProcess \notin Process

VARIABLES
    owner,  \* the process that may make guards
    users,  \* the threads of each process that hold a guard
    known,  \* has the process ever obtained the lock?
    missed, \* did another process get the lock since the last guard here?
    dirty   \* is_dirty

lockVars == <<owner, users, known, missed, dirty>>

LockInit ==
    /\ owner = NoProcess
    /\ users = [p \in Process |-> {}]
    /\ known = [p \in Process |-> FALSE]
    /\ missed = [p \in Process |-> FALSE]
    /\ dirty = [p \in Process |-> FALSE]

OthersIdle(p) == \A q \in Process : q # p => users[q] = {}

\* p becomes the only process that may make guards.
Claim(p) ==
    /\ owner # p /\ OthersIdle(p)
    /\ owner' = p
    /\ missed' = [q \in Process |-> missed[q] \/ (q # p /\ known[q])]
    /\ UNCHANGED <<users, known, dirty>>

\* The first guard of a tenure.
Acquire(p, t) ==
    /\ owner = p /\ users[p] = {}
    /\ users' = [users EXCEPT ![p] = {t}]
    /\ known' = [known EXCEPT ![p] = TRUE]
    /\ dirty' = [dirty EXCEPT ![p] = @ \/ missed[p]]
    /\ missed' = [missed EXCEPT ![p] = FALSE]
    /\ UNCHANGED owner

\* Another guard of the same tenure.
Join(p, t) ==
    /\ users[p] # {} /\ t \notin users[p]
    /\ users' = [users EXCEPT ![p] = @ \cup {t}]
    /\ UNCHANGED <<owner, known, missed, dirty>>

Release(p, t) ==
    /\ t \in users[p]
    /\ users' = [users EXCEPT ![p] = @ \ {t}]
    /\ UNCHANGED <<owner, known, missed, dirty>>

\* The user has caught up with what the other processes did.
Clear(p) ==
    /\ users[p] # {}
    /\ dirty' = [dirty EXCEPT ![p] = FALSE]
    /\ UNCHANGED <<owner, users, known, missed>>

\* A process dies and starts again.
Forget(p) ==
    /\ users' = [users EXCEPT ![p] = {}]
    /\ known' = [known EXCEPT ![p] = FALSE]
    /\ missed' = [missed EXCEPT ![p] = FALSE]
    /\ dirty' = [dirty EXCEPT ![p] = FALSE]
    /\ UNCHANGED owner

LockNext ==
    \E p \in Process :
        \/ Claim(p) \/ Clear(p) \/ Forget(p)
        \/ \E t \in Thread : Acquire(p, t) \/ Join(p, t) \/ Release(p, t)

LockSpec == LockInit /\ [][LockNext]_lockVars
=============================================================================
