# A verification project for harana-matrix

harana-matrix is a Matrix client SDK in Rust (crates `client-*`), with shared
protocol crates (`common-*`) and the parts of a homeserver (`server-*`). This
directory holds TLA+ models of those parts of the client whose correctness depends
on interleavings, crashes, lost answers and time, the TLC configurations that check
them, and proofs that TLAPS checks. `PROJECT.json` lists, for each definition, the
lines of the source it stands for; the runs; one mutant per property, which shows
that the property can fail; the hazards the properties are for; and the findings.

## 1. Inventory

Paths are relative to `crates/`.

| part | state | operations | talks to |
|---|---|---|---|
| **Cross-process lock** `client-common/src/cross_process_lock.rs` | a lease row in a shared store (holder, expiration, generation); per process: generation, `is_dirty`, live guards, `locking_attempt`, backoff, renew task | `try_lock_once`, `spin_lock`, dropping a guard, `clear_dirty`, the renew loop | `try_take_leased_lock` of a store; used for the event cache, media and crypto stores |
| **Event cache state lock** `client-matrix/src/event_cache/states/mod.rs` | in-memory caches behind a tokio `RwLock`, an upgrade mutex | `read` (with its upgrade), `write`, `clear_and_reload`, `try_insert_once_with` | the store lock above; sliding sync takes that lock too |
| **Room send queue** `client-matrix/src/send_queue/{mod,upload}.rs` | tables of requests and dependent requests, cached media; in memory `being_sent`, the switches, the notifier; a task per room | `send*`, `redact`, receipts, attachments, `SendHandle::{abort,edit,unwedge,reply,react}`, `set_enabled`, respawning, retry after verification | state store, media store, homeserver |
| **Send queue records** `client-base/src/store/send_queue.rs`, `client-base/src/store/memory_store.rs`, `client-sqlite/src/state_store.rs` | rows, priorities, wedging errors, parent keys | save, update, remove, load, mark ready | the send queue |
| **Linked chunk** `client-common/src/linked_chunk/` | list of chunks and gaps of which a prefix may be in the store only, pending updates; its readers: the tables of the store, `UpdateToVectorDiff`, `OrderTracker` | push, insert, replace, remove, clear, replace with the last chunk, lazy loading | event cache and its stores |
| **Room event cache** `client-matrix/src/event_cache/` | the linked chunk of a room, pagination status, `waited_for_initial_prev_token` | sync, back-pagination, deduplication, the send queue's insertions, shrinking, clearing, ignoring users, retention | store, homeserver, send queue, state lock |
| Crypto store generation `client-crypto/src/machine`, `client-matrix/src/encryption` | generation counter in store and memory | lock, compare, reload | cross-process lock |
| **Sync service** `client-ui/src/sync_service.rs` | state, supervisor task, two child tasks, termination reports, the permit of the encryption sync | start, stop, expire_sessions, offline mode with backoff | room list, encryption sync, notification client |
| **Sliding sync and room list** `client-matrix/src/sliding_sync/`, `client-ui/src/room_list_service/` | `pos` and its lock, the internal channel, the state machine of the room list | the sync loop, stop, expire session, skip | homeserver, store |
| End-to-end encryption `client-crypto/` | sessions, identities, verification flows, key requests | many | store, homeserver |
| Authentication `client-matrix/src/authentication/` | tokens | refresh across tasks and processes | homeserver, cross-process lock |
| Timeline `client-ui/src/timeline/` | presentation of the event cache and the send queue | | |
| State resolution `common-state-res/`, `server-state-res/`, Olm `common-olm/`, parts of a homeserver `server-*` | | | |

What is hard to test in them, and what therefore decides the properties:

* *Lock.* A renewal that is late, or meets a failing store, while guards are alive;
  a release that races a new acquisition; a crash that leaves a lease behind; a
  process that must find out, by comparing generations alone, that another one wrote
  to the store. Right means: guards of one process at a time, an active lease under
  every guard, no foreign tenure missed, no reload without a reason, no call that
  spins for ever.
* *State lock.* A read lock cannot be turned into a write lock in one step; the store
  lock answers "clean" to every guard but the first. Right means: nobody uses caches
  that miss what another process wrote, staleness is never forgotten, no deadlock.
* *Send queue.* The answer of the server may be lost after it acted; the process may
  die between any two writes; edits, reactions, replies and redactions are made
  before their event has an id, while it is being sent, or after it failed; the
  task reads a switch before it waits for a lock. Right means: one request at a time,
  messages in order, causes before effects, nothing lost, truthful answers of
  `abort`, the last edit wins, and a queue that gets going again.
* *Linked chunk and event cache.* One list is kept four times, in memory (a suffix of
  it), in the store, in the vector of a subscriber, and as lengths in the order
  tracker, each fed by the same updates at other moments; the same event comes by
  sync, by pagination and by the send queue; an answer to a pagination meets a list
  that is no longer the one it was asked for. Right means: the four agree, no event is
  there twice, where events are missing there is a gap to fetch them with, and who
  keeps paginating gets to the start, and is told so only then.
* *Sync service.* Two loops that end on their own, one supervisor that has to bring the
  other one down, callers that stop and start in between, a permit shared with the
  notification client, positions that a late response may write back. Right means: the
  loops live and die together, sessions expire together, old reports do not kill new
  loops, and every call returns.

The last section says which parts are planned and which are left out.

## 2. Modules

| module | what it is |
|---|---|
| `CrossProcessLock` | the leased lock: store row, guards, mutex, renew task, time, crashes |
| `ExclusiveLock` | what that lock promises: one owner at a time, and dirt that is remembered |
| `CrossProcessLockProofs` | theorems about `CrossProcessLock` |
| `EventCacheStateLock` | `StateLock`, on top of `ExclusiveLock` |
| `EventCacheStateLockProofs` | theorems about it |
| `DependentRequests` | dependent requests, and what canonicalizing them leaves, in terms of sets |
| `SendQueue` | the queue of one room: sending task, storage, handles, server, crashes |
| `CanonicalDependents` | the loop of `canonicalize_dependent_requests`, checked against `DependentRequests` on the tables that `SendQueue` reaches |
| `SendQueueProofs` | theorems about `SendQueue`: types, one request at a time, causes before effects, receipts, nothing is lost, truthful refusals, aborted uploads |
| `SendQueueHandleProofs` | the order of messages and media, what `abort` and `edit` promise, the loop of `CanonicalDependents` (extends the former) |
| `Folding` | a fold over a list of any length goes element by element: what the proofs about loops rest on |
| `LinkedChunk` | the list and the updates it emits, as operators from a list to a list |
| `ChunkReaders` | what the updates do to the tables of the store, to a subscriber's vector and to the order tracker |
| `RoomEventCache` | the cache of one room: sync, paginations, send queue, maintenance, restarts |
| `LinkedChunkProofs` | what each operation of `LinkedChunk` does to the list and, by its updates, to the tables of the store and to the order tracker |
| `RoomEventCacheProofs` | the store mirrors memory, the order tracker is exact (extends the former) |
| `SyncService` | callers, supervisor, the two sync loops, the room list's state machine, the permit |
| `SyncServiceProofs` | theorems about it |
| `MC...` | instances for TLC |

`EventCacheStateLock` EXTENDS `ExclusiveLock`, not `CrossProcessLock`: the latter is
shown to implement the former (property `ImplementsExclusiveLock`: run `lock_safety`, and
for all constants, with `Timely`, theorem `LeasedLockRefines`),
so the upper layer is checked against the promise and not against the leases.
`RoomEventCache` takes from `EventCacheStateLock` that a handler under the write lock is
one step, and describes what the latter abstracts to "agrees with the store". The
vector and the tracker are, in the same way, specified by a direct definition
(`Mapper`, `Tracked`) which the incremental one has to agree with.

### CrossProcessLock

`lease` is the row: holder, time left, generation. `TryTakeLeasedLock` is the one
transaction of the store, with the strict comparison `expiration < now` (time left
below 0). `pc[p][t]` is `idle`, `locking` (holds `locking_attempt`, asks the store),
`granted` (the store answered), `guarded` (a live guard; `Holders` is the count of
`Weak` pointers). `TryLockOnceHeld` is the early return for a process that has a
guard, `TryLockOnceFinish` all that follows the store's answer: swap of the
generation, `is_dirty`, the new renew task, the guard. `renew` is the loop of the
task: `check` (counts the guards under the mutex), `sleep`, `release` (the lease of
0 ms, mutex kept). `spinning` and `backoff` are `spin_lock`; the backoff doubles in
`u32` with saturation and is shared by the threads, as in the code. `Restart` is a
crash.

Time is relative: `Tick` lets one unit pass for the lease, the sleep and `age`, the
time since the process last wrote a full lease. A tick is not possible while some
process is more than `MaxDelay` late with a renewal: the scheduling latency is a
parameter. `Timely` says `Extend + MaxDelay <= Lease` (50 ms and 500 ms in the
code, so the latency may be up to 450 ms) and that the store does not fail. `stale`
is a ghost: another process had the lock since this one did.

### EventCacheStateLock

`pc` says which of the locks a thread has (table at the top of the module).
`StoreLock` is `store.lock()`: a first guard reports `is_dirty`, a further one always
`Clean`. `cache[p]` abstracts the content of the caches to whether they agree with
the store. `DirectBegin`/`DirectStoreLock` are users of the store lock that do not
go through `StateLock` (`sliding_sync/cache.rs`). Guards drop their fields one after
the other (`DropState`, `DropStore`), as Rust does. `try_insert_once_with` gives the store
guard to the constructor of the cache (`Construct`), so that the insertion that follows
(`inserting`) happens under the state lock alone.

### SendQueue

`queue` and `deps` are the two tables, `media` the cached content of uploads;
they and `log`, what the server has accepted, survive a crash. `beingSent`,
`enabled`, `globally`, `permit` (the permit of `Notify`), `dropping`, and the task's
`pc`, `todo`, `request`, `delivered`, `cancelled` do not. `handles`, `aborted`,
`refused` and `edits` record what the application called and was told.

Every method of `QueueStorage` runs under one lock, so it is one action; a store
error that ends it after some of its writes is a disjunct of the same action. The
exception is `apply_dependent_requests`: while `pc = "apply"` it owns the lock and
takes one step per dependent, since a redaction talks to the server. The loop of
`sending_task` is `LoopStart`, `Apply*`, `CheckEnabled`, `PeekNextToSend`,
`ServerAccepts` and then one of `MarkAsSent`, `SendFailsRecoverably`,
`SendFailsForGood`, `UploadCancelled`. `ServerAccepts` and what the client learns are
two steps, so an answer can be lost. Contents are numbers (`body`), which say which
edit they come from. A handle may be aborted again and again; `aborted` has what was once
answered with true, `refused` what was answered with false before that. Transaction ids
and row numbers come from one counter, so ids also tell what was submitted first; the code's ids are random and unique.

The server is external: a transaction id it has seen before does not make a second
event. Receipts are the exception, they have no transaction id.

`DependentRequests!Canonical` says what `canonicalize_dependent_requests` keeps of
each event's dependents: the first redaction alone, or else the last edit and all
others. The loop that does it, which rewrites lists in place, is
`CanonicalDependents!CanonicalizeStep`; `KeepsTheCanonical` compares the two.

### LinkedChunk and ChunkReaders

A linked chunk is a record: `chunks` (what is loaded; a chunk has an identifier and is a
gap with a token, or up to `Cap` items), `lazy` (the identifier of the chunk before the
first loaded one), `gen` (the last identifier given out) and `log`, for each reader the
updates it has not taken. The operators have the names of the methods. Splitting a
chunk emits the same detach, push and reattach updates as the code.

`Apply` replays updates on the joined tables of the store; an update that violates a
key, or names a chunk that is not there, makes the result `Refused`. `MapUpdates` is
`UpdateToVectorDiff` with the diffs already applied: what it knows is the length of each
chunk, and between `StartReattachItems` and `EndReattachItems` pushes change the lengths
but not the vector. `TrackUpdates` is the same without the vector.

### RoomEventCache

Events are numbers in the order of the server, which knows `1..head`; the client has
been sent those up to `pos`. A token `k` stands for the events before `k`, so whether
events are missing can be said. `Sync` brings what is new, at most `Limit` events, limited
if there are more; `Resync` is the first response of a new session. `cache` is the
linked chunk, the tables, the vector and the tracked lengths. A pagination (`pager`)
is `start` (the status must be idle), `load` (from the store), `wait` (for a first
token), `network`, `answered`, `finish` (the status is set, after the lock was given
up). The wait for the first token may end in a token or in a timeout. `panicked` says that an `expect` of the code
would have failed; `"remove"` ends in `StoreMirrorsMemory`, `"gap"` in `NeverPanics`.

Ghosts name what the properties excuse, and why: `displaced`, own events that the send
queue put at the end and that the server has elsewhere; `cutoff`, events before it have
been purged by retention; `misled`, the set of ways in which the answers of the server have
got the cache into a state where it can be wrong about what it has: `"stale"`, an answer to
a request without a token was inserted after a sync had gone on; `"panic"`, a panic lost a
gap; `"crossed"`, the gaps of the room are not in the order of their tokens; `"known"`, a gap was
dropped because the events of its page were known, and its end led further.

### SyncService

`user` are tasks that call `start`, `stop` and `expire_sessions`, which serialize on the
lock of `SyncServiceInner` (`inner`); `sup` is the supervisor: `spawn`, `permit`
(it waits for the permit), `recv`, `stop`, `expire`, `await` (one child after the other),
`decide`, `offline` and `backoff`. A child task is `spawned` (not polled yet, so it does not hear a stop), `top`,
`syncing` (has the lock of its position) or `skipped`. It ends with an error (`Fail`, `LockFails`), at a
stop (`StopHeard`), or without an error because its receiver of the internal channel has lagged (`Lag`). `chan` holds
the termination reports. `room_list` is `StateMachine` with the two states that remember another one, and
the mode of its list; `session` says whether a loop has a `pos`, and, as a ghost, whether it is
one of before an expiry. `permit` is shared with the notification client (`Notify`). The encryption
sync has it from its spawning to the first poll of its task (`Subscribe`): the stream that
`EncryptionSyncService::sync` returns does not capture the guard it was given.

## 3. Runs

| run | shows |
|---|---|
| `lock_safety` | `TypeOK`, `MutualExclusion`, `ActiveWhileUsed`, `DirtyDetected`, `DirtyIsJustified`, `ReleaseExcludesAcquisition`, `RenewalKeepsGeneration`, the inductive `LockInv`, and `ImplementsExclusiveLock`: with renewals as late as the lease allows, and crashes |
| `lock_liveness` | `SpinLockEnds`, `LeaseGivenUp`, also when the store fails |
| `statelock` | `CacheExclusion`, `StalenessRemembered` with all four kinds of users, failing stores and a restart; `OperationsEnd`: the upgrade inside `read` does not deadlock |
| `queue_safety` | `TypeOK`, `OneAtATime`, `SentInOrder`, `NothingLost`, `ReceiptsMonotone` with messages, receipts, attachments, aborts, retries, lost answers, crashes and both switches; `AbortedUploadSendsNothing`: aborted at whichever stage, an attachment with a thumbnail leaves nothing that could be uploaded |
| `queue_causality` | `ParentFirst`, the inductive `CausalInv`, and `NothingLost` again, with redactions, reactions, replies and edits of an attachment with a thumbnail, while the store fails or the process stops between two writes |
| `queue_handles` | `AbortHolds`, `RefusedWasSent` as long as no answer is lost; `EditsArriveUndisturbed`; `KeepsTheCanonical`; `QueueDrains`, `ReadyApplied` with sends that fail, for now or for good |
| `cache_safety` | `StoreMirrorsMemory`, `OrderTrackerIsExact`, `SubscriberSeesMemory`, and, as far as `misled` allows, `NoSilentHole`, with every action of `RoomEventCache` |
| `cache_pagination` | `PaginationReachesStart`, `ReachedStartIsTrue` (while `misled` is empty) with two callers that paginate against each other, syncs, and one disturbance; pages are shorter than what a sync brings |
| `sync` | `NoOrphans`, `ReportsAreFresh`, `SessionsExpireTogether`, `RecoversWithFewRooms`, `CallsEnd` with two callers, with and without offline mode |
| `queue_upload` | ends in a violation of `AbortedUploadIsGone`: aborted between thumbnail and file, the dependent upload of the file is not removed; it is promoted later, and wedged for want of its content |
| `cache_panic` | ends in a violation of `NeverPanics`: an empty answer to a pagination makes the cache put a gap at the position of a gap |
| `sync_stop` | ends in a violation of `StopIsHeard`: a loop that has not been polled yet does not hear the stop, and the supervisor waits for it for ever |

The last three state what a comment, an assertion or a doc of the repository says and show, by a
behaviour of the model, that the code does something else. PROJECT.json quotes the text
under `findings`.

### Bounds

* Lock: two processes with two threads each, so that a process has a second guard
  while the other competes; a lease of 2 with a renewal every 1 and a delay of 1 is
  the limit of `Timely`, where an off-by-one shows (the mutant of `MutualExclusion`
  is one). `MaxGeneration = 3` lets the lease go to the other process and back; no
  new call starts after that. With one thread per process for liveness. Processes
  and threads are symmetric in the safety runs.
* State lock: two threads of the application, one of the notification extension, one
  restart. A third thread adds no new combination of the three locks: one upgrades, one
  writes; the extension is there to make the lock dirty.
* Send queue: `MaxTxn` bounds the ids the application draws (an attachment with a
  thumbnail takes three), `MaxFailures` what goes wrong. Each run has the calls and
  failures that its question is about, because the product of all of them is beyond
  TLC; the theorems have no such bound. Two failures are a failed send and a failed
  retry, or a lost answer and a crash. Deadlock is not checked for the queue: a room
  without anything to send rests. `queue_handles` has four ids, so up to three dependents
  of one event.
* Event cache: a capacity of 2 and four events, so a list has up to two full chunks
  of events, gaps before and between them, and chunks that split when something is
  inserted. Limits of 2 let a sync and a page overlap in part and in full. One of the
  events is the user's own and may come three ways; one is by a user who is ignored, so
  pages may be empty. One disturbance (`MaxDisturb`) per behaviour: the model lets it
  happen at every moment, between any two steps of a pagination. The run with two
  callers has three events, syncs of up to two and pages of one, so that a page may be known in full
  while its end leads further. Beyond the runs, `NoSilentHole` and `ReachedStartIsTrue` were
  simulated with six events, four disturbances and two callers, with pages of one and of two.
  Deadlock is not checked, since the events of the server are bounded.
* Sync service: three calls are start, stop and start again, or two callers who stop and
  expire at once; one error is enough for the supervisor to bring the sibling down and
  to go offline or to stop.

### Fairness

* `CrossProcessLock!Fairness`: threads inside a call of the lock go on and so does
  the task (the runtime runs them), time passes, and a waiter of the tokio mutex
  `locking_attempt`, which is FIFO, gets it (strong fairness). Nobody has to drop
  a guard, so `LeaseGivenUp` is conditional on that.
* `EventCacheStateLock!Fairness`: threads finish their operations; tokio's `Mutex` and
  `RwLock` serve waiters in order, hence strong fairness.
* `SendQueue!FairSpec`: the task runs and the server acts on what it gets. Of the
  application it assumes what the docs of `send_queue/mod.rs` ask for: respawning at
  the start, enabling a queue that disabled itself, retrying what is wedged (strong
  fairness, because the store's lock, which is FIFO, is only free in between). The
  runs whose `Ops` lack "enable" or "unwedge" are without the respective assumption.
  Failures are never fair.
* `RoomEventCache!FairSpec`: paginations that have begun go on, and some caller always
  calls again; that is the premise of `PaginationReachesStart`, "who keeps paginating". Sync and
  disturbances are not fair. The weak fairness of a pagination is written out in the
  form `[]<>~Ready \/ []<><<Paginate>>`, because TLC evaluates the ENABLED of such an
  action too slowly; `Ready` says when `Paginate` is enabled.
* `SyncService!FairSpec`: the tasks are polled and requests end; the callers and the
  supervisor wait for tokio mutexes, which are FIFO, hence strong fairness; the
  notification client gives the permit back. Nobody has to call anything.

## 4. Where the properties stop to hold

Several properties hold under conditions that the passing runs respect. Outside of
them the model, like the code, does something a doc or a comment does not say. Each
line can be seen by giving the constants named here to the cfg of the module and
checking the property alone.

Lock, with the constants of `lock_safety` except as said:

* `AcquisitionReportsDirt`: a second guard of a dirty lock is reported clean
  (`cross_process_lock.rs:390-401`), although the docs of `CrossProcessLockState`
  (615-619) say that the lock is reported as dirty until `clear_dirty`.
* `ActiveWhileUsed` with `StoreErrors = TRUE`: one failed renewal ends the renew task
  for good (513-518), and the lease runs out under a live guard, against "it remains
  active as long as there's at least one user in a given process" (20-22).
* `RenewalKeepsGeneration` with `MaxDelay = 9`, `Lease = 3`: a renewal that late may
  find that another process had the lease and let it go; it then gets a new generation, which
  it ignores, against "It's impossible that the generation can be different" (494).

State lock:

* `NoStaleUse` with `Ops = {"read", "write"}`: a reader who finds the lock dirty gives up
  its read lock and waits for the write lock with the store guard alive
  (`states/mod.rs:174`); a writer slips in between, is told "clean" because its guard is
  a further one, and uses caches that miss what another process wrote, against "it
  doesn't conflict with the `write` method" (150-151) and "the state is reloaded
  automatically" (203-204).
* `NoStaleUse` with `Ops = {"write", "direct"}`: while sliding sync has a guard of the
  dirty store lock, which it neither reloads for nor clears, a writer is told "clean".
* `NoStaleUse` with `Ops = {"write"}`, `StoreFails = TRUE`: when the reload fails, the
  next writer may find a guard alive and is told "clean".
* `ClearedIsReloaded` with `Ops = {"write", "clear"}`, `StoreFails = TRUE`: when the
  reload after `clear_all_events` fails, nothing remembers that the caches are behind.

Send queue (`Failures` is empty unless given; `MaxTxn` 3 and `MaxFailures` 2 are
enough):

| property | `Ops` | `Failures` | what happens |
|---|---|---|---|
| `AbortHolds` | send, abort | lost | aborted while being sent, and the answer is lost: the redaction is applied to the queue only, the event stays on the server (`mod.rs:2830`) |
| `RefusedWasSent` | send, reply, abort | | a reply that waits for its parent cannot be found by `cancel_event`; `abort` answers false, and the reply is sent later (2049) |
| `EditsArrive` | send, edit, enable | recoverable | an edit made while the event is being sent waits as a dependent; the send fails, a second edit changes the queued event in place, and the older one is applied over it when the event was sent (2779), so that the content of a call that said "Returns true if the event to be sent was replaced" (3460-3461) is never sent |
| `NothingLost` | thumbnail, abort | store | an abort that fails at the removal of the cached files answers with an error, and yet the requests are gone (`upload.rs:790`) |
| `EventsInOrder` | send, reply | | a reply is queued when its parent was sent, behind later messages (2917) |
| `SentInOrder` | send, media (`MaxTxn` 4) | store | an error of `apply_dependent_requests` is logged and the next message overtakes the media event (972) |
| `DisabledSendsNothing` | send, disable | | `enabled` is read before the store's lock is awaited; one more request starts (980-987) |
| `QueueDrains` (fair) | send, unwedge | unrecoverable | `unwedge` wakes a task that stays disabled until somebody enables it (1308) |
| `RedactionApplied` (fair) | send, abort, enable | recoverable | a redaction that failed is not tried again until something wakes the task (2827) |
| `RedactionApplied` (fair) | send, abort | crash | rooms that have only dependents left are not respawned (240) |

Event cache, with the constants of `cache_safety` except as said:

* `HitStartIsTrue`: a pagination finds the start and gives the lock up before it sets the
  status (`caches/pagination.rs:162`); a limited sync that comes in between has put a gap
  and set the status to idle, which is then overwritten: "hit" although there is a gap,
  against the docs of `PaginationStatus::Idle` in `caches/pagination.rs` (399-400).
* `InServerOrder`: the event of the send queue is put at the end even if the sync has brought later
  ones (`caches/room/mod.rs:709`), and an answer to a request without a token that arrives after a sync is put
  before what the sync brought. `NoSilentHole` excuses both (`displaced`, `misled`).
* `NoSilentHole` without its condition on `misled`. With six events, `MaxDisturb = 4` and two
  callers (`Own = {3, 5}`, `Muted = {2, 4}`; simulation finds it): a lag and a new session can
  leave two gaps whose tokens are not in the order of the list, the older gap leading to
  events that the newer one also leads to (`"crossed"`). Filling the older gap takes an event out of its
  place as a duplicate, and puts it before the gap's own place; where it was, two events
  that do not follow each other are neighbours, without a gap. A stale answer and the
  panic of `cache_panic` make holes as well.
* `ReachedStartIsTrue` without its condition, with the constants of `cache_pagination`: a page whose
  events are all known makes the gap go although its end token leads further
  (`caches/room/pagination.rs:391-396`, `"known"`); the room has no gap then, the cache says that its start was
  reached, and what is before the known events is not fetched. It takes a page shorter than what a sync
  brought, which callers may well have: a room subscription asks for 20 events, and pages are of
  any length.

Sync service, with the constants of `sync`:

* `RunningIsTrue`: `start` sets `Running` after it has spawned the supervisor
  (`sync_service.rs:627`), which may have failed already; the service then says that the
  syncs run, and they do not.
* `OneEncryptionSync`: the permit is dropped at the first poll of the encryption sync's task, since
  the stream does not capture it (`encryption_sync_service.rs:269-309`), so the notification client
  gets it and syncs next to the service, against "the `EncryptionSyncPermit` parameter ensures
  that there's at most one encryption sync running at any time" (265-267).
* `SessionsExpireTogether` is about the report that the supervisor received. If both
  loops end on their own, and the report that says "expired" is the second one, it
  is dropped and the first loop keeps its session.
* `expire_sync_session` is called from `expire_sessions` without waiting for the loops,
  although its docs (`room_list_service/mod.rs:387`, `sliding_sync/mod.rs:926`) ask for a
  loop that has stopped; the position's lock is what makes it safe.

## 5. Proofs

All for arbitrary values of the constants, so for any number of processes, threads,
requests and failures, and any durations.

`CrossProcessLockProofs`, from `LockConstants`:

* `TypeCorrect`, `ReleaseIsExclusive` without further assumptions.
* With `Timely`: `LockInvariant` (`Spec => []LockInv`), and from it
  `LockIsExclusive`, `LockStaysActive`, `DirtIsDetected`, `DirtIsJustified`,
  `RenewalIsTransparent`, and the refinement `LeasedLockRefines`.

`MutualExclusion` is not inductive: it follows from the lease, which only keeps the
others out while it has not run out. `LockInv` says why: `AttemptInv` (who has the
mutex; a release excludes acquisitions), `GenerationInv` (generations grow; the row
that is not there has none), `TenureInv` (a process with a guard, or about to make
one, is the holder; the lease has at least `Lease - age` left, and `age` is at most
the deadline of its renewal) and `DirtInv` (a process is stale exactly when the row's
generation or its flag tells). `LockStep` has one step per action. Where `Timely`
enters is `Tick`: the deadline is at most `Extend + MaxDelay <= Lease`, so the time
left does not get below 0. For the refinement the exclusive lock's owner, its guards and
its dirt are read off the row, the threads and the generations (definitions at the end of
`CrossProcessLock`); `LockInv` holds before and after each step, every acquisition is a
claim or one more guard, and the store's answers, ticks, renewals and the release of a
lease that nobody uses are stutters.

`EventCacheStateLockProofs`, from the constants' assumptions alone: `TypeCorrect`,
`StateLockInvariant`, `CachesAreExclusive`, `StalenessIsRemembered`, for all mixtures of
the four operations, failing stores and restarts. `StateLockInv` gives each label the
locks its thread has (`LabelInv`), and says that guards are the owner's and that whoever
knew the lock and lost it will find out (`OwnerInv`), without which `StalenessRemembered`
is not kept by `Claim`.

`SyncServiceProofs`, from the constants' assumptions alone: `TypeCorrect`,
`SyncServiceInvariant` and, read off it, `ChildrenAreAUnit`, `ReportsAreOfThisRun`,
`SessionsEndTogether` and `FewRoomsFirst`. `NoOrphans` alone says nothing of callers;
`InnerInv` (the lock of `inner` and the program counters of the callers) and
`SupervisionInv` (whoever is about to spawn a supervisor finds none) tell that there is
one supervisor, `ChildInv` at which of its steps each child may live, and that the permit is
the encryption sync's exactly until it is polled first. `ChannelInv` says that
a report in the channel is of a child that has ended and not been spawned again, which is why the channel is empty when children are
spawned; `ExpiryInv` that an old session is one the supervisor has yet to expire.

`SendQueueProofs`, from `SendQueueConstants`, no assumption about failures or calls:

* `TypeCorrect`;
* `OneRequestAtATime`, from `OneInv`, which adds that an upload that is cancelled was
  given up by `being_sent` before the task finds out;
* `CausesAreKept` and `CausesComeFirst`: effects reach the server after their causes.

`ParentFirst` speaks of the log; the invariant `CausalInv` carries it back to where an
event's id comes from: ids are not reused, and the targets of edits, reactions,
replies and redactions are events (`TxnInv`); a parent key, a request about another
event, and a delivered request mean that the server has the event (`KeyInv`). Most
actions only remove rows or change fields the invariant does not mention; the lemma
`CausalFrame` does them all at once, from "every row is as before in what matters",
and `Kept` and `KeptFrom` give that for each operation on the tables.

The other theorems about `SendQueue`, in this module and in `SendQueueHandleProofs`:

| theorem | assumes | why the code needs it |
|---|---|---|
| `ReceiptsAreMonotone` | | |
| `QueueInvariant` | | |
| `NothingIsLost` | `WholeAborts`: no aborts, or no store errors | `abort_upload` makes several writes; the error of a later one is returned although the requests are gone |
| `RefusalsAreTrue` | `WholeAborts`, no "reply" | `abort` does not look for a reply among the dependents |
| `AbortedUploadsSendNothing` | | |
| `MessagesAreSentInOrder` | `StoreWorks`: no store errors | a follow-up of an upload that cannot be stored lets the next message go first |
| `AbortsHold` | `AnswersArrive`: no lost answers, crashes or store errors | the event is on the server and still in the queue, where `abort` removes it |
| `EditsCount` | (`EditsArriveUndisturbed` is about behaviours without failures) | a second edit after a failed send is overwritten by the first |

Section 4 has the behaviours that show the conditions to be needed. The theorems hold
for all `Ops` and `Failures` beyond them: lost answers, crashes and wedging are in all but
the last two, failed and repeated sends in all but the last.

* `ReceiptInv`: what is queued is newer than what the server has, and the receipt
  that is being sent is between the two. Receipts go first, the older before the newer,
  and one that is being sent is not superseded but followed.
* `QueueInv` is what the others rest on. `NamesInv` (the three ids of an
  attachment are drawn in one go and name nothing else; handles are unique; what depends
  on an event was made with a handle of it; who redacts an event has aborted it) and `BusyInv` (`being_sent` names a queued request). `LostStep` goes
  through all actions with two facts about a step: what leaves the store was sent,
  was aborted or was unknown to the application, and nothing is left that waits for it
  (`LeavesSafely`); what is new comes with what it waits for (`ArrivesSafely`).
* `AbortedUploadsSendNothing`: `CachedInv` says that the content of a file is no longer cached when the
  event of its attachment is in the queue, and an abort leaves of an attachment at most
  the upload of a file, without its content (`Sterile`); the same then holds of every later
  step, because uploads are only made together with their ids and content only with the uploads.
* `SentInOrder` is about the log. `OrderInv` carries it back: the request on its way, a
  media whose upload was sent, and what the server has are each first in line among
  the messages not yet sent (`RequestFirst`, `ReadyFirst`, `SentFirst`), and the rows'
  priorities agree with that (`RowOrder`). It takes `ReadyInv`: an upload that was sent is
  followed up before the next request is taken, also by the process after a crash.
* `AbortInv`: a request that the server has and the queue too is the one being sent, and
  its answer is there (`RowInv`); what waits was not aborted (`DepInv`); the server has
  no event that still waits (`LogInv`); what was aborted and is there nonetheless has one
  redaction, and is on the server only if that is ready (`RedactInv`).
* `EditInv`: the content of every accepted edit, or of a later one, is carried by something
  (`CarriedInv`): the server's log, the event in the queue or waiting for its uploads, or
  an edit of its own. Canonicalization drops edits, so it must be shown to keep the last:
  that there is a last one is lemma `Greatest`, a bounded set of numbers has a
  greatest one, which follows from the library's `WFMin` without induction over
  an operator.

`Folding` makes loops accessible to the prover. A fold is defined by a function on the
subsets of a domain, which is found by choice; `FoldRuns` shows, for any step and any
length, that its values are those of the loop, `FoldStays` that what each iteration keeps
holds at the end. Induction over the iterations is `NatInd`, stated for a set of numbers
instead of a predicate, from the library's `WFMin`. With it:

* `LoopIsCanonical` (`SendQueueHandleProofs`): `KeepsTheCanonical`. The loop of
  `canonicalize_dependent_requests` has, after each of its iterations, the canonical
  dependents of what it has seen so far.
* `LinkedChunkProofs`: `PushIs` (the recursion of `push_items`), `RemoveItemIs`,
  `ReplaceGapIs`, `NiceWellFormed`; and, in `RoomEventCacheProofs`, the removal of any set
  of events in descending order, from memory and from the store.

`RoomEventCacheProofs`, from the constants' assumptions alone, so for every capacity, limit,
page length, number of callers, events and disturbances, and every set of `Ops`:

* `CacheRests`: the inductive invariant `IInv`, whose core is that the cache is at
  rest (`AtRest`) between two operations;
* `MirrorsMemory`: `StoreMirrorsMemory`, read off it;
* `TrackerIsExact`: `OrderTrackerIsExact`, read off it;
* `NextChunkFits`: lazy loading always gets a chunk that fits before the first one, so the
  branch that clears the room for a malformed store is never taken.

`StoreMirrorsMemory` says that memory is a suffix of what the store holds. That is not enough to
show that the next operation keeps it: an operation takes positions from the store
(`filter_duplicate_events`) and uses them in memory, and the store may be behind. `Nice`
gives the rows' order explicitly (a list of identifiers with links both ways, no
identifier and no event twice, no chunk too full), `Mirrored` relates it to memory once
the waiting updates are applied. `AtRest` adds what may be waiting between two operations:
the first chunk of a new room (`Fresh`), or else only removals of gaps and
replacements of an event by itself (`Lagging`), which leave all positions as
they are; and if something waits there is a gap in memory, so lazy loading does not
come first. The removals are those of a panic: `NeverPanics` does not hold, and the theorem
covers the behaviours after such a panic as well. The argument for one operation: each
update of the linked chunk keeps the rows `Nice` (`InsertNice`, `DeleteNice`, `AppendNice`, `DetachNice`,
`RemoveNice`), so each of its operations keeps `Mirrored`; `Commutes` lets a removal that only the
store sees overtake what waits for it; the duplicates are all found (`FilterIs`) and all
removed (`RemoveAllIs`), so what is pushed afterwards is unknown to the store, which would
refuse it otherwise; `ConcludeRests` does that for an answer that meets a cache other than the one
it was asked for.

The order tracker is the second reader that the invariant follows. `Follows` says that its mapper has the
lengths of the rows in their order; each update of the linked chunk keeps that (`Told`), also between
the two marks around items that are attached again, because the tracker looks at lengths only.
Two operations talk to it out of turn. Lazy loading takes back what it has just told it, which is right
since the tracker counts unloaded chunks as well. `remove_events` tells it of an event that only the store had
as soon as it is removed, ahead of the updates that wait for the tracker. `Tracks` therefore says of those
what `Lagging` says of the store's: they only take out gaps and replace events by themselves, so a removal
in another chunk may overtake them (`StoreTracks`). Inside an operation the tracker may lag by more
(`Stable`); that no operation which overtakes comes then, and that `updates_as_vector_diffs`
brings the cache to rest before the next one (`DiffsRest`), is part of the proof. The panic of
`push_backwards_pagination_events` needs its own argument: it skips `updates_as_vector_diffs`, but only
comes with an answer that brings no events, so with nothing removed before it.

The inductive invariants of the queue, the state lock, the sync service and the event cache were
given to TLC, by exhaustive search or by simulation on the constants of the runs, before they
were proved; `LockInv` and `CausalInv` are properties of runs.

Only model-checked: the liveness properties (fairness and ENABLED are out of the prover's
reach); `SubscriberSeesMemory`, which also holds in simulations of larger instances, and whose proof would
have to follow the updates through the vector of `MapUpdates` as the one above follows them through its
lengths, with the intermediate states in which items are detached from the list and not from the vector;
`NoSilentHole` and
`ReachedStartIsTrue`, under their conditions on `misled`.

## 6. What the models leave out

* Lock: the configuration `SingleProcess`, which never touches the store. A task that
  is replaced is aborted at once in the model, as `abort()` at its next await.
* State lock: what the caches contain. `reload` is one step, under the write lock.
* Send queue: galleries, which are attachments with more uploads; the copy of a sent
  event that is put into the event cache (an error there is only logged); update and progress
  channels; the media cache beyond whether the content is there; server-side limits;
  the wedging error and its text, except that some errors are retried after
  verification. Receipts of several threads are one key. `room.state() != Joined`
  returns before anything changes. The two retries inside one HTTP request belong
  to the server's step. A room that cannot be upgraded although the client is not
  shutting down (`room.get()` in `send_queue/mod.rs:1009-1015`: the room was forgotten, or the client
  is about to go): the task goes round with `being_sent` set, takes the same request again
  and logs an error each time, until `is_dropping` is set or the room is back; nothing is sent meanwhile.
  `OneAtATime` is not about that state.
* Linked chunk: iterators and the wakers of the stream of updates; a reader that never
  takes its updates, which makes the log grow.
* Event cache: threads, pinned and focused caches, forward pagination; redactions,
  receipts and events replaced after decryption, which change an event in place and
  not the list; a store that fails, after which memory is ahead of it until the next reload. That
  a sync position is saved before the events it stands for would need a composition
  with sliding sync.
* Sync service and sliding sync: how long a backoff is, sticky parameters, ranges of
  lists, subscriptions, what responses contain beyond whether the session lives.
* Everything marked `not_modelled` in PROJECT.json: state resolution and the ratchets
  are pure algorithms without concurrency, HTTP clients are wrappers, the homeserver
  crates are the other end of the protocol.

## 7. Plan

Done: the lock and its abstract specification, the state lock, the send queue, the
linked chunk with its readers, the event cache of a room, the sync service, the proofs
above. Next, in this order:

1. Proofs: `SubscriberSeesMemory`, with the vector beside the lengths in the lemmas about `MapUpdate`.
   Liveness stays with TLC.
2. Token refresh across tasks and processes (`authentication/oauth/cross_process.rs`),
   over `ExclusiveLock` as `EventCacheStateLock` is.
3. `CryptoStoreGeneration`: the counter under the cross-process lock.
4. Sync position and event cache composed: a crash between the two writes.
5. Galleries in `SendQueue` (`finish` of several uploads); verification flows.
