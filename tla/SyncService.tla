---------------------------- MODULE SyncService ----------------------------
(***************************************************************************)
(* The sync service: callers start and stop it, a supervisor task runs the *)
(* room list sync and the encryption sync as two child tasks and brings    *)
(* both down when one ends, and in offline mode starts them again.         *)
(*                                                                         *)
(* A sliding sync loop hears a stop only once it has subscribed to the     *)
(* internal channel, which it does when its task is polled first. Its      *)
(* position is locked from the request to the end of the response.         *)
(***************************************************************************)
EXTENDS Integers, Sequences

CONSTANTS
  Users,        \* tasks that call start, stop and expire_sessions
  Calls,        \* which of these they call
  OfflineModes, \* the values of with_offline_mode
  MaxCalls,     \* bound: calls
  MaxErrors     \* bound: loops that end by themselves

ASSUME SyncServiceAssumption ==
  /\ Calls \subseteq {"start", "stop", "expire"}
  /\ OfflineModes \subseteq BOOLEAN
  /\ {MaxCalls, MaxErrors} \subseteq Nat
  /\ "nobody" \notin Users

VARIABLES
  state,        \* State of the service
  inner,        \* who holds the lock of SyncServiceInner, or Nobody
  supervised,   \* inner.supervisor is Some
  user,         \* callers: pc and the call
  sup,          \* the supervisor task: pc, the report it works on, the child it brings down
  chan,         \* the termination reports it has yet to receive
  task,         \* the child tasks: pc, and whether a stop has been received
  room_list,    \* the state machine of the room list: at, from, next, and the list's mode
  session,      \* session of each sliding sync: "none" (no pos), "current", or "old", which it
                \* is since the supervisor heard that another one has expired (ghost)
  permit,       \* who holds the EncryptionSyncPermit
  calls, errors \* counters for the bounds

vars == <<state, inner, supervised, user, sup, chan, task, room_list, session, permit,
          calls, errors>>
service == <<state, inner, supervised, user, calls>>
syncs == <<task, room_list, session, errors>>

Children == {"rl", "enc"}
Nobody == "nobody"
Stopped == {"idle", "terminated", "error"}

\* Ghost: it is stale once children have been spawned after the ones that sent it.
Report(from, error, expired) == [from |-> from, error |-> error, expired |-> expired, stale |-> FALSE]
NoReport == Report("sup", FALSE, FALSE)
NoCall == [pc |-> "idle", call |-> "stop"]
NoTask == [pc |-> "none", stop |-> FALSE]
Alive == sup.pc # "none"
PositionFree(c) == task[c].pc # "syncing"

-----------------------------------------------------------------------------
(* StateMachine of the room list service.                                  *)
Machine(at, from) == [room_list EXCEPT !.at = at, !.from = from, !.next = "Init"]

\* StateMachine::next, which may make the list selective or growing. A Running state may be
\* too old at any time.
NextStatesKeepGrowing ==
  CASE room_list.at = "Init" -> {<<"SettingUp", room_list.mode>>}
    [] room_list.at \in {"SettingUp", "Recovering"} -> {<<"Running", "growing">>}
    [] room_list.at = "Running" -> {<<"Running", room_list.mode>>, <<"Recovering", room_list.mode>>}
    [] room_list.at \in {"Error", "Terminated"} ->
         IF room_list.from = "Running" THEN {<<"Recovering", "selective">>}
         ELSE {<<room_list.from, room_list.mode>>}
NextStates ==
  CASE room_list.at = "Init" -> {<<"SettingUp", room_list.mode>>}
    [] room_list.at \in {"SettingUp", "Recovering"} -> {<<"Running", "growing">>}
    [] room_list.at = "Running" -> {<<"Running", room_list.mode>>, <<"Recovering", "selective">>}
    [] room_list.at \in {"Error", "Terminated"} ->
         IF room_list.from = "Running" THEN {<<"Recovering", "selective">>}
         ELSE {<<room_list.from, room_list.mode>>}

\* RoomListService::expire_sync_session, EncryptionSyncService::expire_sync_session.
ExpireSession(c) ==
  /\ PositionFree(c)
  /\ session' = [session EXCEPT ![c] = "none"]
  /\ room_list' = IF c = "rl" /\ room_list.at = "Terminated"
                  THEN Machine("Error", room_list.from) ELSE room_list

-----------------------------------------------------------------------------
Init ==
  /\ state = "idle"
  /\ inner = Nobody
  /\ supervised = FALSE
  /\ user = [u \in Users |-> NoCall]
  /\ sup \in [pc : {"none"}, report : {NoReport}, child : {"rl"}, offline_mode : OfflineModes]
  /\ chan = <<>>
  /\ task = [c \in Children |-> NoTask]
  /\ room_list = [at |-> "Init", from |-> "Init", next |-> "Init", mode |-> "selective"]
  /\ session = [c \in Children |-> "none"]
  /\ permit = "free"
  /\ calls = 0
  /\ errors = 0

(* The callers.                                                            *)
At(u, pc) == user' = [user EXCEPT ![u].pc = pc]
Return(u) == user' = [user EXCEPT ![u] = NoCall]

Call(u, call) ==
  /\ call \in Calls
  /\ user[u].pc = "idle"
  /\ calls < MaxCalls
  /\ calls' = calls + 1
  /\ user' = [user EXCEPT ![u] = [pc |-> "lock", call |-> call]]
  /\ UNCHANGED <<state, inner, supervised, sup, chan, syncs, permit>>

\* What comes after the service has been stopped: start it, return, or expire the sessions,
\* for which the lock of inner is released.
Goes(u) ==
  CASE user[u].call = "start" -> At(u, "permit") /\ inner' = u
    [] user[u].call = "stop" -> Return(u) /\ inner' = Nobody
    [] user[u].call = "expire" -> At(u, "expire_rl") /\ inner' = Nobody

\* start and stop take the lock of inner and look at the state.
Lock(u) ==
  /\ user[u].pc = "lock"
  /\ inner = Nobody
  /\ CASE user[u].call = "start" /\ state = "running" -> Return(u) /\ UNCHANGED inner
       [] user[u].call = "start" /\ state \in Stopped -> At(u, "permit") /\ inner' = u
       [] user[u].call # "start" /\ state \in Stopped -> Goes(u)
       [] OTHER -> At(u, "shutdown") /\ inner' = u
  /\ UNCHANGED <<state, supervised, calls, sup, chan, syncs, permit>>

\* SyncServiceInner::stop and SyncTaskSupervisor::shutdown. A supervisor that has ended
\* cannot be sent anything, and there may be none.
Shutdown(u) ==
  /\ user[u].pc = "shutdown"
  /\ supervised' = FALSE
  /\ IF supervised /\ Alive
     THEN /\ chan' = Append(chan, Report("sup", FALSE, FALSE))
          /\ At(u, "join")
          /\ UNCHANGED inner
     ELSE Goes(u) /\ UNCHANGED chan
  /\ UNCHANGED <<state, calls, sup, syncs, permit>>

Join(u) ==
  /\ user[u].pc = "join"
  /\ ~Alive
  /\ Goes(u)
  /\ UNCHANGED <<state, supervised, calls, sup, chan, syncs, permit>>

\* SyncTaskSupervisor::new: the permit is taken before the task is spawned.
SpawnSupervisor(u) ==
  /\ user[u].pc = "permit"
  /\ permit = "free"
  /\ permit' = "start"
  /\ supervised' = TRUE
  /\ sup' = [sup EXCEPT !.pc = "spawn"]
  /\ chan' = <<>>
  /\ At(u, "set")
  /\ UNCHANGED <<state, inner, calls, syncs>>

\* SyncServiceInner::start ends, while the supervisor is running.
SetRunning(u) ==
  /\ user[u].pc = "set"
  /\ state' = "running"
  /\ inner' = Nobody
  /\ Return(u)
  /\ UNCHANGED <<supervised, calls, sup, chan, syncs, permit>>

\* expire_sessions after stop: the room list, then, with the lock, the encryption sync.
ExpireRoomList(u) ==
  /\ user[u].pc = "expire_rl"
  /\ ExpireSession("rl")
  /\ At(u, "expire_lock")
  /\ UNCHANGED <<state, inner, supervised, calls, sup, chan, task, errors, permit>>

LockToExpire(u) ==
  /\ user[u].pc = "expire_lock"
  /\ inner = Nobody
  /\ inner' = u
  /\ At(u, "expire_enc")
  /\ UNCHANGED <<state, supervised, calls, sup, chan, syncs, permit>>

ExpireEncryption(u) ==
  /\ user[u].pc = "expire_enc"
  /\ ExpireSession("enc")
  /\ inner' = Nobody
  /\ Return(u)
  /\ UNCHANGED <<state, supervised, calls, sup, chan, task, errors, permit>>

\* The notification client of the same process (retry_decryption) tries to take the permit,
\* holds it while run_fixed_iterations syncs, and gives it back.
Notify ==
  /\ \/ permit = "free" /\ permit' = "nse"
     \/ permit = "nse" /\ permit' = "free"
  /\ UNCHANGED <<service, sup, chan, syncs>>

-----------------------------------------------------------------------------
(* The supervisor task.                                                    *)
SupAt(pc) == sup' = [sup EXCEPT !.pc = pc]
\* It has done with the report.
Done(pc) == sup' = [sup EXCEPT !.pc = pc, !.report = NoReport, !.child = "rl"]

Spawned == [pc |-> "spawned", stop |-> FALSE]

\* spawn_child_tasks: the room list at once, the encryption sync with the permit.
SpawnRoomList ==
  /\ sup.pc = "spawn"
  /\ task' = [task EXCEPT !["rl"] = Spawned]
  /\ chan' = [i \in DOMAIN chan |-> [chan[i] EXCEPT !.stale = @ \/ chan[i].from # "sup"]]
  /\ SupAt("permit")
  /\ UNCHANGED <<service, room_list, session, errors, permit>>

SpawnEncryption ==
  /\ sup.pc = "permit"
  /\ permit \in {"start", "free"}
  /\ permit' = "enc"
  /\ task' = [task EXCEPT !["enc"] = Spawned]
  /\ SupAt("recv")
  /\ UNCHANGED <<service, chan, room_list, session, errors>>

Receive ==
  /\ sup.pc = "recv"
  /\ chan # <<>>
  /\ chan' = Tail(chan)
  /\ sup' = [sup EXCEPT !.pc = "stop", !.child = "rl", !.report = Head(chan)]
  /\ session' = [c \in Children |-> IF Head(chan).expired /\ session[c] = "current" THEN "old"
                                    ELSE session[c]]
  /\ UNCHANGED <<service, task, room_list, errors, permit>>

\* stop_sync for the child that has not reported by itself.
StopSyncForgetsSession(c) ==
  /\ sup.pc = "stop" /\ sup.child = c
  /\ LET told == sup.report.from # c
         hears == task[c].pc \in {"top", "syncing", "skipped"}
     IN /\ task' = IF told /\ hears THEN [task EXCEPT ![c].stop = TRUE] ELSE task
        /\ SupAt("await")
  /\ UNCHANGED <<service, chan, room_list, session, errors, permit>>
StopSync(c) ==
  /\ sup.pc = "stop" /\ sup.child = c
  /\ LET told == sup.report.from # c
         hears == task[c].pc \in {"top", "syncing", "skipped"}
     IN /\ task' = IF told /\ hears THEN [task EXCEPT ![c].stop = TRUE] ELSE task
        /\ SupAt(IF told /\ sup.report.expired THEN "expire" ELSE "await")
  /\ UNCHANGED <<service, chan, room_list, session, errors, permit>>

\* The session of one has expired, so the other's is expired as well.
ExpireSibling(c) ==
  /\ sup.pc = "expire" /\ sup.child = c
  /\ ExpireSession(c)
  /\ SupAt("await")
  /\ UNCHANGED <<service, chan, task, errors, permit>>

AwaitNothing(c) ==
  /\ sup.pc = "await" /\ sup.child = c
  /\ IF c = "rl" THEN sup' = [sup EXCEPT !.pc = "stop", !.child = "enc"] ELSE SupAt("decide")
  /\ UNCHANGED <<service, chan, syncs, permit>>
Await(c) ==
  /\ sup.pc = "await" /\ sup.child = c
  /\ task[c].pc = "none"
  /\ IF c = "rl" THEN sup' = [sup EXCEPT !.pc = "stop", !.child = "enc"] ELSE SupAt("decide")
  /\ UNCHANGED <<service, chan, syncs, permit>>

\* The loop of the supervisor ends with a final state, and its receiver with it.
Ends(final) == state' = final /\ Done("none")

Decide ==
  /\ sup.pc = "decide"
  /\ CASE sup.report.error /\ sup.offline_mode -> state' = "offline" /\ Done("offline")
       [] sup.report.error /\ ~sup.offline_mode -> Ends("error")
       [] ~sup.report.error /\ sup.report.from = "sup" -> Ends("idle")
       [] OTHER -> Ends("terminated")
  /\ UNCHANGED <<inner, supervised, user, calls, chan, syncs, permit>>

\* offline_check and backoff_wait: what the syncs reported is dropped, a caller's report
\* ends the task; both are looked at before the server's answer and the delay.
Waiting == sup.pc \in {"offline", "backoff"}

DropAnyReport ==
  /\ Waiting
  /\ chan # <<>>
  /\ chan' = Tail(chan)
  /\ UNCHANGED <<service, sup, syncs, permit>>
DropReport ==
  /\ Waiting
  /\ chan # <<>> /\ Head(chan).from # "sup"
  /\ chan' = Tail(chan)
  /\ UNCHANGED <<service, sup, syncs, permit>>

Interrupted ==
  /\ Waiting
  /\ chan # <<>> /\ Head(chan).from = "sup"
  /\ chan' = Tail(chan)
  /\ Ends("idle")
  /\ UNCHANGED <<inner, supervised, user, calls, syncs, permit>>

\* The server answers, and then the delay is over.
BackWithReports ==
  /\ Waiting
  /\ IF sup.pc = "offline" THEN state' = "backoff" /\ SupAt("backoff")
     ELSE state' = "running" /\ SupAt("spawn")
  /\ UNCHANGED <<inner, supervised, user, calls, chan, syncs, permit>>
Back ==
  /\ Waiting
  /\ chan = <<>>
  /\ IF sup.pc = "offline" THEN state' = "backoff" /\ SupAt("backoff")
     ELSE state' = "running" /\ SupAt("spawn")
  /\ UNCHANGED <<inner, supervised, user, calls, chan, syncs, permit>>

-----------------------------------------------------------------------------
(* The child tasks: room_list_sync_task, encryption_sync_task.             *)
\* The task is polled first, and its loop subscribes to the internal channel. The stream
\* EncryptionSyncService::sync returns does not keep the permit that it was given.
Subscribe(c) ==
  /\ task[c].pc = "spawned"
  /\ task' = [task EXCEPT ![c].pc = "top"]
  /\ permit' = IF c = "enc" THEN "free" ELSE permit
  /\ UNCHANGED <<service, sup, chan, room_list, session, errors>>

\* An iteration: the room list makes up its next state, the request takes the position.
Request(c) ==
  /\ task[c].pc = "top"
  /\ ~task[c].stop
  /\ task' = [task EXCEPT ![c].pc = "syncing"]
  /\ IF c = "rl"
     THEN \E next \in NextStates : room_list' = [room_list EXCEPT !.next = next[1], !.mode = next[2]]
     ELSE UNCHANGED room_list
  /\ UNCHANGED <<service, sup, chan, session, errors, permit>>

Renewed(c) == [session EXCEPT ![c] = IF session[c] = "none" THEN "current" ELSE session[c]]

\* SyncLoopSkipOverCurrentIteration, which a subscription to a room sends: the request is
\* dropped, or its response handled to the end by itself, and another one follows.
Skip ==
  /\ task["rl"].pc = "syncing"
  /\ ~task["rl"].stop
  /\ task' = [task EXCEPT !["rl"].pc = "skipped"]
  /\ session' \in {session, Renewed("rl")}
  /\ UNCHANGED <<service, sup, chan, room_list, errors, permit>>

AskAgain ==
  /\ task["rl"].pc = "skipped"
  /\ ~task["rl"].stop
  /\ task' = [task EXCEPT !["rl"].pc = "syncing"]
  /\ UNCHANGED <<service, sup, chan, room_list, session, errors, permit>>

Respond(c) ==
  /\ task[c].pc = "syncing"
  /\ ~task[c].stop
  /\ task' = [task EXCEPT ![c].pc = "top"]
  /\ session' = Renewed(c)
  /\ room_list' = IF c = "rl" THEN Machine(room_list.next, "Init") ELSE room_list
  /\ UNCHANGED <<service, sup, chan, errors, permit>>

\* The task sends its report, if there is someone to receive it, and ends.
TaskEnds(c, error, expired) ==
  /\ task' = [task EXCEPT ![c] = NoTask]
  /\ chan' = IF Alive THEN Append(chan, Report(c, error, expired)) ELSE chan
  /\ UNCHANGED permit

\* The request fails, or what follows the response that has renewed the session; an unknown
\* pos ends the session.
Fail(c, expired) ==
  /\ task[c].pc = "syncing"
  /\ ~task[c].stop
  /\ errors < MaxErrors
  /\ errors' = errors + 1
  /\ expired => session[c] # "none"
  /\ session' \in IF expired THEN {[session EXCEPT ![c] = "none"]} ELSE {session, Renewed(c)}
  /\ room_list' = IF c = "rl" THEN Machine("Error", room_list.next) ELSE room_list
  /\ TaskEnds(c, TRUE, expired)
  /\ UNCHANGED <<service, sup>>

\* next_sync_with_lock does not get the cross-process lock.
LockFails ==
  /\ task["enc"].pc = "top"
  /\ ~task["enc"].stop
  /\ errors < MaxErrors
  /\ errors' = errors + 1
  /\ TaskEnds("enc", TRUE, FALSE)
  /\ UNCHANGED <<service, sup, room_list, session>>

\* The loop breaks on what it finds in the internal channel, before it polls the request. A
\* response that is being handled is handled to its end.
LoopEnds(c) ==
  /\ session' \in IF task[c].pc = "syncing" THEN {session, Renewed(c)} ELSE {session}
  /\ IF c = "rl" /\ task[c].pc = "top"
     THEN \E next \in NextStates :
            room_list' = [Machine("Terminated", next[1]) EXCEPT !.mode = next[2]]
     ELSE room_list' = IF c = "rl" THEN Machine("Terminated", room_list.next) ELSE room_list
  /\ TaskEnds(c, FALSE, FALSE)
  /\ UNCHANGED <<service, sup>>

StopHeard(c) ==
  /\ task[c].stop
  /\ LoopEnds(c)
  /\ UNCHANGED errors

\* The receiver has lagged behind the messages to skip an iteration, more than the channel
\* holds. Only the room list is sent any.
Lag ==
  /\ task["rl"].pc \in {"top", "syncing", "skipped"}
  /\ ~task["rl"].stop
  /\ errors < MaxErrors
  /\ errors' = errors + 1
  /\ LoopEnds("rl")

-----------------------------------------------------------------------------
User(u) ==
  \/ Lock(u) \/ Shutdown(u) \/ Join(u) \/ SpawnSupervisor(u) \/ SetRunning(u)
  \/ ExpireRoomList(u) \/ LockToExpire(u) \/ ExpireEncryption(u)

Supervisor ==
  \/ SpawnRoomList \/ SpawnEncryption \/ Receive \/ Decide
  \/ DropReport \/ Interrupted \/ Back
  \/ \E c \in Children : StopSync(c) \/ ExpireSibling(c) \/ Await(c)

Child(c) == Subscribe(c) \/ Request(c) \/ Respond(c) \/ StopHeard(c) \/ (c = "rl" /\ AskAgain)

Next ==
  \/ \E u \in Users : User(u) \/ \E call \in Calls : Call(u, call)
  \/ Supervisor
  \/ \E c \in Children : Child(c) \/ \E expired \in BOOLEAN : Fail(c, expired)
  \/ LockFails \/ Lag \/ Skip \/ Notify

Spec == Init /\ [][Next]_vars

\* Tasks are polled, requests end, and the mutexes are fair queues, so that whoever waits
\* for the lock, the permit or a position gets it although others take it again and again.
FairSpec ==
  /\ Spec
  /\ \A u \in Users : SF_vars(User(u))
  /\ SF_vars(Supervisor)
  /\ \A c \in Children : WF_vars(Child(c))
  /\ WF_vars(permit = "nse" /\ Notify)
-----------------------------------------------------------------------------
\* The states of the room list other than the two that remember where it came from.
Settled == {"Init", "SettingUp", "Recovering", "Running"}

Reports == [from : Children \cup {"sup"}, error : BOOLEAN, expired : BOOLEAN, stale : BOOLEAN]
CallerStates == [pc : {"idle", "lock", "shutdown", "join", "permit", "set", "expire_rl",
                       "expire_lock", "expire_enc"},
                 call : {"start", "stop", "expire"}]
SupervisorStates == [pc : {"none", "spawn", "permit", "recv", "stop", "expire", "await", "decide",
                           "offline", "backoff"},
                     report : Reports, child : Children, offline_mode : BOOLEAN]
TaskStates == [pc : {"none", "spawned", "top", "syncing", "skipped"}, stop : BOOLEAN]
RoomListStates == [at : Settled \cup {"Error", "Terminated"}, from : Settled, next : Settled,
                   mode : {"selective", "growing"}]

TypeOK ==
  /\ state \in Stopped \cup {"running", "offline", "backoff"}
  /\ inner \in Users \cup {Nobody}
  /\ supervised \in BOOLEAN
  /\ user \in [Users -> CallerStates]
  /\ sup \in SupervisorStates
  /\ chan \in Seq(Reports)
  /\ task \in [Children -> TaskStates]
  /\ room_list \in RoomListStates
  /\ session \in [Children -> {"none", "current", "old"}]
  /\ permit \in {"free", "start", "enc", "nse"}
  /\ calls \in 0 .. MaxCalls
  /\ errors \in 0 .. MaxErrors

\* The children are managed as a unit: they are spawned when none is left of those before,
\* there are none without a supervisor, and a service that says it has stopped has stopped,
\* its permit given back (SyncTaskSupervisor, State).
NoOrphans ==
  LET quiet == \A c \in Children : task[c].pc = "none"
      starting == \E u \in Users : user[u].pc = "set"
  IN /\ sup.pc \in {"none", "spawn", "decide", "offline", "backoff"} =>
          quiet /\ permit \in {"free", "nse"} \cup (IF sup.pc = "spawn" THEN {"start"} ELSE {})
     /\ state \in Stopped /\ ~starting => ~Alive

\* A report brings down the children that sent it, and never those that were started
\* after it (offline_check, backoff_wait).
ReportsAreFresh ==
  sup.pc = "stop" /\ sup.report.from # "sup" => ~sup.report.stale

\* When one session has expired, no sync goes on with a session of before: the sibling's
\* position is not written again by a response that was under way (has_expired).
SessionsExpireTogether ==
  sup.pc \in {"none", "spawn"} => \A c \in Children : session[c] # "old"

\* A room list that sets up or recovers asks for few rooms, whatever the failures, stops and
\* expired sessions before it (StateMachine::next).
RecoversWithFewRooms ==
  task["rl"].pc = "syncing" /\ room_list.next \in {"SettingUp", "Recovering"} =>
    room_list.mode = "selective"

\* The supervisor has told a loop to stop that did not listen, and waits for it to end.
Unheard ==
  /\ sup.pc \in {"expire", "await"} /\ sup.report.from # sup.child
  /\ task[sup.child].pc # "none" /\ ~task[sup.child].stop

\* Every call returns, unless a stop was sent to a loop that did not listen: nobody waits for
\* ever for the lock, the permit, a position, the supervisor or its children. Who calls is not
\* idle until the call returns, so that being idle again and again is to return from each
\* call. The callers are alike, so that one stands for all.
CallsEnd ==
  LET u == CHOOSE u \in Users : TRUE
  IN []<>(user[u].pc = "idle" \/ Unheard)

\* "The underlying syncs are properly running in the background."
RunningIsTrue == state = "running" /\ inner = Nobody => Alive

\* "the EncryptionSyncPermit parameter ensures that there's at most one encryption sync
\* running at any time": the notification client does not sync next to the service.
OneEncryptionSync == ~(permit = "nse" /\ task["enc"].pc \in {"top", "syncing"})

\* "Calling this method will ensure that the sync loop stops": a loop the supervisor waits
\* for has been told to stop.
StopIsHeard == ~Unheard
=============================================================================
