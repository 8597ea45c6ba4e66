-------------------------- MODULE SyncServiceProofs --------------------------
(***************************************************************************)
(* Theorems about SyncService, for any callers and any number of calls and *)
(* of loops that fail, with and without offline mode.                      *)
(***************************************************************************)
EXTENDS SyncService, SequenceTheorems, TLAPS

\* The callers that have the lock of inner.
Holding == {"shutdown", "join", "permit", "set", "expire_enc"}

InnerInv == \A u \in Users : inner = u <=> user[u].pc \in Holding

\* A caller that is about to spawn a supervisor finds none; a supervisor that has been taken out
\* of inner is one that somebody waits for; and one that runs while the service says it has
\* stopped is one whose start has not returned.
SupervisionInv ==
  /\ \A u \in Users : user[u].pc = "permit" => ~Alive
  /\ Alive /\ ~supervised => \E u \in Users : user[u].pc = "join"
  /\ Alive /\ state \in Stopped => \E u \in Users : user[u].pc = "set"

\* While which steps of the supervisor each child may live, and who has the permit then: the
\* encryption sync has it until it is polled first.
ChildInv ==
  /\ \A c \in Children : task[c].stop => task[c].pc \in {"top", "syncing", "skipped"}
  /\ task["rl"].pc # "none" =>
       \/ sup.pc \in {"permit", "recv"}
       \/ sup.pc \in {"stop", "expire", "await"} /\ sup.child = "rl"
  /\ task["enc"].pc # "none" => sup.pc \in {"recv", "stop", "expire", "await"}
  /\ permit = "enc" <=> task["enc"].pc = "spawned"
  /\ permit = "start" => sup.pc \in {"spawn", "permit"}

\* A report that waits in the channel is one of a task that is gone, and not of one before the
\* last spawn; if it says that the session has expired, then there is no session.
InOrder(report) ==
  /\ ~report.stale
  /\ \A c \in Children : report.from = c =>
       /\ task[c].pc = "none"
       /\ sup.pc # "spawn" /\ (c = "enc" => sup.pc # "permit")
       /\ report.expired => session[c] = "none"

Queued == {chan[i] : i \in 1 .. Len(chan)}
ChannelInv == ~sup.report.stale /\ \A report \in Queued : InOrder(report)

\* An old session is one that the supervisor has yet to expire.
ExpiryInv ==
  \A c \in Children : session[c] = "old" =>
    /\ sup.report.expired /\ sup.report.from # c
    /\ \/ sup.child = c /\ sup.pc \in {"stop", "expire"}
       \/ c = "enc" /\ sup.child = "rl" /\ sup.pc \in {"stop", "expire", "await"}

\* The states whose requests are for few rooms, and those that lead back to them.
Few == {"Init", "SettingUp", "Recovering"}
FewRoomsInv ==
  /\ room_list.at = "Init" => room_list.mode = "selective"
  /\ room_list.at \in {"Error", "Terminated"} /\ room_list.from \in Few =>
       room_list.mode = "selective"
  /\ /\ task["rl"].pc \in {"syncing", "skipped"}
     /\ room_list.next \in Few \/ room_list.at \in {"Error", "Terminated"}
     => room_list.mode = "selective"

-----------------------------------------------------------------------------
\* One caller moves, the others stay where they are.
Moves(u, label) == \A v \in Users : user'[v].pc = IF v = u THEN label ELSE user[v].pc

LEMMA AtMoves ==
  ASSUME user \in [Users -> CallerStates], NEW u \in Users, NEW label, At(u, label),
         label \in {"permit", "shutdown", "join", "set", "expire_rl", "expire_lock", "expire_enc"}
  PROVE  user' \in [Users -> CallerStates] /\ Moves(u, label)
BY DEF CallerStates, At, Moves

LEMMA ReturnMoves ==
  ASSUME user \in [Users -> CallerStates], NEW u \in Users, Return(u)
  PROVE  user' \in [Users -> CallerStates] /\ Moves(u, "idle")
BY DEF CallerStates, Return, NoCall, Moves

\* After the service was stopped: start goes on with the lock, the other calls
\* release it.
LEMMA GoesMoves ==
  ASSUME user \in [Users -> CallerStates], NEW u \in Users, Goes(u)
  PROVE  /\ user' \in [Users -> CallerStates]
         /\ \/ Moves(u, "permit") /\ inner' = u
            \/ Moves(u, "idle") /\ inner' = Nobody
            \/ Moves(u, "expire_rl") /\ inner' = Nobody
<1>1. user[u].call \in {"start", "stop", "expire"}
  BY DEF CallerStates
<1>2. CASE user[u].call = "start"
  BY <1>2, AtMoves DEF Goes
<1>3. CASE user[u].call = "stop"
  BY <1>3, ReturnMoves DEF Goes
<1>4. CASE user[u].call = "expire"
  BY <1>4, AtMoves DEF Goes
<1> QED
  BY <1>1, <1>2, <1>3, <1>4

\* The next state of the room list: it is settled, and asks for few rooms where
\* it has to.
LEMMA NextStatesType ==
  ASSUME TypeOK, NEW next \in NextStates
  PROVE  next[1] \in Settled /\ next[2] \in {"selective", "growing"}
BY DEF TypeOK, RoomListStates, NextStates, Settled

LEMMA NextStatesFew ==
  ASSUME TypeOK, FewRoomsInv, NEW next \in NextStates,
         next[1] \in Few \/ room_list.at \in {"Error", "Terminated"}
  PROVE  next[2] = "selective"
BY DEF TypeOK, RoomListStates, NextStates, Settled, FewRoomsInv, Few

\* Reports are sent to the end of the channel and received from its front.
LEMMA SentReport ==
  ASSUME NEW s \in Seq(Reports), NEW r \in Reports
  PROVE  /\ Append(s, r) \in Seq(Reports) /\ Len(Append(s, r)) = Len(s) + 1
         /\ \A i \in 1 .. Len(s) + 1 : Append(s, r)[i] = IF i <= Len(s) THEN s[i] ELSE r
BY AppendProperties

LEMMA ReceivedReport ==
  ASSUME NEW s \in Seq(Reports), s # <<>>
  PROVE  /\ Head(s) = s[1] /\ 1 \in 1 .. Len(s) /\ Head(s) \in Reports
         /\ Tail(s) \in Seq(Reports)
         /\ \A i \in 1 .. Len(Tail(s)) : i + 1 \in 1 .. Len(s) /\ Tail(s)[i] = s[i + 1]
BY HeadTailProperties

LEMMA ReportType ==
  ASSUME NEW from \in Children \cup {"sup"}, NEW error \in BOOLEAN, NEW expired \in BOOLEAN
  PROVE  Report(from, error, expired) \in Reports
BY DEF Report, Reports

-----------------------------------------------------------------------------
\* A session that is expired, and the room list with it.
LEMMA ExpireType ==
  ASSUME TypeOK, NEW c \in Children, ExpireSession(c)
  PROVE  /\ session' \in [Children -> {"none", "current", "old"}]
         /\ room_list' \in RoomListStates
BY DEF TypeOK, RoomListStates, ExpireSession, Machine, Settled

\* The end of a task.
LEMMA TaskEndsType ==
  ASSUME TypeOK, NEW c \in Children, NEW error \in BOOLEAN, NEW expired \in BOOLEAN,
         TaskEnds(c, error, expired)
  PROVE  /\ task' \in [Children -> TaskStates]
         /\ chan' \in Seq(Reports)
         /\ permit' \in {"free", "start", "enc", "nse"}
<1>1. Report(c, error, expired) \in Reports
  BY ReportType
<1>2. chan' \in Seq(Reports)
  BY <1>1, SentReport DEF TypeOK, TaskEnds
<1> QED
  BY <1>2 DEF TypeOK, TaskEnds, NoTask, TaskStates

\* The steps of the callers.
LEMMA UserTypeStep ==
  ASSUME TypeOK, NEW u \in Users, User(u) \/ (\E call \in Calls : Call(u, call))
  PROVE  TypeOK'
<1>0. /\ user \in [Users -> CallerStates] 
      /\ u \in Users \cup {Nobody} /\ Nobody \in Users \cup {Nobody}
  BY DEF TypeOK
<1>1. ASSUME NEW call \in Calls, Call(u, call) PROVE TypeOK'
  <2>1. [pc |-> "lock", call |-> call] \in CallerStates
    BY SyncServiceAssumption DEF CallerStates
  <2>2. user' \in [Users -> CallerStates]
    BY <1>0, <1>1, <2>1 DEF Call
  <2>3. calls' \in 0 .. MaxCalls
    BY <1>1, SyncServiceAssumption DEF TypeOK, Call
  <2> QED
    BY <1>1, <2>2, <2>3 DEF TypeOK, Call, syncs
<1>2. CASE Lock(u)
  <2>1. user' \in [Users -> CallerStates] /\ inner' \in Users \cup {Nobody}
    BY <1>0, <1>2, AtMoves, ReturnMoves, GoesMoves DEF Lock
  <2> QED
    BY <1>2, <2>1 DEF TypeOK, Lock, syncs
<1>3. CASE Shutdown(u)
  <2>0. inner \in Users \cup {Nobody} /\ chan \in Seq(Reports)
    BY DEF TypeOK
  <2>1. user' \in [Users -> CallerStates] /\ inner' \in Users \cup {Nobody}
    <3>1. \/ At(u, "join") /\ inner' = inner
          \/ Goes(u)
      BY <1>3 DEF Shutdown
    <3> QED
      BY <1>0, <2>0, <3>1, AtMoves, GoesMoves
  <2>2. chan' \in Seq(Reports)
    <3>1. Report("sup", FALSE, FALSE) \in Reports
      BY ReportType
    <3>2. chan' \in {chan, Append(chan, Report("sup", FALSE, FALSE))}
      BY <1>3 DEF Shutdown
    <3> QED
      BY <2>0, <3>1, <3>2, SentReport
  <2> QED
    BY <1>3, <2>1, <2>2 DEF TypeOK, Shutdown, syncs
<1>4. CASE Join(u)
  <2>1. user' \in [Users -> CallerStates] /\ inner' \in Users \cup {Nobody}
    BY <1>0, <1>4, GoesMoves DEF Join
  <2> QED
    BY <1>4, <2>1 DEF TypeOK, Join, syncs
<1>5. CASE SpawnSupervisor(u)
  <2>1. user' \in [Users -> CallerStates] /\ sup' \in SupervisorStates
    BY <1>0, <1>5, AtMoves DEF TypeOK, SpawnSupervisor, SupervisorStates
  <2> QED
    BY <1>5, <2>1 DEF TypeOK, SpawnSupervisor, syncs
<1>6. CASE SetRunning(u)
  BY <1>0, <1>6, ReturnMoves DEF TypeOK, SetRunning, syncs
<1>7. CASE ExpireRoomList(u)
  <2>1. user' \in [Users -> CallerStates]
    BY <1>0, <1>7, AtMoves DEF ExpireRoomList
  <2>2. /\ session' \in [Children -> {"none", "current", "old"}]
        /\ room_list' \in RoomListStates
    BY <1>7, ExpireType, "rl" \in Children DEF ExpireRoomList, Children
  <2> QED
    BY <1>7, <2>1, <2>2 DEF TypeOK, ExpireRoomList
<1>8. CASE LockToExpire(u)
  <2>1. user' \in [Users -> CallerStates]
    BY <1>0, <1>8, AtMoves DEF LockToExpire
  <2> QED
    BY <1>8, <2>1 DEF TypeOK, LockToExpire, syncs
<1>9. CASE ExpireEncryption(u)
  <2>1. user' \in [Users -> CallerStates]
    BY <1>0, <1>9, ReturnMoves DEF ExpireEncryption
  <2>2. /\ session' \in [Children -> {"none", "current", "old"}]
        /\ room_list' \in RoomListStates
    BY <1>9, ExpireType, "enc" \in Children DEF ExpireEncryption, Children
  <2> QED
    BY <1>9, <2>1, <2>2 DEF TypeOK, ExpireEncryption
<1> QED
  BY <1>1, <1>2, <1>3, <1>4, <1>5, <1>6, <1>7, <1>8, <1>9 DEF User

\* The steps of the supervisor and of the notification client.
LEMMA SupervisorTypeStep ==
  ASSUME TypeOK, Supervisor \/ Notify PROVE TypeOK'
<1>0. /\ NoReport \in Reports /\ "rl" \in Children /\ "enc" \in Children
      /\ sup.report \in Reports /\ sup.child \in Children /\ sup.offline_mode \in BOOLEAN
  BY ReportType DEF TypeOK, SupervisorStates, NoReport, Children
<1>a. ASSUME NEW pc, SupAt(pc) \/ Done(pc),
             pc \in {"none", "spawn", "permit", "recv", "stop", "expire", "await", "decide",
                     "offline", "backoff"}
      PROVE  sup' \in SupervisorStates
  BY <1>0, <1>a DEF TypeOK, SupervisorStates, SupAt, Done
<1>b. chan # <<>> => Tail(chan) \in Seq(Reports) /\ Head(chan) \in Reports
  BY ReceivedReport DEF TypeOK
<1>1. CASE SpawnRoomList
  <2>1. sup' \in SupervisorStates
    BY <1>1, <1>a DEF SpawnRoomList
  <2>2. task' \in [Children -> TaskStates]
    BY <1>1 DEF TypeOK, SpawnRoomList, Spawned, TaskStates
  <2>3. \A i \in DOMAIN chan : [chan[i] EXCEPT !.stale = @ \/ chan[i].from # "sup"] \in Reports
    <3>1. \A i \in DOMAIN chan : chan[i] \in Reports
      BY DEF TypeOK
    <3> QED
      BY <3>1 DEF Reports
  <2>4. chan' \in Seq(Reports)
    <3>1. DOMAIN chan = 1 .. Len(chan) /\ Len(chan) \in Nat
      BY DEF TypeOK
    <3> QED
      BY <1>1, <2>3, <3>1 DEF SpawnRoomList
  <2> QED
    BY <1>1, <2>1, <2>2, <2>4 DEF TypeOK, SpawnRoomList, service
<1>2. CASE SpawnEncryption
  <2>1. sup' \in SupervisorStates
    BY <1>2, <1>a DEF SpawnEncryption
  <2>2. task' \in [Children -> TaskStates]
    BY <1>2 DEF TypeOK, SpawnEncryption, Spawned, TaskStates
  <2> QED
    BY <1>2, <2>1, <2>2 DEF TypeOK, SpawnEncryption, service
<1>3. CASE Receive
  <2>1. sup' \in SupervisorStates
    BY <1>0, <1>3, <1>b DEF TypeOK, Receive, SupervisorStates
  <2>2. session' \in [Children -> {"none", "current", "old"}]
    BY <1>3 DEF TypeOK, Receive
  <2> QED
    BY <1>3, <1>b, <2>1, <2>2 DEF TypeOK, Receive, service
<1>4. ASSUME NEW c \in Children, StopSync(c) PROVE TypeOK'
  <2>1. sup' \in SupervisorStates
    BY <1>4, <1>a DEF StopSync
  <2>2. task' \in [Children -> TaskStates]
    BY <1>4 DEF TypeOK, StopSync, TaskStates
  <2> QED
    BY <1>4, <2>1, <2>2 DEF TypeOK, StopSync, service
<1>5. ASSUME NEW c \in Children, ExpireSibling(c) PROVE TypeOK'
  <2>1. sup' \in SupervisorStates
    BY <1>5, <1>a DEF ExpireSibling
  <2>2. /\ session' \in [Children -> {"none", "current", "old"}]
        /\ room_list' \in RoomListStates
    BY <1>5, ExpireType DEF ExpireSibling
  <2> QED
    BY <1>5, <2>1, <2>2 DEF TypeOK, ExpireSibling, service
<1>6. ASSUME NEW c \in Children, Await(c) PROVE TypeOK'
  <2>1. sup' \in SupervisorStates
    <3>1. CASE c = "rl"
      BY <1>0, <1>6, <3>1 DEF TypeOK, Await, SupervisorStates
    <3>2. CASE c # "rl"
      BY <1>6, <1>a, <3>2 DEF Await
    <3> QED
      BY <3>1, <3>2
  <2> QED
    BY <1>6, <2>1 DEF TypeOK, Await, service, syncs
<1>7. CASE Decide
  <2>1. /\ \E pc \in {"offline", "none"} : Done(pc)
        /\ state' \in {"offline", "error", "idle", "terminated"}
    BY <1>7 DEF Decide, Ends
  <2>2. sup' \in SupervisorStates
    BY <2>1, <1>a
  <2> QED
    BY <1>7, <2>1, <2>2 DEF TypeOK, Decide, syncs, Stopped
<1>8. CASE DropReport
  BY <1>8, <1>b DEF TypeOK, DropReport, service, syncs
<1>9. CASE Interrupted
  <2>1. sup' \in SupervisorStates /\ state' = "idle"
    BY <1>9, <1>a DEF Interrupted, Ends
  <2> QED
    BY <1>9, <1>b, <2>1 DEF TypeOK, Interrupted, syncs, Stopped
<1>10. CASE Back
  <2>1. sup' \in SupervisorStates /\ state' \in {"backoff", "running"}
    BY <1>10, <1>a DEF Back
  <2> QED
    BY <1>10, <2>1 DEF TypeOK, Back, syncs
<1>11. CASE Notify
  BY <1>11 DEF TypeOK, Notify, service, syncs
<1> QED
  BY <1>1, <1>2, <1>3, <1>4, <1>5, <1>6, <1>7, <1>8, <1>9, <1>10, <1>11 DEF Supervisor

\* The steps of the child tasks.
LEMMA ChildTypeStep ==
  ASSUME TypeOK,
         \/ \E c \in Children : Child(c) \/ \E expired \in BOOLEAN : Fail(c, expired)
         \/ LockFails \/ Lag \/ Skip
  PROVE  TypeOK'
<1>0. "rl" \in Children /\ "enc" \in Children
  BY DEF Children
<1>a. ASSUME NEW c \in Children, NEW pc \in {"top", "syncing", "skipped"},
             task' = [task EXCEPT ![c].pc = pc]
      PROVE  task' \in [Children -> TaskStates]
  BY <1>a DEF TypeOK, TaskStates
<1>b. ASSUME NEW c \in Children PROVE Renewed(c) \in [Children -> {"none", "current", "old"}]
  BY DEF TypeOK, Renewed
<1>c. ASSUME NEW at \in Settled \cup {"Error", "Terminated"}, NEW from \in Settled
      PROVE  Machine(at, from) \in RoomListStates
  BY DEF TypeOK, RoomListStates, Machine, Settled
<1>d. room_list.next \in Settled
  BY DEF TypeOK, RoomListStates
<1>1. ASSUME NEW c \in Children, Subscribe(c) PROVE TypeOK'
  <2>1. task' \in [Children -> TaskStates]
    BY <1>1, <1>a DEF Subscribe
  <2> QED
    BY <1>1, <2>1 DEF TypeOK, Subscribe, service
<1>2. ASSUME NEW c \in Children, Request(c) PROVE TypeOK'
  <2>1. task' \in [Children -> TaskStates]
    BY <1>2, <1>a DEF Request
  <2>2. room_list' \in RoomListStates
    <3>1. ASSUME NEW next \in NextStates,
                 room_list' = [room_list EXCEPT !.next = next[1], !.mode = next[2]]
          PROVE  room_list' \in RoomListStates
      <4>1. next[1] \in Settled /\ next[2] \in {"selective", "growing"}
        BY NextStatesType
      <4> QED
        BY <3>1, <4>1 DEF TypeOK, RoomListStates
    <3> QED
      BY <1>2, <3>1 DEF Request, TypeOK
  <2> QED
    BY <1>2, <2>1, <2>2 DEF TypeOK, Request, service
<1>3. ASSUME NEW c \in Children, Respond(c) PROVE TypeOK'
  <2>1. task' \in [Children -> TaskStates]
    BY <1>3, <1>a DEF Respond
  <2>2. room_list' \in RoomListStates
    BY <1>3, <1>c, <1>d, "Init" \in Settled DEF Respond, TypeOK, Settled
  <2> QED
    BY <1>3, <1>b, <2>1, <2>2 DEF TypeOK, Respond, service
<1>4. ASSUME NEW c \in Children, LoopEnds(c), errors' \in 0 .. MaxErrors PROVE TypeOK'
  <2>1. /\ task' \in [Children -> TaskStates] /\ chan' \in Seq(Reports)
        /\ permit' \in {"free", "start", "enc", "nse"}
    BY <1>4, TaskEndsType DEF LoopEnds
  <2>2. session' \in [Children -> {"none", "current", "old"}]
    BY <1>4, <1>b DEF TypeOK, LoopEnds
  <2>3. room_list' \in RoomListStates
    <3>1. ASSUME NEW next \in NextStates,
                 room_list' = [Machine("Terminated", next[1]) EXCEPT !.mode = next[2]]
          PROVE  room_list' \in RoomListStates
      <4>1. next[1] \in Settled /\ next[2] \in {"selective", "growing"}
        BY NextStatesType
      <4>2. Machine("Terminated", next[1]) \in RoomListStates
        BY <1>c, <4>1
      <4> QED
        BY <3>1, <4>1, <4>2 DEF RoomListStates
    <3>2. room_list \in RoomListStates /\ Machine("Terminated", room_list.next) \in RoomListStates
      BY <1>c, <1>d DEF TypeOK
    <3> QED
      BY <1>4, <3>1, <3>2 DEF LoopEnds
  <2> QED
    BY <1>4, <2>1, <2>2, <2>3 DEF TypeOK, LoopEnds, service
<1>5. CASE AskAgain
  <2>1. task' \in [Children -> TaskStates]
    BY <1>0, <1>5, <1>a DEF AskAgain
  <2> QED
    BY <1>5, <2>1 DEF TypeOK, AskAgain, service
<1>6. ASSUME NEW c \in Children, NEW expired \in BOOLEAN, Fail(c, expired) PROVE TypeOK'
  <2>1. /\ task' \in [Children -> TaskStates] /\ chan' \in Seq(Reports)
        /\ permit' \in {"free", "start", "enc", "nse"}
    BY <1>6, TaskEndsType DEF Fail
  <2>2. session' \in [Children -> {"none", "current", "old"}] /\ errors' \in 0 .. MaxErrors
    BY <1>6, <1>b, SyncServiceAssumption DEF TypeOK, Fail
  <2>3. room_list' \in RoomListStates
    BY <1>6, <1>c, <1>d DEF TypeOK, Fail
  <2> QED
    BY <1>6, <2>1, <2>2, <2>3 DEF TypeOK, Fail, service
<1>7. CASE LockFails
  <2>1. /\ task' \in [Children -> TaskStates] /\ chan' \in Seq(Reports)
        /\ permit' \in {"free", "start", "enc", "nse"}
    BY <1>0, <1>7, TaskEndsType DEF LockFails
  <2>2. errors' \in 0 .. MaxErrors
    BY <1>7, SyncServiceAssumption DEF TypeOK, LockFails
  <2> QED
    BY <1>7, <2>1, <2>2 DEF TypeOK, LockFails, service
<1>8. CASE Skip
  <2>1. task' \in [Children -> TaskStates]
    BY <1>0, <1>8, <1>a DEF Skip
  <2>2. session' \in [Children -> {"none", "current", "old"}]
    BY <1>0, <1>8, <1>b DEF TypeOK, Skip
  <2> QED
    BY <1>8, <2>1, <2>2 DEF TypeOK, Skip, service
<1>9. ASSUME NEW c \in Children, StopHeard(c) PROVE TypeOK'
  BY <1>4, <1>9 DEF StopHeard, TypeOK
<1>10. CASE Lag
  <2>1. errors' \in 0 .. MaxErrors
    BY <1>10, SyncServiceAssumption DEF TypeOK, Lag
  <2> QED
    BY <1>0, <1>4, <1>10, <2>1 DEF Lag
<1> QED
  BY <1>1, <1>2, <1>3, <1>5, <1>6, <1>7, <1>8, <1>9, <1>10 DEF Child

LEMMA InitType ==
  ASSUME Init PROVE TypeOK
<1>1. sup \in SupervisorStates
  BY ReportType, SyncServiceAssumption DEF Init, SupervisorStates, NoReport, Children
<1>2. user \in [Users -> CallerStates] /\ task \in [Children -> TaskStates]
  BY DEF Init, NoCall, CallerStates, NoTask, TaskStates
<1>3. room_list \in RoomListStates
  BY DEF Init, RoomListStates, Settled
<1>4. chan \in Seq(Reports) /\ session \in [Children -> {"none", "current", "old"}]
  BY DEF Init
<1>5. calls \in 0 .. MaxCalls /\ errors \in 0 .. MaxErrors
  BY SyncServiceAssumption DEF Init
<1> QED
  BY <1>1, <1>2, <1>3, <1>4, <1>5 DEF Init, TypeOK, Stopped

LEMMA TypeStep ==
  ASSUME TypeOK, [Next]_vars PROVE TypeOK'
<1>1. CASE UNCHANGED vars
  BY <1>1 DEF TypeOK, vars
<1> QED
  BY <1>1, UserTypeStep, SupervisorTypeStep, ChildTypeStep DEF Next

\* Every variable stays in its type, however the callers, the supervisor, the two sync loops
\* and the notification client interleave.
THEOREM TypeCorrect == Spec => []TypeOK
<1>1. Init => TypeOK
  BY InitType
<1>2. TypeOK /\ [Next]_vars => TypeOK'
  BY TypeStep
<1> QED
  BY <1>1, <1>2, PTL DEF Spec

-----------------------------------------------------------------------------
(* Who holds the lock of inner, and which supervisor runs.                 *)

\* A caller takes, keeps or releases the lock of inner as it moves.
LEMMA MoveKeepsInner ==
  ASSUME InnerInv, NEW u \in Users, NEW label, Moves(u, label),
         inner = Nobody \/ user[u].pc \in Holding,
         \/ label \in Holding /\ inner' = u
         \/ label \notin Holding /\ inner' = Nobody
  PROVE  InnerInv'
BY SyncServiceAssumption DEF InnerInv, Moves, Nobody

LEMMA StayKeepsInner ==
  ASSUME InnerInv, NEW u \in Users, NEW label, Moves(u, label), label \notin Holding,
         user[u].pc \notin Holding, inner' = inner
  PROVE  InnerInv'
BY DEF InnerInv, Moves

\* The callers that have the lock are one at most.
LEMMA OneHolder ==
  ASSUME InnerInv, NEW u \in Users, NEW v \in Users, u # v,
         inner = Nobody \/ user[u].pc \in Holding
  PROVE  user[v].pc \notin Holding
BY SyncServiceAssumption DEF InnerInv, Nobody

\* A caller that finds the service stopped and inner free, or that has the lock and finds no
\* supervisor to wait for, has none to fear.
LEMMA NoSupervisorLeft ==
  ASSUME InnerInv, SupervisionInv, NEW u \in Users,
         \/ inner = Nobody /\ state \in Stopped
         \/ user[u].pc = "shutdown" /\ ~(supervised /\ Alive)
  PROVE  ~Alive
<1>1. CASE inner = Nobody /\ state \in Stopped
  BY <1>1, SyncServiceAssumption DEF InnerInv, SupervisionInv, Holding, Nobody
<1>2. CASE user[u].pc = "shutdown" /\ ~(supervised /\ Alive)
  <2>1. \A v \in Users : user[v].pc # "join"
    BY <1>2, OneHolder DEF Holding
  <2> QED
    BY <1>2, <2>1 DEF SupervisionInv
<1> QED
  BY <1>1, <1>2

\* What the callers do that is not about the lock: their labels, and the supervisor.
LEMMA UserInnerStep ==
  ASSUME TypeOK, InnerInv, SupervisionInv, NEW u \in Users,
         User(u) \/ (\E call \in Calls : Call(u, call))
  PROVE  InnerInv' /\ SupervisionInv'
<1>0. user \in [Users -> CallerStates] /\ (Alive' <=> sup'.pc # "none")
  BY DEF TypeOK, Alive
<1>a. ASSUME NEW label, Moves(u, label), UNCHANGED <<state, supervised, sup>>,
             user[u].pc \notin {"join", "set"}, label # "permit" \/ ~Alive
      PROVE  SupervisionInv'
  BY <1>a DEF SupervisionInv, Moves, Alive
<1>b. ASSUME NEW label, Moves(u, label), UNCHANGED sup, ~Alive
      PROVE  SupervisionInv'
  BY <1>b DEF SupervisionInv, Alive
<1>1. ASSUME NEW call \in Calls, Call(u, call) PROVE InnerInv' /\ SupervisionInv'
  <2>1. Moves(u, "lock")
    BY <1>0, <1>1 DEF Call, Moves
  <2>2. inner' = inner /\ user[u].pc = "idle" /\ UNCHANGED <<state, supervised, sup>>
    BY <1>1 DEF Call
  <2> QED
    BY <2>1, <2>2, <1>a, StayKeepsInner DEF Holding
<1>2. CASE Lock(u)
  <2>0. user[u].pc = "lock" /\ inner = Nobody /\ UNCHANGED <<state, supervised, sup>>
    BY <1>2 DEF Lock
  <2>1. \/ Moves(u, "idle") /\ inner' = Nobody
        \/ Moves(u, "permit") /\ inner' = u /\ state \in Stopped
        \/ Moves(u, "expire_rl") /\ inner' = Nobody
        \/ Moves(u, "shutdown") /\ inner' = u
    BY <1>0, <1>2, AtMoves, ReturnMoves, GoesMoves DEF Lock
  <2>2. InnerInv'
    BY <2>0, <2>1, MoveKeepsInner DEF Holding
  <2>3. state \in Stopped => ~Alive
    BY <2>0, NoSupervisorLeft
  <2> QED
    BY <2>0, <2>1, <2>2, <2>3, <1>a
<1>3. CASE Shutdown(u)
  <2>0. user[u].pc = "shutdown" /\ supervised' = FALSE /\ UNCHANGED <<state, sup>>
    BY <1>3 DEF Shutdown
  <2>1. CASE supervised /\ Alive
    <3>1. Moves(u, "join") /\ inner' = inner
      BY <1>0, <1>3, <2>1, AtMoves DEF Shutdown
    <3>2. inner = u
      BY <2>0 DEF InnerInv, Holding
    <3>3. InnerInv'
      BY <2>0, <3>1, <3>2, MoveKeepsInner DEF Holding
    <3>4. SupervisionInv'
      BY <2>0, <2>1, <3>1 DEF SupervisionInv, Moves, Alive
    <3> QED
      BY <3>3, <3>4
  <2>2. CASE ~(supervised /\ Alive)
    <3>1. \/ Moves(u, "permit") /\ inner' = u
          \/ Moves(u, "idle") /\ inner' = Nobody
          \/ Moves(u, "expire_rl") /\ inner' = Nobody
      BY <1>0, <1>3, <2>2, GoesMoves DEF Shutdown
    <3>2. ~Alive
      BY <2>0, <2>2, NoSupervisorLeft
    <3> QED
      BY <2>0, <3>1, <3>2, <1>b, MoveKeepsInner DEF Holding
  <2> QED
    BY <2>1, <2>2
<1>4. CASE Join(u)
  <2>0. user[u].pc = "join" /\ ~Alive /\ UNCHANGED sup
    BY <1>4 DEF Join
  <2>1. \/ Moves(u, "permit") /\ inner' = u
        \/ Moves(u, "idle") /\ inner' = Nobody
        \/ Moves(u, "expire_rl") /\ inner' = Nobody
    BY <1>0, <1>4, GoesMoves DEF Join
  <2> QED
    BY <2>0, <2>1, <1>b, MoveKeepsInner DEF Holding
<1>5. CASE SpawnSupervisor(u)
  <2>0. user[u].pc = "permit" /\ inner' = inner /\ supervised'
    BY <1>5 DEF SpawnSupervisor
  <2>1. Moves(u, "set")
    BY <1>0, <1>5, AtMoves DEF SpawnSupervisor
  <2>2. inner = u
    BY <2>0 DEF InnerInv, Holding
  <2>3. InnerInv'
    BY <2>0, <2>1, <2>2, MoveKeepsInner DEF Holding
  <2>4. \A v \in Users : user'[v].pc # "permit"
    BY <2>0, <2>1, OneHolder DEF Moves, Holding
  <2> QED
    BY <2>0, <2>1, <2>3, <2>4 DEF SupervisionInv, Moves
<1>6. CASE SetRunning(u)
  <2>0. /\ user[u].pc = "set" /\ inner' = Nobody /\ state' = "running"
        /\ UNCHANGED <<supervised, sup>>
    BY <1>6 DEF SetRunning
  <2>1. Moves(u, "idle")
    BY <1>0, <1>6, ReturnMoves DEF SetRunning
  <2>2. InnerInv'
    BY <2>0, <2>1, MoveKeepsInner DEF Holding
  <2> QED
    BY <2>0, <2>1, <2>2 DEF SupervisionInv, Moves, Alive, Stopped
<1>7. CASE ExpireRoomList(u)
  <2>0. user[u].pc = "expire_rl" /\ inner' = inner /\ UNCHANGED <<state, supervised, sup>>
    BY <1>7 DEF ExpireRoomList
  <2>1. Moves(u, "expire_lock")
    BY <1>0, <1>7, AtMoves DEF ExpireRoomList
  <2> QED
    BY <2>0, <2>1, <1>a, StayKeepsInner DEF Holding
<1>8. CASE LockToExpire(u)
  <2>0. /\ user[u].pc = "expire_lock" /\ inner = Nobody /\ inner' = u
        /\ UNCHANGED <<state, supervised, sup>>
    BY <1>8 DEF LockToExpire
  <2>1. Moves(u, "expire_enc")
    BY <1>0, <1>8, AtMoves DEF LockToExpire
  <2> QED
    BY <2>0, <2>1, <1>a, MoveKeepsInner DEF Holding
<1>9. CASE ExpireEncryption(u)
  <2>0. /\ user[u].pc = "expire_enc" /\ inner' = Nobody
        /\ UNCHANGED <<state, supervised, sup>>
    BY <1>9 DEF ExpireEncryption
  <2>1. Moves(u, "idle")
    BY <1>0, <1>9, ReturnMoves DEF ExpireEncryption
  <2> QED
    BY <2>0, <2>1, <1>a, MoveKeepsInner DEF Holding
<1> QED
  BY <1>1, <1>2, <1>3, <1>4, <1>5, <1>6, <1>7, <1>8, <1>9 DEF User

\* The supervisor only ends, and then its state is one of a stopped service.
LEMMA SupervisorInnerStep ==
  ASSUME TypeOK, InnerInv, SupervisionInv, Supervisor
  PROVE  InnerInv' /\ SupervisionInv'
<1>a. ASSUME UNCHANGED <<inner, user, supervised>>, Alive' => Alive,
             Alive' /\ state' \in Stopped => state \in Stopped
      PROVE  InnerInv' /\ SupervisionInv'
  BY <1>a DEF InnerInv, SupervisionInv
<1>b. ASSUME SupAt("none") \/ Done("none") PROVE ~Alive'
  BY <1>b DEF TypeOK, SupervisorStates, SupAt, Done, Alive
<1>c. ASSUME UNCHANGED <<inner, user, supervised, state>>, Alive
      PROVE  InnerInv' /\ SupervisionInv'
  BY <1>c, <1>a
<1>1. CASE SpawnRoomList
  BY <1>1, <1>c DEF SpawnRoomList, service, Alive
<1>2. CASE SpawnEncryption
  BY <1>2, <1>c DEF SpawnEncryption, service, Alive
<1>3. CASE Receive
  BY <1>3, <1>c DEF Receive, service, Alive
<1>4. ASSUME NEW c \in Children, StopSync(c) PROVE InnerInv' /\ SupervisionInv'
  BY <1>4, <1>c DEF StopSync, service, Alive
<1>5. ASSUME NEW c \in Children, ExpireSibling(c) PROVE InnerInv' /\ SupervisionInv'
  BY <1>5, <1>c DEF ExpireSibling, service, Alive
<1>6. ASSUME NEW c \in Children, Await(c) PROVE InnerInv' /\ SupervisionInv'
  BY <1>6, <1>c DEF Await, service, Alive
<1>7. CASE Decide
  <2>1. UNCHANGED <<inner, user, supervised>> /\ Alive
    BY <1>7 DEF Decide, Alive
  <2>2. state' = "offline" \/ Done("none")
    BY <1>7 DEF Decide, Ends
  <2> QED
    BY <2>1, <2>2, <1>a, <1>b DEF Stopped
<1>8. CASE DropReport
  BY <1>8, <1>a DEF DropReport, service, Alive
<1>9. CASE Interrupted
  BY <1>9, <1>a, <1>b DEF Interrupted, Ends
<1>10. CASE Back
  BY <1>10, <1>a DEF Back, Waiting, Alive, Stopped
<1> QED
  BY <1>1, <1>2, <1>3, <1>4, <1>5, <1>6, <1>7, <1>8, <1>9, <1>10 DEF Supervisor

LEMMA InnerStep ==
  ASSUME TypeOK, InnerInv, SupervisionInv, [Next]_vars
  PROVE  InnerInv' /\ SupervisionInv'
<1>1. ASSUME UNCHANGED <<inner, user, supervised, state, sup>>
      PROVE  InnerInv' /\ SupervisionInv'
  BY <1>1 DEF InnerInv, SupervisionInv, Alive
<1>2. CASE \/ \E c \in Children : Child(c) \/ \E expired \in BOOLEAN : Fail(c, expired)
           \/ LockFails \/ Lag \/ Skip \/ Notify
  <2>1. UNCHANGED <<inner, user, supervised, state, sup>>
    BY <1>2 DEF Child, Fail, LockFails, Lag, Skip, Notify, Subscribe, Request, Respond, StopHeard,
                LoopEnds, AskAgain, service
  <2> QED
    BY <1>1, <2>1
<1>3. CASE UNCHANGED vars
  BY <1>1, <1>3 DEF vars
<1> QED
  BY <1>2, <1>3, UserInnerStep, SupervisorInnerStep DEF Next

-----------------------------------------------------------------------------
(* The children and the permit.                                            *)

\* What a step leaves of the supervisor.
LEMMA SupervisorMoves ==
  ASSUME sup \in SupervisorStates, NEW pc
  PROVE  /\ SupAt(pc) => sup'.pc = pc /\ sup'.child = sup.child /\ sup'.report = sup.report
         /\ Done(pc) => sup'.pc = pc /\ sup'.child = "rl" /\ sup'.report = NoReport
BY DEF SupervisorStates, SupAt, Done

\* A child that goes on, and one that ends.
LEMMA TaskMoves ==
  ASSUME TypeOK, NEW c \in Children, NEW pc, task' = [task EXCEPT ![c].pc = pc]
  PROVE  /\ task'[c].pc = pc /\ task'[c].stop = task[c].stop
         /\ \A d \in Children \ {c} : task'[d] = task[d]
BY DEF TypeOK, TaskStates

LEMMA GoingOnKeepsChildren ==
  ASSUME TypeOK, ChildInv, NEW c \in Children, NEW pc \in {"top", "syncing", "skipped"},
         task[c].pc \notin {"none", "spawned"}, task' = [task EXCEPT ![c].pc = pc],
         UNCHANGED <<sup, permit>>
  PROVE  ChildInv'
<1>1. /\ task'[c].pc = pc /\ task'[c].stop = task[c].stop
      /\ \A d \in Children \ {c} : task'[d] = task[d]
  BY TaskMoves
<1> QED
  BY <1>1 DEF ChildInv, Children

LEMMA EndKeepsChildren ==
  ASSUME TypeOK, ChildInv, NEW c \in Children, NEW error, NEW expired,
         task[c].pc \notin {"none", "spawned"}, TaskEnds(c, error, expired), UNCHANGED sup
  PROVE  ChildInv'
<1>1. /\ task'[c] = NoTask
      /\ \A d \in Children \ {c} : task'[d] = task[d]
      /\ permit' = permit
  BY DEF TypeOK, TaskEnds
<1>2. task'[c].pc = "none" /\ ~task'[c].stop
  BY <1>1 DEF NoTask
<1> QED
  BY <1>1, <1>2 DEF ChildInv, Children

\* Children are spawned where there are none, and the supervisor leaves a child behind
\* only when it has ended.
LEMMA ChildStep ==
  ASSUME TypeOK, SupervisionInv, ChildInv, [Next]_vars
  PROVE  ChildInv'
<1>0. /\ sup \in SupervisorStates /\ task \in [Children -> TaskStates]
      /\ Children = {"rl", "enc"}
  BY DEF TypeOK, Children
<1>a. ASSUME UNCHANGED <<sup, task, permit>> PROVE ChildInv'
  BY <1>a DEF ChildInv
<1>1. ASSUME NEW u \in Users, User(u) \/ (\E call \in Calls : Call(u, call)) PROVE ChildInv'
  <2>1. CASE SpawnSupervisor(u)
    <3>1. sup.pc = "none" /\ permit' = "start" /\ permit = "free" /\ UNCHANGED task
      BY <2>1 DEF SpawnSupervisor, SupervisionInv, Alive, syncs
    <3>2. sup'.pc = "spawn"
      BY <1>0, <2>1 DEF SpawnSupervisor, SupervisorStates
    <3> QED
      BY <3>1, <3>2 DEF ChildInv
  <2>2. CASE ~SpawnSupervisor(u)
    BY <1>1, <1>a, <2>2 DEF User, Call, Lock, Shutdown, Join, SetRunning, ExpireRoomList,
                            LockToExpire, ExpireEncryption, syncs
  <2> QED
    BY <2>1, <2>2
<1>2. CASE SpawnRoomList
  <2>1. sup.pc = "spawn" /\ sup'.pc = "permit" /\ permit' = permit
    BY <1>0, <1>2, SupervisorMoves DEF SpawnRoomList
  <2>2. task'["rl"] = Spawned /\ task'["enc"] = task["enc"]
    BY <1>0, <1>2 DEF SpawnRoomList
  <2> QED
    BY <2>1, <2>2 DEF ChildInv, Children, Spawned
<1>3. CASE SpawnEncryption
  <2>1. sup.pc = "permit" /\ sup'.pc = "recv" /\ permit' = "enc"
    BY <1>0, <1>3, SupervisorMoves DEF SpawnEncryption
  <2>2. task'["enc"] = Spawned /\ task'["rl"] = task["rl"]
    BY <1>0, <1>3 DEF SpawnEncryption
  <2> QED
    BY <2>1, <2>2 DEF ChildInv, Children, Spawned
<1>4. CASE Receive
  <2>1. sup.pc = "recv" /\ sup'.pc = "stop" /\ sup'.child = "rl" /\ UNCHANGED <<task, permit>>
    BY <1>0, <1>4 DEF Receive, SupervisorStates
  <2> QED
    BY <2>1 DEF ChildInv
<1>5. ASSUME NEW c \in Children, StopSync(c) PROVE ChildInv'
  <2>1. /\ sup.pc = "stop" /\ sup'.pc \in {"expire", "await"} /\ sup'.child = sup.child
        /\ permit' = permit
    BY <1>0, <1>5, SupervisorMoves DEF StopSync
  <2>2. \A d \in Children : /\ task'[d].pc = task[d].pc
                            /\ task'[d].stop =>
                                 task[d].stop \/ task[d].pc \in {"top", "syncing", "skipped"}
    BY <1>0, <1>5 DEF StopSync, TaskStates
  <2> QED
    BY <1>0, <2>1, <2>2 DEF ChildInv
<1>6. ASSUME NEW c \in Children, ExpireSibling(c) PROVE ChildInv'
  <2>1. /\ sup.pc = "expire" /\ sup'.pc = "await" /\ sup'.child = sup.child
        /\ UNCHANGED <<task, permit>>
    BY <1>0, <1>6, SupervisorMoves DEF ExpireSibling
  <2> QED
    BY <2>1 DEF ChildInv
<1>7. ASSUME NEW c \in Children, Await(c) PROVE ChildInv'
  <2>1. sup.pc = "await" /\ sup.child = c /\ task[c].pc = "none" /\ UNCHANGED <<task, permit>>
    BY <1>7 DEF Await, syncs
  <2>2. IF c = "rl" THEN sup'.pc = "stop" /\ sup'.child = "enc" ELSE sup'.pc = "decide"
    BY <1>0, <1>7, SupervisorMoves DEF Await, SupervisorStates
  <2> QED
    BY <1>0, <2>1, <2>2 DEF ChildInv
<1>8. CASE Decide
  <2>1. sup.pc = "decide" /\ sup'.pc \in {"offline", "none"} /\ UNCHANGED <<task, permit>>
    BY <1>0, <1>8, SupervisorMoves DEF Decide, Ends, syncs
  <2> QED
    BY <2>1 DEF ChildInv
<1>9. CASE DropReport
  BY <1>9, <1>a DEF DropReport, syncs
<1>10. CASE Interrupted
  <2>1. /\ sup.pc \in {"offline", "backoff"} /\ sup'.pc = "none"
        /\ UNCHANGED <<task, permit>>
    BY <1>0, <1>10, SupervisorMoves DEF Interrupted, Waiting, Ends, syncs
  <2> QED
    BY <2>1 DEF ChildInv
<1>11. CASE Back
  <2>1. /\ sup.pc \in {"offline", "backoff"} /\ sup'.pc \in {"backoff", "spawn"}
        /\ UNCHANGED <<task, permit>>
    BY <1>0, <1>11, SupervisorMoves DEF Back, Waiting, syncs
  <2> QED
    BY <2>1 DEF ChildInv
<1>12. CASE Notify
  BY <1>12 DEF Notify, ChildInv, syncs
<1>13. ASSUME NEW c \in Children, Request(c) \/ Respond(c) PROVE ChildInv'
  <2>1. /\ task[c].pc \notin {"none", "spawned"} /\ UNCHANGED <<sup, permit>>
        /\ \E pc \in {"top", "syncing", "skipped"} : task' = [task EXCEPT ![c].pc = pc]
    BY <1>13 DEF Request, Respond
  <2> QED
    BY <2>1, GoingOnKeepsChildren
<1>14. CASE Skip \/ AskAgain
  <2>1. /\ task["rl"].pc \notin {"none", "spawned"} /\ UNCHANGED <<sup, permit>>
        /\ \E pc \in {"top", "syncing", "skipped"} : task' = [task EXCEPT !["rl"].pc = pc]
    BY <1>14 DEF Skip, AskAgain
  <2> QED
    BY <1>0, <2>1, GoingOnKeepsChildren
<1>15. ASSUME NEW c \in Children,
              StopHeard(c) \/ (c = "rl" /\ Lag) \/ (\E expired \in BOOLEAN : Fail(c, expired))
       PROVE  ChildInv'
  <2>1. task[c].pc \notin {"none", "spawned"}
    BY <1>15 DEF StopHeard, Lag, Fail, ChildInv
  <2>2. UNCHANGED sup /\ \E error, expired \in BOOLEAN : TaskEnds(c, error, expired)
    BY <1>15 DEF StopHeard, Lag, LoopEnds, Fail
  <2> QED
    BY <2>1, <2>2, EndKeepsChildren
<1>16. CASE LockFails
  BY <1>0, <1>16, EndKeepsChildren DEF LockFails
<1>17. CASE UNCHANGED vars
  BY <1>17, <1>a DEF vars
<1>18. ASSUME NEW c \in Children, Subscribe(c) PROVE ChildInv'
  <2>1. /\ task'[c].pc = "top" /\ task'[c].stop = task[c].stop
        /\ \A d \in Children \ {c} : task'[d] = task[d]
    BY <1>18, TaskMoves DEF Subscribe
  <2>2. /\ task[c].pc = "spawned" /\ UNCHANGED sup
        /\ permit' = IF c = "enc" THEN "free" ELSE permit
    BY <1>18 DEF Subscribe
  <2> QED
    BY <1>0, <2>1, <2>2 DEF ChildInv
<1> QED
  BY <1>0, <1>1, <1>2, <1>3, <1>4, <1>5, <1>6, <1>7, <1>8, <1>9, <1>10, <1>11, <1>12, <1>13, <1>14,
     <1>15, <1>16, <1>17, <1>18 DEF Next, Supervisor, Child

-----------------------------------------------------------------------------
(* The reports in the channel.                                             *)

LEMMA QueuedReports ==
  ASSUME chan \in Seq(Reports)
  PROVE  /\ Queued \subseteq Reports
         /\ chan # <<>> => Head(chan) \in Queued
BY ReceivedReport DEF Queued

LEMMA QueuedSent ==
  ASSUME chan \in Seq(Reports), NEW r \in Reports, chan' = Append(chan, r)
  PROVE  Queued' \subseteq Queued \cup {r}
BY SentReport DEF Queued

LEMMA QueuedReceived ==
  ASSUME chan \in Seq(Reports), chan # <<>>, chan' = Tail(chan)
  PROVE  Queued' \subseteq Queued
BY ReceivedReport DEF Queued

\* A report stays in order when the supervisor does not go to spawn, a task that is gone stays
\* gone and its session is not renewed.
LEMMA StaysInOrder ==
  ASSUME NEW report \in Reports, InOrder(report),
         \A c \in Children : task[c].pc = "none" => task'[c].pc = "none",
         \A c \in Children : task[c].pc = "none" /\ session[c] = "none" => session'[c] = "none",
         sup'.pc # "spawn" \/ sup'.pc = sup.pc, sup'.pc # "permit" \/ sup'.pc = sup.pc
  PROVE  InOrder(report)'
BY DEF InOrder

\* A loop that runs has sent nothing that is still in the channel, so that what it does to its
\* own session and task leaves the reports in order; and so does the report of its end.
LEMMA LoopKeepsChannel ==
  ASSUME TypeOK, ChannelInv, NEW c \in Children, task[c].pc # "none", UNCHANGED sup,
         \A d \in Children \ {c} : task'[d] = task[d] /\ session'[d] = session[d],
         Queued' \subseteq Queued
  PROVE  ChannelInv'
<1>1. ASSUME NEW report \in Queued PROVE InOrder(report)'
  BY <1>1 DEF ChannelInv, InOrder
<1> QED
  BY <1>1 DEF ChannelInv

LEMMA EndKeepsChannel ==
  ASSUME TypeOK, ChildInv, ChannelInv, NEW c \in Children, NEW error \in BOOLEAN,
         NEW expired \in BOOLEAN, task[c].pc # "none", UNCHANGED sup,
         TaskEnds(c, error, expired),
         \A d \in Children \ {c} : session'[d] = session[d],
         expired => session'[c] = "none"
  PROVE  ChannelInv'
<1>1. Report(c, error, expired) \in Reports /\ chan \in Seq(Reports)
  BY ReportType DEF TypeOK
<1>2. task'[c].pc = "none" /\ \A d \in Children \ {c} : task'[d] = task[d]
  BY DEF TypeOK, TaskEnds, NoTask
<1>3. Queued' \subseteq Queued \cup {Report(c, error, expired)}
  BY <1>1, QueuedSent DEF TaskEnds, Queued
<1>4. ASSUME NEW report \in Queued PROVE InOrder(report)'
  BY <1>2, <1>4 DEF ChannelInv, InOrder
<1>5. sup'.pc # "spawn" /\ (c = "enc" => sup'.pc # "permit")
  BY DEF ChildInv, Children
<1>6. ASSUME NEW r, r = Report(c, error, expired) PROVE InOrder(r)'
  <2>1. r.from = c /\ ~r.stale /\ r.expired = expired
    BY <1>6 DEF Report
  <2> QED
    BY <1>2, <1>5, <2>1 DEF InOrder
<1> QED
  BY <1>3, <1>4, <1>6 DEF ChannelInv

\* Sessions are expired without regard to the channel.
LEMMA ExpireKeepsOthers ==
  ASSUME TypeOK, NEW c \in Children, ExpireSession(c)
  PROVE  session'[c] = "none" /\ \A d \in Children \ {c} : session'[d] = session[d]
BY DEF TypeOK, ExpireSession

LEMMA UserChannelStep ==
  ASSUME TypeOK, SupervisionInv, ChannelInv, NEW u \in Users,
         User(u) \/ (\E call \in Calls : Call(u, call))
  PROVE  ChannelInv'
<1>0. chan \in Seq(Reports) /\ Queued \subseteq Reports /\ "rl" \in Children /\ "enc" \in Children
  BY QueuedReports DEF TypeOK, Children
<1>a. ASSUME UNCHANGED <<sup, task>>, Queued' \subseteq Queued,
             \A c \in Children : session[c] = "none" => session'[c] = "none"
      PROVE  ChannelInv'
  <2>1. \A report \in Queued : InOrder(report)'
    BY <1>0, <1>a, StaysInOrder DEF ChannelInv
  <2> QED
    BY <1>a, <2>1 DEF ChannelInv
<1>1. CASE Shutdown(u)
  <2>1. UNCHANGED <<sup, task, session>>
    BY <1>1 DEF Shutdown, syncs
  <2>2. CASE chan' = chan
    BY <2>1, <2>2, <1>a DEF Queued
  <2>3. CASE chan' = Append(chan, Report("sup", FALSE, FALSE))
    <3>1. Report("sup", FALSE, FALSE) \in Reports
      BY ReportType
    <3>2. Queued' \subseteq Queued \cup {Report("sup", FALSE, FALSE)}
      BY <1>0, <2>3, <3>1, QueuedSent
    <3>3. ASSUME NEW r, r = Report("sup", FALSE, FALSE) PROVE InOrder(r)'
      BY <3>3 DEF Report, InOrder, Children
    <3>4. \A report \in Queued : InOrder(report)'
      BY <1>0, <2>1, StaysInOrder DEF ChannelInv
    <3> QED
      BY <2>1, <3>2, <3>3, <3>4 DEF ChannelInv
  <2> QED
    BY <1>1, <2>2, <2>3 DEF Shutdown
<1>2. CASE SpawnSupervisor(u)
  <2>1. sup'.report = sup.report
    BY <1>2 DEF TypeOK, SupervisorStates, SpawnSupervisor
  <2>2. Queued' = {}
    BY <1>2 DEF SpawnSupervisor, Queued
  <2> QED
    BY <2>1, <2>2 DEF ChannelInv
<1>3. CASE ExpireRoomList(u)
  BY <1>0, <1>3, <1>a, ExpireKeepsOthers DEF ExpireRoomList, Queued
<1>4. CASE ExpireEncryption(u)
  BY <1>0, <1>4, <1>a, ExpireKeepsOthers DEF ExpireEncryption, Queued
<1>5. CASE Lock(u) \/ Join(u) \/ SetRunning(u) \/ LockToExpire(u) \/ (\E call \in Calls : Call(u, call))
  <2>1. UNCHANGED <<sup, task, session, chan>>
    BY <1>5 DEF Lock, Join, SetRunning, LockToExpire, Call, syncs
  <2> QED
    BY <2>1, <1>a DEF Queued
<1> QED
  BY <1>1, <1>2, <1>3, <1>4, <1>5 DEF User

\* The supervisor goes to spawn when the channel is empty.
LEMMA SupervisorChannelStep ==
  ASSUME TypeOK, ChannelInv, Supervisor \/ Notify PROVE ChannelInv'
<1>0. /\ sup \in SupervisorStates /\ chan \in Seq(Reports) /\ Queued \subseteq Reports
      /\ task \in [Children -> TaskStates] /\ Children = {"rl", "enc"}
  BY QueuedReports DEF TypeOK, Children
<1>a. ASSUME sup'.report = sup.report \/ ~sup'.report.stale, Queued' \subseteq Queued,
             \A c \in Children : task[c].pc = "none" => task'[c].pc = "none",
             \A c \in Children : session[c] = "none" => session'[c] = "none",
             sup'.pc \notin {"spawn", "permit"} \/ sup'.pc = sup.pc
      PROVE  ChannelInv'
  <2>1. \A report \in Queued : InOrder(report)'
    BY <1>0, <1>a, StaysInOrder DEF ChannelInv
  <2> QED
    BY <1>a, <2>1 DEF ChannelInv
<1>b. ~NoReport.stale
  BY DEF NoReport, Report
<1>1. CASE SpawnRoomList
  <2>1. sup.pc = "spawn" /\ sup'.report = sup.report
    BY <1>0, <1>1, SupervisorMoves DEF SpawnRoomList
  <2>2. \A i \in 1 .. Len(chan) : chan[i] \in Reports /\ chan[i].from = "sup" /\ ~chan[i].stale
    <3>1. \A i \in 1 .. Len(chan) : chan[i] \in Reports /\ InOrder(chan[i])
      BY <1>0 DEF ChannelInv, Queued
    <3> QED
      BY <1>0, <2>1, <3>1 DEF InOrder, Reports
  <2>3. /\ Len(chan') = Len(chan)
        /\ \A i \in 1 .. Len(chan) :
             chan'[i] = [chan[i] EXCEPT !.stale = @ \/ chan[i].from # "sup"]
    BY <1>0, <1>1 DEF SpawnRoomList
  <2>4. \A i \in 1 .. Len(chan') : chan'[i].from = "sup" /\ ~chan'[i].stale
    BY <2>2, <2>3 DEF Reports
  <2>5. \A report \in Queued' : report.from = "sup" /\ ~report.stale
    BY <2>4 DEF Queued
  <2> QED
    BY <1>0, <2>1, <2>5 DEF ChannelInv, InOrder
<1>2. CASE SpawnEncryption
  <2>1. sup.pc = "permit" /\ sup'.pc = "recv" /\ sup'.report = sup.report
    BY <1>0, <1>2, SupervisorMoves DEF SpawnEncryption
  <2>2. task'["rl"] = task["rl"] /\ UNCHANGED <<session, chan>>
    BY <1>0, <1>2 DEF SpawnEncryption
  <2>3. ASSUME NEW report \in Queued PROVE InOrder(report)'
    BY <1>0, <2>1, <2>2, <2>3 DEF ChannelInv, InOrder
  <2> QED
    BY <2>1, <2>2, <2>3 DEF ChannelInv, Queued
<1>3. CASE Receive
  <2>1. /\ chan # <<>> /\ chan' = Tail(chan) /\ UNCHANGED task
        /\ sup'.pc = "stop" /\ sup'.report = Head(chan)
    BY <1>0, <1>3 DEF Receive, SupervisorStates
  <2>2. ~sup'.report.stale
    BY <1>0, <2>1, QueuedReports DEF ChannelInv, InOrder
  <2>3. \A c \in Children : session[c] = "none" => session'[c] = "none"
    BY <1>3 DEF Receive
  <2> QED
    BY <1>0, <1>a, <2>1, <2>2, <2>3, QueuedReceived
<1>4. ASSUME NEW c \in Children, StopSync(c) PROVE ChannelInv'
  <2>1. /\ sup'.pc \in {"expire", "await"} /\ sup'.report = sup.report
        /\ UNCHANGED <<session, chan>>
    BY <1>0, <1>4, SupervisorMoves DEF StopSync
  <2>2. \A d \in Children : task'[d].pc = task[d].pc
    BY <1>0, <1>4 DEF StopSync, TaskStates
  <2> QED
    BY <1>a, <2>1, <2>2 DEF Queued
<1>5. ASSUME NEW c \in Children, ExpireSibling(c) PROVE ChannelInv'
  <2>1. sup'.pc = "await" /\ sup'.report = sup.report /\ UNCHANGED <<task, chan>>
    BY <1>0, <1>5, SupervisorMoves DEF ExpireSibling
  <2>2. \A d \in Children : session[d] = "none" => session'[d] = "none"
    BY <1>5, ExpireKeepsOthers DEF ExpireSibling
  <2> QED
    BY <1>a, <2>1, <2>2 DEF Queued
<1>6. ASSUME NEW c \in Children, Await(c) PROVE ChannelInv'
  <2>1. /\ sup'.pc \in {"stop", "decide"} /\ sup'.report = sup.report
        /\ UNCHANGED <<task, session, chan>>
    BY <1>0, <1>6, SupervisorMoves DEF Await, SupervisorStates, syncs
  <2> QED
    BY <1>a, <2>1 DEF Queued
<1>7. CASE Decide
  <2>1. /\ sup'.pc \in {"offline", "none"} /\ sup'.report = NoReport
        /\ UNCHANGED <<task, session, chan>>
    BY <1>0, <1>7, SupervisorMoves DEF Decide, Ends, syncs
  <2> QED
    BY <1>a, <1>b, <2>1 DEF Queued
<1>8. CASE DropReport
  BY <1>0, <1>8, <1>a, QueuedReceived DEF DropReport, syncs
<1>9. CASE Interrupted
  <2>1. /\ sup'.pc = "none" /\ sup'.report = NoReport /\ chan # <<>> /\ chan' = Tail(chan)
        /\ UNCHANGED <<task, session>>
    BY <1>0, <1>9, SupervisorMoves DEF Interrupted, Ends, syncs
  <2> QED
    BY <1>0, <1>a, <1>b, <2>1, QueuedReceived
<1>10. CASE Back
  <2>1. sup'.report = sup.report /\ chan' = <<>>
    BY <1>0, <1>10, SupervisorMoves DEF Back
  <2>2. Queued' = {}
    BY <2>1 DEF Queued
  <2> QED
    BY <2>1, <2>2 DEF ChannelInv
<1>11. CASE Notify
  BY <1>11, <1>a DEF Notify, syncs, Queued
<1> QED
  BY <1>1, <1>2, <1>3, <1>4, <1>5, <1>6, <1>7, <1>8, <1>9, <1>10, <1>11 DEF Supervisor

LEMMA ChildChannelStep ==
  ASSUME TypeOK, ChildInv, ChannelInv,
         \/ \E c \in Children : Child(c) \/ \E expired \in BOOLEAN : Fail(c, expired)
         \/ LockFails \/ Lag \/ Skip
  PROVE  ChannelInv'
<1>0. "rl" \in Children /\ "enc" \in Children
  BY DEF Children
<1>a. ASSUME NEW c \in Children, session' \in {session, Renewed(c)}
      PROVE  \A d \in Children \ {c} : session'[d] = session[d]
  BY <1>a DEF TypeOK, Renewed
<1>1. ASSUME NEW c \in Children, Subscribe(c) \/ Request(c) \/ Respond(c) PROVE ChannelInv'
  <2>1. /\ task[c].pc # "none" /\ UNCHANGED <<sup, chan>> /\ session' \in {session, Renewed(c)}
        /\ \E pc \in {"top", "syncing"} : task' = [task EXCEPT ![c].pc = pc]
    BY <1>1 DEF Subscribe, Request, Respond
  <2> QED
    BY <1>a, <2>1, TaskMoves, LoopKeepsChannel DEF Queued
<1>2. CASE Skip \/ AskAgain
  <2>1. /\ task["rl"].pc # "none" /\ UNCHANGED <<sup, chan>>
        /\ session' \in {session, Renewed("rl")}
        /\ \E pc \in {"skipped", "syncing"} : task' = [task EXCEPT !["rl"].pc = pc]
    BY <1>2 DEF Skip, AskAgain
  <2> QED
    BY <1>0, <1>a, <2>1, TaskMoves, LoopKeepsChannel DEF Queued
<1>3. ASSUME NEW c \in Children, StopHeard(c) \/ (c = "rl" /\ Lag) PROVE ChannelInv'
  <2>0. LoopEnds(c)
    BY <1>3 DEF StopHeard, Lag
  <2>1. task[c].pc # "none" /\ UNCHANGED sup /\ TaskEnds(c, FALSE, FALSE)
    BY <1>3, <2>0 DEF StopHeard, Lag, LoopEnds, ChildInv
  <2>2. \A d \in Children \ {c} : session'[d] = session[d]
    BY <1>a, <2>0 DEF LoopEnds
  <2> QED
    BY <2>1, <2>2, EndKeepsChannel
<1>4. ASSUME NEW c \in Children, NEW expired \in BOOLEAN, Fail(c, expired) PROVE ChannelInv'
  <2>1. task[c].pc # "none" /\ UNCHANGED sup /\ TaskEnds(c, TRUE, expired)
    BY <1>4 DEF Fail
  <2>2. /\ \A d \in Children \ {c} : session'[d] = session[d]
        /\ expired => session'[c] = "none"
    BY <1>4, <1>a DEF Fail, TypeOK
  <2> QED
    BY <2>1, <2>2, EndKeepsChannel
<1>5. CASE LockFails
  BY <1>0, <1>5, EndKeepsChannel DEF LockFails
<1> QED
  BY <1>0, <1>1, <1>2, <1>3, <1>4, <1>5 DEF Child

LEMMA ChannelStep ==
  ASSUME TypeOK, SupervisionInv, ChildInv, ChannelInv, [Next]_vars
  PROVE  ChannelInv'
<1>1. CASE UNCHANGED vars
  BY <1>1 DEF vars, ChannelInv, InOrder, Queued
<1> QED
  BY <1>1, UserChannelStep, SupervisorChannelStep, ChildChannelStep DEF Next

-----------------------------------------------------------------------------
(* Expired sessions, and the rooms that a recovering room list asks for.   *)

\* The loops never make a session old, and who expires one only clears it.
LEMMA ExpiryStep ==
  ASSUME TypeOK, SupervisionInv, ChannelInv, ExpiryInv, [Next]_vars
  PROVE  ExpiryInv'
<1>0. sup \in SupervisorStates /\ Children = {"rl", "enc"} /\ "rl" # "enc"
  BY DEF TypeOK, Children
<1>a. ASSUME UNCHANGED sup, \A c \in Children : session'[c] = "old" => session[c] = "old"
      PROVE  ExpiryInv'
  BY <1>a DEF ExpiryInv
<1>b. ASSUME sup.pc \notin {"stop", "expire", "await"}, UNCHANGED session
      PROVE  ExpiryInv'
  BY <1>b DEF ExpiryInv
<1>1. ASSUME NEW u \in Users, User(u) \/ (\E call \in Calls : Call(u, call)) PROVE ExpiryInv'
  <2>1. CASE SpawnSupervisor(u)
    BY <2>1, <1>b DEF SpawnSupervisor, SupervisionInv, Alive, syncs
  <2>2. CASE ExpireRoomList(u)
    BY <1>0, <1>a, <2>2, ExpireKeepsOthers DEF ExpireRoomList
  <2>3. CASE ExpireEncryption(u)
    BY <1>0, <1>a, <2>3, ExpireKeepsOthers DEF ExpireEncryption
  <2>4. CASE Lock(u) \/ Shutdown(u) \/ Join(u) \/ SetRunning(u) \/ LockToExpire(u)
             \/ (\E call \in Calls : Call(u, call))
    BY <1>a, <2>4 DEF Lock, Shutdown, Join, SetRunning, LockToExpire, Call, syncs
  <2> QED
    BY <1>1, <2>1, <2>2, <2>3, <2>4 DEF User
<1>2. CASE Receive
  <2>1. /\ sup.pc = "recv" /\ chan # <<>>
        /\ sup'.pc = "stop" /\ sup'.child = "rl" /\ sup'.report = Head(chan)
    BY <1>0, <1>2 DEF Receive, SupervisorStates
  <2>2. InOrder(Head(chan))
    BY <2>1, QueuedReports DEF ChannelInv, TypeOK
  <2>3. ASSUME NEW c \in Children, session'[c] = "old"
        PROVE  Head(chan).expired /\ session[c] = "current"
    BY <1>2, <2>1, <2>3 DEF Receive, ExpiryInv
  <2>4. ASSUME NEW c \in Children, session'[c] = "old"
        PROVE  Head(chan).from # c
    BY <2>2, <2>3, <2>4 DEF InOrder
  <2> QED
    BY <1>0, <2>1, <2>3, <2>4 DEF ExpiryInv
<1>3. ASSUME NEW c \in Children, StopSync(c) PROVE ExpiryInv'
  <2>1. /\ sup.pc = "stop" /\ sup.child = c /\ sup'.child = c /\ sup'.report = sup.report
        /\ sup'.pc = IF sup.report.from # c /\ sup.report.expired THEN "expire" ELSE "await"
        /\ UNCHANGED session
    BY <1>0, <1>3, SupervisorMoves DEF StopSync
  <2> QED
    BY <1>0, <2>1 DEF ExpiryInv
<1>4. ASSUME NEW c \in Children, ExpireSibling(c) PROVE ExpiryInv'
  <2>1. /\ sup.pc = "expire" /\ sup.child = c
        /\ sup'.pc = "await" /\ sup'.child = c /\ sup'.report = sup.report
    BY <1>0, <1>4, SupervisorMoves DEF ExpireSibling
  <2>2. session'[c] = "none" /\ \A d \in Children \ {c} : session'[d] = session[d]
    BY <1>4, ExpireKeepsOthers DEF ExpireSibling
  <2> QED
    BY <1>0, <2>1, <2>2 DEF ExpiryInv
<1>5. ASSUME NEW c \in Children, Await(c) PROVE ExpiryInv'
  <2>1. sup.pc = "await" /\ sup.child = c /\ sup'.report = sup.report /\ UNCHANGED session
    BY <1>0, <1>5, SupervisorMoves DEF Await, SupervisorStates, syncs
  <2>2. IF c = "rl" THEN sup'.pc = "stop" /\ sup'.child = "enc" ELSE sup'.pc = "decide"
    BY <1>0, <1>5, SupervisorMoves DEF Await, SupervisorStates
  <2> QED
    BY <1>0, <2>1, <2>2 DEF ExpiryInv
<1>6. CASE SpawnRoomList \/ SpawnEncryption \/ Decide \/ DropReport \/ Interrupted \/ Back
  <2>1. sup.pc \notin {"stop", "expire", "await"} /\ UNCHANGED session
    BY <1>6 DEF SpawnRoomList, SpawnEncryption, Decide, DropReport, Interrupted, Back, Waiting,
                syncs
  <2> QED
    BY <1>b, <2>1
<1>7. ASSUME NEW c \in Children, Child(c) \/ (\E expired \in BOOLEAN : Fail(c, expired))
      PROVE  ExpiryInv'
  <2>1. /\ UNCHANGED sup
        /\ session' \in {session, Renewed(c), Renewed("rl"), [session EXCEPT ![c] = "none"]}
    BY <1>7 DEF Child, Subscribe, Request, Respond, StopHeard, LoopEnds, AskAgain, Fail
  <2>2. \A d \in Children : session'[d] = "old" => session[d] = "old"
    BY <1>0, <2>1 DEF TypeOK, Renewed
  <2> QED
    BY <1>a, <2>1, <2>2
<1>8. CASE LockFails \/ Lag \/ Skip \/ Notify
  <2>1. UNCHANGED sup /\ session' \in {session, Renewed("rl")}
    BY <1>8 DEF LockFails, Lag, LoopEnds, Skip, Notify, syncs
  <2>2. \A d \in Children : session'[d] = "old" => session[d] = "old"
    BY <1>0, <2>1 DEF TypeOK, Renewed
  <2> QED
    BY <1>a, <2>1, <2>2
<1>9. CASE UNCHANGED vars
  BY <1>9, <1>a DEF vars
<1> QED
  BY <1>1, <1>2, <1>3, <1>4, <1>5, <1>6, <1>7, <1>8, <1>9 DEF Next, Supervisor

\* Expiring the session of the room list moves it from one state that remembers where it came
\* from to the other.
LEMMA ExpireKeepsFew ==
  ASSUME TypeOK, FewRoomsInv, NEW c \in Children, ExpireSession(c), UNCHANGED task
  PROVE  FewRoomsInv'
<1>1. CASE UNCHANGED room_list
  BY <1>1 DEF FewRoomsInv
<1>2. CASE room_list.at = "Terminated" /\ room_list' = Machine("Error", room_list.from)
  <2>1. /\ room_list'.at = "Error" /\ room_list'.from = room_list.from
        /\ room_list'.mode = room_list.mode
    BY <1>2 DEF TypeOK, RoomListStates, Machine
  <2> QED
    BY <1>2, <2>1 DEF FewRoomsInv
<1> QED
  BY <1>1, <1>2 DEF ExpireSession

\* The room list grows when a request that set it up or recovered it has been answered, and is
\* made selective again before the next one that does so.
LEMMA FewRoomsStep ==
  ASSUME TypeOK, ChildInv, FewRoomsInv, [Next]_vars
  PROVE  FewRoomsInv'
<1>0. /\ task \in [Children -> TaskStates] /\ room_list \in RoomListStates
      /\ "rl" \in Children /\ "enc" \in Children /\ "rl" # "enc"
  BY DEF TypeOK, Children
<1>a. ASSUME UNCHANGED room_list, task'["rl"].pc \in {"syncing", "skipped"} =>
                                    task["rl"].pc \in {"syncing", "skipped"}
      PROVE  FewRoomsInv'
  BY <1>a DEF FewRoomsInv
<1>1. ASSUME NEW u \in Users, User(u) \/ (\E call \in Calls : Call(u, call)) PROVE FewRoomsInv'
  <2>1. CASE ExpireRoomList(u)
    BY <1>0, <2>1, ExpireKeepsFew DEF ExpireRoomList
  <2>2. CASE ExpireEncryption(u)
    BY <1>0, <2>2, ExpireKeepsFew DEF ExpireEncryption
  <2>3. CASE Lock(u) \/ Shutdown(u) \/ Join(u) \/ SpawnSupervisor(u) \/ SetRunning(u)
             \/ LockToExpire(u) \/ (\E call \in Calls : Call(u, call))
    BY <1>a, <2>3 DEF Lock, Shutdown, Join, SpawnSupervisor, SetRunning, LockToExpire, Call, syncs
  <2> QED
    BY <1>1, <2>1, <2>2, <2>3 DEF User
<1>2. CASE SpawnRoomList
  BY <1>0, <1>2, <1>a DEF SpawnRoomList, Spawned
<1>3. CASE SpawnEncryption
  BY <1>0, <1>3, <1>a DEF SpawnEncryption
<1>4. ASSUME NEW c \in Children, StopSync(c) PROVE FewRoomsInv'
  <2>1. task'["rl"].pc = task["rl"].pc /\ UNCHANGED room_list
    BY <1>0, <1>4 DEF StopSync, TaskStates
  <2> QED
    BY <1>a, <2>1
<1>5. ASSUME NEW c \in Children, ExpireSibling(c) PROVE FewRoomsInv'
  BY <1>5, ExpireKeepsFew DEF ExpireSibling
<1>6. CASE Receive \/ Decide \/ DropReport \/ Interrupted \/ Back \/ Notify
           \/ (\E c \in Children : Await(c))
  <2>1. UNCHANGED <<task, room_list>>
    BY <1>6 DEF Receive, Decide, DropReport, Interrupted, Back, Notify, Await, syncs
  <2> QED
    BY <1>a, <2>1
<1>7. ASSUME NEW c \in Children, c # "rl",
             Child(c) \/ (\E expired \in BOOLEAN : Fail(c, expired))
      PROVE  FewRoomsInv'
  <2>1. UNCHANGED room_list /\ task'["rl"] = task["rl"]
    BY <1>0, <1>7 DEF Child, Subscribe, Request, Respond, StopHeard, LoopEnds, Fail, TaskEnds
  <2> QED
    BY <1>a, <2>1
<1>8. CASE LockFails
  BY <1>0, <1>8, <1>a DEF LockFails, TaskEnds
<1>9. CASE Subscribe("rl")
  BY <1>0, <1>9, <1>a, TaskMoves DEF Subscribe
<1>10. CASE Skip \/ AskAgain
  <2>1. task["rl"].pc \in {"syncing", "skipped"} /\ UNCHANGED room_list
    BY <1>10 DEF Skip, AskAgain
  <2> QED
    BY <1>a, <2>1
<1>11. CASE Request("rl")
  <2>1. PICK next \in NextStates : room_list' = [room_list EXCEPT !.next = next[1], !.mode = next[2]]
    BY <1>11 DEF Request
  <2>2. room_list'.at = room_list.at /\ room_list'.next = next[1] /\ room_list'.mode = next[2]
    BY <1>0, <2>1 DEF RoomListStates
  <2>3. next[1] \in Few \/ room_list.at \in {"Error", "Terminated"} => next[2] = "selective"
    BY NextStatesFew
  <2>4. room_list.at = "Init" => next[1] \in Few
    BY DEF NextStates, Few
  <2> QED
    BY <2>2, <2>3, <2>4 DEF FewRoomsInv
<1>12. CASE Respond("rl")
  <2>1. task["rl"].pc = "syncing" /\ task'["rl"].pc = "top"
    BY <1>0, <1>12, TaskMoves DEF Respond
  <2>2. room_list'.at = room_list.next /\ room_list'.mode = room_list.mode
    BY <1>0, <1>12 DEF Respond, Machine, RoomListStates
  <2>3. room_list.next \notin {"Error", "Terminated"}
    BY <1>0 DEF RoomListStates, Settled
  <2> QED
    BY <2>1, <2>2, <2>3 DEF FewRoomsInv, Few
<1>13. ASSUME NEW expired \in BOOLEAN, Fail("rl", expired) PROVE FewRoomsInv'
  <2>1. task["rl"].pc = "syncing" /\ task'["rl"].pc = "none"
    BY <1>0, <1>13 DEF Fail, TaskEnds, NoTask
  <2>2. /\ room_list'.at = "Error" /\ room_list'.from = room_list.next
        /\ room_list'.mode = room_list.mode
    BY <1>0, <1>13 DEF Fail, Machine, RoomListStates
  <2> QED
    BY <2>1, <2>2 DEF FewRoomsInv
<1>14. CASE StopHeard("rl") \/ Lag
  <2>0. LoopEnds("rl")
    BY <1>14 DEF StopHeard, Lag
  <2>1. task'["rl"].pc = "none" /\ task["rl"].pc \in {"top", "syncing", "skipped"}
    BY <1>0, <1>14, <2>0 DEF StopHeard, Lag, LoopEnds, TaskEnds, NoTask, ChildInv
  <2>2. CASE task["rl"].pc = "top"
    <3>1. PICK next \in NextStates :
            room_list' = [Machine("Terminated", next[1]) EXCEPT !.mode = next[2]]
      BY <2>0, <2>2 DEF LoopEnds
    <3>2. room_list'.at = "Terminated" /\ room_list'.from = next[1] /\ room_list'.mode = next[2]
      BY <1>0, <3>1 DEF Machine, RoomListStates
    <3>3. next[1] \in Few => next[2] = "selective"
      BY NextStatesFew
    <3> QED
      BY <2>1, <3>2, <3>3 DEF FewRoomsInv
  <2>3. CASE task["rl"].pc # "top"
    <3>1. room_list' = Machine("Terminated", room_list.next)
      BY <2>0, <2>3 DEF LoopEnds
    <3>2. /\ room_list'.at = "Terminated" /\ room_list'.from = room_list.next
          /\ room_list'.mode = room_list.mode
      BY <1>0, <3>1 DEF Machine, RoomListStates
    <3> QED
      BY <2>1, <2>3, <3>2 DEF FewRoomsInv
  <2> QED
    BY <2>2, <2>3
<1>15. CASE UNCHANGED vars
  BY <1>15, <1>a DEF vars
<1> QED
  BY <1>1, <1>2, <1>3, <1>4, <1>5, <1>6, <1>7, <1>8, <1>9, <1>10, <1>11, <1>12, <1>13, <1>14,
     <1>15 DEF Next, Supervisor, Child

-----------------------------------------------------------------------------
SyncServiceInv ==
  /\ TypeOK /\ InnerInv /\ SupervisionInv /\ ChildInv /\ ChannelInv /\ ExpiryInv /\ FewRoomsInv

\* The inductive invariant: the type, who holds inner and which supervisor runs, when the
\* children live, what waits in the channel, which session is still to be expired, and how many
\* rooms the list asks for.
THEOREM SyncServiceInvariant == Spec => []SyncServiceInv
<1>1. Init => SyncServiceInv
  <2> SUFFICES ASSUME Init PROVE SyncServiceInv
    OBVIOUS
  <2>1. TypeOK
    BY InitType
  <2>2. /\ sup.pc = "none" /\ ~sup.report.stale
        /\ \A c \in Children : task[c].pc = "none" /\ ~task[c].stop
    BY DEF Init, NoTask, NoReport, Report
  <2>3. InnerInv
    BY SyncServiceAssumption DEF Init, InnerInv, Nobody, NoCall, Holding
  <2>4. SupervisionInv /\ ChildInv
    BY <2>2 DEF Init, SupervisionInv, ChildInv, Alive, NoCall, Children
  <2>5. ChannelInv /\ ExpiryInv
    BY <2>2 DEF Init, ChannelInv, Queued, ExpiryInv
  <2>6. FewRoomsInv
    BY DEF Init, FewRoomsInv
  <2> QED
    BY <2>1, <2>3, <2>4, <2>5, <2>6 DEF SyncServiceInv
<1>2. SyncServiceInv /\ [Next]_vars => SyncServiceInv'
  BY TypeStep, InnerStep, ChildStep, ChannelStep, ExpiryStep, FewRoomsStep DEF SyncServiceInv
<1> QED
  BY <1>1, <1>2, PTL DEF Spec

\* The children are managed as a unit: whatever callers start, stop and expire at the same time,
\* the supervisor spawns a child only where none is left, no child outlives its supervisor, and
\* a service that says it has stopped has stopped and given its permit back.
THEOREM ChildrenAreAUnit == Spec => []NoOrphans
<1>1. SyncServiceInv => NoOrphans
  <2> SUFFICES ASSUME SyncServiceInv PROVE NoOrphans
    OBVIOUS
  <2>1. ASSUME sup.pc \in {"none", "spawn", "decide", "offline", "backoff"}
        PROVE  \A c \in Children : task[c].pc = "none"
    BY <2>1 DEF SyncServiceInv, ChildInv, Children
  <2>2. ASSUME sup.pc \in {"none", "spawn", "decide", "offline", "backoff"}
        PROVE  permit \in {"free", "nse"} \cup (IF sup.pc = "spawn" THEN {"start"} ELSE {})
    BY <2>2 DEF SyncServiceInv, ChildInv, TypeOK
  <2>3. Alive /\ state \in Stopped => \E u \in Users : user[u].pc = "set"
    BY DEF SyncServiceInv, SupervisionInv
  <2> QED
    BY <2>1, <2>2, <2>3 DEF NoOrphans
<1> QED
  BY <1>1, SyncServiceInvariant, PTL

\* What a supervisor acts upon was sent by the children it has, never by those of before an
\* offline period: the check and the wait leave the channel empty.
THEOREM ReportsAreOfThisRun == Spec => []ReportsAreFresh
<1>1. SyncServiceInv => ReportsAreFresh
  BY DEF SyncServiceInv, ChannelInv, ReportsAreFresh
<1> QED
  BY <1>1, SyncServiceInvariant, PTL

\* After the session of one sync has expired, the other does not go on with one of before,
\* although a response to its last request may have been under way.
THEOREM SessionsEndTogether == Spec => []SessionsExpireTogether
<1>1. SyncServiceInv => SessionsExpireTogether
  BY DEF SyncServiceInv, ExpiryInv, SessionsExpireTogether
<1> QED
  BY <1>1, SyncServiceInvariant, PTL

\* However the room list came to set up or to recover, it does so with few rooms.
THEOREM FewRoomsFirst == Spec => []RecoversWithFewRooms
<1>1. SyncServiceInv => RecoversWithFewRooms
  BY DEF SyncServiceInv, FewRoomsInv, RecoversWithFewRooms, Few
<1> QED
  BY <1>1, SyncServiceInvariant, PTL
=============================================================================
