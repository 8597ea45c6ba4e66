-------------------------- MODULE SendQueueProofs --------------------------
(***************************************************************************)
(* What holds of the send queue for every bound, every set of calls of the *)
(* application and every set of failures: one request is on its way, what  *)
(* depends on another follows it, receipts arrive in their order, and what *)
(* is submitted is sent, aborted or still there.                           *)
(***************************************************************************)
EXTENDS SendQueue, TLAPS

-----------------------------------------------------------------------------
(* What the operators on the two tables return *)

\* The fields of the records.
LEMMA Fields ==
    /\ \A r \in Request : /\ r.txn \in Nat /\ r.row \in Nat /\ r.about \in Nat /\ r.body \in Nat
                          /\ r.kind \in RequestKind
    /\ \A d \in Dependent : /\ d.own \in Nat /\ d.parent \in Nat /\ d.row \in Nat
                            /\ d.about \in Nat /\ d.body \in Nat /\ d.kind \in DependentKind
    /\ \A h \in Handle : h.txn \in Nat /\ h.about \in Nat /\ h.file \in Nat /\ h.thumb \in Nat
    BY DEF Request, Dependent, Handle

\* A new dependent request is one.
LEMMA NewDependentType ==
    \A own, parent, row, about, body \in Nat : \A kind \in DependentKind :
        NewDependent(own, parent, row, kind, about, body) \in Dependent
    BY DEF NewDependent, Dependent

\* Changing or removing rows leaves rows.
LEMMA TableTypes ==
    /\ \A q, t : Without(q, t) \subseteq q
    /\ \A q \in SUBSET Request : \A t, body \in Nat : WithBody(q, t, body) \subseteq Request
    /\ \A D, t : WithoutDep(D, t) \subseteq D
    /\ \A D \in SUBSET Dependent : \A t \in Nat : MarkReady(D, t) \subseteq Dependent
    /\ \A D : Canonical(D) \subseteq D
<1>1. ASSUME NEW q \in SUBSET Request, NEW t \in Nat, NEW body \in Nat
      PROVE WithBody(q, t, body) \subseteq Request
    BY DEF WithBody, Request
<1>2. ASSUME NEW D \in SUBSET Dependent, NEW t \in Nat
      PROVE MarkReady(D, t) \subseteq Dependent
    BY DEF MarkReady, Dependent
<1>3. \A q, t : Without(q, t) \subseteq q
    BY DEF Without
<1>4. \A D, t : WithoutDep(D, t) \subseteq D
    BY DEF WithoutDep
<1>5. \A D : Canonical(D) \subseteq D
    BY DEF Canonical
<1>. QED BY <1>1, <1>2, <1>3, <1>4, <1>5

\* Requests stay requests when they become wedged, or no longer are.
LEMMA WedgedTypes ==
    ASSUME NEW q \in SUBSET Request, NEW T
    PROVE WithWedged(q, T, TRUE) \subseteq Request /\ WithWedged(q, T, FALSE) \subseteq Request
    BY DEF WithWedged, Request

\* A dependent request turns into a request.
LEMMA PromotedType ==
    ASSUME RecordsOK, NEW d \in deps
    PROVE Promoted(d) \in Request /\ MediaAfter(d) \subseteq Nat
<1>1. PromotedKind[d.kind] \in RequestKind
    BY DEF RecordsOK, Dependent, DependentKind, PromotedKind, RequestKind, EventKind
<1>2. PromotedAbout(d) \in Nat /\ PromotedHigh(d) \in BOOLEAN /\ d.own \in Nat /\ d.body \in Nat
    BY DEF RecordsOK, Dependent, PromotedAbout, PromotedHigh, NoTxn
<1>3. clock + 1 \in Nat
    BY DEF RecordsOK
<1>. QED BY <1>1, <1>2, <1>3 DEF Promoted, NewRequest, Request, RecordsOK, MediaAfter

\* The server logs entries.
LEMMA AcceptType ==
    ASSUME RecordsOK, NEW r \in Request
    PROVE Accept(r) \in Seq(LogEntry)
<1>1. Entry(r) \in LogEntry
    BY DEF Entry, LogEntry, Request
<1>. QED BY <1>1 DEF RecordsOK, Accept

\* Nothing fails more often than allowed.
LEMMA FailuresType ==
    ASSUME failures \in 0..MaxFailures, NEW kind, NothingFails \/ Fails(kind)
    PROVE failures' \in 0..MaxFailures
    BY SendQueueConstants DEF NothingFails, Fails

-----------------------------------------------------------------------------
(* Type correctness *)

\* cancel_event changes the two tables and what the application knows.
LEMMA CancelTypes ==
    ASSUME RecordsOK, NEW t \in Nat, NEW q \in SUBSET Request, CancelEvent(t, q)
    PROVE /\ queue' \subseteq Request /\ deps' \subseteq Dependent /\ clock' \in Nat
          /\ aborted' \subseteq Nat /\ refused' \subseteq Nat
<1>1. clock' \in Nat
    BY DEF CancelEvent, Draws, RecordsOK
<1>2. queue' \subseteq q
    BY TableTypes DEF CancelEvent
<1>3. NewDependent(clock', t, clock', "redact", NoTxn, 0) \in Dependent
    BY <1>1, NewDependentType DEF DependentKind, NoTxn
<1>4. deps' \subseteq deps \cup {NewDependent(clock', t, clock', "redact", NoTxn, 0)}
    BY DEF CancelEvent
<1>5. aborted' \subseteq aborted \cup {t} /\ refused' \subseteq refused \cup {t}
    BY DEF CancelEvent
<1>. QED BY <1>1, <1>2, <1>3, <1>4, <1>5 DEF RecordsOK

\* Every step of the task, of the server, of the application and of its end
\* leaves the records, numbers and sets in their types.
LEMMA RecordsStep == RecordsOK /\ [Next]_vars => RecordsOK'
<1> SUFFICES ASSUME RecordsOK, [Next]_vars PROVE RecordsOK'
    OBVIOUS
<1>1. CASE OpenRoom \/ Respawn
    BY <1>1 DEF RecordsOK, OpenRoom, Respawn, ForRoom, Label, storeVars, sendVars, userVars
<1>2. CASE LoopStart
  <2>1. deps' \subseteq deps
    BY <1>2, TableTypes DEF LoopStart
  <2>2. todo' \in {todo, {}} \/ todo' = {d.own : d \in deps'}
    BY <1>2 DEF LoopStart, ApplyStops
  <2>3. deps' \subseteq Dependent /\ todo' \subseteq Nat
    BY <2>1, <2>2, Fields DEF RecordsOK
  <2>4. pc' \in Label /\ failures' \in 0..MaxFailures
    BY <1>2, FailuresType DEF LoopStart, ApplyStops, RecordsOK, Label
  <2>. QED
    BY <1>2, <2>3, <2>4 DEF RecordsOK, LoopStart, sendVars, userVars
<1>3. CASE Apply
  <2>1. ASSUME NEW d \in deps, ApplyPromote(d) PROVE RecordsOK'
    <3>1. queue' \subseteq queue \cup {Promoted(d)} /\ deps' \subseteq deps
        BY <2>1, TableTypes DEF ApplyPromote
    <3>2. clock' \in {clock, clock + 1} /\ media' \in {media, MediaAfter(d)}
        BY <2>1 DEF ApplyPromote
    <3>3. pc' \in {pc, "check"} /\ todo' \subseteq todo
        BY <2>1 DEF ApplyPromote, ApplyNext, ApplyStops
    <3>4. failures' \in 0..MaxFailures
        BY <2>1, FailuresType DEF ApplyPromote, RecordsOK
    <3>. QED
        BY <2>1, <3>1, <3>2, <3>3, <3>4, PromotedType DEF RecordsOK, ApplyPromote, Label,
           sendVars, userVars
  <2>2. ASSUME NEW d \in deps, ApplyRedaction(d) PROVE RecordsOK'
    <3>1. deps' \subseteq deps /\ log' \in {log, Accept(Promoted(d))}
        BY <2>2, TableTypes DEF ApplyRedaction
    <3>2. log' \in Seq(LogEntry)
        BY <3>1, PromotedType, AcceptType DEF RecordsOK
    <3>3. failures' \in 0..MaxFailures
        BY <2>2, FailuresType DEF ApplyRedaction, RecordsOK
    <3>4. pc' \in {pc, "check"} /\ todo' \subseteq todo
        BY <2>2 DEF ApplyRedaction, ApplyNext, ApplyStops
    <3>. QED
        BY <2>2, <3>1, <3>2, <3>3, <3>4 DEF RecordsOK, ApplyRedaction, Label, sendVars, userVars
  <2>3. ASSUME NEW d \in deps, ApplyLocally(d) PROVE RecordsOK'
    <3>1. queue' \in {queue, AppliedLocally(d)} /\ deps' \subseteq deps
        BY <2>3, TableTypes DEF ApplyLocally
    <3>2. queue' \subseteq Request
        BY <3>1, TableTypes, Fields DEF AppliedLocally, RecordsOK
    <3>3. pc' \in {pc, "check"} /\ todo' \subseteq todo
        BY <2>3 DEF ApplyLocally, ApplyNext, ApplyStops
    <3>4. failures' \in 0..MaxFailures
        BY <2>3, FailuresType DEF ApplyLocally, RecordsOK
    <3>. QED
        BY <2>3, <3>1, <3>2, <3>3, <3>4 DEF RecordsOK, ApplyLocally, Label, sendVars, userVars
  <2>4. ASSUME NEW d \in deps, ApplyLater(d) PROVE RecordsOK'
    BY <2>4 DEF RecordsOK, ApplyLater, ApplyNext, NothingFails, storeVars, sendVars, userVars
  <2>5. CASE ApplyEnd
    BY <2>5 DEF RecordsOK, ApplyEnd, Label, storeVars, sendVars, userVars
  <2>. QED BY <1>3, <2>1, <2>2, <2>3, <2>4, <2>5 DEF Apply
<1>4. CASE CheckEnabled \/ Woken
    BY <1>4 DEF RecordsOK, CheckEnabled, Woken, Label, storeVars, sendVars, userVars
<1>5. CASE PeekNextToSend
  <2>1. request' \in queue \cup {request} /\ beingSent' \in {beingSent, request'.txn}
    BY <1>5 DEF PeekNextToSend, sendVars
  <2>2. request' \in Request /\ beingSent' \in Nat
    BY <2>1, Fields DEF RecordsOK
  <2>3. pc' \in Label /\ failures' \in 0..MaxFailures
    BY <1>5, FailuresType DEF PeekNextToSend, RecordsOK, Label
  <2>. QED
    BY <1>5, <2>2, <2>3 DEF RecordsOK, PeekNextToSend, storeVars, userVars
<1>6. CASE MarkAsSent
  <2>1. queue' \subseteq queue /\ deps' \in {deps, MarkReady(deps, request.txn)}
    BY <1>6, TableTypes DEF MarkAsSent
  <2>2. queue' \subseteq Request /\ deps' \subseteq Dependent
    BY <2>1, TableTypes, Fields DEF RecordsOK
  <2>3. failures' \in 0..MaxFailures
    BY <1>6, FailuresType DEF MarkAsSent, RecordsOK
  <2>. QED
    BY <1>6, <2>2, <2>3 DEF RecordsOK, MarkAsSent, SendReturns, Label, NoTxn, sendVars, userVars
<1>7. CASE UploadCancelled
    BY <1>7 DEF RecordsOK, UploadCancelled, Label, storeVars, sendVars, userVars
<1>8. CASE ServerAccepts
    BY <1>8, AcceptType DEF RecordsOK, ServerAccepts, storeVars, userVars
<1>9. CASE SendFailsRecoverably
    BY <1>9, SendQueueConstants DEF RecordsOK, SendFailsRecoverably, SendReturns, Fails, Label,
       NoTxn, storeVars, sendVars, userVars
<1>10. CASE SendFailsForGood
  <2>1. queue' \subseteq Request
    BY <1>10, TableTypes, WedgedTypes DEF SendFailsForGood, Wedge, RecordsOK
  <2>2. failures' \in 0..MaxFailures
    BY <1>10, FailuresType DEF SendFailsForGood, RecordsOK
  <2>. QED
    BY <1>10, <2>1, <2>2 DEF RecordsOK, SendFailsForGood, SendReturns, Label, NoTxn, sendVars,
       userVars
<1>11. CASE SubmitStep
  <2>1. ASSUME NEW op, NEW kind \in {"message", "redaction"}, Push(op, kind) PROVE RecordsOK'
    <3>1. clock' \in Nat
        BY <2>1 DEF Push, Draws, RecordsOK
    <3>2. NewRequest(clock', clock', FALSE, kind, NoTxn, clock') \in Request
        BY <3>1 DEF NewRequest, Request, NoTxn, RequestKind, EventKind
    <3>3. PICK type \in {"event", "redaction"} :
            handles' = handles \cup {NewHandle(clock', type, NoTxn, NoTxn, NoTxn)}
      <4>1. CASE op = "send"
          BY <2>1, <4>1 DEF Push
      <4>2. CASE op # "send"
          BY <2>1, <4>2 DEF Push
      <4>. QED BY <4>1, <4>2
    <3>4. NewHandle(clock', type, NoTxn, NoTxn, NoTxn) \in Handle
        BY <3>1 DEF NewHandle, Handle, NoTxn
    <3>5. queue' \subseteq Request /\ handles' \subseteq Handle
        BY <2>1, <3>2, <3>3, <3>4 DEF Push, RecordsOK
    <3>. QED
        BY <2>1, <3>1, <3>5 DEF RecordsOK, Push, Quiet, taskVars, sendVars
  <2>2. CASE PushSuperseding(NoTxn)
    <3>1. clock' \in Nat
      <4>1. clock' \in {clock, clock + 1}
          BY <2>2 DEF PushSuperseding, Draws
      <4>. QED BY <4>1 DEF RecordsOK
    <3>2. NewRequest(clock', clock', TRUE, "receipt", NoTxn, clock') \in Request
        BY <3>1 DEF NewRequest, Request, NoTxn, RequestKind
    <3>3. queue' \subseteq queue \cup {NewRequest(clock', clock', TRUE, "receipt", NoTxn, clock')}
        BY <2>2 DEF PushSuperseding
    <3>4. failures' \in 0..MaxFailures
        BY <2>2, FailuresType DEF PushSuperseding, RecordsOK
    <3>. QED
        BY <2>2, <3>1, <3>2, <3>3, <3>4 DEF RecordsOK, PushSuperseding, taskVars, sendVars, userVars
  <2>3. ASSUME NEW op, SendAttachment(op) PROVE RecordsOK'
    <3> DEFINE event == clock + 1
               file == clock + 2
               thumb == IF op = "thumbnail" THEN clock + 3 ELSE NoTxn
    <3>1. event \in Nat /\ file \in Nat /\ thumb \in Nat /\ clock + 1 \in Nat /\ clock + 2 \in Nat
        BY DEF RecordsOK, NoTxn
    <3>2. media' \subseteq media \cup {file, thumb} /\ queue' \subseteq queue \cup Uploads(event, file, thumb)
        BY <2>3 DEF SendAttachment
    <3>3. deps' \subseteq deps \cup FileUpload(event, file, thumb) \cup FinishUpload(event, file, thumb)
        BY <2>3 DEF SendAttachment
    <3>4. handles' \subseteq handles \cup {NewHandle(event, "event", NoTxn, file, thumb)}
        BY <2>3 DEF SendAttachment
    <3>5. failures' \in 0..MaxFailures
        BY <2>3, FailuresType DEF SendAttachment, RecordsOK
    <3> HIDE DEF event, file, thumb
    <3>6. Uploads(event, file, thumb) \subseteq Request
        BY <3>1 DEF Uploads, NewRequest, Request, RequestKind
    <3>7. /\ FileUpload(event, file, thumb) \subseteq Dependent
          /\ FinishUpload(event, file, thumb) \subseteq Dependent
        BY <3>1, NewDependentType DEF FileUpload, FinishUpload, DependentKind
    <3>8. NewHandle(event, "event", NoTxn, file, thumb) \in Handle
        BY <3>1 DEF NewHandle, Handle, NoTxn
    <3>9. media' \subseteq Nat
        BY <3>1, <3>2 DEF RecordsOK
    <3>. QED
        BY <2>3, <3>1, <3>2, <3>3, <3>4, <3>5, <3>6, <3>7, <3>8, <3>9
           DEF RecordsOK, SendAttachment, Draws, taskVars, sendVars
  <2>. QED BY <1>11, <2>1, <2>2, <2>3 DEF SubmitStep
<1>12. CASE HandleStep
  <2>1. ASSUME NEW h \in handles PROVE h.txn \in Nat /\ h.file \in Nat /\ h.thumb \in Nat
    BY Fields DEF RecordsOK
  <2>2. ASSUME NEW h \in handles, React(h) \/ Reply(h) PROVE RecordsOK'
    <3>1. clock' \in Nat
        BY <2>2 DEF React, Reply, Draws, RecordsOK
    <3>2. PICK kind \in {"react", "reply"}, type \in {"event", "reaction"} :
            /\ deps' = deps \cup {NewDependent(clock', h.txn, clock', kind, NoTxn, clock')}
            /\ handles' = handles \cup {NewHandle(clock', type, h.txn, NoTxn, NoTxn)}
        BY <2>2 DEF React, Reply
    <3>3. NewDependent(clock', h.txn, clock', kind, NoTxn, clock') \in Dependent
        BY <2>1, <3>1, NewDependentType DEF DependentKind, NoTxn
    <3>4. NewHandle(clock', type, h.txn, NoTxn, NoTxn) \in Handle
        BY <2>1, <3>1 DEF NewHandle, Handle, NoTxn
    <3>. QED
        BY <2>2, <3>1, <3>2, <3>3, <3>4 DEF RecordsOK, React, Reply, Quiet, taskVars, sendVars
  <2>3. ASSUME NEW h \in handles, Edit(h) PROVE RecordsOK'
    <3> DEFINE edited == {IF d.own = h.txn THEN [d EXCEPT !.body = clock'] ELSE d : d \in deps}
               new == NewDependent(clock', h.txn, clock', "edit", NoTxn, clock')
    <3>1. clock' \in Nat
        BY <2>3 DEF RecordsOK, Edit, Draws
    <3>2. edited \subseteq Dependent
        BY <3>1 DEF RecordsOK, Dependent
    <3>3. new \in Dependent
        BY <2>1, <3>1, NewDependentType DEF DependentKind, NoTxn
    <3>4. WithBody(queue, h.txn, clock') \subseteq Request
        BY <2>1, <3>1, TableTypes DEF RecordsOK
    <3>5. /\ deps' \in {deps, edited, deps \cup {new}}
          /\ queue' \in {queue, WithBody(queue, h.txn, clock')}
        BY <2>3 DEF Edit
    <3> HIDE DEF edited, new
    <3>6. edits' \subseteq [txn : Nat, body : Nat]
        BY <2>1, <2>3, <3>1 DEF Edit, RecordsOK
    <3>. QED
        BY <2>3, <3>1, <3>2, <3>3, <3>4, <3>5, <3>6 DEF RecordsOK, Edit, Quiet, taskVars, sendVars
  <2>4. ASSUME NEW h \in handles, Abort(h) \/ AbortReaction(h) PROVE RecordsOK'
    <3>1. CASE CancelEvent(h.txn, queue)
        BY <2>1, <2>4, <3>1, CancelTypes DEF RecordsOK, Abort, AbortReaction, Quiet, taskVars,
           sendVars
    <3>2. CASE deps' = WithoutDep(deps, h.txn) /\ aborted' = aborted \cup {h.txn}
                 /\ UNCHANGED <<queue, clock, permit, refused>>
        BY <2>1, <2>4, <3>2, TableTypes DEF RecordsOK, Abort, AbortReaction, Quiet, taskVars,
           sendVars
    <3>. QED BY <2>4, <3>1, <3>2 DEF Abort, AbortReaction
  <2>5. ASSUME NEW h \in handles, AbortMedia(h) PROVE RecordsOK'
    <3> DEFINE gone == IF FileWaits(h) THEN {h.thumb} ELSE {h.thumb, h.file}
               left == {r \in queue : r.txn \notin gone}
               fileLeft == IF FileWaits(h) THEN WithoutDep(deps, h.file) ELSE deps
    <3>1. \/ /\ queue' = left /\ deps' = WithoutDep(fileLeft, h.txn)
             /\ media' = media \ {h.file, h.thumb} /\ aborted' = aborted \cup {h.txn}
             /\ NothingFails /\ UNCHANGED <<clock, refused>>
          \/ CancelEvent(h.txn, left) /\ NothingFails /\ UNCHANGED media
          \/ /\ Fails("store") /\ queue' = left
             /\ deps' \in {deps, fileLeft, WithoutDep(fileLeft, h.txn)}
             /\ UNCHANGED <<media, aborted, refused, clock>>
        BY <2>5 DEF AbortMedia
    <3>2. left \subseteq queue /\ fileLeft \subseteq deps
        BY TableTypes
    <3> HIDE DEF gone, left, fileLeft
    <3>3. WithoutDep(fileLeft, h.txn) \subseteq deps
        BY <3>2, TableTypes
    <3>4. failures' \in 0..MaxFailures
        BY <3>1, FailuresType DEF RecordsOK
    <3>5. /\ queue' \subseteq Request /\ deps' \subseteq Dependent /\ clock' \in Nat
          /\ aborted' \subseteq Nat /\ refused' \subseteq Nat /\ media' \subseteq Nat
      <4>1. CASE CancelEvent(h.txn, left) /\ UNCHANGED media
          BY <2>1, <3>2, <4>1, CancelTypes DEF RecordsOK
      <4>2. CASE queue' = left /\ clock' = clock /\ refused' = refused
          BY <2>1, <3>1, <3>2, <3>3, <4>1, <4>2 DEF RecordsOK
      <4>. QED BY <3>1, <4>1, <4>2
    <3>6. beingSent' \in {NoTxn, beingSent}
        BY <2>5 DEF AbortMedia
    <3>. QED
        BY <2>5, <3>4, <3>5, <3>6 DEF RecordsOK, AbortMedia, NoTxn
  <2>6. ASSUME NEW h \in handles \cup EchoHandles, Unwedge(h) PROVE RecordsOK'
    <3>1. \E T : queue' = WithWedged(queue, T, FALSE)
        BY <2>6 DEF Unwedge
    <3>2. failures' \in 0..MaxFailures
        BY <2>6, FailuresType DEF RecordsOK, Unwedge
    <3>3. queue' \subseteq Request
        BY <3>1, WedgedTypes DEF RecordsOK
    <3>. QED
        BY <2>6, <3>2, <3>3 DEF RecordsOK, Unwedge, taskVars, sendVars, userVars
  <2>. QED BY <1>12, <2>2, <2>3, <2>4, <2>5, <2>6 DEF HandleStep
<1>13. CASE SwitchStep
  <2>1. ASSUME NEW T \in SUBSET Wedged, RetryVerified(T) PROVE RecordsOK'
    BY <2>1, WedgedTypes DEF RecordsOK, RetryVerified, ForRoom, Label, sendVars, userVars
  <2>2. ASSUME NEW b \in BOOLEAN, SetEnabled(b) \/ SetGloballyEnabled(b) PROVE RecordsOK'
    BY <2>2 DEF RecordsOK, SetEnabled, SetGloballyEnabled, Label, storeVars, taskVars, sendVars,
       userVars
  <2>. QED BY <1>13, <2>1, <2>2 DEF SwitchStep
<1>14. CASE DropClient
    BY <1>14, FailuresType DEF RecordsOK, DropClient, storeVars, taskVars, sendVars, userVars
<1>15. CASE Restart
  <2>1. NoRequest \in Request
    BY DEF NoRequest, NewRequest, Request, RequestKind, EventKind, NoTxn
  <2>2. failures' \in 0..MaxFailures
    BY <1>15, FailuresType DEF Restart, RecordsOK
  <2>. QED BY <1>15, <2>1, <2>2 DEF RecordsOK, Restart, Label, NoTxn, storeVars, userVars
<1>16. CASE UNCHANGED vars
    BY <1>16 DEF RecordsOK, vars, storeVars, taskVars, sendVars, userVars
<1>. QED
    BY <1>1, <1>2, <1>3, <1>4, <1>5, <1>6, <1>7, <1>8, <1>9, <1>10, <1>11, <1>12, <1>13,
       <1>14, <1>15, <1>16 DEF Next, TaskStep, SendFails

\* The same for the flags.
LEMMA FlagsStep == FlagsOK /\ [Next]_vars => FlagsOK'
<1> SUFFICES ASSUME FlagsOK, [Next]_vars PROVE FlagsOK'
    OBVIOUS
<1> USE DEF FlagsOK, storeVars, switchVars, taskVars, sendVars, userVars
<1>1. CASE OpenRoom \/ Respawn
    BY <1>1 DEF OpenRoom, Respawn, ForRoom
<1>2. CASE TaskStep
  <2>1. CASE LoopStart \/ CheckEnabled \/ Woken \/ MarkAsSent \/ UploadCancelled
    BY <2>1 DEF LoopStart, CheckEnabled, Woken, MarkAsSent, UploadCancelled
  <2>2. CASE Apply
    BY <2>2 DEF Apply, ApplyPromote, ApplyRedaction, ApplyLocally, ApplyLater, ApplyEnd
  <2>3. CASE PeekNextToSend
    BY <2>3 DEF PeekNextToSend
  <2>. QED BY <1>2, <2>1, <2>2, <2>3 DEF TaskStep
<1>3. CASE ServerAccepts \/ SendFails
    BY <1>3 DEF ServerAccepts, SendFails, SendFailsRecoverably, SendFailsForGood
<1>4. CASE SubmitStep
    BY <1>4 DEF SubmitStep, Push, PushSuperseding, SendAttachment, Notify, Quiet
<1>5. CASE HandleStep
  <2>1. ASSUME NEW h \in handles, React(h) \/ Reply(h) \/ Edit(h) PROVE FlagsOK'
    BY <2>1 DEF React, Reply, Edit, Notify, Quiet
  <2>2. ASSUME NEW t, NEW q, CancelEvent(t, q) PROVE permit' \in BOOLEAN
    BY <2>2 DEF CancelEvent, Notify
  <2>3. ASSUME NEW h \in handles, Abort(h) \/ AbortReaction(h) PROVE FlagsOK'
    BY <2>2, <2>3 DEF Abort, AbortReaction, Quiet
  <2>4. ASSUME NEW h \in handles, AbortMedia(h) PROVE FlagsOK'
    <3>1. cancelled' \in BOOLEAN
        BY <2>4 DEF AbortMedia
    <3>2. permit' \in BOOLEAN
        BY <2>2, <2>4 DEF AbortMedia, Notify
    <3>. QED BY <2>4, <3>1, <3>2 DEF AbortMedia
  <2>5. ASSUME NEW h \in handles \cup EchoHandles, Unwedge(h) PROVE FlagsOK'
    BY <2>5 DEF Unwedge, Notify, Quiet
  <2>. QED BY <1>5, <2>1, <2>3, <2>4, <2>5 DEF HandleStep
<1>6. CASE SwitchStep
    BY <1>6 DEF SwitchStep, RetryVerified, SetEnabled, SetGloballyEnabled, ForRoom, Notify
<1>7. CASE DropClient \/ Restart
    BY <1>7 DEF DropClient, Restart, Notify
<1>8. CASE UNCHANGED vars
    BY <1>8 DEF vars
<1>. QED BY <1>1, <1>2, <1>3, <1>4, <1>5, <1>6, <1>7, <1>8 DEF Next

\* Every variable of the send queue stays in its type: what the two tables, the
\* handles and the server hold are always well-formed records, and no more goes
\* wrong than the bound allows.
THEOREM TypeCorrect == Spec => []TypeOK
<1>1. Init => RecordsOK
  <2>1. NoRequest \in Request
    BY DEF NoRequest, NewRequest, Request, RequestKind, EventKind, NoTxn
  <2>. QED BY <2>1, SendQueueConstants DEF Init, RecordsOK, Label, NoTxn
<1>2. Init => FlagsOK
    BY DEF Init, FlagsOK
<1>3. RecordsOK /\ FlagsOK <=> TypeOK
    BY DEF TypeOK
<1>. QED BY <1>1, <1>2, <1>3, RecordsStep, FlagsStep, PTL DEF Spec

-----------------------------------------------------------------------------
(* One request at a time *)

\* What makes it inductive: an upload that is cancelled is given up by being_sent
\* before the task finds out.
OneInv == OneAtATime /\ (cancelled => beingSent = NoTxn)

\* Nothing but PeekNextToSend sets being_sent, and it does so for the request that
\* the task then sends; the task goes on to something else only when being_sent
\* was taken, by itself or by abort_upload.
LEMMA OneStep == OneInv /\ [Next]_vars => OneInv'
<1> SUFFICES ASSUME OneInv, [Next]_vars PROVE OneInv'
    OBVIOUS
<1> USE DEF OneInv, OneAtATime
<1>1. CASE OpenRoom \/ Respawn
    BY <1>1 DEF OpenRoom, Respawn, ForRoom, sendVars
<1>2. CASE LoopStart \/ CheckEnabled \/ Woken
    BY <1>2 DEF LoopStart, CheckEnabled, Woken, sendVars
<1>3. CASE Apply
  <2>1. pc = "apply" /\ pc' \in {"apply", "check"} /\ UNCHANGED <<beingSent, sendVars>>
    BY <1>3 DEF Apply, ApplyPromote, ApplyRedaction, ApplyLocally, ApplyLater, ApplyEnd, IsNext,
       ApplyNext, ApplyStops
  <2>. QED BY <2>1 DEF sendVars
<1>4. CASE PeekNextToSend
  <2>1. CASE beingSent' = request'.txn /\ pc' = "send" /\ cancelled' = FALSE
    BY <2>1
  <2>2. CASE UNCHANGED <<beingSent, sendVars>>
    BY <1>4, <2>2 DEF PeekNextToSend, sendVars
  <2>. QED BY <1>4, <2>1, <2>2 DEF PeekNextToSend
<1>5. CASE MarkAsSent \/ SendFails
    BY <1>5 DEF MarkAsSent, SendFails, SendFailsRecoverably, SendFailsForGood, SendReturns
<1>6. CASE UploadCancelled \/ ServerAccepts
    BY <1>6 DEF UploadCancelled, ServerAccepts, sendVars
<1>7. CASE SubmitStep
  <2>1. UNCHANGED <<beingSent, taskVars>>
    BY <1>7 DEF SubmitStep, Push, PushSuperseding, SendAttachment, Quiet
  <2>. QED BY <2>1 DEF taskVars, sendVars
<1>8. CASE HandleStep
  <2>1. ASSUME NEW h \in handles, AbortMedia(h) PROVE OneInv'
    <3>1. \/ beingSent' = NoTxn
          \/ UNCHANGED <<beingSent, cancelled>>
        BY <2>1 DEF AbortMedia
    <3>. QED BY <2>1, <3>1 DEF AbortMedia
  <2>2. ASSUME NEW h, \/ React(h) \/ Reply(h) \/ Edit(h) \/ Abort(h) \/ AbortReaction(h)
                      \/ Unwedge(h)
        PROVE OneInv'
    <3>1. UNCHANGED <<beingSent, taskVars>>
        BY <2>2 DEF React, Reply, Edit, Abort, AbortReaction, Unwedge, Quiet
    <3>. QED BY <3>1 DEF taskVars, sendVars
  <2>. QED BY <1>8, <2>1, <2>2 DEF HandleStep
<1>9. CASE SwitchStep
  <2>1. UNCHANGED <<beingSent, sendVars>> /\ (pc' = pc \/ pc = "off")
    BY <1>9 DEF SwitchStep, RetryVerified, SetEnabled, SetGloballyEnabled, ForRoom, taskVars
  <2>. QED BY <2>1 DEF sendVars
<1>10. CASE DropClient \/ Restart
  <2>1. UNCHANGED <<beingSent, taskVars>> \/ (beingSent' = NoTxn /\ ~ cancelled')
    BY <1>10 DEF DropClient, Restart
  <2>. QED BY <2>1 DEF taskVars, sendVars
<1>11. CASE UNCHANGED vars
    BY <1>11 DEF vars, taskVars, sendVars
<1>. QED
    BY <1>1, <1>2, <1>3, <1>4, <1>5, <1>6, <1>7, <1>8, <1>9, <1>10, <1>11 DEF Next, TaskStep

\* being_sent is set only while the task sends that very request, so whatever finds
\* it set (cancel_event, replace_event, push_superseding) decides about the request
\* that is on its way, and dependents are applied only when none is.
THEOREM OneRequestAtATime == Spec => []OneAtATime
<1>1. Init => OneInv
    BY DEF Init, OneInv, OneAtATime
<1>2. OneInv => OneAtATime
    BY DEF OneInv
<1>. QED BY <1>1, <1>2, OneStep, PTL DEF Spec

-----------------------------------------------------------------------------
(* Causes before effects *)

SameRequest(r, s) == r.txn = s.txn /\ r.kind = s.kind /\ r.about = s.about
SameDependent(d, e) == d.own = e.own /\ d.parent = e.parent /\ d.kind = e.kind
Fresh(t) == clock < t /\ t <= clock'

\* What a step may do to keep causes before effects.  A request was there before, or
\* was a dependent request that may be sent, or is new and about nothing.
RequestsFrom ==
    \A r \in queue' \cup {request'} :
        \/ r = NoRequest
        \/ \E s \in queue \cup {request} : SameRequest(r, s)
        \/ \E d \in deps : /\ d.own = r.txn /\ r.kind # "receipt"
                           /\ r.kind = "upload" => d.kind = "file"
                           /\ r.kind # "upload" /\ r.about # NoTxn => OnServer(r.about)
        \/ Fresh(r.txn) /\ (r.kind # "upload" => r.about = NoTxn)

\* A dependent request was there before, and gets its parent_key only when the
\* parent is delivered, or is new, waits, and was made with a handle.
DependentsFrom ==
    \A d \in deps' :
        \/ \E e \in deps : /\ SameDependent(d, e)
                           /\ d.sent => e.sent \/ (delivered /\ d.parent = request.txn)
        \/ /\ Fresh(d.own) /\ ~ d.sent /\ d.parent <= clock'
           /\ d.kind \notin {"file", "finish"} => \E h \in handles : h.txn = d.parent

\* A handle was there before or is for a new event.
HandlesFrom == \A h \in handles' : h \in handles \/ (Fresh(h.txn) /\ IsEventTxn(h.txn)')

\* The server gets something that is about nothing, or about what it has.
LogFrom ==
    \/ log' = log
    \/ \E e \in LogEntry : log' = Append(log, e) /\ (e.about # NoTxn => OnServer(e.about))

\* What is said to be delivered is on the server.
DeliveredFrom ==
    delivered' => \/ delivered /\ request' = request
                  \/ request'.kind \in {"upload", "receipt"}
                  \/ OnServer(request.txn)'

\* The server forgets nothing.
LEMMA OnServerStays ==
    ASSUME log \in Seq(LogEntry), LogFrom, NEW t, OnServer(t)
    PROVE OnServer(t)'
<1>1. CASE log' = log
    BY <1>1 DEF OnServer
<1>2. ASSUME NEW e \in LogEntry, log' = Append(log, e) PROVE OnServer(t)'
    BY <1>2 DEF OnServer
<1>. QED BY <1>1, <1>2 DEF LogFrom

\* A step that only does these keeps the invariant.
LEMMA CausalFrame ==
    ASSUME RecordsOK, RecordsOK', CausalInv, clock <= clock',
           RequestsFrom, DependentsFrom, HandlesFrom, LogFrom, DeliveredFrom
    PROVE CausalInv'
<1>1. \A t : OnServer(t) => OnServer(t)'
    BY OnServerStays DEF RecordsOK
<1>2. clock \in Nat /\ clock' \in Nat
    BY DEF RecordsOK
<1>3. /\ \A r \in queue \cup {request} : r.txn \in Nat /\ r.txn <= clock
      /\ \A d \in deps : d.own \in Nat /\ d.parent \in Nat /\ d.own <= clock /\ d.parent <= clock
      /\ \A h \in handles : h.txn \in Nat /\ h.txn <= clock /\ IsEventTxn(h.txn)
    BY Fields DEF RecordsOK, CausalInv, TxnInv
<1>4. /\ \A r \in queue' \cup {request'} : r.txn \in Nat
      /\ \A d \in deps' : d.own \in Nat /\ d.parent \in Nat
      /\ \A h \in handles' : h.txn \in Nat
    BY Fields DEF RecordsOK
<1>5. ASSUME NEW t \in Nat, t <= clock, IsEventTxn(t) PROVE IsEventTxn(t)'
  <2>1. ASSUME NEW r \in queue' \cup {request'}, r.txn = t
        PROVE r.kind \notin {"upload", "receipt"}
    <3>1. CASE r = NoRequest
        BY <3>1 DEF NoRequest, NewRequest
    <3>2. ASSUME NEW s \in queue \cup {request}, SameRequest(r, s)
          PROVE r.kind \notin {"upload", "receipt"}
        BY <1>5, <2>1, <3>2 DEF IsEventTxn, SameRequest
    <3>3. ASSUME NEW d \in deps, d.own = r.txn, r.kind # "receipt", r.kind = "upload" => d.kind = "file"
          PROVE r.kind \notin {"upload", "receipt"}
        BY <1>5, <2>1, <3>3 DEF IsEventTxn
    <3>4. ~ Fresh(r.txn)
        BY <1>2, <1>5, <2>1 DEF Fresh
    <3>. QED BY <2>1, <3>1, <3>2, <3>3, <3>4 DEF RequestsFrom
  <2>2. ASSUME NEW d \in deps', d.own = t PROVE d.kind # "file"
    <3>1. ~ Fresh(d.own)
        BY <1>2, <1>5, <2>2 DEF Fresh
    <3>2. PICK e \in deps : SameDependent(d, e)
        BY <3>1, <2>2 DEF DependentsFrom
    <3>. QED BY <1>5, <2>2, <3>2 DEF IsEventTxn, SameDependent
  <2>. QED BY <2>1, <2>2 DEF IsEventTxn
<1>6. TxnInv'
  <2>1. ASSUME NEW r \in queue' \cup {request'} PROVE r.txn <= clock'
    <3>1. CASE r = NoRequest
        BY <1>2, <3>1 DEF NoRequest, NewRequest, NoTxn
    <3>2. CASE \E s \in queue \cup {request} : r.txn = s.txn
        BY <1>2, <1>3, <3>2
    <3>3. CASE \E d \in deps : d.own = r.txn
        BY <1>2, <1>3, <3>3
    <3>4. CASE Fresh(r.txn)
        BY <3>4 DEF Fresh
    <3>. QED BY <2>1, <3>1, <3>2, <3>3, <3>4 DEF RequestsFrom, SameRequest
  <2>2. ASSUME NEW d \in deps'
        PROVE /\ d.own <= clock' /\ d.parent <= clock'
              /\ d.kind \notin {"file", "finish"} => IsEventTxn(d.parent)'
    <3>1. ASSUME NEW e \in deps, SameDependent(d, e)
          PROVE /\ d.own <= clock' /\ d.parent <= clock'
                /\ d.kind \notin {"file", "finish"} => IsEventTxn(d.parent)'
      <4>1. d.kind \notin {"file", "finish"} => IsEventTxn(d.parent)
          BY <3>1 DEF CausalInv, TxnInv, SameDependent
      <4>2. d.parent \in Nat /\ d.parent <= clock /\ d.own \in Nat /\ d.own <= clock
          BY <1>3, <3>1 DEF SameDependent
      <4>. QED BY <1>2, <1>5, <4>1, <4>2
    <3>2. ASSUME Fresh(d.own), d.parent <= clock',
                 d.kind \notin {"file", "finish"} => \E h \in handles : h.txn = d.parent
          PROVE /\ d.own <= clock' /\ d.parent <= clock'
                /\ d.kind \notin {"file", "finish"} => IsEventTxn(d.parent)'
        BY <1>3, <1>5, <3>2 DEF Fresh
    <3>. QED BY <2>2, <3>1, <3>2 DEF DependentsFrom
  <2>3. ASSUME NEW h \in handles' PROVE h.txn <= clock' /\ IsEventTxn(h.txn)'
    <3>1. CASE h \in handles
        BY <1>2, <1>3, <1>5, <3>1
    <3>2. CASE Fresh(h.txn) /\ IsEventTxn(h.txn)'
        BY <3>2 DEF Fresh
    <3>. QED BY <2>3, <3>1, <3>2 DEF HandlesFrom
  <2>. QED BY <2>1, <2>2, <2>3 DEF TxnInv
<1>7. KeyInv'
  <2>1. ASSUME NEW d \in deps', d.kind \notin {"file", "finish"}, d.sent
        PROVE OnServer(d.parent)'
    <3>1. PICK e \in deps : /\ SameDependent(d, e)
                            /\ d.sent => e.sent \/ (delivered /\ d.parent = request.txn)
        BY <2>1 DEF DependentsFrom
    <3>2. CASE e.sent
        BY <1>1, <2>1, <3>1, <3>2 DEF CausalInv, KeyInv, SameDependent
    <3>3. CASE delivered /\ d.parent = request.txn
      <4>1. IsEventTxn(d.parent)
          BY <2>1, <3>1 DEF CausalInv, TxnInv, SameDependent
      <4>2. request.kind \notin {"upload", "receipt"}
          BY <3>3, <4>1 DEF IsEventTxn
      <4>. QED BY <1>1, <3>3, <4>2 DEF CausalInv, KeyInv
    <3>. QED BY <2>1, <3>1, <3>2, <3>3
  <2>2. ASSUME NEW r \in queue' \cup {request'}, r.kind # "upload", r.about # NoTxn
        PROVE OnServer(r.about)'
    <3>1. r # NoRequest
        BY <2>2 DEF NoRequest, NewRequest
    <3>2. CASE \E s \in queue \cup {request} : SameRequest(r, s)
        BY <1>1, <2>2, <3>2 DEF CausalInv, KeyInv, SameRequest
    <3>. QED BY <1>1, <2>2, <3>1, <3>2 DEF RequestsFrom
  <2>3. ASSUME delivered', request'.kind \notin {"upload", "receipt"}
        PROVE OnServer(request.txn)'
    <3>1. CASE OnServer(request.txn)'
        BY <3>1
    <3>2. CASE delivered /\ request' = request
      <4>1. request.kind \notin {"upload", "receipt"}
          BY <2>3, <3>2
      <4>2. OnServer(request.txn)
          BY <3>2, <4>1 DEF CausalInv, KeyInv
      <4>. QED BY <1>1, <3>2, <4>2
    <3>. QED BY <2>3, <3>1, <3>2 DEF DeliveredFrom
  <2>. QED
    <3>1. \A d \in deps' : d.kind \notin {"file", "finish"} /\ d.sent => OnServer(d.parent)'
        BY <2>1
    <3>2. \A r \in queue' \cup {request'} : r.kind # "upload" /\ r.about # NoTxn => OnServer(r.about)'
        BY <2>2
    <3>3. delivered' /\ request'.kind \notin {"upload", "receipt"} => OnServer(request.txn)'
        BY <2>3
    <3>. QED BY <3>1, <3>2, <3>3 DEF KeyInv
<1>8. ParentFirst'
  <2>1. CASE log' = log
    BY <2>1 DEF CausalInv, ParentFirst
  <2>2. ASSUME NEW e \in LogEntry, log' = Append(log, e), e.about # NoTxn => OnServer(e.about)
        PROVE ParentFirst'
    <3>1. /\ log \in Seq(LogEntry) /\ Len(log) \in Nat /\ Len(log') = Len(log) + 1
          /\ \A i \in 1..Len(log) : log'[i] = log[i]
          /\ log'[Len(log) + 1] = e /\ DOMAIN log' = 1..(Len(log) + 1) /\ DOMAIN log = 1..Len(log)
        BY <2>2 DEF RecordsOK
    <3>2. SUFFICES ASSUME NEW i \in DOMAIN log', log'[i].about # NoTxn
                   PROVE \E j \in 1..(i - 1) : log'[j].txn = log'[i].about
        BY DEF ParentFirst
    <3>3. CASE i \in 1..Len(log)
      <4>1. PICK j \in 1..(i - 1) : log[j].txn = log[i].about
          BY <3>1, <3>2, <3>3 DEF CausalInv, ParentFirst
      <4>2. j \in 1..Len(log)
          BY <3>1, <3>3
      <4>. QED BY <3>1, <3>3, <4>1, <4>2
    <3>4. CASE i = Len(log) + 1
      <4>1. PICK j \in DOMAIN log : log[j].txn = e.about
          BY <2>2, <3>1, <3>2, <3>4 DEF OnServer
      <4>. QED BY <3>1, <3>4, <4>1
    <3>. QED BY <3>1, <3>3, <3>4
  <2>. QED BY <2>1, <2>2 DEF LogFrom
<1>. QED BY <1>6, <1>7, <1>8 DEF CausalInv

QueueKept == \A r \in queue' : \E s \in queue : SameRequest(r, s)
TaskKept ==
    \/ request' = request /\ delivered' = delivered
    \/ request' \in queue \cup {NoRequest} /\ delivered' = FALSE

\* Rows that are changed or removed are still the rows they were.
LEMMA Kept ==
    /\ \A r : SameRequest(r, r)
    /\ \A q, t : \A r \in Without(q, t) : r \in q
    /\ \A q \in SUBSET Request : \A t, body : \A r \in WithBody(q, t, body) :
          \E s \in q : SameRequest(r, s)
    /\ \A q \in SUBSET Request : \A T : \A r \in WithWedged(q, T, TRUE) :
          \E s \in q : SameRequest(r, s)
    /\ \A q \in SUBSET Request : \A T : \A r \in WithWedged(q, T, FALSE) :
          \E s \in q : SameRequest(r, s)
<1>1. \A r : SameRequest(r, r)
    BY DEF SameRequest
<1>2. \A q, t : \A r \in Without(q, t) : r \in q
    BY DEF Without
<1>3. ASSUME NEW q \in SUBSET Request, NEW t, NEW body, NEW r \in WithBody(q, t, body)
      PROVE \E s \in q : SameRequest(r, s)
    BY <1>3 DEF WithBody, SameRequest, Request
<1>4. ASSUME NEW q \in SUBSET Request, NEW T, NEW r \in WithWedged(q, T, TRUE)
      PROVE \E s \in q : SameRequest(r, s)
    BY <1>4 DEF WithWedged, SameRequest, Request
<1>5. ASSUME NEW q \in SUBSET Request, NEW T, NEW r \in WithWedged(q, T, FALSE)
      PROVE \E s \in q : SameRequest(r, s)
    BY <1>5 DEF WithWedged, SameRequest, Request
<1>. QED BY <1>1, <1>2, <1>3, <1>4, <1>5

\* The conditions of CausalFrame for what a step leaves alone.
LEMMA KeptFrom ==
    /\ QueueKept /\ TaskKept => RequestsFrom
    /\ deps' \subseteq deps => DependentsFrom
    /\ handles' = handles => HandlesFrom
    /\ log' = log => LogFrom
    /\ TaskKept => DeliveredFrom
<1>1. ASSUME QueueKept, TaskKept PROVE RequestsFrom
  <2>1. request' \in queue \cup {request, NoRequest}
    BY <1>1 DEF TaskKept
  <2>. QED BY <1>1, <2>1, Kept DEF QueueKept, RequestsFrom
<1>2. ASSUME deps' \subseteq deps PROVE DependentsFrom
    BY <1>2 DEF DependentsFrom, SameDependent
<1>3. (handles' = handles => HandlesFrom) /\ (log' = log => LogFrom)
    BY DEF HandlesFrom, LogFrom
<1>4. ASSUME TaskKept PROVE DeliveredFrom
    BY <1>4 DEF TaskKept, DeliveredFrom
<1>. QED BY <1>1, <1>2, <1>3, <1>4

\* A step that adds nothing keeps the invariant.
LEMMA CausalQuiet ==
    ASSUME RecordsOK, RecordsOK', CausalInv, clock <= clock',
           QueueKept, TaskKept, deps' \subseteq deps, handles' = handles, log' = log
    PROVE CausalInv'
    BY CausalFrame, KeptFrom

\* The steps of the task that add nothing: they remove dependent requests, change
\* requests in place, take the next one or give one up.
LEMMA CausalTaskQuiet ==
    ASSUME RecordsOK, RecordsOK', CausalInv,
           \/ LoopStart \/ ApplyEnd \/ CheckEnabled \/ Woken \/ PeekNextToSend \/ UploadCancelled
           \/ SendFails \/ \E d \in deps : ApplyLocally(d) \/ ApplyLater(d)
    PROVE CausalInv'
<1>1. clock' = clock /\ clock <= clock'
  <2>1. clock' = clock
    BY DEF LoopStart, ApplyEnd, CheckEnabled, Woken, PeekNextToSend, UploadCancelled, SendFails,
       SendFailsRecoverably, SendFailsForGood, ApplyLocally, ApplyLater
  <2>. QED BY <2>1 DEF RecordsOK
<1>2. handles' = handles /\ log' = log
    BY DEF LoopStart, ApplyEnd, CheckEnabled, Woken, PeekNextToSend, UploadCancelled, SendFails,
       SendFailsRecoverably, SendFailsForGood, ApplyLocally, ApplyLater, userVars
<1>3. deps' \subseteq deps
  <2>1. CASE LoopStart
    BY <2>1, TableTypes DEF LoopStart
  <2>2. ASSUME NEW d \in deps, ApplyLocally(d) PROVE deps' \subseteq deps
    BY <2>2, TableTypes DEF ApplyLocally
  <2>3. CASE deps' = deps
    BY <2>3
  <2>. QED
    BY <2>1, <2>2, <2>3 DEF ApplyEnd, CheckEnabled, Woken, PeekNextToSend, UploadCancelled,
       SendFails, SendFailsRecoverably, SendFailsForGood, ApplyLater, storeVars
<1>4. QueueKept
  <2>1. ASSUME NEW d \in deps, ApplyLocally(d) PROVE QueueKept
    <3>1. queue' = queue \/ queue' = AppliedLocally(d)
        BY <2>1 DEF ApplyLocally
    <3>. QED BY <3>1, Kept DEF AppliedLocally, QueueKept, RecordsOK
  <2>2. CASE SendFailsForGood
    <3>1. queue' = queue \/ queue' = Wedge(request)
        BY <2>2 DEF SendFailsForGood
    <3>2. CASE queue' = WithWedged(queue, {request.txn}, TRUE)
        BY <3>2, Kept DEF QueueKept, RecordsOK
    <3>3. CASE queue' = queue \/ queue' = Without(queue, request.txn)
        BY <3>3, Kept DEF QueueKept
    <3>. QED BY <3>1, <3>2, <3>3 DEF Wedge
  <2>3. CASE queue' = queue
    BY <2>3, Kept DEF QueueKept
  <2>. QED
    BY <2>1, <2>2, <2>3 DEF LoopStart, ApplyEnd, CheckEnabled, Woken, PeekNextToSend,
       UploadCancelled, SendFails, SendFailsRecoverably, ApplyLater, storeVars
<1>5. TaskKept
  <2>1. ASSUME NEW r \in queue, request' = r, delivered' = FALSE PROVE TaskKept
    BY <2>1 DEF TaskKept
  <2>2. CASE UNCHANGED sendVars
    BY <2>2 DEF TaskKept, sendVars
  <2>. QED
    BY <2>1, <2>2 DEF LoopStart, ApplyEnd, CheckEnabled, Woken, PeekNextToSend, UploadCancelled,
       SendFails, SendFailsRecoverably, SendFailsForGood, ApplyLocally, ApplyLater
<1>. QED BY <1>1, <1>2, <1>3, <1>4, <1>5, CausalQuiet

\* A dependent request is applied only when its parent is on the server.
LEMMA CausalApply ==
    ASSUME RecordsOK, RecordsOK', CausalInv, NEW d \in deps, ApplyPromote(d) \/ ApplyRedaction(d)
    PROVE CausalInv'
<1>1. d.sent /\ UNCHANGED <<sendVars, userVars>>
    BY DEF ApplyPromote, ApplyRedaction, IsReady
<1>2. TaskKept /\ handles' = handles
    BY <1>1 DEF TaskKept, sendVars, userVars
<1>3. clock <= clock'
  <2>1. clock' \in {clock, clock + 1}
    BY DEF ApplyPromote, ApplyRedaction
  <2>. QED BY <2>1 DEF RecordsOK
<1>4. deps' \subseteq deps
    BY TableTypes DEF ApplyPromote, ApplyRedaction
<1>5. /\ Promoted(d).txn = d.own
      /\ Promoted(d).kind # "receipt"
      /\ Promoted(d).kind = "upload" => d.kind = "file"
      /\ Promoted(d).kind # "upload" /\ Promoted(d).about # NoTxn => OnServer(Promoted(d).about)
  <2>1. d.kind \in DependentKind
    BY Fields DEF RecordsOK
  <2>2. d.kind \notin {"file", "finish"} => OnServer(d.parent)
    BY <1>1 DEF CausalInv, KeyInv
  <2>. QED
    BY <2>1, <2>2 DEF Promoted, NewRequest, PromotedKind, PromotedAbout, DependentKind
<1>6. CASE ApplyPromote(d)
  <2>1. queue' \subseteq queue \cup {Promoted(d)} /\ log' = log
    BY <1>6 DEF ApplyPromote
  <2>2. request' = request
    BY <1>1 DEF sendVars
  <2>3. RequestsFrom
    BY <1>5, <2>1, <2>2, Kept DEF RequestsFrom
  <2>. QED BY <1>2, <1>3, <1>4, <2>1, <2>3, KeptFrom, CausalFrame
<1>7. CASE ApplyRedaction(d)
  <2>1. queue' = queue /\ log' \in {log, Accept(Promoted(d))}
    BY <1>7 DEF ApplyRedaction
  <2>2. QueueKept
    BY <2>1, Kept DEF QueueKept
  <2>3. Promoted(d).kind = "redaction"
    BY <1>7 DEF ApplyRedaction, Promoted, NewRequest, PromotedKind
  <2>4. Entry(Promoted(d)) \in LogEntry /\ Entry(Promoted(d)).about = Promoted(d).about
    BY PromotedType DEF Entry, LogEntry, Request
  <2>5. LogFrom
    BY <1>5, <2>1, <2>3, <2>4 DEF LogFrom, Accept
  <2>. QED BY <1>2, <1>3, <1>4, <2>2, <2>5, KeptFrom, CausalFrame
<1>. QED BY <1>6, <1>7

\* What is sent is about what was sent before, and what depends on it is told only
\* when it was delivered.
LEMMA CausalSend ==
    ASSUME RecordsOK, RecordsOK', CausalInv, ServerAccepts \/ MarkAsSent
    PROVE CausalInv'
<1>1. clock <= clock' /\ clock' = clock /\ handles' = handles /\ request' = request
  <2>1. clock' = clock /\ handles' = handles /\ request' = request
    BY DEF ServerAccepts, MarkAsSent, sendVars, userVars
  <2>. QED BY <2>1 DEF RecordsOK
<1>2. CASE ServerAccepts
  <2>1. queue' = queue /\ deps' = deps
    BY <1>2 DEF ServerAccepts, storeVars
  <2>2. RequestsFrom
    BY <1>1, <2>1, Kept DEF RequestsFrom
  <2>3. Entry(request) \in LogEntry /\ Entry(request).about = request.about
    BY DEF RecordsOK, Entry, LogEntry, Request
  <2>4. LogFrom
    <3>1. CASE log' = log
        BY <3>1 DEF LogFrom
    <3>2. CASE request.kind # "upload" /\ log' = Append(log, Entry(request))
      <4>1. request.about # NoTxn => OnServer(request.about)
          BY <3>2 DEF CausalInv, KeyInv
      <4>. QED BY <2>3, <3>2, <4>1 DEF LogFrom
    <3>. QED BY <1>2, <3>1, <3>2 DEF ServerAccepts, Accept
  <2>5. DeliveredFrom
    <3>1. CASE request.kind \in {"upload", "receipt"}
        BY <1>1, <3>1 DEF DeliveredFrom
    <3>2. CASE request.kind \notin {"upload", "receipt"}
      <4>1. log' = Accept(request)
          BY <1>2, <3>2 DEF ServerAccepts
      <4>2. CASE OnServer(request.txn)
        <5>1. log' = log
            BY <4>1, <4>2 DEF Accept
        <5>. QED BY <1>1, <4>2, <5>1 DEF OnServer, DeliveredFrom
      <4>3. CASE ~ OnServer(request.txn)
        <5>1. log' = Append(log, Entry(request))
            BY <4>1, <4>3 DEF Accept
        <5>2. /\ log \in Seq(LogEntry) /\ Len(log) + 1 \in DOMAIN log'
              /\ log'[Len(log) + 1] = Entry(request)
            BY <2>3, <5>1 DEF RecordsOK
        <5>3. Entry(request).txn = request.txn /\ Entry(request).kind = request.kind
            BY DEF Entry
        <5>4. OnServer(request.txn)'
            BY <1>1, <3>2, <5>2, <5>3 DEF OnServer
        <5>. QED BY <5>4 DEF DeliveredFrom
      <4>. QED BY <4>2, <4>3
    <3>. QED BY <3>1, <3>2
  <2>. QED BY <1>1, <2>1, <2>2, <2>4, <2>5, KeptFrom, CausalFrame
<1>3. CASE MarkAsSent
  <2>1. /\ delivered /\ log' = log /\ delivered' = delivered
        /\ queue' \subseteq queue /\ deps' \in {deps, MarkReady(deps, request.txn)}
    BY <1>3, TableTypes DEF MarkAsSent, sendVars
  <2>2. QueueKept /\ TaskKept
    BY <1>1, <2>1, Kept DEF QueueKept, TaskKept
  <2>3. DependentsFrom
    <3>1. CASE deps' = deps
        BY <3>1, KeptFrom
    <3>2. ASSUME NEW d \in MarkReady(deps, request.txn)
          PROVE \E e \in deps : /\ SameDependent(d, e)
                                /\ d.sent => e.sent \/ (delivered /\ d.parent = request.txn)
      <4>1. PICK e \in deps : d = IF e.parent = request.txn THEN [e EXCEPT !.sent = TRUE] ELSE e
          BY <3>2 DEF MarkReady
      <4>2. e \in Dependent
          BY DEF RecordsOK
      <4>3. SameDependent(d, e)
          BY <4>1, <4>2 DEF SameDependent, Dependent
      <4>4. d = e \/ d.parent = request.txn
          BY <4>1, <4>2 DEF Dependent
      <4>. QED BY <2>1, <4>3, <4>4
    <3>. QED BY <2>1, <3>1, <3>2 DEF DependentsFrom
  <2>. QED BY <1>1, <2>1, <2>2, <2>3, KeptFrom, CausalFrame
<1>. QED BY <1>2, <1>3

\* A new dependent request that a handle was used for is about an event.
LEMMA NewDependentFrom ==
    ASSUME RecordsOK, CausalInv, clock' = clock + 1, NEW h \in handles,
           NEW kind \in DependentKind \ {"file", "finish"}, NEW body,
           deps' \subseteq deps \cup {NewDependent(clock', h.txn, clock', kind, NoTxn, body)}
    PROVE DependentsFrom
<1>1. Fresh(clock') /\ h.txn <= clock'
    BY Fields DEF RecordsOK, Fresh, CausalInv, TxnInv
<1>2. SUFFICES ASSUME NEW d \in deps', d \notin deps
               PROVE /\ Fresh(d.own) /\ ~ d.sent /\ d.parent <= clock'
                     /\ d.kind \notin {"file", "finish"} => \E g \in handles : g.txn = d.parent
    BY DEF DependentsFrom, SameDependent
<1>3. d = NewDependent(clock', h.txn, clock', kind, NoTxn, body)
    BY <1>2
<1>. QED BY <1>1, <1>3 DEF NewDependent

\* What cancel_event adds.
LEMMA CausalCancel ==
    ASSUME RecordsOK, CausalInv, NEW h \in handles, NEW q \in SUBSET queue,
           CancelEvent(h.txn, q)
    PROVE clock <= clock' /\ QueueKept /\ DependentsFrom
<1>1. queue' \subseteq q
    BY TableTypes DEF CancelEvent
<1>2. QueueKept
    BY <1>1, Kept DEF QueueKept
<1>3. CASE deps' = deps /\ clock' = clock
    BY <1>2, <1>3, KeptFrom DEF RecordsOK
<1>4. CASE /\ clock' = clock + 1
           /\ deps' = deps \cup {NewDependent(clock', h.txn, clock', "redact", NoTxn, 0)}
  <2>1. DependentsFrom
    BY <1>4, NewDependentFrom DEF DependentKind
  <2>. QED BY <1>2, <1>4, <2>1 DEF RecordsOK
<1>. QED BY <1>3, <1>4 DEF CancelEvent, Draws

\* What is submitted is new, and about nothing that must have been sent.
LEMMA CausalSubmit ==
    ASSUME RecordsOK, RecordsOK', CausalInv, SubmitStep
    PROVE CausalInv'
<1>1. UNCHANGED <<taskVars, log>>
    BY DEF SubmitStep, Push, PushSuperseding, SendAttachment, Quiet
<1>2. TaskKept /\ LogFrom /\ DeliveredFrom /\ request' = request
    BY <1>1, KeptFrom DEF TaskKept, taskVars, sendVars
<1>3. /\ \A r \in queue \cup {request} : r.txn \in Nat /\ r.txn <= clock
      /\ \A d \in deps : d.own \in Nat /\ d.own <= clock
    BY Fields DEF RecordsOK, CausalInv, TxnInv
<1>4. ASSUME NEW op, NEW kind \in {"message", "redaction"}, Push(op, kind) PROVE CausalInv'
  <2>1. PICK t \in Nat : t = clock + 1
    BY DEF RecordsOK
  <2> DEFINE r0 == NewRequest(t, t, FALSE, kind, NoTxn, t)
  <2>2. clock' = t /\ queue' = queue \cup {r0} /\ deps' = deps
    BY <1>4, <2>1 DEF Push, Draws
  <2>3. r0.txn = t /\ r0.kind = kind /\ r0.about = NoTxn
    BY DEF NewRequest
  <2>4. Fresh(t) /\ clock <= clock' /\ ~ t <= clock
    BY <2>1, <2>2 DEF Fresh, RecordsOK
  <2> HIDE DEF r0
  <2>5. RequestsFrom
    BY <1>2, <2>2, <2>3, <2>4, Kept DEF RequestsFrom
  <2>6. IsEventTxn(t)'
    BY <1>2, <1>3, <2>2, <2>3, <2>4 DEF IsEventTxn
  <2>7. \A h \in handles' : h \in handles \/ h.txn = t
    BY <1>4, <2>2 DEF Push, NewHandle
  <2>8. HandlesFrom
    BY <2>4, <2>6, <2>7 DEF HandlesFrom
  <2>. QED BY <1>2, <2>2, <2>4, <2>5, <2>8, KeptFrom, CausalFrame
<1>5. CASE PushSuperseding(NoTxn)
  <2> DEFINE r0 == NewRequest(clock', clock', TRUE, "receipt", NoTxn, clock')
  <2>1. deps' = deps /\ handles' = handles
    BY <1>5 DEF PushSuperseding, userVars
  <2>2. CASE clock' = clock /\ queue' \subseteq queue
    <3>1. clock <= clock' /\ QueueKept
        BY <2>2, Kept DEF RecordsOK, QueueKept
    <3>. QED BY <1>1, <1>2, <2>1, <3>1, CausalQuiet
  <2>3. CASE clock' = clock + 1 /\ queue' \subseteq queue \cup {r0}
    <3>1. r0.txn = clock' /\ r0.about = NoTxn
        BY DEF NewRequest
    <3>2. Fresh(clock') /\ clock <= clock'
        BY <2>3 DEF Fresh, RecordsOK
    <3> HIDE DEF r0
    <3>3. RequestsFrom
        BY <1>2, <2>3, <3>1, <3>2, Kept DEF RequestsFrom
    <3>. QED BY <1>2, <2>1, <3>2, <3>3, KeptFrom, CausalFrame
  <2>. QED BY <1>5, <2>2, <2>3 DEF PushSuperseding, Draws
<1>6. ASSUME NEW op, SendAttachment(op) PROVE CausalInv'
  <2>0. PICK event \in Nat, file \in Nat, thumb \in Nat :
            /\ event = clock + 1 /\ file = clock + 2
            /\ thumb = IF op = "thumbnail" THEN clock + 3 ELSE NoTxn
    BY DEF RecordsOK, NoTxn
  <2>1. clock' = clock + 3 /\ queue' \subseteq queue \cup Uploads(event, file, thumb)
    BY <1>6, <2>0 DEF SendAttachment, Draws
  <2>2. deps' \subseteq deps \cup FileUpload(event, file, thumb) \cup FinishUpload(event, file, thumb)
    BY <1>6, <2>0 DEF SendAttachment
  <2>3. handles' \subseteq handles \cup {NewHandle(event, "event", NoTxn, file, thumb)}
    BY <1>6, <2>0 DEF SendAttachment
  <2>4. /\ Fresh(event) /\ Fresh(file) /\ (thumb # NoTxn => Fresh(thumb))
        /\ event # file /\ event # thumb /\ thumb <= clock' /\ clock <= clock'
    BY <2>0, <2>1 DEF Fresh, RecordsOK, NoTxn
  <2>5. ~ event <= clock
    BY <2>0 DEF RecordsOK
  <2>6. \A r \in Uploads(event, file, thumb) : Fresh(r.txn) /\ r.kind = "upload" /\ r.txn # event
    BY <2>4 DEF Uploads, NewRequest
  <2>7. \A d \in FileUpload(event, file, thumb) \cup FinishUpload(event, file, thumb) :
            /\ Fresh(d.own) /\ ~ d.sent /\ d.parent <= clock' /\ d.kind \in {"file", "finish"}
            /\ d.own = event => d.kind = "finish"
    BY <2>4 DEF FileUpload, FinishUpload, NewDependent, Fresh
  <2>8. RequestsFrom
    BY <1>2, <2>1, <2>6, Kept DEF RequestsFrom
  <2>9. DependentsFrom
    BY <2>2, <2>7 DEF DependentsFrom, SameDependent
  <2>10. IsEventTxn(event)'
    BY <1>2, <1>3, <2>1, <2>2, <2>5, <2>6, <2>7 DEF IsEventTxn
  <2>11. \A h \in handles' : h \in handles \/ h.txn = event
    BY <2>3 DEF NewHandle
  <2>12. HandlesFrom
    BY <2>4, <2>10, <2>11 DEF HandlesFrom
  <2>. QED BY <1>2, <2>4, <2>8, <2>9, <2>12, CausalFrame
<1>. QED BY <1>4, <1>5, <1>6 DEF SubmitStep

\* A handle is only used on the event that it is for.
LEMMA CausalHandle ==
    ASSUME RecordsOK, RecordsOK', CausalInv, HandleStep
    PROVE CausalInv'
<1>1. request' = request /\ delivered' = delivered /\ log' = log
  <2>1. ASSUME NEW h, AbortMedia(h) PROVE request' = request /\ delivered' = delivered /\ log' = log
    BY <2>1 DEF AbortMedia
  <2>2. ASSUME NEW h, \/ React(h) \/ Reply(h) \/ Edit(h) \/ Abort(h) \/ AbortReaction(h)
                      \/ Unwedge(h)
        PROVE request' = request /\ delivered' = delivered /\ log' = log
    BY <2>2 DEF React, Reply, Edit, Abort, AbortReaction, Unwedge, Quiet, taskVars, sendVars
  <2>. QED BY <2>1, <2>2 DEF HandleStep
<1>2. TaskKept /\ LogFrom /\ DeliveredFrom
    BY <1>1, KeptFrom DEF TaskKept
<1>3. ASSUME NEW h \in handles, React(h) \/ Reply(h) PROVE CausalInv'
  <2>1. PICK t \in Nat : t = clock + 1
    BY DEF RecordsOK
  <2>2. clock' = t /\ queue' = queue
    BY <1>3, <2>1 DEF React, Reply, Draws
  <2>3. PICK kind \in {"react", "reply"} :
            deps' = deps \cup {NewDependent(clock', h.txn, clock', kind, NoTxn, clock')}
    BY <1>3 DEF React, Reply
  <2>4. Fresh(t) /\ clock <= clock' /\ ~ t <= clock
    BY <2>1, <2>2 DEF Fresh, RecordsOK
  <2>5. DependentsFrom
    BY <2>1, <2>2, <2>3, NewDependentFrom DEF DependentKind
  <2>6. QueueKept
    BY <2>2, Kept DEF QueueKept
  <2>7. IsEventTxn(t)'
    <3>1. /\ \A r \in queue \cup {request} : r.txn <= clock
          /\ \A d \in deps : d.own <= clock
        BY DEF CausalInv, TxnInv
    <3>2. \A d \in deps' : d \in deps \/ d.kind # "file"
        BY <2>3 DEF NewDependent
    <3>. QED BY <1>1, <2>2, <2>4, <3>1, <3>2 DEF IsEventTxn
  <2>8. \A g \in handles' : g \in handles \/ g.txn = t
    BY <1>3, <2>2 DEF React, Reply, NewHandle
  <2>9. HandlesFrom
    BY <2>4, <2>7, <2>8 DEF HandlesFrom
  <2>. QED BY <1>2, <2>4, <2>5, <2>6, <2>9, KeptFrom, CausalFrame
<1>4. ASSUME NEW h \in handles, Edit(h) PROVE CausalInv'
  <2>1. clock' = clock + 1 /\ clock <= clock' /\ handles' = handles
    BY <1>4 DEF Edit, Draws, RecordsOK
  <2>2. queue' \in {queue, WithBody(queue, h.txn, clock')}
    BY <1>4 DEF Edit
  <2>3. QueueKept
    BY <2>2, Kept DEF QueueKept, RecordsOK
  <2>4. DependentsFrom
    <3>1. CASE deps' \subseteq deps \cup {NewDependent(clock', h.txn, clock', "edit", NoTxn, clock')}
        BY <2>1, <3>1, NewDependentFrom DEF DependentKind
    <3>2. CASE deps' = {IF d.own = h.txn THEN [d EXCEPT !.body = clock'] ELSE d : d \in deps}
      <4>1. ASSUME NEW d \in deps' PROVE \E e \in deps : SameDependent(d, e) /\ d.sent = e.sent
        <5>1. PICK e \in deps : d = IF e.own = h.txn THEN [e EXCEPT !.body = clock'] ELSE e
            BY <3>2, <4>1
        <5>2. e \in Dependent
            BY DEF RecordsOK
        <5>. QED BY <5>1, <5>2 DEF SameDependent, Dependent
      <4>. QED BY <4>1 DEF DependentsFrom
    <3>. QED BY <1>4, <3>1, <3>2 DEF Edit
  <2>. QED BY <1>2, <2>1, <2>3, <2>4, KeptFrom, CausalFrame
<1>5. ASSUME NEW h \in handles, Abort(h) \/ AbortReaction(h) PROVE CausalInv'
  <2>1. handles' = handles
    BY <1>5 DEF Abort, AbortReaction
  <2>2. CASE CancelEvent(h.txn, queue)
    BY <1>2, <2>1, <2>2, CausalCancel, KeptFrom, CausalFrame
  <2>3. CASE deps' = WithoutDep(deps, h.txn) /\ UNCHANGED <<queue, clock, permit, refused>>
    <3>1. deps' \subseteq deps /\ clock <= clock' /\ QueueKept
        BY <2>3, TableTypes, Kept DEF QueueKept, RecordsOK
    <3>. QED BY <1>1, <1>2, <2>1, <3>1, CausalQuiet
  <2>. QED BY <1>5, <2>2, <2>3 DEF Abort, AbortReaction
<1>6. ASSUME NEW h \in handles, AbortMedia(h) PROVE CausalInv'
  <2> DEFINE gone == IF FileWaits(h) THEN {h.thumb} ELSE {h.thumb, h.file}
             left == {r \in queue : r.txn \notin gone}
             fileLeft == IF FileWaits(h) THEN WithoutDep(deps, h.file) ELSE deps
  <2>1. \/ CancelEvent(h.txn, left)
        \/ /\ queue' = left /\ clock' = clock
           /\ deps' \in {deps, fileLeft, WithoutDep(fileLeft, h.txn)}
    BY <1>6 DEF AbortMedia
  <2>2. handles' = handles
    BY <1>6 DEF AbortMedia
  <2>3. left \subseteq queue /\ fileLeft \subseteq deps
    BY TableTypes
  <2> HIDE DEF gone, left, fileLeft
  <2>4. CASE CancelEvent(h.txn, left)
    BY <1>2, <2>2, <2>3, <2>4, CausalCancel, KeptFrom, CausalFrame
  <2>5. CASE queue' = left /\ clock' = clock /\ deps' \in {deps, fileLeft, WithoutDep(fileLeft, h.txn)}
    <3>1. deps' \subseteq deps
        BY <2>3, <2>5, TableTypes
    <3>2. clock <= clock' /\ QueueKept
        BY <2>3, <2>5, Kept DEF QueueKept, RecordsOK
    <3>. QED BY <1>1, <1>2, <2>2, <3>1, <3>2, CausalQuiet
  <2>. QED BY <2>1, <2>4, <2>5
<1>7. ASSUME NEW h \in handles \cup EchoHandles, Unwedge(h) PROVE CausalInv'
  <2>1. /\ \E T : queue' = WithWedged(queue, T, FALSE)
        /\ deps' = deps /\ handles' = handles /\ clock' = clock
    BY <1>7 DEF Unwedge, userVars
  <2>2. queue \in SUBSET Request /\ clock <= clock'
    BY <2>1 DEF RecordsOK
  <2>3. QueueKept
    BY <2>1, <2>2, Kept DEF QueueKept
  <2>. QED BY <1>1, <1>2, <2>1, <2>2, <2>3, CausalQuiet
<1>. QED BY <1>3, <1>4, <1>5, <1>6, <1>7 DEF HandleStep

\* The switches, the start and the end of a process send nothing.
LEMMA CausalSwitch ==
    ASSUME RecordsOK, RecordsOK', CausalInv,
           OpenRoom \/ Respawn \/ SwitchStep \/ DropClient \/ Restart \/ UNCHANGED vars
    PROVE CausalInv'
<1>1. deps' = deps /\ handles' = handles /\ log' = log /\ clock' = clock
  <2>1. CASE OpenRoom \/ Respawn
    BY <2>1 DEF OpenRoom, Respawn, storeVars, userVars
  <2>2. CASE SwitchStep
    BY <2>2 DEF SwitchStep, RetryVerified, SetEnabled, SetGloballyEnabled, storeVars, userVars
  <2>3. CASE DropClient \/ Restart
    BY <2>3 DEF DropClient, Restart, storeVars, userVars
  <2>4. CASE UNCHANGED vars
    BY <2>4 DEF vars, storeVars, userVars
  <2>. QED BY <2>1, <2>2, <2>3, <2>4
<1>2. TaskKept
  <2>1. CASE UNCHANGED sendVars
    BY <2>1 DEF TaskKept, sendVars
  <2>2. CASE Restart
    BY <2>2 DEF Restart, TaskKept
  <2>. QED
    BY <2>1, <2>2 DEF OpenRoom, Respawn, SwitchStep, RetryVerified, SetEnabled,
       SetGloballyEnabled, DropClient, taskVars, vars
<1>3. QueueKept
  <2>1. ASSUME NEW T \in SUBSET Wedged, RetryVerified(T) PROVE QueueKept
    BY <2>1, Kept DEF RetryVerified, QueueKept, RecordsOK
  <2>2. CASE queue' = queue
    BY <2>2, Kept DEF QueueKept
  <2>. QED
    BY <2>1, <2>2 DEF OpenRoom, Respawn, SwitchStep, SetEnabled, SetGloballyEnabled, DropClient,
       Restart, vars, storeVars
<1>. QED BY <1>1, <1>2, <1>3, CausalQuiet DEF RecordsOK

\* Every step keeps causes before effects.
LEMMA CausalStep == RecordsOK /\ CausalInv /\ [Next]_vars => CausalInv'
<1> SUFFICES ASSUME RecordsOK, CausalInv, [Next]_vars PROVE CausalInv'
    OBVIOUS
<1>1. RecordsOK'
    BY RecordsStep
<1>. QED
    BY <1>1, CausalTaskQuiet, CausalApply, CausalSend, CausalSubmit, CausalHandle, CausalSwitch
       DEF Next, TaskStep, Apply

\* The invariant behind ParentFirst: transaction ids are not reused, a parent_key is
\* there only when the server has the parent, and so is a request about it.
THEOREM CausesAreKept == Spec => []CausalInv
<1>1. Init => RecordsOK /\ CausalInv
  <2>1. NoRequest \in Request
    BY DEF NoRequest, NewRequest, Request, RequestKind, EventKind, NoTxn
  <2>2. Init => RecordsOK
    BY <2>1, SendQueueConstants DEF Init, RecordsOK, Label, NoTxn
  <2>3. ASSUME Init PROVE CausalInv
    <3>1. NoRequest.txn = 0 /\ NoRequest.kind = "message" /\ NoRequest.about = NoTxn
        BY DEF NoRequest, NewRequest, NoTxn
    <3>2. TxnInv
        BY <2>3, <3>1 DEF Init, TxnInv
    <3>3. KeyInv
        BY <2>3, <3>1 DEF Init, KeyInv
    <3>4. ParentFirst
        BY <2>3 DEF Init, ParentFirst
    <3>. QED BY <3>2, <3>3, <3>4 DEF CausalInv
  <2>. QED BY <2>2, <2>3
<1>. QED BY <1>1, RecordsStep, CausalStep, PTL DEF Spec

\* An edit, reaction, reply or redaction reaches the server only after the event it
\* is about: whatever is called, fails, is retried or restarted in between.
THEOREM CausesComeFirst == Spec => []ParentFirst
<1>1. CausalInv => ParentFirst
    BY DEF CausalInv
<1>. QED BY <1>1, CausesAreKept, PTL

-----------------------------------------------------------------------------
(* What a step does to the queue, to the request on its way and to the log *)

SameRow(r, s) == SameRequest(r, s) /\ r.row = s.row /\ r.high = s.high

\* A row was there before, and if it is a receipt with the same content; or it was a
\* dependent request whose parent was sent; or it was submitted just now.
KeptRow(r) == \E s \in queue : SameRow(r, s) /\ (s.kind = "receipt" => r.body = s.body)
PromotedRow(r) ==
    /\ pc = "apply"
    /\ \E d \in deps : IsReady(d) /\ d.kind # "redact" /\ r = Promoted(d) /\ media' = MediaAfter(d)
NewRow(r) ==
    /\ r.row = clock + 1 /\ clock + 1 <= clock' /\ Fresh(r.txn)
    /\ \/ r.kind = "receipt" /\ r.high /\ r.body = r.row /\ r.txn = r.row
       \/ r.kind \in {"message", "redaction"} /\ ~ r.high /\ r.txn = r.row
       \/ /\ r.kind = "upload" /\ ~ r.high /\ r.about = r.row
          /\ r.txn \in {clock + 2, clock + 3} /\ clock + 3 <= clock'
          /\ \A h \in handles' : h \in handles \/ r.txn \in {h.file, h.thumb}
QueueFrom == \A r \in queue' : KeptRow(r) \/ PromotedRow(r) \/ NewRow(r)

\* The task takes the first request of the queue, and keeps it while it sends.
TaskFrom ==
    pc' = "send" =>
        \/ pc = "send" /\ request' = request
        \/ /\ pc = "peek" /\ IsFirst(request') /\ delivered' = FALSE
           /\ UNCHANGED <<queue, deps, log, clock, aborted>>

\* The server gets the request that is on its way, or a redaction that was applied.
ServerGets ==
    \/ log' = log
    \/ /\ pc = "send" /\ ~ OnServer(request.txn) /\ request.kind # "upload"
       /\ log' = Append(log, Entry(request))
       /\ UNCHANGED <<queue, deps, clock, pc, request>>
    \/ \E e \in LogEntry : e.kind = "redaction" /\ log' = Append(log, e) /\ pc = "apply"

LEMMA RowsKept ==
    ASSUME RecordsOK
    PROVE /\ \A r \in queue : KeptRow(r)
          /\ \A T : \A r \in WithWedged(queue, T, TRUE) : KeptRow(r)
          /\ \A T : \A r \in WithWedged(queue, T, FALSE) : KeptRow(r)
          /\ \A t, body : IsEventTxn(t) => \A r \in WithBody(queue, t, body) : KeptRow(r)
<1>0. \A r \in queue : r \in Request
    BY DEF RecordsOK
<1>1. \A r \in queue : KeptRow(r)
    BY DEF KeptRow, SameRow, SameRequest
<1>2. ASSUME NEW T, NEW r \in WithWedged(queue, T, TRUE) PROVE KeptRow(r)
    BY <1>0, <1>2 DEF WithWedged, KeptRow, SameRow, SameRequest, Request
<1>3. ASSUME NEW T, NEW r \in WithWedged(queue, T, FALSE) PROVE KeptRow(r)
    BY <1>0, <1>3 DEF WithWedged, KeptRow, SameRow, SameRequest, Request
<1>4. ASSUME NEW t, NEW body, IsEventTxn(t), NEW r \in WithBody(queue, t, body)
      PROVE KeptRow(r)
  <2>1. PICK s \in queue :
            r = IF s.txn = t THEN [s EXCEPT !.body = body, !.wedged = FALSE] ELSE s
    BY <1>4 DEF WithBody
  <2>2. s.txn = t => s.kind # "receipt"
    BY <1>4 DEF IsEventTxn
  <2>. QED BY <1>0, <2>1, <2>2 DEF KeptRow, SameRow, SameRequest, Request
<1>. QED BY <1>1, <1>2, <1>3, <1>4

\* Where the rows of the queue come from, for the steps of the task.
LEMMA TaskRows ==
    ASSUME RecordsOK, CausalInv, TaskStep \/ ServerAccepts \/ SendFails
    PROVE QueueFrom
<1>1. ASSUME queue' \subseteq queue PROVE QueueFrom
    BY <1>1, RowsKept DEF QueueFrom
<1>2. ASSUME NEW d \in deps, ApplyPromote(d) PROVE QueueFrom
  <2>1. /\ pc = "apply" /\ IsReady(d) /\ d.kind # "redact"
        /\ \/ queue' = queue
           \/ queue' = queue \cup {Promoted(d)} /\ media' = MediaAfter(d)
    BY <1>2 DEF ApplyPromote, IsNext
  <2>2. media' = MediaAfter(d) => PromotedRow(Promoted(d))
    BY <2>1 DEF PromotedRow
  <2>. QED BY <2>1, <2>2, RowsKept DEF QueueFrom
<1>3. ASSUME NEW d \in deps, ApplyLocally(d) PROVE QueueFrom
  <2>1. queue' = queue \/ queue' = AppliedLocally(d)
    BY <1>3 DEF ApplyLocally
  <2>2. CASE d.kind = "edit"
    <3>1. IsEventTxn(d.parent)
        BY <2>2 DEF CausalInv, TxnInv
    <3>2. queue' = queue \/ queue' = WithBody(queue, d.parent, d.body)
        BY <2>1, <2>2 DEF AppliedLocally
    <3>. QED BY <3>1, <3>2, RowsKept DEF QueueFrom
  <2>3. CASE d.kind # "edit"
    <3>1. queue' = queue \/ queue' = Without(queue, d.parent)
        BY <2>1, <2>3 DEF AppliedLocally
    <3>. QED BY <3>1, <1>1, TableTypes
  <2>. QED BY <2>2, <2>3
<1>4. CASE SendFailsForGood
  <2>1. \/ queue' = queue \/ queue' = WithWedged(queue, {request.txn}, TRUE)
        \/ queue' = Without(queue, request.txn)
    BY <1>4 DEF SendFailsForGood, Wedge
  <2>. QED BY <2>1, <1>1, RowsKept, TableTypes DEF QueueFrom
<1>5. CASE MarkAsSent
    BY <1>5, <1>1, TableTypes DEF MarkAsSent
<1>6. CASE \/ LoopStart \/ CheckEnabled \/ Woken \/ PeekNextToSend \/ UploadCancelled \/ ServerAccepts
           \/ SendFailsRecoverably \/ ApplyEnd \/ \E d \in deps : ApplyRedaction(d) \/ ApplyLater(d)
  <2>1. queue' = queue
    BY <1>6 DEF LoopStart, CheckEnabled, Woken, PeekNextToSend, UploadCancelled, ServerAccepts,
       SendFailsRecoverably, ApplyEnd, ApplyRedaction, ApplyLater, storeVars
  <2>. QED BY <2>1, <1>1
<1>. QED
    BY <1>2, <1>3, <1>4, <1>5, <1>6 DEF TaskStep, Apply, SendFails

\* For what the application submits.
LEMMA SubmitRows ==
    ASSUME RecordsOK, CausalInv, SubmitStep
    PROVE QueueFrom
<1>0. clock \in Nat
    BY DEF RecordsOK
<1>1. ASSUME NEW op, NEW kind \in {"message", "redaction"}, Push(op, kind) PROVE QueueFrom
  <2>1. PICK r0 : r0 = NewRequest(clock', clock', FALSE, kind, NoTxn, clock')
    OBVIOUS
  <2>2. clock' = clock + 1 /\ queue' = queue \cup {r0}
    BY <1>1, <2>1 DEF Push, Draws
  <2>3. NewRow(r0)
    BY <1>0, <2>1, <2>2 DEF NewRow, Fresh, NewRequest
  <2>. QED BY <2>2, <2>3, RowsKept DEF QueueFrom
<1>2. CASE PushSuperseding(NoTxn)
  <2>1. PICK r0 : r0 = NewRequest(clock', clock', TRUE, "receipt", NoTxn, clock')
    OBVIOUS
  <2>2. queue' \subseteq queue \/ (clock' = clock + 1 /\ queue' \subseteq queue \cup {r0})
    BY <1>2, <2>1 DEF PushSuperseding, Draws
  <2>3. clock' = clock + 1 => NewRow(r0)
    BY <1>0, <2>1 DEF NewRow, Fresh, NewRequest
  <2>. QED BY <2>2, <2>3, RowsKept DEF QueueFrom
<1>3. ASSUME NEW op, SendAttachment(op) PROVE QueueFrom
  <2>0. PICK event \in Nat, file \in Nat, thumb \in Nat :
            /\ event = clock + 1 /\ file = clock + 2
            /\ thumb = IF op = "thumbnail" THEN clock + 3 ELSE NoTxn
    BY <1>0 DEF NoTxn
  <2>1. clock' = clock + 3 /\ queue' \subseteq queue \cup Uploads(event, file, thumb)
    BY <1>3, <2>0 DEF SendAttachment, Draws
  <2>2. \A h \in handles' : h \in handles \/ (h.file = file /\ h.thumb = thumb)
    BY <1>3, <2>0 DEF SendAttachment, NewHandle
  <2>3. \A r \in Uploads(event, file, thumb) : NewRow(r)
    BY <1>0, <2>0, <2>1, <2>2 DEF Uploads, NewRow, Fresh, NewRequest, NoTxn
  <2>. QED BY <2>1, <2>3, RowsKept DEF QueueFrom
<1>. QED BY <1>1, <1>2, <1>3 DEF SubmitStep

\* And for every step.
LEMMA RowsStep ==
    ASSUME RecordsOK, CausalInv, [Next]_vars
    PROVE QueueFrom
<1>1. ASSUME queue' \subseteq queue PROVE QueueFrom
    BY <1>1, RowsKept DEF QueueFrom
<1>2. CASE HandleStep
  <2>1. ASSUME NEW h \in handles, Edit(h) PROVE QueueFrom
    <3>1. IsEventTxn(h.txn)
        BY DEF CausalInv, TxnInv
    <3>2. queue' = queue \/ queue' = WithBody(queue, h.txn, clock')
        BY <2>1 DEF Edit
    <3>. QED BY <3>1, <3>2, RowsKept DEF QueueFrom
  <2>2. ASSUME NEW h, Unwedge(h) PROVE QueueFrom
    <3>1. \E T : queue' = WithWedged(queue, T, FALSE)
        BY <2>2 DEF Unwedge
    <3>. QED BY <3>1, RowsKept DEF QueueFrom
  <2>3. ASSUME NEW h, React(h) \/ Reply(h) \/ Abort(h) \/ AbortReaction(h) PROVE QueueFrom
    <3>1. queue' = queue \/ CancelEvent(h.txn, queue)
        BY <2>3 DEF React, Reply, Abort, AbortReaction
    <3>. QED BY <3>1, <1>1, TableTypes DEF CancelEvent
  <2>4. ASSUME NEW h, AbortMedia(h) PROVE QueueFrom
    <3>1. PICK left \in SUBSET queue : queue' = left \/ CancelEvent(h.txn, left)
        BY <2>4 DEF AbortMedia
    <3>. QED BY <3>1, <1>1, TableTypes DEF CancelEvent
  <2>. QED BY <1>2, <2>1, <2>2, <2>3, <2>4 DEF HandleStep
<1>3. CASE SwitchStep
  <2>1. ASSUME NEW T, RetryVerified(T) PROVE QueueFrom
    BY <2>1, RowsKept DEF RetryVerified, QueueFrom
  <2>2. CASE queue' = queue
    BY <2>2, <1>1
  <2>. QED BY <1>3, <2>1, <2>2 DEF SwitchStep, SetEnabled, SetGloballyEnabled, storeVars
<1>4. CASE OpenRoom \/ Respawn \/ DropClient \/ Restart \/ UNCHANGED vars
    BY <1>4, <1>1 DEF OpenRoom, Respawn, DropClient, Restart, vars, storeVars
<1>. QED BY <1>2, <1>3, <1>4, TaskRows, SubmitRows DEF Next

\* Which request is on its way, and what the server gets.
LEMMA TaskFromStep ==
    ASSUME [Next]_vars
    PROVE TaskFrom
<1>1. CASE PeekNextToSend
  <2>1. ASSUME NEW r \in queue, IsFirst(r), request' = r, pc = "peek", delivered' = FALSE,
               UNCHANGED <<storeVars, log, clock, userVars>>
        PROVE TaskFrom
    BY <2>1 DEF TaskFrom, storeVars, userVars
  <2>2. CASE pc' # "send"
    BY <2>2 DEF TaskFrom
  <2>. QED BY <1>1, <2>1, <2>2 DEF PeekNextToSend
<1>2. CASE ~ PeekNextToSend
  <2>1. pc' = "send" => pc = "send" /\ request' = request
    <3>1. CASE TaskStep \/ SendFails
        BY <1>2, <3>1 DEF TaskStep, SendFails, LoopStart, Apply, ApplyPromote, ApplyRedaction,
           ApplyLocally, ApplyLater, ApplyEnd, IsNext, ApplyNext, ApplyStops, CheckEnabled, Woken,
           MarkAsSent, UploadCancelled, SendReturns, SendFailsRecoverably, SendFailsForGood
    <3>2. CASE SubmitStep
      <4>1. UNCHANGED taskVars
          BY <3>2 DEF SubmitStep, Push, PushSuperseding, SendAttachment, Quiet
      <4>. QED BY <4>1 DEF taskVars, sendVars
    <3>3. CASE HandleStep
      <4>1. ASSUME NEW h, \/ React(h) \/ Reply(h) \/ Edit(h) \/ Abort(h) \/ AbortReaction(h)
                          \/ Unwedge(h)
            PROVE UNCHANGED taskVars
          BY <4>1 DEF React, Reply, Edit, Abort, AbortReaction, Unwedge, Quiet
      <4>2. ASSUME NEW h, AbortMedia(h) PROVE UNCHANGED <<pc, request>>
          BY <4>2 DEF AbortMedia
      <4>. QED BY <3>3, <4>1, <4>2 DEF HandleStep, taskVars, sendVars
    <3>4. CASE SwitchStep
        BY <3>4 DEF SwitchStep, RetryVerified, SetEnabled, SetGloballyEnabled, ForRoom, taskVars,
           sendVars
    <3>5. CASE OpenRoom \/ Respawn \/ DropClient \/ Restart \/ ServerAccepts \/ UNCHANGED vars
        BY <3>5 DEF OpenRoom, Respawn, ForRoom, DropClient, Restart, ServerAccepts, vars, taskVars,
           sendVars
    <3>. QED BY <1>2, <3>1, <3>2, <3>3, <3>4, <3>5 DEF Next
  <2>. QED BY <2>1 DEF TaskFrom
<1>. QED BY <1>1, <1>2

LEMMA ServerGetsStep ==
    ASSUME RecordsOK, [Next]_vars
    PROVE ServerGets
<1>1. CASE ServerAccepts
    BY <1>1 DEF ServerAccepts, Accept, ServerGets, storeVars
<1>2. ASSUME NEW d \in deps, ApplyRedaction(d) PROVE ServerGets
  <2>1. log' \in {log, Accept(Promoted(d))} /\ pc = "apply" /\ d.kind = "redact"
    BY <1>2 DEF ApplyRedaction, IsNext
  <2>2. Entry(Promoted(d)) \in LogEntry
    BY PromotedType DEF Entry, LogEntry, Request
  <2>3. Entry(Promoted(d)).kind = "redaction"
    BY <2>1 DEF Entry, Promoted, NewRequest, PromotedKind
  <2>. QED BY <2>1, <2>2, <2>3 DEF ServerGets, Accept
<1>3. CASE ~ ServerAccepts /\ ~ \E d \in deps : ApplyRedaction(d)
  <2>1. log' = log
    <3>1. CASE TaskStep \/ SendFails
        BY <1>3, <3>1 DEF TaskStep, SendFails, LoopStart, Apply, ApplyPromote,
           ApplyLocally, ApplyLater, ApplyEnd, CheckEnabled, Woken, PeekNextToSend,
           MarkAsSent, UploadCancelled, SendFailsRecoverably, SendFailsForGood
    <3>2. CASE SubmitStep
        BY <3>2 DEF SubmitStep, Push, PushSuperseding, SendAttachment, Quiet
    <3>3. CASE HandleStep
        BY <3>3 DEF HandleStep, React, Reply, Edit, Abort, AbortReaction, AbortMedia, Unwedge, Quiet
    <3>4. CASE SwitchStep \/ OpenRoom \/ Respawn \/ DropClient \/ Restart \/ UNCHANGED vars
        BY <3>4 DEF SwitchStep, RetryVerified, SetEnabled, SetGloballyEnabled, OpenRoom, Respawn,
           DropClient, Restart, vars
    <3>. QED BY <1>3, <3>1, <3>2, <3>3, <3>4 DEF Next
  <2>. QED BY <2>1 DEF ServerGets
<1>. QED BY <1>1, <1>2, <1>3

\* Rows and transaction ids are drawn, never given back.
LEMMA ClockStep ==
    ASSUME RecordsOK, [Next]_vars
    PROVE clock' \in Nat /\ clock <= clock'
<1>1. clock' \in {clock, clock + 1, clock + 3}
  <2>1. CASE TaskStep \/ SendFails
    BY <2>1 DEF TaskStep, SendFails, LoopStart, Apply, ApplyPromote, ApplyRedaction,
       ApplyLocally, ApplyLater, ApplyEnd, CheckEnabled, Woken, PeekNextToSend,
       MarkAsSent, UploadCancelled, SendFailsRecoverably, SendFailsForGood
  <2>2. CASE SubmitStep
    BY <2>2 DEF SubmitStep, Push, PushSuperseding, SendAttachment, Draws
  <2>3. CASE HandleStep
    BY <2>3 DEF HandleStep, React, Reply, Edit, Abort, AbortReaction, AbortMedia, Unwedge,
       CancelEvent, Draws
  <2>4. CASE \/ SwitchStep \/ OpenRoom \/ Respawn \/ DropClient \/ Restart \/ ServerAccepts
             \/ UNCHANGED vars
    BY <2>4 DEF SwitchStep, RetryVerified, SetEnabled, SetGloballyEnabled, OpenRoom, Respawn,
       DropClient, Restart, ServerAccepts, vars
  <2>. QED BY <2>1, <2>2, <2>3, <2>4 DEF Next
<1>. QED BY <1>1 DEF RecordsOK

-----------------------------------------------------------------------------
(* Receipts *)

\* What is queued is newer than what the server has, and what is on its way is between the two:
\* receipts go first, the older before the newer, and the one that is being sent is not
\* superseded.
IsReceipt(r) == r.kind = "receipt"
ReceiptInv ==
    /\ \A r \in queue : IsReceipt(r) => r.high /\ r.row = r.body /\ r.body <= clock
    /\ pc = "send" /\ IsReceipt(request) =>
          /\ request.body <= clock
          /\ \A r \in queue : IsReceipt(r) => request.body <= r.body
    /\ \A i \in DOMAIN log : IsReceipt(log[i]) =>
          /\ log[i].body <= clock
          /\ \A r \in queue : IsReceipt(r) => log[i].body <= r.body
          /\ pc = "send" /\ IsReceipt(request) => log[i].body <= request.body
    /\ ReceiptsMonotone

LEMMA ReceiptStep ==
    ASSUME RecordsOK, CausalInv, ReceiptInv, [Next]_vars
    PROVE ReceiptInv'
<1>0. /\ clock \in Nat /\ clock' \in Nat /\ clock <= clock'
      /\ \A r \in queue \cup queue' : r.body \in Nat /\ r.row \in Nat
      /\ request.body \in Nat /\ request'.body \in Nat
      /\ log \in Seq(LogEntry) /\ \A i \in DOMAIN log : log[i].body \in Nat
  <2>1. RecordsOK'
    BY RecordsStep
  <2>2. log \in Seq(LogEntry) /\ \A i \in DOMAIN log : log[i].body \in Nat
    <3>1. log \in Seq(LogEntry)
        BY DEF RecordsOK
    <3>2. \A i \in DOMAIN log : log[i] \in LogEntry
        BY <3>1
    <3>. QED BY <3>1, <3>2 DEF LogEntry
  <2>3. /\ \A r \in queue \cup queue' : r \in Request
        /\ request \in Request /\ request' \in Request /\ clock \in Nat
    BY <2>1 DEF RecordsOK
  <2>. QED BY <2>2, <2>3, ClockStep, Fields
<1>1. QueueFrom /\ TaskFrom /\ ServerGets
    BY RowsStep, TaskFromStep, ServerGetsStep
<1>2. ASSUME NEW r \in queue', IsReceipt(r)
      PROVE \/ \E s \in queue : IsReceipt(s) /\ r.high = s.high /\ r.row = s.row /\ r.body = s.body
            \/ r.high /\ r.row = clock + 1 /\ r.body = clock + 1 /\ clock + 1 <= clock'
  <2>1. ~ PromotedRow(r)
    <3>1. \A d \in deps : d.kind \in DependentKind
        BY Fields DEF RecordsOK
    <3>2. \A d \in deps : Promoted(d).kind # "receipt"
        BY <3>1 DEF Promoted, NewRequest, PromotedKind, DependentKind
    <3>. QED BY <1>2, <3>2 DEF PromotedRow, IsReceipt
  <2>. QED
    BY <1>1, <1>2, <2>1 DEF QueueFrom, KeptRow, NewRow, SameRow, SameRequest, IsReceipt
<1>3. \A r \in queue' : IsReceipt(r) => r.high /\ r.row = r.body /\ r.body <= clock'
  <2>1. \A s \in queue : IsReceipt(s) => s.high /\ s.row = s.body /\ s.body <= clock
    BY DEF ReceiptInv
  <2>. QED BY <1>0, <1>2, <2>1
\* A number that no receipt of the queue is below stays so.
<1>4. ASSUME NEW n \in Nat, n <= clock, \A r \in queue : IsReceipt(r) => n <= r.body
      PROVE n <= clock' /\ \A r \in queue' : IsReceipt(r) => n <= r.body
    BY <1>0, <1>2, <1>4
<1>5. ASSUME pc' = "send", IsReceipt(request')
      PROVE /\ request'.body <= clock'
            /\ \A r \in queue' : IsReceipt(r) => request'.body <= r.body
  <2>1. CASE pc = "send" /\ request' = request
    BY <1>0, <1>4, <1>5, <2>1 DEF ReceiptInv
  <2>2. CASE IsFirst(request') /\ UNCHANGED <<queue, clock>>
    <3>1. request' \in queue /\ \A s \in queue : s = request' \/ Before(request', s)
        BY <2>2 DEF IsFirst
    <3>2. \A s \in queue : IsReceipt(s) => s.high /\ s.row = s.body /\ s.body <= clock
        BY DEF ReceiptInv
    <3>. QED BY <1>0, <1>5, <2>2, <3>1, <3>2 DEF Before
  <2>. QED BY <1>1, <1>5, <2>1, <2>2 DEF TaskFrom
<1>6. ASSUME NEW i \in DOMAIN log, IsReceipt(log[i])
      PROVE /\ log[i].body <= clock'
            /\ \A r \in queue' : IsReceipt(r) => log[i].body <= r.body
            /\ pc' = "send" /\ IsReceipt(request') => log[i].body <= request'.body
  <2>1. /\ log[i].body <= clock /\ log[i].body \in Nat
        /\ \A r \in queue : IsReceipt(r) => log[i].body <= r.body
        /\ pc = "send" /\ IsReceipt(request) => log[i].body <= request.body
    BY <1>0, <1>6 DEF ReceiptInv
  <2>2. pc' = "send" /\ IsReceipt(request') => log[i].body <= request'.body
    BY <1>1, <2>1 DEF TaskFrom, IsFirst
  <2>. QED BY <1>4, <2>1, <2>2
<1>7. CASE log' = log
    BY <1>3, <1>5, <1>6, <1>7 DEF ReceiptInv, ReceiptsMonotone
<1>8. ASSUME NEW e \in LogEntry, log' = Append(log, e),
             IsReceipt(e) => /\ e.body = request.body /\ pc = "send" /\ IsReceipt(request)
                             /\ UNCHANGED <<queue, pc, request, clock>>
      PROVE ReceiptInv'
  <2>1. /\ Len(log) \in Nat /\ DOMAIN log = 1..Len(log) /\ DOMAIN log' = 1..(Len(log) + 1)
        /\ \A i \in 1..Len(log) : log'[i] = log[i]
        /\ log'[Len(log) + 1] = e /\ e.body \in Nat
    BY <1>0, <1>8 DEF LogEntry
  <2>2. ASSUME NEW i \in DOMAIN log', IsReceipt(log'[i])
        PROVE /\ log'[i].body <= clock'
              /\ \A r \in queue' : IsReceipt(r) => log'[i].body <= r.body
              /\ pc' = "send" /\ IsReceipt(request') => log'[i].body <= request'.body
    <3>1. CASE i \in DOMAIN log
        BY <1>6, <2>1, <2>2, <3>1
    <3>2. CASE i = Len(log) + 1
        BY <1>0, <1>8, <2>1, <2>2, <3>2 DEF ReceiptInv
    <3>. QED BY <2>1, <3>1, <3>2
  <2>3. ReceiptsMonotone'
    <3>1. SUFFICES ASSUME NEW i \in DOMAIN log', NEW j \in DOMAIN log', i < j,
                          IsReceipt(log'[i]), IsReceipt(log'[j])
                   PROVE log'[i].body <= log'[j].body
        BY DEF ReceiptsMonotone, IsReceipt
    <3>2. CASE j \in DOMAIN log
        BY <2>1, <3>1, <3>2 DEF ReceiptInv, ReceiptsMonotone, IsReceipt
    <3>3. CASE j = Len(log) + 1
      <4>1. i \in DOMAIN log
          BY <2>1, <3>1, <3>3
      <4>. QED BY <1>8, <2>1, <3>1, <3>3, <4>1 DEF ReceiptInv
    <3>. QED BY <2>1, <3>2, <3>3
  <2>. QED BY <1>3, <1>5, <2>2, <2>3 DEF ReceiptInv
<1>9. ASSUME pc = "send", log' = Append(log, Entry(request)),
             UNCHANGED <<queue, deps, clock, pc, request>>
      PROVE ReceiptInv'
  <2>1. /\ Entry(request) \in LogEntry /\ Entry(request).body = request.body
        /\ Entry(request).kind = request.kind
    BY DEF RecordsOK, Entry, LogEntry, Request
  <2>. QED BY <1>8, <1>9, <2>1 DEF IsReceipt
<1>. QED BY <1>1, <1>7, <1>8, <1>9 DEF ServerGets, IsReceipt

\* The server, which keeps the last receipt it gets, never gets an older one after a newer one,
\* although receipts jump the queue, supersede each other, fail, are sent again when the answer
\* was lost, and are taken up by the next process.
THEOREM ReceiptsAreMonotone == Spec => []ReceiptsMonotone
<1>1. Init => ReceiptInv
    BY DEF Init, ReceiptInv, ReceiptsMonotone
<1>2. ReceiptInv => ReceiptsMonotone
    BY DEF ReceiptInv
<1>3. TypeOK => RecordsOK
    BY DEF TypeOK
<1>4. RecordsOK /\ CausalInv /\ ReceiptInv /\ [Next]_vars => ReceiptInv'
    BY ReceiptStep
<1>. QED BY <1>1, <1>2, <1>3, <1>4, TypeCorrect, CausesAreKept, PTL DEF Spec

-----------------------------------------------------------------------------
(* Which ids name what *)

\* The event that a dependent request of an attachment is for.
IsMedia(d) == d.kind \in {"file", "finish"}
MediaEvent(d) == IF d.kind = "file" THEN d.about ELSE d.own

\* The requests of the queue and the one on its way, which may have left it.
Rows == queue \cup (IF pc = "send" THEN {request} ELSE {})

\* The attachments that somebody knows, each by the id of its event.
Attachments ==
    {MediaEvent(d) : d \in {e \in deps : IsMedia(e)}}
      \cup {r.about : r \in {q \in Rows : q.kind = "upload"}}
      \cup {h.txn : h \in {g \in handles : g.file # NoTxn}}

\* The ids of an attachment are drawn in one go: the event, the file, the thumbnail.
ShapeInv ==
    /\ \A r \in Rows : /\ r.txn # NoTxn
                       /\ r.kind = "upload" => r.txn \in {r.about + 1, r.about + 2}
    /\ \A d \in deps :
          /\ d.own # NoTxn /\ d.parent # NoTxn
          /\ d.kind = "file" => d.own = d.about + 1 /\ d.parent = d.about + 2
          /\ d.kind = "finish" => d.parent = d.own + 1
    /\ \A h \in handles :
          /\ h.txn # NoTxn
          /\ h.file # NoTxn =>
                h.kind = "event" /\ h.file = h.txn + 1 /\ h.thumb \in {NoTxn, h.txn + 2}

\* Nothing but an upload has the id of one.
IsUploadTxn(t) ==
    /\ \A r \in Rows : r.txn = t => r.kind = "upload"
    /\ \A d \in deps : d.own = t => d.kind = "file"
    /\ \A h \in handles : h.txn # t
    /\ t \notin Attachments
AttachmentInv ==
    \A t \in Attachments : t + 2 <= clock /\ IsUploadTxn(t + 1) /\ IsUploadTxn(t + 2)

\* Ids are drawn once, and a handle is the only one for its event.
UniqueInv ==
    /\ \A d, e \in deps : d.own = e.own => d.kind = e.kind
    /\ \A h, g \in handles : h.txn = g.txn => h = g

\* What depends on an event was made with a handle of it; a reaction or a reply has a handle of
\* its own; who redacts an event has aborted it, with a handle; the handle of an attachment
\* knows its uploads.
HandleInv ==
    /\ \A d \in deps : ~ IsMedia(d) => \E h \in handles : h.txn = d.parent
    /\ \A d \in deps : d.kind \in {"react", "reply"} =>
          \E h \in handles : h.txn = d.own /\ h.about = d.parent
    /\ \A d \in deps : IsRedact(d) => d.parent \in aborted
    /\ \A t \in aborted \cup refused : \E h \in handles : h.txn = t
    /\ \A h \in handles, d \in deps : d.own = h.txn =>
          \/ d.kind = "react" /\ h.kind = "reaction"
          \/ d.kind = "reply"
          \/ d.kind = "finish" /\ h.file # NoTxn
    /\ \A h \in handles : h.file # NoTxn =>
          /\ \A r \in Rows : r.kind = "upload" /\ r.about = h.txn => r.txn \in {h.file, h.thumb}
          /\ \A d \in deps : d.kind = "file" /\ d.about = h.txn => d.parent = h.thumb

NamesInv == ShapeInv /\ AttachmentInv /\ UniqueInv /\ HandleInv

-----------------------------------------------------------------------------
(* What a step does to the dependent requests and to the handles *)

\* A dependent request was there before, and is said to be ready only when its parent was sent.
KeptDep(d) ==
    \E e \in deps :
        /\ SameDependent(d, e) /\ d.about = e.about /\ (e.sent => d.sent)
        /\ d.sent => e.sent \/ (pc = "send" /\ delivered /\ d.parent = request.txn)

\* Or it was made just now: with a handle of its parent, or for an attachment.
NewDep(d) ==
    /\ ~ d.sent
    /\ \/ /\ d.kind \in {"react", "reply"} /\ d.own = clock + 1 /\ clock + 1 <= clock'
          /\ d.kind = "reply" => "reply" \in Ops
          /\ \E h \in handles : h.txn = d.parent
          /\ \E g : /\ handles' = handles \cup {g} /\ g.txn = d.own /\ g.about = d.parent
                    /\ d.kind = "react" => g.kind = "reaction"
       \/ /\ d.kind \in {"edit", "redact"} /\ d.own = clock + 1 /\ clock + 1 <= clock'
          /\ handles' = handles
          /\ \E h \in handles : h.txn = d.parent
          /\ d.kind = "redact" => d.parent \in aborted'
       \/ /\ d.kind = "file" /\ d.about = clock + 1 /\ d.own = clock + 2 /\ d.parent = clock + 3
          /\ "thumbnail" \in Ops /\ clock + 3 <= clock'
          /\ \A h \in handles' : h \in handles \/ h.thumb = d.parent
       \/ /\ d.kind = "finish" /\ d.own = clock + 1 /\ d.parent = clock + 2 /\ clock + 3 <= clock'
          /\ \A h \in handles' : h \in handles \/ h.file = d.parent
DepsFrom ==
    /\ \A d \in deps' : KeptDep(d) \/ NewDep(d)
    /\ \A d, e \in deps' : d.own = e.own => d.kind = e.kind \/ KeptDep(d) \/ KeptDep(e)

\* Handles are not taken back, and there is at most one new one, for a new event.
NewHandleFor(h) ==
    /\ h.txn = clock + 1 /\ clock + 1 <= clock'
    /\ h.file # NoTxn => /\ h.kind = "event" /\ h.file = clock + 2 /\ clock + 3 <= clock'
                         /\ h.thumb \in {NoTxn, clock + 3}
HandlesGrow ==
    \/ handles' = handles
    \/ \E g : handles' = handles \cup {g} /\ NewHandleFor(g)

\* Nor is the answer of abort.
AbortsGrow ==
    /\ aborted \subseteq aborted' /\ refused \subseteq refused'
    /\ \A t \in aborted' \cup refused' :
          t \in aborted \cup refused \/ \E h \in handles : h.txn = t

LEMMA DepsKept ==
    ASSUME RecordsOK
    PROVE /\ \A d \in deps : KeptDep(d)
          /\ pc = "send" /\ delivered => \A d \in MarkReady(deps, request.txn) : KeptDep(d)
          /\ \A t, n : \A d \in {IF e.own = t THEN [e EXCEPT !.body = n] ELSE e : e \in deps} :
                KeptDep(d)
<1>0. \A d \in deps : d \in Dependent
    BY DEF RecordsOK
<1>1. \A d \in deps : KeptDep(d)
    BY DEF KeptDep, SameDependent
<1>2. ASSUME pc = "send", delivered, NEW d \in MarkReady(deps, request.txn) PROVE KeptDep(d)
  <2>1. PICK e \in deps : d = IF e.parent = request.txn THEN [e EXCEPT !.sent = TRUE] ELSE e
    BY <1>2 DEF MarkReady
  <2>2. SameDependent(d, e) /\ d.about = e.about /\ (e.sent => d.sent)
    BY <1>0, <2>1 DEF SameDependent, Dependent
  <2>3. d = e \/ d.parent = request.txn
    BY <1>0, <2>1 DEF Dependent
  <2>. QED BY <1>2, <2>2, <2>3 DEF KeptDep
<1>3. ASSUME NEW t, NEW n,
             NEW d \in {IF e.own = t THEN [e EXCEPT !.body = n] ELSE e : e \in deps}
      PROVE KeptDep(d)
  <2>1. PICK e \in deps : d = IF e.own = t THEN [e EXCEPT !.body = n] ELSE e
    BY <1>3
  <2>. QED BY <1>0, <2>1 DEF KeptDep, SameDependent, Dependent
<1>. QED BY <1>1, <1>2, <1>3

LEMMA TaskDeps ==
    ASSUME RecordsOK, TaskStep \/ ServerAccepts \/ SendFails
    PROVE DepsFrom /\ HandlesGrow /\ AbortsGrow
<1>1. handles' = handles /\ aborted' = aborted /\ refused' = refused
    BY DEF TaskStep, LoopStart, Apply, ApplyPromote, ApplyRedaction, ApplyLocally, ApplyLater,
       ApplyEnd, CheckEnabled, Woken, PeekNextToSend, MarkAsSent, UploadCancelled, ServerAccepts,
       SendFails, SendFailsRecoverably, SendFailsForGood, userVars
<1>2. ASSUME deps' \subseteq deps PROVE DepsFrom
    BY <1>2, DepsKept DEF DepsFrom
<1>3. ASSUME MarkAsSent PROVE DepsFrom
  <2>1. /\ pc = "send" /\ delivered
        /\ deps' = deps \/ deps' = MarkReady(deps, request.txn)
    BY <1>3 DEF MarkAsSent, SendReturns
  <2>. QED BY <2>1, DepsKept DEF DepsFrom
<1>4. ~ MarkAsSent => deps' \subseteq deps
    BY TableTypes DEF TaskStep, LoopStart, Apply, ApplyPromote, ApplyRedaction, ApplyLocally,
       ApplyLater, ApplyEnd, CheckEnabled, Woken, PeekNextToSend, UploadCancelled, ServerAccepts,
       SendFails, SendFailsRecoverably, SendFailsForGood, storeVars
<1>5. HandlesGrow /\ AbortsGrow
    BY <1>1 DEF HandlesGrow, AbortsGrow
<1>. QED BY <1>2, <1>3, <1>4, <1>5

LEMMA SubmitDeps ==
    ASSUME RecordsOK, SubmitStep
    PROVE DepsFrom /\ HandlesGrow /\ AbortsGrow
<1>0. clock \in Nat
    BY DEF RecordsOK
<1>1. AbortsGrow
    BY DEF SubmitStep, Push, PushSuperseding, SendAttachment, userVars, AbortsGrow
<1>2. ASSUME NEW op, NEW kind, Push(op, kind) PROVE DepsFrom /\ HandlesGrow
  <2>1. deps' = deps /\ clock' = clock + 1
    BY <1>2 DEF Push, Draws
  <2>2. PICK type : handles' = handles \cup {NewHandle(clock', type, NoTxn, NoTxn, NoTxn)}
    BY <1>2 DEF Push
  <2>3. NewHandleFor(NewHandle(clock', type, NoTxn, NoTxn, NoTxn))
    BY <1>0, <2>1 DEF NewHandleFor, NewHandle
  <2>. QED BY <2>1, <2>2, <2>3, DepsKept DEF DepsFrom, HandlesGrow
<1>3. ASSUME PushSuperseding(NoTxn) PROVE DepsFrom /\ HandlesGrow
  <2>1. deps' = deps /\ handles' = handles
    BY <1>3 DEF PushSuperseding, userVars
  <2>. QED BY <2>1, DepsKept DEF DepsFrom, HandlesGrow
<1>4. ASSUME NEW op, SendAttachment(op) PROVE DepsFrom /\ HandlesGrow
  <2>0. PICK event \in Nat, file \in Nat, thumb \in Nat :
            /\ event = clock + 1 /\ file = clock + 2
            /\ thumb = IF op = "thumbnail" THEN clock + 3 ELSE NoTxn
    BY <1>0 DEF NoTxn
  <2>1. PICK g : g = NewHandle(event, "event", NoTxn, file, thumb)
    OBVIOUS
  <2>2. /\ clock' = clock + 3
        /\ deps' \subseteq deps \cup FileUpload(event, file, thumb) \cup FinishUpload(event, file, thumb)
        /\ handles' = handles \/ handles' = handles \cup {g}
    BY <1>4, <2>0, <2>1 DEF SendAttachment, Draws
  <2>3. g.txn = event /\ g.kind = "event" /\ g.file = file /\ g.thumb = thumb
    BY <2>1 DEF NewHandle
  <2>4. HandlesGrow
    <3>1. NewHandleFor(g)
        BY <1>0, <2>0, <2>2, <2>3 DEF NewHandleFor, NoTxn
    <3>. QED BY <2>2, <3>1 DEF HandlesGrow
  <2>5. ASSUME NEW d \in FileUpload(event, file, thumb) PROVE NewDep(d)
    <3>1. /\ thumb = clock + 3 /\ "thumbnail" \in Ops
          /\ d = NewDependent(file, thumb, clock + 1, "file", event, 0)
        BY <1>4, <2>0, <2>5 DEF FileUpload, SendAttachment, Calls
    <3>. QED BY <1>0, <2>0, <2>2, <2>3, <3>1 DEF NewDep, NewDependent
  <2>6. ASSUME NEW d \in FinishUpload(event, file, thumb) PROVE NewDep(d)
    <3>1. d = NewDependent(event, file, clock + 2, "finish", thumb, event)
        BY <2>6 DEF FinishUpload
    <3>. QED BY <1>0, <2>0, <2>2, <2>3, <3>1 DEF NewDep, NewDependent
  <2>7. ASSUME NEW d \in FileUpload(event, file, thumb), NEW e \in FinishUpload(event, file, thumb)
        PROVE d.own # e.own
    BY <1>0, <2>0, <2>7 DEF FileUpload, FinishUpload, NewDependent
  <2>8. /\ \A d, e \in FileUpload(event, file, thumb) : d = e
        /\ \A d, e \in FinishUpload(event, file, thumb) : d = e
    BY DEF FileUpload, FinishUpload
  <2>. QED BY <2>2, <2>4, <2>5, <2>6, <2>7, <2>8, DepsKept DEF DepsFrom
<1>. QED BY <1>1, <1>2, <1>3, <1>4 DEF SubmitStep

LEMMA CancelDeps ==
    ASSUME RecordsOK, NEW h \in handles, NEW q, CancelEvent(h.txn, q), handles' = handles
    PROVE DepsFrom /\ AbortsGrow
<1>0. clock \in Nat
    BY DEF RecordsOK
<1>1. AbortsGrow
    BY DEF CancelEvent, AbortsGrow
<1>2. CASE deps' = deps
    BY <1>1, <1>2, DepsKept DEF DepsFrom
<1>3. CASE /\ clock' = clock + 1 /\ aborted' = aborted \cup {h.txn}
           /\ deps' = deps \cup {NewDependent(clock', h.txn, clock', "redact", NoTxn, 0)}
  <2>1. NewDep(NewDependent(clock', h.txn, clock', "redact", NoTxn, 0))
    BY <1>0, <1>3 DEF NewDep, NewDependent
  <2>. QED BY <1>1, <1>3, <2>1, DepsKept DEF DepsFrom
<1>. QED BY <1>2, <1>3 DEF CancelEvent, Draws

LEMMA HandleDeps ==
    ASSUME RecordsOK, HandleStep
    PROVE DepsFrom /\ HandlesGrow /\ AbortsGrow
<1>0. clock \in Nat
    BY DEF RecordsOK
<1>1. ASSUME NEW h \in handles, React(h) \/ Reply(h) PROVE DepsFrom /\ HandlesGrow /\ AbortsGrow
  <2>1. PICK kind \in {"react", "reply"}, type \in {"event", "reaction"} :
            /\ kind = "react" => type = "reaction"
            /\ kind = "reply" => "reply" \in Ops
            /\ deps' = deps \cup {NewDependent(clock', h.txn, clock', kind, NoTxn, clock')}
            /\ handles' = handles \cup {NewHandle(clock', type, h.txn, NoTxn, NoTxn)}
    BY <1>1 DEF React, Reply, Calls
  <2>2. clock' = clock + 1 /\ aborted' = aborted /\ refused' = refused
    BY <1>1 DEF React, Reply, Draws
  <2>3. PICK d0, g0 : /\ d0 = NewDependent(clock', h.txn, clock', kind, NoTxn, clock')
                      /\ g0 = NewHandle(clock', type, h.txn, NoTxn, NoTxn)
    OBVIOUS
  <2>4. /\ d0.kind = kind /\ d0.own = clock + 1 /\ d0.parent = h.txn /\ ~ d0.sent
        /\ g0.txn = clock + 1 /\ g0.kind = type /\ g0.about = h.txn /\ g0.file = NoTxn
    BY <2>2, <2>3 DEF NewDependent, NewHandle
  <2>5. NewHandleFor(g0) /\ handles' = handles \cup {g0}
    BY <1>0, <2>1, <2>2, <2>3, <2>4 DEF NewHandleFor
  <2>6. NewDep(d0)
    BY <1>0, <2>1, <2>2, <2>4, <2>5 DEF NewDep
  <2>. QED BY <2>1, <2>2, <2>3, <2>5, <2>6, DepsKept DEF DepsFrom, HandlesGrow, AbortsGrow
<1>2. ASSUME NEW h \in handles, Edit(h) PROVE DepsFrom /\ HandlesGrow /\ AbortsGrow
  <2>1. clock' = clock + 1 /\ aborted' = aborted /\ refused' = refused /\ handles' = handles
    BY <1>2 DEF Edit, Draws
  <2>2. NewDep(NewDependent(clock', h.txn, clock', "edit", NoTxn, clock'))
    BY <1>0, <2>1 DEF NewDep, NewDependent
  <2>3. \/ deps' \subseteq deps \cup {NewDependent(clock', h.txn, clock', "edit", NoTxn, clock')}
        \/ deps' = {IF e.own = h.txn THEN [e EXCEPT !.body = clock'] ELSE e : e \in deps}
    BY <1>2 DEF Edit
  <2>4. DepsFrom
    BY <2>2, <2>3, DepsKept DEF DepsFrom
  <2>. QED BY <2>1, <2>4 DEF HandlesGrow, AbortsGrow
<1>3. ASSUME NEW h \in handles, Abort(h) \/ AbortReaction(h) \/ AbortMedia(h)
      PROVE DepsFrom /\ HandlesGrow /\ AbortsGrow
  <2>1. handles' = handles
    BY <1>3 DEF Abort, AbortReaction, AbortMedia
  <2>2. \/ \E q : CancelEvent(h.txn, q)
        \/ /\ deps' \subseteq deps /\ refused' = refused
           /\ aborted' = aborted \/ aborted' = aborted \cup {h.txn}
    BY <1>3, TableTypes DEF Abort, AbortReaction, AbortMedia
  <2>3. DepsFrom /\ AbortsGrow
    BY <2>1, <2>2, CancelDeps, DepsKept DEF DepsFrom, AbortsGrow
  <2>. QED BY <2>1, <2>3 DEF HandlesGrow
<1>4. ASSUME NEW h, Unwedge(h) PROVE DepsFrom /\ HandlesGrow /\ AbortsGrow
    BY <1>4, DepsKept DEF Unwedge, userVars, DepsFrom, HandlesGrow, AbortsGrow
<1>. QED BY <1>1, <1>2, <1>3, <1>4 DEF HandleStep

LEMMA DepsStep ==
    ASSUME RecordsOK, [Next]_vars
    PROVE DepsFrom /\ HandlesGrow /\ AbortsGrow
<1>1. CASE OpenRoom \/ Respawn \/ SwitchStep \/ DropClient \/ Restart \/ UNCHANGED vars
  <2>1. deps' = deps /\ handles' = handles /\ aborted' = aborted /\ refused' = refused
    BY <1>1 DEF OpenRoom, Respawn, SwitchStep, RetryVerified, SetEnabled, SetGloballyEnabled,
       DropClient, Restart, vars, storeVars, userVars
  <2>. QED BY <2>1, DepsKept DEF DepsFrom, HandlesGrow, AbortsGrow
<1>. QED BY <1>1, TaskDeps, SubmitDeps, HandleDeps DEF Next

-----------------------------------------------------------------------------
(* Every step leaves the ids in order *)

\* Where the requests come from, the one on its way included.
RowsFrom == \A r \in Rows' : (\E s \in Rows : SameRequest(r, s)) \/ PromotedRow(r) \/ NewRow(r)

LEMMA RowsAll ==
    ASSUME QueueFrom, TaskFrom
    PROVE RowsFrom
<1>1. ASSUME NEW r \in queue' PROVE (\E s \in Rows : SameRequest(r, s)) \/ PromotedRow(r) \/ NewRow(r)
    BY <1>1 DEF QueueFrom, KeptRow, SameRow, Rows
<1>2. ASSUME pc' = "send" PROVE \E s \in Rows : SameRequest(request', s)
    BY <1>2 DEF TaskFrom, Rows, IsFirst, SameRequest
<1>3. Rows' \subseteq queue' \cup {request'} /\ (pc' # "send" => Rows' = queue')
    BY DEF Rows
<1>. QED BY <1>1, <1>2, <1>3 DEF RowsFrom

LEMMA PromotedRowIs ==
    ASSUME RecordsOK, NEW r, PromotedRow(r)
    PROVE \E d \in deps : /\ r.txn = d.own /\ (r.kind = "upload" <=> d.kind = "file") /\ d.sent
                          /\ (d.kind = "file" => r.about = d.about)
                          /\ (r.kind = "message" <=> d.kind = "finish")
                          /\ (IsMedia(d) => r.high)
<1>1. PICK d \in deps : IsReady(d) /\ d.kind # "redact" /\ r = Promoted(d)
    BY DEF PromotedRow
<1>2. d.kind \in DependentKind
    BY Fields DEF RecordsOK
<1>3. /\ r.txn = d.own /\ r.kind = PromotedKind[d.kind] /\ r.about = PromotedAbout(d)
      /\ r.high = PromotedHigh(d)
    BY <1>1 DEF Promoted, NewRequest
<1>4. /\ (r.kind = "upload" <=> d.kind = "file") /\ (d.kind = "file" => r.about = d.about)
      /\ (r.kind = "message" <=> d.kind = "finish")
    BY <1>1, <1>2, <1>3 DEF PromotedKind, DependentKind, PromotedAbout
<1>5. IsMedia(d) => PromotedHigh(d) = TRUE
    BY DEF PromotedHigh, IsMedia
<1>. QED BY <1>1, <1>3, <1>4, <1>5 DEF IsReady

\* Ids are numbers, and drawn by now.
LEMMA IdsDrawn ==
    ASSUME RecordsOK, CausalInv, AttachmentInv
    PROVE /\ clock \in Nat
          /\ \A r \in Rows : r.txn \in Nat /\ r.txn <= clock /\ r.about \in Nat
          /\ \A d \in deps : /\ d.own \in Nat /\ d.own <= clock /\ d.parent \in Nat
                             /\ d.parent <= clock /\ d.about \in Nat
          /\ \A h \in handles : h.txn \in Nat /\ h.txn <= clock /\ h.file \in Nat /\ h.thumb \in Nat
          /\ \A t \in Attachments : t \in Nat /\ t + 2 <= clock
<1>1. Rows \subseteq queue \cup {request}
    BY DEF Rows
<1>2. /\ \A r \in queue \cup {request} : r \in Request
      /\ \A d \in deps : d \in Dependent
      /\ \A h \in handles : h \in Handle
      /\ clock \in Nat
    BY DEF RecordsOK
<1>3. /\ \A r \in Rows : r.txn \in Nat /\ r.txn <= clock /\ r.about \in Nat
      /\ \A d \in deps : /\ d.own \in Nat /\ d.own <= clock /\ d.parent \in Nat
                         /\ d.parent <= clock /\ d.about \in Nat
      /\ \A h \in handles : h.txn \in Nat /\ h.txn <= clock /\ h.file \in Nat /\ h.thumb \in Nat
    BY <1>1, <1>2, Fields DEF CausalInv, TxnInv
<1>4. \A t \in Attachments : t \in Nat
    BY <1>3 DEF Attachments, MediaEvent
<1>. QED BY <1>2, <1>3, <1>4 DEF AttachmentInv

\* An attachment is made in one go, and nothing becomes one later.
LEMMA AttachmentsFrom ==
    ASSUME RecordsOK, RowsFrom, DepsFrom, HandlesGrow, NEW t \in Attachments'
    PROVE t \in Attachments \/ (t = clock + 1 /\ clock + 3 <= clock')
<1>1. ASSUME NEW d \in deps', IsMedia(d), t = MediaEvent(d)
      PROVE t \in Attachments \/ (t = clock + 1 /\ clock + 3 <= clock')
  <2>1. ASSUME NEW e \in deps, SameDependent(d, e), d.about = e.about PROVE t \in Attachments
    BY <1>1, <2>1 DEF Attachments, MediaEvent, IsMedia, SameDependent
  <2>2. CASE NewDep(d)
    BY <1>1, <2>2 DEF NewDep, MediaEvent, IsMedia
  <2>. QED BY <1>1, <2>1, <2>2 DEF DepsFrom, KeptDep
<1>2. ASSUME NEW r \in Rows', r.kind = "upload", t = r.about
      PROVE t \in Attachments \/ (t = clock + 1 /\ clock + 3 <= clock')
  <2>1. ASSUME NEW s \in Rows, SameRequest(r, s) PROVE t \in Attachments
    BY <1>2, <2>1 DEF Attachments, SameRequest
  <2>2. CASE PromotedRow(r)
    <3>1. PICK d \in deps : d.kind = "file" /\ r.about = d.about
        BY <1>2, <2>2, PromotedRowIs
    <3>. QED BY <1>2, <3>1 DEF Attachments, MediaEvent, IsMedia
  <2>3. CASE NewRow(r)
    BY <1>2, <2>3 DEF NewRow
  <2>. QED BY <1>2, <2>1, <2>2, <2>3 DEF RowsFrom
<1>3. ASSUME NEW h \in handles', h.file # NoTxn, t = h.txn
      PROVE t \in Attachments \/ (t = clock + 1 /\ clock + 3 <= clock')
    BY <1>3 DEF HandlesGrow, NewHandleFor, Attachments
<1>. QED BY <1>1, <1>2, <1>3 DEF Attachments

\* Nothing but an upload gets the id of one.
LEMMA UploadTxnStays ==
    ASSUME RecordsOK, CausalInv, AttachmentInv, RowsFrom, DepsFrom, HandlesGrow,
           NEW t \in Nat, \/ t <= clock /\ IsUploadTxn(t)
                          \/ t \in {clock + 2, clock + 3}
    PROVE IsUploadTxn(t)'
<1>1. ASSUME NEW r \in Rows', r.txn = t PROVE r.kind = "upload"
  <2>1. ASSUME NEW s \in Rows, SameRequest(r, s) PROVE r.kind = "upload"
    BY <1>1, <2>1, IdsDrawn DEF IsUploadTxn, SameRequest
  <2>2. CASE PromotedRow(r)
    <3>1. PICK d \in deps : r.txn = d.own /\ (r.kind = "upload" <=> d.kind = "file")
        BY <2>2, PromotedRowIs
    <3>. QED BY <1>1, <3>1, IdsDrawn DEF IsUploadTxn
  <2>3. CASE NewRow(r)
    BY <1>1, <2>3, IdsDrawn DEF NewRow, Fresh
  <2>. QED BY <1>1, <2>1, <2>2, <2>3 DEF RowsFrom
<1>2. ASSUME NEW d \in deps', d.own = t PROVE d.kind = "file"
  <2>1. ASSUME NEW e \in deps, SameDependent(d, e) PROVE d.kind = "file"
    BY <1>2, <2>1, IdsDrawn DEF IsUploadTxn, SameDependent
  <2>2. CASE NewDep(d)
    BY <1>2, <2>2, IdsDrawn DEF NewDep
  <2>. QED BY <1>2, <2>1, <2>2 DEF DepsFrom, KeptDep
<1>3. ASSUME NEW h \in handles' PROVE h.txn # t
  <2>1. CASE h \in handles
    BY <2>1, IdsDrawn DEF IsUploadTxn
  <2>2. CASE h.txn = clock + 1
    BY <2>2, IdsDrawn
  <2>. QED BY <2>1, <2>2 DEF HandlesGrow, NewHandleFor
<1>4. t \notin Attachments'
  <2>1. t \notin Attachments /\ t # clock + 1
    BY IdsDrawn DEF IsUploadTxn
  <2>. QED BY <2>1, AttachmentsFrom
<1>. QED BY <1>1, <1>2, <1>3, <1>4 DEF IsUploadTxn

\* A step that takes its requests, dependent requests and handles from where it may keeps the
\* ids in order.
LEMMA NamesFrame ==
    ASSUME RecordsOK, RecordsOK', CausalInv, NamesInv, clock <= clock',
           RowsFrom, DepsFrom, HandlesGrow, AbortsGrow
    PROVE NamesInv'
<1>0. ShapeInv /\ AttachmentInv /\ UniqueInv /\ HandleInv
    BY DEF NamesInv
<1>1. /\ clock \in Nat /\ clock' \in Nat
      /\ \A r \in Rows : r.txn \in Nat /\ r.txn <= clock /\ r.about \in Nat
      /\ \A d \in deps : d.own \in Nat /\ d.own <= clock /\ d.parent \in Nat /\ d.about \in Nat
      /\ \A h \in handles : h.txn \in Nat /\ h.txn <= clock /\ h.file \in Nat /\ h.thumb \in Nat
      /\ \A t \in Attachments : t \in Nat /\ t + 2 <= clock
    BY <1>0, IdsDrawn DEF RecordsOK
<1>2. ASSUME NEW h \in handles' PROVE h \in handles \/ NewHandleFor(h)
    BY DEF HandlesGrow
<1>3. ShapeInv'
  <2>1. ASSUME NEW r \in Rows'
        PROVE r.txn # NoTxn /\ (r.kind = "upload" => r.txn \in {r.about + 1, r.about + 2})
    <3>1. ASSUME NEW s \in Rows, SameRequest(r, s)
          PROVE r.txn # NoTxn /\ (r.kind = "upload" => r.txn \in {r.about + 1, r.about + 2})
        BY <1>0, <3>1 DEF ShapeInv, SameRequest
    <3>2. CASE PromotedRow(r)
      <4>1. PICK d \in deps : /\ r.txn = d.own /\ (r.kind = "upload" <=> d.kind = "file")
                              /\ (d.kind = "file" => r.about = d.about)
          BY <3>2, PromotedRowIs
      <4>. QED BY <1>0, <4>1 DEF ShapeInv
    <3>3. CASE NewRow(r)
        BY <1>1, <3>3 DEF NewRow, Fresh, NoTxn
    <3>. QED BY <2>1, <3>1, <3>2, <3>3 DEF RowsFrom
  <2>2. ASSUME NEW d \in deps'
        PROVE /\ d.own # NoTxn /\ d.parent # NoTxn
              /\ d.kind = "file" => d.own = d.about + 1 /\ d.parent = d.about + 2
              /\ d.kind = "finish" => d.parent = d.own + 1
    <3>1. CASE KeptDep(d)
        BY <1>0, <3>1 DEF KeptDep, ShapeInv, SameDependent
    <3>2. CASE NewDep(d)
        BY <1>0, <1>1, <3>2 DEF NewDep, ShapeInv, NoTxn
    <3>. QED BY <2>2, <3>1, <3>2 DEF DepsFrom
  <2>3. ASSUME NEW h \in handles'
        PROVE /\ h.txn # NoTxn
              /\ h.file # NoTxn =>
                    h.kind = "event" /\ h.file = h.txn + 1 /\ h.thumb \in {NoTxn, h.txn + 2}
    <3>1. CASE h \in handles
        BY <1>0, <3>1 DEF ShapeInv
    <3>2. CASE NewHandleFor(h)
        BY <1>1, <3>2 DEF NewHandleFor, NoTxn
    <3>. QED BY <1>2, <3>1, <3>2
  <2>. QED BY <2>1, <2>2, <2>3 DEF ShapeInv
<1>4. AttachmentInv'
  <2>1. ASSUME NEW t \in Attachments'
        PROVE t + 2 <= clock' /\ IsUploadTxn(t + 1)' /\ IsUploadTxn(t + 2)'
    <3>1. CASE t \in Attachments
      <4>1. IsUploadTxn(t + 1) /\ IsUploadTxn(t + 2)
          BY <1>0, <3>1 DEF AttachmentInv
      <4>2. t + 1 \in Nat /\ t + 2 \in Nat /\ t + 1 <= clock /\ t + 2 <= clock /\ t + 2 <= clock'
          BY <1>1, <3>1
      <4>. QED BY <1>0, <4>1, <4>2, UploadTxnStays
    <3>2. CASE t = clock + 1 /\ clock + 3 <= clock'
      <4>1. /\ t + 1 \in Nat /\ t + 1 = clock + 2 /\ t + 2 \in Nat /\ t + 2 = clock + 3
            /\ t + 2 <= clock'
          BY <1>1, <3>2
      <4>. QED BY <1>0, <4>1, UploadTxnStays
    <3>. QED BY <2>1, <3>1, <3>2, AttachmentsFrom
  <2>. QED BY <2>1 DEF AttachmentInv
<1>5. UniqueInv'
  <2>1. ASSUME NEW d \in deps', NEW e \in deps', d.own = e.own PROVE d.kind = e.kind
    <3>1. ASSUME NEW f \in deps', NEW g \in deps', f.own = g.own, KeptDep(f) PROVE f.kind = g.kind
      <4>1. PICK f0 \in deps : SameDependent(f, f0)
          BY <3>1 DEF KeptDep
      <4>2. ~ NewDep(g)
          BY <1>1, <3>1, <4>1 DEF NewDep, SameDependent
      <4>3. PICK g0 \in deps : SameDependent(g, g0)
          BY <3>1, <4>2 DEF DepsFrom, KeptDep
      <4>. QED BY <1>0, <3>1, <4>1, <4>3 DEF UniqueInv, SameDependent
    <3>. QED BY <2>1, <3>1 DEF DepsFrom
  <2>2. ASSUME NEW h \in handles', NEW g \in handles', h.txn = g.txn PROVE h = g
    <3>1. CASE handles' = handles
        BY <1>0, <2>2, <3>1 DEF UniqueInv
    <3>2. ASSUME NEW x, handles' = handles \cup {x}, NewHandleFor(x) PROVE h = g
      <4>1. \A y \in handles : y.txn # x.txn
          BY <1>1, <3>2 DEF NewHandleFor
      <4>. QED BY <1>0, <2>2, <3>2, <4>1 DEF UniqueInv
    <3>. QED BY <3>1, <3>2 DEF HandlesGrow
  <2>. QED BY <2>1, <2>2 DEF UniqueInv
<1>6. HandleInv'
  <2>1. ASSUME NEW d \in deps', ~ IsMedia(d) PROVE \E h \in handles' : h.txn = d.parent
    <3>1. CASE KeptDep(d)
        BY <1>0, <2>1, <3>1 DEF KeptDep, HandleInv, SameDependent, IsMedia, HandlesGrow
    <3>2. CASE NewDep(d)
        BY <2>1, <3>2 DEF NewDep, IsMedia, HandlesGrow
    <3>. QED BY <2>1, <3>1, <3>2 DEF DepsFrom
  <2>2. ASSUME NEW d \in deps', d.kind \in {"react", "reply"}
        PROVE \E h \in handles' : h.txn = d.own /\ h.about = d.parent
    <3>1. CASE KeptDep(d)
        BY <1>0, <2>2, <3>1 DEF KeptDep, HandleInv, SameDependent, HandlesGrow
    <3>2. CASE NewDep(d)
        BY <2>2, <3>2 DEF NewDep
    <3>. QED BY <2>2, <3>1, <3>2 DEF DepsFrom
  <2>3. ASSUME NEW d \in deps', IsRedact(d) PROVE d.parent \in aborted'
    <3>1. CASE KeptDep(d)
        BY <1>0, <2>3, <3>1 DEF KeptDep, HandleInv, SameDependent, IsRedact, AbortsGrow
    <3>2. CASE NewDep(d)
        BY <2>3, <3>2 DEF NewDep, IsRedact
    <3>. QED BY <2>3, <3>1, <3>2 DEF DepsFrom
  <2>4. ASSUME NEW t \in aborted' \cup refused' PROVE \E h \in handles' : h.txn = t
    BY <1>0, <2>4 DEF HandleInv, AbortsGrow, HandlesGrow
  <2>5. ASSUME NEW h \in handles', NEW d \in deps', d.own = h.txn
        PROVE \/ d.kind = "react" /\ h.kind = "reaction"
              \/ d.kind = "reply"
              \/ d.kind = "finish" /\ h.file # NoTxn
    <3>1. ASSUME NEW e \in deps, SameDependent(d, e)
          PROVE \/ d.kind = "react" /\ h.kind = "reaction"
                \/ d.kind = "reply"
                \/ d.kind = "finish" /\ h.file # NoTxn
      <4>1. ~ NewHandleFor(h)
          BY <1>1, <2>5, <3>1 DEF NewHandleFor, SameDependent
      <4>. QED BY <1>0, <1>2, <2>5, <3>1, <4>1 DEF HandleInv, SameDependent
    <3>2. CASE NewDep(d)
      <4>1. h \notin handles
          BY <1>1, <2>5, <3>2 DEF NewDep
      <4>. QED BY <1>1, <1>2, <2>5, <3>2, <4>1 DEF NewDep, NewHandleFor, NoTxn
    <3>. QED BY <2>5, <3>1, <3>2 DEF DepsFrom, KeptDep
  <2>6. ASSUME NEW h \in handles', h.file # NoTxn, NEW r \in Rows', r.kind = "upload", r.about = h.txn
        PROVE r.txn \in {h.file, h.thumb}
    <3>1. ASSUME NEW s \in Rows, SameRequest(r, s) PROVE r.txn \in {h.file, h.thumb}
      <4>1. s.about \in Attachments
          BY <2>6, <3>1 DEF Attachments, SameRequest
      <4>2. ~ NewHandleFor(h)
          BY <1>1, <2>6, <3>1, <4>1 DEF NewHandleFor, SameRequest
      <4>. QED BY <1>0, <1>2, <2>6, <3>1, <4>2 DEF HandleInv, SameRequest
    <3>2. CASE PromotedRow(r)
      <4>1. PICK d \in deps : d.kind = "file" /\ r.txn = d.own /\ r.about = d.about
          BY <2>6, <3>2, PromotedRowIs
      <4>2. d.about \in Attachments
          BY <4>1 DEF Attachments, MediaEvent, IsMedia
      <4>3. ~ NewHandleFor(h)
          BY <1>1, <2>6, <4>1, <4>2 DEF NewHandleFor
      <4>. QED BY <1>0, <1>2, <2>6, <4>1, <4>3 DEF ShapeInv
    <3>3. CASE NewRow(r)
        BY <1>1, <2>6, <3>3 DEF NewRow
    <3>. QED BY <2>6, <3>1, <3>2, <3>3 DEF RowsFrom
  <2>7. ASSUME NEW h \in handles', h.file # NoTxn, NEW d \in deps', d.kind = "file", d.about = h.txn
        PROVE d.parent = h.thumb
    <3>1. ASSUME NEW e \in deps, SameDependent(d, e), d.about = e.about PROVE d.parent = h.thumb
      <4>1. e.about \in Attachments
          BY <2>7, <3>1 DEF Attachments, MediaEvent, IsMedia, SameDependent
      <4>2. ~ NewHandleFor(h)
          BY <1>1, <2>7, <3>1, <4>1 DEF NewHandleFor
      <4>. QED BY <1>0, <1>2, <2>7, <3>1, <4>2 DEF HandleInv, SameDependent
    <3>2. CASE NewDep(d)
        BY <1>1, <2>7, <3>2 DEF NewDep
    <3>. QED BY <2>7, <3>1, <3>2 DEF DepsFrom, KeptDep
  <2>. QED BY <2>1, <2>2, <2>3, <2>4, <2>5, <2>6, <2>7 DEF HandleInv
<1>. QED BY <1>3, <1>4, <1>5, <1>6 DEF NamesInv

LEMMA NamesStep ==
    ASSUME RecordsOK, CausalInv, NamesInv, [Next]_vars
    PROVE NamesInv'
<1>1. RecordsOK' /\ clock <= clock'
    BY RecordsStep, ClockStep
<1>2. QueueFrom /\ TaskFrom /\ DepsFrom /\ HandlesGrow /\ AbortsGrow
    BY RowsStep, TaskFromStep, DepsStep
<1>. QED BY <1>1, <1>2, RowsAll, NamesFrame

LEMMA NamesInit == Init => NamesInv
<1> SUFFICES ASSUME Init PROVE NamesInv
    OBVIOUS
<1>1. Rows = {} /\ deps = {} /\ handles = {} /\ aborted = {} /\ refused = {}
    BY DEF Init, Rows
<1>2. Attachments = {}
    BY <1>1 DEF Attachments
<1>. QED BY <1>1, <1>2 DEF NamesInv, ShapeInv, AttachmentInv, UniqueInv, HandleInv

\* What waits for an upload, waits for nothing else; what else waits, waits for an event.
LEMMA ParentIs ==
    ASSUME NamesInv, NEW d \in deps
    PROVE /\ IsMedia(d) => /\ MediaEvent(d) \in Attachments /\ IsUploadTxn(d.parent)
                           /\ d.parent \in {MediaEvent(d) + 1, MediaEvent(d) + 2}
          /\ ~ IsMedia(d) => \E h \in handles : h.txn = d.parent
<1>1. ASSUME IsMedia(d)
      PROVE /\ MediaEvent(d) \in Attachments /\ IsUploadTxn(d.parent)
            /\ d.parent \in {MediaEvent(d) + 1, MediaEvent(d) + 2}
  <2>1. MediaEvent(d) \in Attachments
    BY <1>1 DEF Attachments
  <2>2. d.parent \in {MediaEvent(d) + 1, MediaEvent(d) + 2}
    BY <1>1 DEF NamesInv, ShapeInv, MediaEvent, IsMedia
  <2>. QED BY <2>1, <2>2 DEF NamesInv, AttachmentInv
<1>. QED BY <1>1 DEF NamesInv, HandleInv

-----------------------------------------------------------------------------
(* The request that being_sent names is in the queue *)

BusyInv == beingSent # NoTxn => IsQueued(beingSent)

LEMMA BusyStep ==
    ASSUME RecordsOK, OneInv, BusyInv, [Next]_vars
    PROVE BusyInv'
<1>1. ASSUME beingSent' = beingSent,
             \A r \in queue : r.txn = beingSent => \E s \in queue' : s.txn = r.txn
      PROVE BusyInv'
    BY <1>1 DEF BusyInv, IsQueued
<1>2. CASE beingSent' = NoTxn
    BY <1>2 DEF BusyInv
<1>3. \A r \in queue : r \in Request
    BY DEF RecordsOK
<1>4. /\ \A T : \A r \in queue : \E s \in WithWedged(queue, T, FALSE) : s.txn = r.txn
      /\ \A t, body : \A r \in queue : \E s \in WithBody(queue, t, body) : s.txn = r.txn
  <2>1. ASSUME NEW T, NEW r \in queue PROVE \E s \in WithWedged(queue, T, FALSE) : s.txn = r.txn
    <3>1. PICK s : s = IF r.txn \in T THEN [r EXCEPT !.wedged = FALSE] ELSE r
        OBVIOUS
    <3>2. s \in WithWedged(queue, T, FALSE)
        BY <3>1 DEF WithWedged
    <3>. QED BY <1>3, <3>1, <3>2 DEF Request
  <2>2. ASSUME NEW t, NEW body, NEW r \in queue PROVE \E s \in WithBody(queue, t, body) : s.txn = r.txn
    <3>1. PICK s : s = IF r.txn = t THEN [r EXCEPT !.body = body, !.wedged = FALSE] ELSE r
        OBVIOUS
    <3>2. s \in WithBody(queue, t, body)
        BY <3>1 DEF WithBody
    <3>. QED BY <1>3, <3>1, <3>2 DEF Request
  <2>. QED BY <2>1, <2>2
<1>5. CASE pc = "apply" /\ beingSent' = beingSent
    BY <1>2, <1>5 DEF OneInv, OneAtATime
<1>6. CASE TaskStep \/ SendFails \/ ServerAccepts
  <2>1. CASE PeekNextToSend
    BY <2>1, <1>1 DEF PeekNextToSend, storeVars, BusyInv, IsQueued
  <2>2. CASE Apply
    <3>1. pc = "apply" /\ beingSent' = beingSent
        BY <2>2 DEF Apply, ApplyPromote, ApplyRedaction, ApplyLocally, ApplyLater, IsNext, ApplyEnd
    <3>. QED BY <1>5, <3>1
  <2>3. CASE LoopStart \/ CheckEnabled \/ Woken \/ UploadCancelled \/ ServerAccepts
    BY <1>1, <2>3 DEF LoopStart, CheckEnabled, Woken, UploadCancelled, ServerAccepts, storeVars
  <2>4. CASE MarkAsSent \/ SendFails
    BY <1>2, <2>4 DEF MarkAsSent, SendFails, SendFailsRecoverably, SendFailsForGood, SendReturns
  <2>. QED BY <1>6, <2>1, <2>2, <2>3, <2>4 DEF TaskStep
<1>7. CASE SubmitStep
  <2>1. beingSent' = beingSent /\ \A r \in queue : r.txn = beingSent => r \in queue'
    BY <1>7 DEF SubmitStep, Push, PushSuperseding, SupersededBy, SendAttachment, Quiet
  <2>. QED BY <1>1, <2>1
<1>8. CASE HandleStep
  <2>1. ASSUME NEW h, React(h) \/ Reply(h) PROVE BusyInv'
    BY <1>1, <2>1 DEF React, Reply, Quiet
  <2>2. ASSUME NEW h, Edit(h) PROVE BusyInv'
    <3>1. beingSent' = beingSent /\ (queue' = queue \/ queue' = WithBody(queue, h.txn, clock'))
        BY <2>2 DEF Edit, Quiet
    <3>. QED BY <1>1, <1>4, <3>1
  <2>3. ASSUME NEW h, Unwedge(h) PROVE BusyInv'
    <3>1. beingSent' = beingSent /\ \E T : queue' = WithWedged(queue, T, FALSE)
        BY <2>3 DEF Unwedge
    <3>. QED BY <1>1, <1>4, <3>1
  <2>4. ASSUME NEW h, Abort(h) \/ AbortReaction(h) PROVE BusyInv'
    <3>1. beingSent' = beingSent /\ (queue' = queue \/ CancelEvent(h.txn, queue))
        BY <2>4 DEF Abort, AbortReaction, Quiet
    <3>. QED BY <1>1, <3>1 DEF CancelEvent, Without
  <2>5. ASSUME NEW h, AbortMedia(h) PROVE BusyInv'
    <3>1. PICK gone :
            /\ IF beingSent \in gone \ {NoTxn} THEN beingSent' = NoTxn ELSE beingSent' = beingSent
            /\ \/ queue' = {r \in queue : r.txn \notin gone}
               \/ CancelEvent(h.txn, {r \in queue : r.txn \notin gone})
        BY <2>5 DEF AbortMedia
    <3>2. CASE beingSent \notin gone
        BY <1>1, <3>1, <3>2 DEF CancelEvent, Without
    <3>3. CASE beingSent \in gone
        BY <1>2, <3>1, <3>3
    <3>. QED BY <3>2, <3>3
  <2>. QED BY <1>8, <2>1, <2>2, <2>3, <2>4, <2>5 DEF HandleStep
<1>9. CASE SwitchStep
  <2>1. ASSUME NEW T, RetryVerified(T) PROVE BusyInv'
    BY <1>1, <1>4, <2>1 DEF RetryVerified
  <2>2. ASSUME NEW b, SetEnabled(b) \/ SetGloballyEnabled(b) PROVE BusyInv'
    BY <1>1, <2>2 DEF SetEnabled, SetGloballyEnabled, storeVars
  <2>. QED BY <1>9, <2>1, <2>2 DEF SwitchStep
<1>10. CASE OpenRoom \/ Respawn \/ DropClient \/ UNCHANGED vars
    BY <1>1, <1>10 DEF OpenRoom, Respawn, DropClient, vars, storeVars
<1>11. CASE Restart
    BY <1>2, <1>11 DEF Restart
<1>. QED BY <1>6, <1>7, <1>8, <1>9, <1>10, <1>11 DEF Next

-----------------------------------------------------------------------------
(* Nothing is lost *)

There(t) == IsQueued(t) \/ IsDependent(t)

\* What leaves the store was sent, or aborted, or the application never knew of it; and nothing
\* is left that waits for it.
MayLeave(t) ==
    /\ (\E h \in handles : h.txn = t) => Dead(t)' \/ OnServer(t)'
    /\ \A d \in deps' : d.parent = t => d.sent \/ Dead(t)'
LeavesSafely == \A t : There(t) => There(t)' \/ MayLeave(t)

\* What is new is in the store, and so is what it waits for.
ArrivesSafely ==
    /\ \A h \in handles' : h \in handles \/ There(h.txn)'
    /\ \A d \in deps' : KeptDep(d) \/ There(d.parent)' \/ Dead(d.parent)'

\* What was sent stays sent, and what was aborted stays aborted.
LEMMA DeadStays ==
    ASSUME HandlesGrow, AbortsGrow, NEW t, Dead(t)
    PROVE Dead(t)'
    BY DEF Dead, HandlesGrow, AbortsGrow

LEMMA ServerKeeps ==
    ASSUME RecordsOK, ServerGets, NEW t, OnServer(t)
    PROVE OnServer(t)'
<1>1. CASE log' = log
    BY <1>1 DEF OnServer
<1>2. ASSUME NEW e \in LogEntry, log' = Append(log, e) PROVE OnServer(t)'
  <2>1. log \in Seq(LogEntry)
    BY DEF RecordsOK
  <2>. QED BY <1>2, <2>1 DEF OnServer
<1>3. Entry(request) \in LogEntry
    BY DEF RecordsOK, Entry, LogEntry, Request
<1>. QED BY <1>1, <1>2, <1>3 DEF ServerGets

LEMMA LostFrame ==
    ASSUME RecordsOK, NothingLost, ServerGets, HandlesGrow, AbortsGrow, LeavesSafely, ArrivesSafely
    PROVE NothingLost'
<1>1. ASSUME NEW h \in handles'
      PROVE Dead(h.txn)' \/ OnServer(h.txn)' \/ There(h.txn)'
  <2>1. CASE h \in handles
    <3>1. Dead(h.txn) \/ OnServer(h.txn) \/ There(h.txn)
        BY <2>1 DEF NothingLost, There
    <3>. QED BY <2>1, <3>1, DeadStays, ServerKeeps DEF LeavesSafely, MayLeave
  <2>. QED BY <2>1 DEF ArrivesSafely
<1>2. ASSUME NEW d \in deps' PROVE d.sent \/ There(d.parent)' \/ Dead(d.parent)'
  <2>1. CASE KeptDep(d)
    <3>1. PICK e \in deps : d.parent = e.parent /\ (e.sent => d.sent)
        BY <2>1 DEF KeptDep, SameDependent
    <3>2. e.sent \/ There(e.parent) \/ Dead(e.parent)
        BY DEF NothingLost, There
    <3>. QED BY <1>2, <3>1, <3>2, DeadStays DEF LeavesSafely, MayLeave
  <2>. QED BY <2>1 DEF ArrivesSafely
<1>. QED BY <1>1, <1>2 DEF NothingLost, There

\* Nobody has a handle of an edit or a redaction that waits, and nothing waits for it.
LEMMA PlainLeaves ==
    ASSUME NamesInv, deps' \subseteq deps, NEW d \in deps, d.kind \in {"edit", "redact"}
    PROVE MayLeave(d.own)
<1>1. \A h \in handles : h.txn # d.own
    BY DEF NamesInv, HandleInv
<1>2. \A e \in deps : e.parent # d.own
  <2>1. SUFFICES ASSUME NEW e \in deps, e.parent = d.own PROVE FALSE
    OBVIOUS
  <2>2. IsMedia(e) /\ IsUploadTxn(d.own)
    BY <1>1, <2>1, ParentIs
  <2>. QED BY <2>2 DEF IsUploadTxn
<1>. QED BY <1>1, <1>2 DEF MayLeave

\* Nor of a receipt.
LEMMA ReceiptLeaves ==
    ASSUME CausalInv, NamesInv, deps' \subseteq deps, NEW r \in Rows, IsReceipt(r)
    PROVE MayLeave(r.txn)
<1>0. r \in queue \cup {request}
    BY DEF Rows
<1>1. \A h \in handles : h.txn # r.txn
    BY <1>0 DEF CausalInv, TxnInv, IsEventTxn, IsReceipt
<1>2. \A e \in deps : e.parent # r.txn
  <2>1. SUFFICES ASSUME NEW e \in deps, e.parent = r.txn PROVE FALSE
    OBVIOUS
  <2>2. IsMedia(e) /\ IsUploadTxn(r.txn)
    BY <1>1, <2>1, ParentIs
  <2>. QED BY <2>2 DEF IsUploadTxn, IsReceipt
<1>. QED BY <1>1, <1>2 DEF MayLeave

\* The requests that an edit or a wedge changes are still there.
LEMMA QueuedStays ==
    ASSUME RecordsOK, NEW t, IsQueued(t)
    PROVE /\ \A T : \E r \in WithWedged(queue, T, TRUE) : r.txn = t
          /\ \A T : \E r \in WithWedged(queue, T, FALSE) : r.txn = t
          /\ \A u, body : \E r \in WithBody(queue, u, body) : r.txn = t
<1>1. PICK r \in queue : r.txn = t
    BY DEF IsQueued
<1>2. r \in Request
    BY DEF RecordsOK
<1>3. ASSUME NEW T PROVE \E s \in WithWedged(queue, T, TRUE) : s.txn = t
  <2>1. PICK s : s = IF r.txn \in T THEN [r EXCEPT !.wedged = TRUE] ELSE r
    OBVIOUS
  <2>2. s \in WithWedged(queue, T, TRUE)
    BY <2>1 DEF WithWedged
  <2>. QED BY <1>1, <1>2, <2>1, <2>2 DEF Request
<1>4. ASSUME NEW T PROVE \E s \in WithWedged(queue, T, FALSE) : s.txn = t
  <2>1. PICK s : s = IF r.txn \in T THEN [r EXCEPT !.wedged = FALSE] ELSE r
    OBVIOUS
  <2>2. s \in WithWedged(queue, T, FALSE)
    BY <2>1 DEF WithWedged
  <2>. QED BY <1>1, <1>2, <2>1, <2>2 DEF Request
<1>5. ASSUME NEW u, NEW body PROVE \E s \in WithBody(queue, u, body) : s.txn = t
  <2>1. PICK s : s = IF r.txn = u THEN [r EXCEPT !.body = body, !.wedged = FALSE] ELSE r
    OBVIOUS
  <2>2. s \in WithBody(queue, u, body)
    BY <2>1 DEF WithBody
  <2>. QED BY <1>1, <1>2, <2>1, <2>2 DEF Request
<1>. QED BY <1>3, <1>4, <1>5

\* canonicalize_dependent_requests drops edits, and what is about an event that was aborted.
LEMMA LoopStartLeaves ==
    ASSUME RecordsOK, NamesInv, LoopStart
    PROVE LeavesSafely
<1>1. queue' = queue /\ handles' = handles /\ aborted' = aborted /\ deps' \subseteq deps
    BY TableTypes DEF LoopStart, userVars
<1>2. Canonical(deps) \subseteq deps'
    BY TableTypes DEF LoopStart
<1>3. SUFFICES ASSUME NEW d \in deps, d \notin deps' PROVE MayLeave(d.own)
    BY <1>1 DEF LeavesSafely, There, IsQueued, IsDependent
<1>4. d \notin Canonical(deps)
    BY <1>2, <1>3
<1>5. d.kind = "edit" \/ \E e \in deps : IsRedact(e) /\ e.parent = d.parent
    BY <1>3, <1>4 DEF Canonical
<1>6. CASE d.kind \in {"edit", "redact"}
    BY <1>1, <1>6, PlainLeaves
<1>7. ASSUME d.kind \notin {"edit", "redact"}, NEW e \in deps, IsRedact(e), e.parent = d.parent
      PROVE MayLeave(d.own)
  <2>1. PICK h \in handles : h.txn = d.parent
    BY <1>7, ParentIs DEF IsRedact, IsMedia
  <2>2. ~ IsMedia(d)
    BY <2>1, ParentIs DEF IsUploadTxn
  <2>3. d.kind \in {"react", "reply"}
    <3>1. d.kind \in DependentKind
        BY Fields DEF RecordsOK
    <3>. QED BY <1>7, <2>2, <3>1 DEF DependentKind, IsMedia
  <2>4. PICK g \in handles : g.txn = d.own /\ g.about = d.parent
    BY <2>3 DEF NamesInv, HandleInv
  <2>5. d.parent \in aborted
    BY <1>7 DEF NamesInv, HandleInv
  <2>6. Dead(d.own)'
    BY <1>1, <2>4, <2>5 DEF Dead
  <2>. QED BY <2>6 DEF MayLeave
<1>. QED BY <1>5, <1>6, <1>7

\* What a dependent request turns into takes its place.
LEMMA ApplyLeaves ==
    ASSUME RecordsOK, CausalInv, NamesInv, Apply
    PROVE LeavesSafely
<1>0. deps' \subseteq deps /\ handles' = handles /\ aborted' = aborted
    BY TableTypes DEF Apply, ApplyPromote, ApplyRedaction, ApplyLocally, ApplyLater, ApplyEnd,
       storeVars, userVars
<1>1. ASSUME NEW d \in deps, ApplyPromote(d) PROVE LeavesSafely
  <2>1. CASE queue' = queue \cup {Promoted(d)} /\ (deps' = deps \/ deps' = WithoutDep(deps, d.own))
    <3>1. Promoted(d).txn = d.own
        BY DEF Promoted, NewRequest
    <3>. QED BY <2>1, <3>1 DEF LeavesSafely, There, IsQueued, IsDependent, WithoutDep
  <2>2. CASE queue' = queue /\ deps' = deps
    BY <2>2 DEF LeavesSafely, There, IsQueued, IsDependent
  <2>3. CASE d.kind = "edit" /\ queue' = queue /\ deps' = WithoutDep(deps, d.own)
    <3>1. MayLeave(d.own)
        BY <1>0, <2>3, PlainLeaves
    <3>. QED BY <2>3, <3>1 DEF LeavesSafely, There, IsQueued, IsDependent, WithoutDep
  <2>. QED BY <1>1, <2>1, <2>2, <2>3 DEF ApplyPromote
<1>2. ASSUME NEW d \in deps, ApplyRedaction(d) PROVE LeavesSafely
  <2>1. /\ d.kind = "redact" /\ queue' = queue
        /\ deps' = deps \/ deps' = WithoutDep(deps, d.own)
    BY <1>2 DEF ApplyRedaction
  <2>2. MayLeave(d.own)
    BY <1>0, <2>1, PlainLeaves
  <2>. QED BY <2>1, <2>2 DEF LeavesSafely, There, IsQueued, IsDependent, WithoutDep
<1>3. ASSUME NEW d \in deps, ApplyLocally(d) PROVE LeavesSafely
  <2>1. /\ d.kind \in {"edit", "redact"} /\ (queue' = queue \/ queue' = AppliedLocally(d))
        /\ deps' = deps \/ deps' = WithoutDep(deps, d.own)
    BY <1>3 DEF ApplyLocally
  <2>2. MayLeave(d.own)
    BY <1>0, <2>1, PlainLeaves
  <2>3. CASE d.kind = "edit"
    <3>1. queue' = queue \/ queue' = WithBody(queue, d.parent, d.body)
        BY <2>1, <2>3 DEF AppliedLocally
    <3>2. ASSUME NEW t, IsQueued(t) PROVE IsQueued(t)'
      <4>1. \E r \in WithBody(queue, d.parent, d.body) : r.txn = t
          BY <3>2, QueuedStays
      <4>. QED BY <3>1, <3>2, <4>1 DEF IsQueued
    <3>. QED BY <2>1, <2>2, <3>2 DEF LeavesSafely, There, IsDependent, WithoutDep
  <2>4. CASE d.kind = "redact"
    <3>1. queue' = queue \/ queue' = Without(queue, d.parent)
        BY <2>1, <2>4 DEF AppliedLocally
    <3>2. Dead(d.parent)'
        BY <1>0, <2>4 DEF Dead, NamesInv, HandleInv, IsRedact
    <3>3. \A t : IsQueued(t) => IsQueued(t)' \/ t = d.parent
        BY <3>1 DEF IsQueued, Without
    <3>4. MayLeave(d.parent)
        BY <3>2 DEF MayLeave
    <3>. QED BY <2>1, <2>2, <3>3, <3>4 DEF LeavesSafely, There, IsDependent, WithoutDep
  <2>. QED BY <2>1, <2>3, <2>4
<1>4. CASE queue' = queue /\ deps' = deps
    BY <1>4 DEF LeavesSafely, There, IsQueued, IsDependent
<1>. QED BY <1>1, <1>2, <1>3, <1>4 DEF Apply, ApplyLater, ApplyEnd, storeVars

\* The server has what mark_as_sent takes out of the queue, and all that waits for it is told so.
LEMMA SendLeaves ==
    ASSUME RecordsOK, CausalInv, NamesInv, MarkAsSent \/ SendFailsForGood
    PROVE LeavesSafely
<1>1. CASE MarkAsSent
  <2>1. /\ pc = "send" /\ delivered /\ log' = log /\ handles' = handles /\ request' = request
        /\ \/ queue' = queue /\ deps' \in {deps, MarkReady(deps, request.txn)}
           \/ queue' = Without(queue, request.txn) /\ deps' = MarkReady(deps, request.txn)
    BY <1>1 DEF MarkAsSent, SendReturns, userVars, sendVars
  <2>2. \A d \in deps : d \in Dependent
    BY DEF RecordsOK
  <2>3. ASSUME NEW t, IsDependent(t) PROVE IsDependent(t)'
    <3>1. PICK d \in deps : d.own = t
        BY <2>3 DEF IsDependent
    <3>2. PICK e : e = IF d.parent = request.txn THEN [d EXCEPT !.sent = TRUE] ELSE d
        OBVIOUS
    <3>3. e \in MarkReady(deps, request.txn) /\ e.own = t
        BY <2>2, <3>1, <3>2 DEF MarkReady, Dependent
    <3>. QED BY <2>1, <3>1, <3>3 DEF IsDependent
  <2>4. ASSUME deps' = MarkReady(deps, request.txn) PROVE MayLeave(request.txn)
    <3>1. ASSUME NEW h \in handles, h.txn = request.txn PROVE OnServer(request.txn)'
      <4>1. request.kind \notin {"upload", "receipt"}
          BY <3>1 DEF CausalInv, TxnInv, IsEventTxn
      <4>2. OnServer(request.txn)
          BY <2>1, <4>1 DEF CausalInv, KeyInv
      <4>. QED BY <2>1, <4>2 DEF OnServer
    <3>2. ASSUME NEW d \in deps', d.parent = request.txn PROVE d.sent
      <4>1. PICK e \in deps : d = IF e.parent = request.txn THEN [e EXCEPT !.sent = TRUE] ELSE e
          BY <2>4, <3>2 DEF MarkReady
      <4>. QED BY <2>2, <3>2, <4>1 DEF Dependent
    <3>. QED BY <3>1, <3>2 DEF MayLeave
  <2>5. ASSUME NEW t, IsQueued(t), ~ IsQueued(t)'
        PROVE t = request.txn /\ deps' = MarkReady(deps, request.txn)
    BY <2>1, <2>5 DEF IsQueued, Without
  <2>. QED BY <2>3, <2>4, <2>5 DEF LeavesSafely, There
<1>2. CASE SendFailsForGood
  <2>1. /\ pc = "send" /\ deps' = deps
        /\ queue' = queue \/ queue' = Wedge(request)
    BY <1>2 DEF SendFailsForGood, SendReturns
  <2>2. CASE IsReceipt(request)
    <3>1. MayLeave(request.txn)
      <4>1. request \in Rows
          BY <2>1 DEF Rows
      <4>. QED BY <2>1, <2>2, <4>1, ReceiptLeaves
    <3>2. queue' = queue \/ queue' = Without(queue, request.txn)
        BY <2>1, <2>2 DEF Wedge, IsOrderSensitive, IsReceipt
    <3>. QED BY <2>1, <3>1, <3>2 DEF LeavesSafely, There, IsQueued, IsDependent, Without
  <2>3. CASE ~ IsReceipt(request)
    <3>1. queue' = queue \/ queue' = WithWedged(queue, {request.txn}, TRUE)
        BY <2>1, <2>3 DEF Wedge, IsOrderSensitive, IsReceipt
    <3>2. \A t : IsQueued(t) => IsQueued(t)'
        BY <3>1, QueuedStays DEF IsQueued
    <3>. QED BY <2>1, <3>2 DEF LeavesSafely, There, IsDependent
  <2>. QED BY <2>2, <2>3
<1>. QED BY <1>1, <1>2

LEMMA SubmitLeaves ==
    ASSUME RecordsOK, CausalInv, NamesInv, SubmitStep
    PROVE LeavesSafely /\ ArrivesSafely
<1>0. clock \in Nat
    BY DEF RecordsOK
<1>1. ASSUME NEW op, NEW kind, Push(op, kind) PROVE LeavesSafely /\ ArrivesSafely
  <2>1. PICK type, r0, g0 :
            /\ queue' = queue \cup {r0} /\ r0.txn = clock' /\ deps' = deps
            /\ handles' = handles \cup {g0} /\ g0.txn = clock'
    <3>1. PICK type : handles' = handles \cup {NewHandle(clock', type, NoTxn, NoTxn, NoTxn)}
        BY <1>1 DEF Push
    <3>2. NewHandle(clock', type, NoTxn, NoTxn, NoTxn).txn = clock'
        BY DEF NewHandle
    <3>3. NewRequest(clock', clock', FALSE, kind, NoTxn, clock').txn = clock'
        BY DEF NewRequest
    <3>. QED BY <1>1, <3>1, <3>2, <3>3 DEF Push
  <2>2. LeavesSafely
    BY <2>1 DEF LeavesSafely, There, IsQueued, IsDependent
  <2>3. ArrivesSafely
    BY <2>1, DepsKept DEF ArrivesSafely, There, IsQueued
  <2>. QED BY <2>2, <2>3
<1>2. ASSUME PushSuperseding(NoTxn) PROVE LeavesSafely /\ ArrivesSafely
  <2>1. /\ deps' = deps /\ handles' = handles
        /\ \A r \in queue : r \in queue' \/ IsReceipt(r)
    BY <1>2 DEF PushSuperseding, SupersededBy, IsReceipt, userVars
  <2>2. ASSUME NEW t, There(t), ~ There(t)' PROVE MayLeave(t)
    <3>1. PICK r \in queue : r.txn = t /\ r \notin queue'
        BY <2>1, <2>2 DEF There, IsQueued, IsDependent
    <3>2. r \in Rows
        BY DEF Rows
    <3>. QED BY <2>1, <3>1, <3>2, ReceiptLeaves
  <2>. QED BY <2>1, <2>2, DepsKept DEF LeavesSafely, ArrivesSafely
<1>3. ASSUME NEW op, SendAttachment(op) PROVE LeavesSafely /\ ArrivesSafely
  <2>0. PICK event \in Nat, file \in Nat, thumb \in Nat :
            /\ event = clock + 1 /\ file = clock + 2
            /\ thumb = IF op = "thumbnail" THEN clock + 3 ELSE NoTxn
    BY <1>0 DEF NoTxn
  <2>1. PICK g : g = NewHandle(event, "event", NoTxn, file, thumb)
    OBVIOUS
  <2>2. \/ /\ queue' = queue \cup Uploads(event, file, thumb)
           /\ deps' = deps \cup FileUpload(event, file, thumb) \cup FinishUpload(event, file, thumb)
           /\ handles' = handles \cup {g}
        \/ queue' = queue /\ deps' = deps /\ handles' = handles
        \/ /\ queue' = queue \cup Uploads(event, file, thumb) /\ handles' = handles
           /\ deps' = deps \/ deps' = deps \cup FileUpload(event, file, thumb)
    BY <1>3, <2>0, <2>1 DEF SendAttachment
  <2>3. LeavesSafely
    BY <2>2 DEF LeavesSafely, There, IsQueued, IsDependent
  <2>4. g.txn = event
    BY <2>1 DEF NewHandle
  <2>5. \E r \in Uploads(event, file, thumb) : r.txn = IF thumb = NoTxn THEN file ELSE thumb
    BY DEF Uploads, NewRequest
  <2>6. thumb # NoTxn => \E d \in FileUpload(event, file, thumb) : d.own = file
    BY DEF FileUpload, NewDependent
  <2>7. \A d \in FileUpload(event, file, thumb) : d.parent = thumb /\ thumb # NoTxn
    BY DEF FileUpload, NewDependent
  <2>8. /\ \A d \in FinishUpload(event, file, thumb) : d.parent = file
        /\ \E d \in FinishUpload(event, file, thumb) : d.own = event
    BY DEF FinishUpload, NewDependent
  <2>9. ArrivesSafely
    BY <2>2, <2>4, <2>5, <2>6, <2>7, <2>8, DepsKept
       DEF ArrivesSafely, There, IsQueued, IsDependent
  <2>. QED BY <2>3, <2>9
<1>. QED BY <1>1, <1>2, <1>3 DEF SubmitStep

LEMMA CancelLeaves ==
    ASSUME RecordsOK, NEW h \in handles, NEW q \in SUBSET queue, CancelEvent(h.txn, q),
           handles' = handles
    PROVE /\ \A t : (\E r \in q : r.txn = t) \/ IsDependent(t) => There(t)' \/ MayLeave(t)
          /\ ArrivesSafely
<1>1. CASE queue' = q /\ deps' = deps
    BY <1>1, DepsKept DEF There, IsQueued, IsDependent, ArrivesSafely
<1>2. ASSUME NEW d0, queue' = q, deps' = deps \cup {d0}, d0.parent = h.txn,
             aborted' = aborted \cup {h.txn}
      PROVE /\ \A t : (\E r \in q : r.txn = t) \/ IsDependent(t) => There(t)' \/ MayLeave(t)
            /\ ArrivesSafely
  <2>1. Dead(d0.parent)'
    BY <1>2 DEF Dead
  <2>. QED BY <1>2, <2>1, DepsKept DEF There, IsQueued, IsDependent, ArrivesSafely
<1>3. CASE queue' = Without(q, h.txn) /\ deps' = deps /\ aborted' = aborted \cup {h.txn}
  <2>1. Dead(h.txn)'
    BY <1>3 DEF Dead
  <2>2. MayLeave(h.txn)
    BY <2>1 DEF MayLeave
  <2>. QED BY <1>3, <2>2, DepsKept DEF There, IsQueued, IsDependent, ArrivesSafely, Without
<1>4. PICK d0 : d0 = NewDependent(clock', h.txn, clock', "redact", NoTxn, 0)
    OBVIOUS
<1>5. d0.parent = h.txn
    BY <1>4 DEF NewDependent
<1>. QED BY <1>1, <1>2, <1>3, <1>4, <1>5 DEF CancelEvent

\* Only the requests of an attachment wait for its uploads.
LEMMA WaitsForUpload ==
    ASSUME RecordsOK, CausalInv, NamesInv, NEW e \in Attachments, NEW d \in deps
    PROVE /\ d.parent = e + 1 => d.kind = "finish" /\ d.own = e
          /\ d.parent = e + 2 => d.kind = "file" /\ d.own = e + 1 /\ d.about = e
          /\ d.own # e + 2
<1>0. ShapeInv /\ AttachmentInv
    BY DEF NamesInv
<1>1. /\ e \in Nat /\ d.own \in Nat /\ d.parent \in Nat /\ d.about \in Nat
      /\ \A t \in Attachments : t \in Nat
    BY <1>0, IdsDrawn
<1>2. \A t \in Attachments : t + 1 \notin Attachments
    BY <1>0 DEF AttachmentInv, IsUploadTxn
<1>3. ASSUME d.parent \in {e + 1, e + 2} PROVE IsMedia(d) /\ MediaEvent(d) = e
  <2>1. \A h \in handles : h.txn # d.parent
    BY <1>0, <1>3 DEF AttachmentInv, IsUploadTxn
  <2>2. IsMedia(d)
    BY <2>1, ParentIs
  <2>3. PICK f \in Attachments : f = MediaEvent(d) /\ d.parent \in {f + 1, f + 2}
    BY <2>2, ParentIs
  <2>4. f \in Nat /\ f # e + 1 /\ e # f + 1
    BY <1>1, <1>2, <2>3
  <2>. QED BY <1>1, <1>3, <2>2, <2>3, <2>4
<1>4. ASSUME d.parent = e + 1 PROVE d.kind = "finish" /\ d.own = e
    BY <1>0, <1>1, <1>3, <1>4 DEF ShapeInv, IsMedia, MediaEvent
<1>5. ASSUME d.parent = e + 2 PROVE d.kind = "file" /\ d.own = e + 1 /\ d.about = e
    BY <1>0, <1>1, <1>3, <1>5 DEF ShapeInv, IsMedia, MediaEvent
<1>6. ASSUME d.own = e + 2 PROVE FALSE
  <2>1. d.kind = "file" /\ d.about + 1 = e + 2
    BY <1>0, <1>6 DEF AttachmentInv, IsUploadTxn, ShapeInv
  <2>2. d.about \in Attachments
    BY <2>1 DEF Attachments, IsMedia, MediaEvent
  <2>3. d.about = e + 1
    BY <1>1, <2>1
  <2>. QED BY <1>2, <2>2, <2>3
<1>. QED BY <1>4, <1>5, <1>6

\* No abort stops half-way.
WholeAborts == "abort" \notin Ops \/ "store" \notin Failures

\* abort_upload takes an upload and all that waits for it.
LEMMA AbortMediaLeaves ==
    ASSUME RecordsOK, CausalInv, NamesInv, WholeAborts, NEW h \in handles, AbortMedia(h)
    PROVE LeavesSafely /\ ArrivesSafely
<1> DEFINE gone == IF FileWaits(h) THEN {h.thumb} ELSE {h.thumb, h.file}
           left == {r \in queue : r.txn \notin gone}
           fileLeft == IF FileWaits(h) THEN WithoutDep(deps, h.file) ELSE deps
<1>1. \/ /\ queue' = left /\ deps' = WithoutDep(fileLeft, h.txn)
         /\ aborted' = aborted \cup {h.txn}
      \/ /\ ~ FileWaits(h) /\ ~ IsQueued(h.file) /\ ~ IsDependent(h.txn)
         /\ CancelEvent(h.txn, left)
    BY DEF AbortMedia, WholeAborts, Calls, Fails
<1>2. handles' = handles /\ h.file # NoTxn
    BY DEF AbortMedia
<1>3. /\ h.file = h.txn + 1 /\ h.thumb \in {NoTxn, h.txn + 2} /\ h.txn \in Attachments
      /\ h.txn \in Nat
  <2>1. h.txn \in Nat
    BY Fields DEF RecordsOK
  <2>. QED BY <1>2, <2>1 DEF NamesInv, ShapeInv, Attachments
<1>4. ASSUME NEW d \in deps
      PROVE /\ d.parent = h.file => d.own = h.txn
            /\ d.parent = h.thumb => d.own = h.file
            /\ d.own # h.thumb
  <2>1. d.parent # NoTxn /\ d.own # NoTxn
    BY DEF NamesInv, ShapeInv
  <2>. QED BY <1>3, <2>1, WaitsForUpload
<1>5. \A g \in handles : g.txn \notin {h.file, h.thumb}
    BY <1>3 DEF NamesInv, AttachmentInv, IsUploadTxn, ShapeInv
<1>6. ~ IsQueued(NoTxn)
    BY DEF NamesInv, ShapeInv, Rows, IsQueued
<1>7. CASE /\ queue' = left /\ deps' = WithoutDep(fileLeft, h.txn)
           /\ aborted' = aborted \cup {h.txn}
  <2>1. deps' \subseteq deps /\ \A d \in deps' : d.own # h.txn /\ (FileWaits(h) => d.own # h.file)
    BY <1>7 DEF WithoutDep
  <2>2. MayLeave(h.txn)
    BY <1>7 DEF MayLeave, Dead
  <2>3. MayLeave(h.file)
    BY <1>4, <1>5, <2>1 DEF MayLeave
  <2>4. IsQueued(h.thumb) => MayLeave(h.thumb)
    <3>1. ASSUME IsQueued(h.thumb), NEW d \in deps', d.parent = h.thumb PROVE FALSE
      <4>1. d.own = h.file /\ d \in deps
          BY <1>4, <2>1, <3>1
      <4>2. FileWaits(h)
          BY <1>6, <3>1, <4>1 DEF FileWaits, IsDependent
      <4>. QED BY <2>1, <4>1, <4>2
    <3>. QED BY <1>5, <3>1 DEF MayLeave
  <2>5. ASSUME NEW t, IsQueued(t) PROVE IsQueued(t)' \/ MayLeave(t)
    BY <1>7, <2>3, <2>4, <2>5 DEF IsQueued
  <2>6. ASSUME NEW t, IsDependent(t) PROVE IsDependent(t)' \/ MayLeave(t)
    BY <1>7, <2>2, <2>3, <2>6 DEF IsDependent, WithoutDep
  <2>7. LeavesSafely
    BY <2>5, <2>6 DEF LeavesSafely, There
  <2>8. ArrivesSafely
    BY <1>2, <2>1, DepsKept DEF ArrivesSafely
  <2>. QED BY <2>7, <2>8
<1>8. CASE /\ ~ FileWaits(h) /\ ~ IsQueued(h.file) /\ ~ IsDependent(h.txn)
           /\ CancelEvent(h.txn, left)
  <2>1. left \in SUBSET queue
    OBVIOUS
  <2>2. /\ \A t : (\E r \in left : r.txn = t) \/ IsDependent(t) => There(t)' \/ MayLeave(t)
        /\ ArrivesSafely
    BY <1>2, <1>8, <2>1, CancelLeaves
  <2>3. ASSUME IsQueued(h.thumb) PROVE MayLeave(h.thumb)
    <3>1. ASSUME NEW d \in deps', d.parent = h.thumb PROVE FALSE
      <4>1. h.thumb = h.txn + 2
          BY <1>3, <1>6, <2>3
      <4>2. d \in deps \/ d.parent = h.txn
          BY <1>8 DEF CancelEvent, NewDependent
      <4>3. d \in deps
          BY <1>3, <3>1, <4>1, <4>2
      <4>4. IsDependent(h.file)
          BY <1>4, <3>1, <4>3 DEF IsDependent
      <4>. QED BY <1>6, <1>8, <2>3, <4>4 DEF FileWaits
    <3>. QED BY <1>5, <3>1 DEF MayLeave
  <2>4. ASSUME NEW t, IsQueued(t) PROVE (\E r \in left : r.txn = t) \/ MayLeave(t)
    BY <1>8, <2>3, <2>4 DEF IsQueued
  <2>. QED BY <2>2, <2>4 DEF LeavesSafely, There
<1>. QED BY <1>1, <1>7, <1>8

LEMMA HandleLeaves ==
    ASSUME RecordsOK, CausalInv, NamesInv, BusyInv, WholeAborts, HandleStep
    PROVE LeavesSafely /\ ArrivesSafely
<1>1. ASSUME NEW h \in handles, React(h) \/ Reply(h) PROVE LeavesSafely /\ ArrivesSafely
  <2>1. There(h.txn) /\ queue' = queue
    BY <1>1 DEF React, Reply, IsLocalEcho, There, IsDependent
  <2>2. PICK d0, g0 : /\ deps' = deps \cup {d0} /\ handles' = handles \cup {g0}
                      /\ d0.parent = h.txn /\ d0.own = g0.txn
    <3>1. PICK kind, type :
            /\ deps' = deps \cup {NewDependent(clock', h.txn, clock', kind, NoTxn, clock')}
            /\ handles' = handles \cup {NewHandle(clock', type, h.txn, NoTxn, NoTxn)}
        BY <1>1 DEF React, Reply
    <3>2. /\ NewDependent(clock', h.txn, clock', kind, NoTxn, clock').parent = h.txn
          /\ NewDependent(clock', h.txn, clock', kind, NoTxn, clock').own = clock'
          /\ NewHandle(clock', type, h.txn, NoTxn, NoTxn).txn = clock'
        BY DEF NewDependent, NewHandle
    <3>. QED BY <3>1, <3>2
  <2>3. \A t : There(t) => There(t)'
    BY <2>1, <2>2 DEF There, IsQueued, IsDependent
  <2>4. ArrivesSafely
    BY <2>1, <2>2, <2>3, DepsKept DEF ArrivesSafely, There, IsDependent
  <2>. QED BY <2>3, <2>4 DEF LeavesSafely
<1>2. ASSUME NEW h \in handles, Edit(h) PROVE LeavesSafely /\ ArrivesSafely
  <2> DEFINE edited == {IF d.own = h.txn THEN [d EXCEPT !.body = clock'] ELSE d : d \in deps}
             new == NewDependent(clock', h.txn, clock', "edit", NoTxn, clock')
  <2>1. /\ handles' = handles
        /\ queue' = queue \/ queue' = WithBody(queue, h.txn, clock')
        /\ \/ deps' = deps \/ deps' = edited
           \/ deps' = deps \cup {new} /\ beingSent = h.txn
    BY <1>2 DEF Edit
  <2>2. ASSUME NEW t, IsQueued(t) PROVE IsQueued(t)'
    <3>1. \E r \in WithBody(queue, h.txn, clock') : r.txn = t
        BY <2>2, QueuedStays
    <3>. QED BY <2>1, <2>2, <3>1 DEF IsQueued
  <2>3. ASSUME NEW t, IsDependent(t) PROVE IsDependent(t)'
    <3>1. PICK d \in deps : d.own = t
        BY <2>3 DEF IsDependent
    <3>2. d \in Dependent
        BY DEF RecordsOK
    <3>3. \E e \in edited : e.own = t
      <4>1. PICK e : e = IF d.own = h.txn THEN [d EXCEPT !.body = clock'] ELSE d
          OBVIOUS
      <4>2. e \in edited
          BY <4>1
      <4>. QED BY <3>1, <3>2, <4>1, <4>2 DEF Dependent
    <3> HIDE DEF edited, new
    <3>. QED BY <2>1, <3>1, <3>3 DEF IsDependent
  <2>4. \A d \in edited : KeptDep(d)
    BY DepsKept
  <2>5. new.parent = h.txn
    BY DEF NewDependent
  <2>6. beingSent = h.txn => There(h.txn)'
    <3>1. h.txn # NoTxn
        BY DEF NamesInv, ShapeInv
    <3>. QED BY <2>2, <3>1 DEF BusyInv, There
  <2> HIDE DEF edited, new
  <2>7. ArrivesSafely
    BY <2>1, <2>4, <2>5, <2>6, DepsKept DEF ArrivesSafely
  <2>. QED BY <2>2, <2>3, <2>7 DEF LeavesSafely, There
<1>3. ASSUME NEW h \in handles, Abort(h) \/ AbortReaction(h) PROVE LeavesSafely /\ ArrivesSafely
  <2>1. handles' = handles
    BY <1>3 DEF Abort, AbortReaction
  <2>2. CASE CancelEvent(h.txn, queue)
    <3>1. /\ \A t : (\E r \in queue : r.txn = t) \/ IsDependent(t) => There(t)' \/ MayLeave(t)
          /\ ArrivesSafely
        BY <2>1, <2>2, CancelLeaves
    <3>. QED BY <3>1 DEF LeavesSafely, There, IsQueued
  <2>3. CASE /\ deps' = WithoutDep(deps, h.txn) /\ queue' = queue
             /\ aborted' = aborted \cup {h.txn}
    <3>1. MayLeave(h.txn)
        BY <2>3 DEF MayLeave, Dead
    <3>2. LeavesSafely
        BY <2>3, <3>1 DEF LeavesSafely, There, IsQueued, IsDependent, WithoutDep
    <3>3. ArrivesSafely
        BY <2>1, <2>3, DepsKept, TableTypes DEF ArrivesSafely
    <3>. QED BY <3>2, <3>3
  <2>. QED BY <1>3, <2>2, <2>3 DEF Abort, AbortReaction
<1>4. ASSUME NEW h, Unwedge(h) PROVE LeavesSafely /\ ArrivesSafely
  <2>1. PICK T : queue' = WithWedged(queue, T, FALSE) /\ deps' = deps /\ handles' = handles
    BY <1>4 DEF Unwedge, userVars
  <2>2. \A t : IsQueued(t) => IsQueued(t)'
    BY <2>1, QueuedStays DEF IsQueued
  <2>. QED BY <2>1, <2>2, DepsKept DEF LeavesSafely, ArrivesSafely, There, IsDependent
<1>. QED BY <1>1, <1>2, <1>3, <1>4, AbortMediaLeaves DEF HandleStep

LEMMA LostStep ==
    ASSUME RecordsOK, CausalInv, NamesInv, BusyInv, NothingLost, WholeAborts, [Next]_vars
    PROVE NothingLost'
<1>1. CASE TaskStep \/ ServerAccepts \/ SendFails
  <2>1. handles' = handles
    BY <1>1 DEF TaskStep, LoopStart, Apply, ApplyPromote, ApplyRedaction, ApplyLocally, ApplyLater,
       ApplyEnd, CheckEnabled, Woken, PeekNextToSend, MarkAsSent, UploadCancelled, ServerAccepts,
       SendFails, SendFailsRecoverably, SendFailsForGood, userVars
  <2>2. ASSUME NEW d \in deps' PROVE KeptDep(d)
    <3>1. ~ NewDep(d) \/ deps' \subseteq deps \/ MarkAsSent
        BY <1>1, TableTypes DEF TaskStep, LoopStart, Apply, ApplyPromote, ApplyRedaction,
           ApplyLocally, ApplyLater, ApplyEnd, CheckEnabled, Woken, PeekNextToSend, UploadCancelled,
           ServerAccepts, SendFails, SendFailsRecoverably, SendFailsForGood, storeVars
    <3>2. CASE MarkAsSent
      <4>1. /\ pc = "send" /\ delivered
            /\ deps' = deps \/ deps' = MarkReady(deps, request.txn)
          BY <3>2 DEF MarkAsSent, SendReturns
      <4>. QED BY <2>2, <4>1, DepsKept
    <3>. QED BY <1>1, <2>2, <3>1, <3>2, DepsKept, TaskDeps DEF DepsFrom
  <2>3. ArrivesSafely
    BY <2>1, <2>2 DEF ArrivesSafely
  <2>4. CASE queue' = queue /\ deps' = deps
    <3>1. LeavesSafely
        BY <2>4 DEF LeavesSafely, There, IsQueued, IsDependent
    <3>. QED BY <2>3, <3>1, LostFrame, ServerGetsStep, DepsStep
  <2>5. CASE LoopStart \/ Apply \/ MarkAsSent \/ SendFailsForGood
    BY <2>3, <2>5, LoopStartLeaves, ApplyLeaves, SendLeaves, LostFrame, ServerGetsStep, DepsStep
  <2>. QED
    BY <1>1, <2>4, <2>5 DEF TaskStep, CheckEnabled, Woken, PeekNextToSend, UploadCancelled,
       ServerAccepts, SendFails, SendFailsRecoverably, storeVars
<1>2. CASE SubmitStep
    BY <1>2, SubmitLeaves, LostFrame, ServerGetsStep, DepsStep
<1>3. CASE HandleStep
    BY <1>3, HandleLeaves, LostFrame, ServerGetsStep, DepsStep
<1>4. CASE OpenRoom \/ Respawn \/ SwitchStep \/ DropClient \/ Restart \/ UNCHANGED vars
  <2>1. deps' = deps /\ handles' = handles
    BY <1>4 DEF OpenRoom, Respawn, SwitchStep, RetryVerified, SetEnabled, SetGloballyEnabled,
       DropClient, Restart, vars, storeVars, userVars
  <2>2. queue' = queue \/ \E T : queue' = WithWedged(queue, T, FALSE)
    BY <1>4 DEF OpenRoom, Respawn, SwitchStep, RetryVerified, SetEnabled, SetGloballyEnabled,
       DropClient, Restart, vars, storeVars
  <2>3. \A t : IsQueued(t) => IsQueued(t)'
    BY <2>2, QueuedStays DEF IsQueued
  <2>4. LeavesSafely /\ ArrivesSafely
    BY <2>1, <2>3, DepsKept DEF LeavesSafely, ArrivesSafely, There, IsDependent
  <2>. QED BY <2>4, LostFrame, ServerGetsStep, DepsStep
<1>. QED BY <1>1, <1>2, <1>3, <1>4 DEF Next

\* The ids that the queue, its dependent requests and the handles have in common, and being_sent:
\* what the theorems below rest on.
QueueInv == RecordsOK /\ OneInv /\ CausalInv /\ NamesInv /\ BusyInv

\* Whatever is called and whatever fails: the ids of an attachment name nothing else, what depends
\* on an event was made with a handle of it, who redacts an event has aborted it, and the request
\* that being_sent names is in the queue.
THEOREM QueueInvariant == Spec => []QueueInv
<1>1. Init => OneInv /\ BusyInv
    BY DEF Init, OneInv, OneAtATime, BusyInv
<1>2. RecordsOK /\ CausalInv /\ NamesInv /\ [Next]_vars => NamesInv'
    BY NamesStep
<1>3. RecordsOK /\ OneInv /\ BusyInv /\ [Next]_vars => BusyInv'
    BY BusyStep
<1>4. TypeOK => RecordsOK
    BY DEF TypeOK
<1>. QED
    BY <1>1, <1>2, <1>3, <1>4, NamesInit, OneStep, TypeCorrect, CausesAreKept, PTL
       DEF Spec, QueueInv

\* What the application submitted is sent or still in the store, unless it was aborted, and what
\* waits there waits for something that is there or was sent: whatever fails, wherever the
\* process stops.  Only an abort_upload that the store stops half-way is left out.
THEOREM NothingIsLost == ASSUME WholeAborts PROVE Spec => []NothingLost
<1>1. Init => NothingLost
    BY DEF Init, NothingLost
<1>2. QueueInv /\ NothingLost /\ [Next]_vars => NothingLost'
    BY LostStep DEF QueueInv
<1>. QED BY <1>1, <1>2, QueueInvariant, PTL DEF Spec

-----------------------------------------------------------------------------
(* What abort tells its caller *)

\* abort refuses only what is neither queued nor, if it knows to look there, waiting.
LEMMA RefusedFrom ==
    ASSUME [Next]_vars, NEW t \in refused', t \notin refused
    PROVE \E h \in handles : /\ h.txn = t /\ ~ IsQueued(t)
                             /\ IsDependent(t) => h.kind # "reaction" /\ h.file = NoTxn
<1>1. HandleStep
    BY DEF Next, TaskStep, LoopStart, Apply, ApplyPromote, ApplyRedaction, ApplyLocally, ApplyLater,
       ApplyEnd, CheckEnabled, Woken, PeekNextToSend, MarkAsSent, UploadCancelled, ServerAccepts,
       SendFails, SendFailsRecoverably, SendFailsForGood, SubmitStep, Push, PushSuperseding,
       SendAttachment, OpenRoom, Respawn, SwitchStep, RetryVerified, SetEnabled, SetGloballyEnabled,
       DropClient, Restart, vars, userVars
<1>2. PICK h \in handles : Abort(h) \/ AbortReaction(h) \/ AbortMedia(h)
    BY <1>1 DEF HandleStep, React, Reply, Edit, Unwedge, userVars
<1>3. ASSUME NEW q, CancelEvent(h.txn, q) PROVE t = h.txn /\ ~ IsQueued(t)
    BY <1>3 DEF CancelEvent
<1>4. CASE Abort(h)
    BY <1>3, <1>4 DEF Abort
<1>5. CASE AbortReaction(h)
    BY <1>3, <1>5 DEF AbortReaction
<1>6. CASE AbortMedia(h)
    BY <1>3, <1>6 DEF AbortMedia
<1>. QED BY <1>2, <1>4, <1>5, <1>6

NoReplies == \A d \in deps : d.kind # "reply"

\* abort answers that it came too late only when the event is on the server, or went away with the
\* event that it is about.  A reply that still waits for its event is the exception: abort does
\* not look for it among the dependent requests.
THEOREM RefusalsAreTrue ==
    ASSUME WholeAborts, "reply" \notin Ops PROVE Spec => []RefusedWasSent
<1>1. Init => NoReplies /\ RefusedWasSent
    BY DEF Init, NoReplies, RefusedWasSent
<1>2. ASSUME RecordsOK, NoReplies, [Next]_vars PROVE NoReplies'
    BY <1>2, DepsStep DEF NoReplies, DepsFrom, KeptDep, NewDep, SameDependent
<1>3. ASSUME QueueInv, NothingLost, NoReplies, RefusedWasSent, [Next]_vars PROVE RefusedWasSent'
  <2>1. ASSUME NEW t \in refused', t \notin refused PROVE OnServer(t) \/ Dead(t)
    <3>1. PICK h \in handles : /\ h.txn = t /\ ~ IsQueued(t)
                               /\ IsDependent(t) => h.kind # "reaction" /\ h.file = NoTxn
        BY <1>3, <2>1, RefusedFrom
    <3>2. ~ IsDependent(t)
        BY <1>3, <3>1 DEF IsDependent, QueueInv, NamesInv, HandleInv, NoReplies
    <3>. QED BY <1>3, <3>1, <3>2 DEF NothingLost
  <2>2. \A t \in refused' : OnServer(t) \/ Dead(t)
    BY <1>3, <2>1 DEF RefusedWasSent
  <2>3. ServerGets /\ HandlesGrow /\ AbortsGrow
    BY <1>3, ServerGetsStep, DepsStep DEF QueueInv
  <2>4. \A t : (OnServer(t) => OnServer(t)') /\ (Dead(t) => Dead(t)')
    BY <1>3, <2>3, ServerKeeps, DeadStays DEF QueueInv
  <2>. QED BY <2>2, <2>4 DEF RefusedWasSent
<1>4. QueueInv => RecordsOK
    BY DEF QueueInv
<1>. QED BY <1>1, <1>2, <1>3, <1>4, QueueInvariant, NothingIsLost, PTL DEF Spec

-----------------------------------------------------------------------------
(* Uploads that were aborted *)

\* Who aborts an attachment calls abort_upload.
LEMMA AbortedFrom ==
    ASSUME [Next]_vars, NamesInv, NEW h \in handles, h.file # NoTxn,
           h.txn \in aborted', h.txn \notin aborted
    PROVE AbortMedia(h)
<1>1. HandleStep
    BY DEF Next, TaskStep, LoopStart, Apply, ApplyPromote, ApplyRedaction, ApplyLocally, ApplyLater,
       ApplyEnd, CheckEnabled, Woken, PeekNextToSend, MarkAsSent, UploadCancelled, ServerAccepts,
       SendFails, SendFailsRecoverably, SendFailsForGood, SubmitStep, Push, PushSuperseding,
       SendAttachment, OpenRoom, Respawn, SwitchStep, RetryVerified, SetEnabled, SetGloballyEnabled,
       DropClient, Restart, vars, userVars
<1>2. PICK g \in handles : Abort(g) \/ AbortReaction(g) \/ AbortMedia(g)
    BY <1>1 DEF HandleStep, React, Reply, Edit, Unwedge, userVars
<1>3. aborted' = aborted \/ aborted' = aborted \cup {g.txn}
    BY <1>2 DEF Abort, AbortReaction, AbortMedia, CancelEvent
<1>4. h = g
    BY <1>3 DEF NamesInv, UniqueInv
<1>5. h.kind = "event"
    BY DEF NamesInv, ShapeInv
<1>. QED BY <1>2, <1>4, <1>5 DEF Abort, AbortReaction

\* The handle of an attachment is made by send_attachment.
LEMMA AttachmentNow ==
    ASSUME [Next]_vars, NEW h \in handles', h \notin handles, h.file # NoTxn
    PROVE /\ h.about = NoTxn
          /\ \E op : SendAttachment(op)
<1>1. SubmitStep \/ HandleStep
    BY DEF Next, TaskStep, LoopStart, Apply, ApplyPromote, ApplyRedaction, ApplyLocally, ApplyLater,
       ApplyEnd, CheckEnabled, Woken, PeekNextToSend, MarkAsSent, UploadCancelled, ServerAccepts,
       SendFails, SendFailsRecoverably, SendFailsForGood, OpenRoom, Respawn, SwitchStep,
       RetryVerified, SetEnabled, SetGloballyEnabled, DropClient, Restart, vars, userVars
<1>2. \A t, k, about, file, thumb : /\ NewHandle(t, k, about, file, thumb).file = file
                                    /\ NewHandle(t, k, about, file, thumb).about = about
    BY DEF NewHandle
<1>3. ASSUME NEW g, React(g) \/ Reply(g) PROVE FALSE
    BY <1>2, <1>3 DEF React, Reply
<1>4. ASSUME NEW g, Edit(g) \/ Abort(g) \/ AbortReaction(g) \/ AbortMedia(g) \/ Unwedge(g)
      PROVE FALSE
    BY <1>4 DEF Edit, Abort, AbortReaction, AbortMedia, Unwedge, userVars
<1>5. ~ HandleStep
    BY <1>3, <1>4 DEF HandleStep
<1>6. ~ Push("send", "message") /\ ~ Push("redact", "redaction") /\ ~ PushSuperseding(NoTxn)
  <2>1. ASSUME NEW op, NEW kind, Push(op, kind) PROVE FALSE
    BY <1>2, <2>1 DEF Push
  <2>2. ~ PushSuperseding(NoTxn)
    BY DEF PushSuperseding, userVars
  <2>. QED BY <2>1, <2>2
<1>7. SendAttachment("media") \/ SendAttachment("thumbnail")
    BY <1>1, <1>5, <1>6 DEF SubmitStep
<1>8. ASSUME NEW op, SendAttachment(op) PROVE h.about = NoTxn
    BY <1>2, <1>8 DEF SendAttachment
<1>. QED BY <1>7, <1>8

\* Content is cached for uploads with new ids only.
LEMMA MediaFrom ==
    ASSUME [Next]_vars, clock \in Nat, NEW t \in media', t \notin media
    PROVE t > clock
<1>1. ASSUME NEW op, SendAttachment(op) PROVE t > clock
    BY <1>1 DEF SendAttachment
<1>2. media' \subseteq media \/ \E op : SendAttachment(op)
  <2>1. CASE TaskStep \/ ServerAccepts \/ SendFails
    BY <2>1 DEF TaskStep, LoopStart, Apply, ApplyPromote, MediaAfter, ApplyRedaction, ApplyLocally,
       ApplyLater, ApplyEnd, CheckEnabled, Woken, PeekNextToSend, MarkAsSent, UploadCancelled,
       ServerAccepts, SendFails, SendFailsRecoverably, SendFailsForGood, storeVars
  <2>2. CASE SubmitStep
    BY <2>2 DEF SubmitStep, Push, PushSuperseding
  <2>3. CASE HandleStep
    BY <2>3 DEF HandleStep, React, Reply, Edit, Abort, AbortReaction, AbortMedia, Unwedge
  <2>4. CASE OpenRoom \/ Respawn \/ SwitchStep \/ DropClient \/ Restart \/ UNCHANGED vars
    BY <2>4 DEF OpenRoom, Respawn, SwitchStep, RetryVerified, SetEnabled, SetGloballyEnabled,
       DropClient, Restart, vars, storeVars
  <2>. QED BY <2>1, <2>2, <2>3, <2>4 DEF Next
<1>. QED BY <1>1, <1>2

\* When the event of an attachment is in the queue, the content of its file has been given its
\* key: there is nothing left to upload it from.
CachedInv ==
    \A h \in handles : h.file # NoTxn => h.about = NoTxn /\ (IsQueued(h.txn) => h.file \notin media)

\* What is known of the ids of an attachment.
LEMMA AttachmentIds ==
    ASSUME QueueInv, NEW h \in handles, h.file # NoTxn
    PROVE /\ clock \in Nat /\ h.txn \in Nat /\ h.file = h.txn + 1 /\ h.txn + 2 <= clock
          /\ h.thumb \in {NoTxn, h.txn + 2} /\ h.kind = "event"
          /\ \A d \in deps : d.own = h.file => d.kind = "file" /\ d.about = h.txn
          /\ h.thumb = NoTxn => ~ IsDependent(h.file)
<1>1. h.txn \in Attachments /\ h.file = h.txn + 1 /\ h.thumb \in {NoTxn, h.txn + 2} /\ h.kind = "event"
    BY DEF Attachments, QueueInv, NamesInv, ShapeInv
<1>2. clock \in Nat /\ h.txn \in Nat /\ h.txn + 2 <= clock
    BY <1>1, IdsDrawn DEF QueueInv, NamesInv
<1>3. ASSUME NEW d \in deps, d.own = h.file PROVE d.kind = "file" /\ d.about = h.txn
  <2>1. d.kind = "file"
    BY <1>1, <1>3 DEF QueueInv, NamesInv, AttachmentInv, IsUploadTxn
  <2>2. d.own = d.about + 1 /\ d.about \in Nat
    BY <2>1, IdsDrawn DEF QueueInv, NamesInv, ShapeInv
  <2>. QED BY <1>1, <1>2, <1>3, <2>1, <2>2
<1>4. ASSUME NEW d \in deps, d.own = h.file PROVE h.thumb # NoTxn
    BY <1>3, <1>4 DEF QueueInv, NamesInv, ShapeInv, HandleInv
<1>. QED BY <1>1, <1>2, <1>3, <1>4 DEF IsDependent

LEMMA CachedStep ==
    ASSUME QueueInv, CachedInv, [Next]_vars
    PROVE CachedInv'
<1>1. QueueFrom /\ HandlesGrow
    BY RowsStep, DepsStep DEF QueueInv
<1>2. /\ clock \in Nat /\ \A r \in queue : r.txn \in Nat /\ r.txn <= clock
      /\ \A d \in deps : d.own <= clock
    BY IdsDrawn DEF QueueInv, NamesInv, Rows
<1>3. SUFFICES ASSUME NEW h \in handles', h.file # NoTxn
               PROVE  h.about = NoTxn /\ \A r \in queue' : r.txn = h.txn => h.file \notin media'
    BY DEF CachedInv, IsQueued
<1>4. CASE h \notin handles
  <2>1. h.about = NoTxn /\ \E op : SendAttachment(op)
    BY <1>3, <1>4, AttachmentNow
  <2>2. h.txn = clock + 1
    BY <1>1, <1>4 DEF HandlesGrow, NewHandleFor
  <2>3. ASSUME NEW op, SendAttachment(op), NEW r \in queue' PROVE r.txn # clock + 1
    <3>1. PICK file, thumb : /\ file = clock + 2 /\ thumb \in {NoTxn, clock + 3}
                             /\ queue' \subseteq queue \cup Uploads(clock + 1, file, thumb)
        BY <2>3 DEF SendAttachment
    <3>2. \A q \in Uploads(clock + 1, file, thumb) : q.txn \in {file, thumb} \ {NoTxn}
        BY <1>2, <3>1 DEF Uploads, NewRequest, NoTxn
    <3>. QED BY <1>2, <2>3, <3>1, <3>2
  <2>. QED BY <2>1, <2>2, <2>3
<1>5. CASE h \in handles
  <2>1. /\ h.txn \in Nat /\ h.file = h.txn + 1 /\ h.txn + 2 <= clock /\ h.kind = "event"
        /\ h.about = NoTxn /\ (IsQueued(h.txn) => h.file \notin media)
    BY <1>3, <1>5, AttachmentIds DEF CachedInv
  <2>2. ASSUME h.file \notin media PROVE h.file \notin media'
    BY <1>2, <2>1, <2>2, MediaFrom
  <2>3. ASSUME NEW r \in queue', r.txn = h.txn PROVE h.file \notin media'
    <3>1. CASE KeptRow(r)
        BY <2>1, <2>2, <2>3, <3>1 DEF KeptRow, SameRow, SameRequest, IsQueued
    <3>2. CASE PromotedRow(r)
      <4>1. PICK d \in deps : r = Promoted(d) /\ media' = MediaAfter(d)
        BY <3>2 DEF PromotedRow
      <4>2. d.own = h.txn
        BY <2>3, <4>1 DEF Promoted, NewRequest
      <4>3. d.kind # "reply"
        BY <1>5, <2>1, <4>2 DEF QueueInv, NamesInv, HandleInv, UniqueInv, ShapeInv
      <4>4. d.kind = "finish"
        BY <1>5, <2>1, <4>2, <4>3 DEF QueueInv, NamesInv, HandleInv
      <4>5. d.parent = h.file
        BY <2>1, <4>2, <4>4 DEF QueueInv, NamesInv, ShapeInv
      <4>. QED BY <4>1, <4>4, <4>5 DEF MediaAfter
    <3>3. CASE NewRow(r)
        BY <1>2, <2>1, <2>3, <3>3 DEF NewRow, Fresh
    <3>. QED BY <1>1, <2>3, <3>1, <3>2, <3>3 DEF QueueFrom
  <2>. QED BY <2>1, <2>3
<1>. QED BY <1>4, <1>5

\* What is left of an attachment and can be sent; nothing, without a thumbnail.
Sterile(h) == LeftOf(h) \subseteq {h.file} \ media /\ (h.thumb = NoTxn => LeftOf(h) = {})

\* abort_upload leaves nothing to send, at whichever stage it is called.
LEMMA AbortMediaEmpties ==
    ASSUME QueueInv, CachedInv, NEW h \in handles, AbortMedia(h), h.txn \in aborted', h.txn \notin aborted
    PROVE Sterile(h)'
<1>1. /\ h.file # NoTxn /\ clock \in Nat /\ h.txn \in Nat /\ h.file = h.txn + 1 /\ h.txn + 2 <= clock
      /\ \A d \in deps : d.own = h.file => d.kind = "file" /\ d.about = h.txn
      /\ h.thumb = NoTxn => ~ IsDependent(h.file)
    BY AttachmentIds DEF AbortMedia
<1>2. PICK gone, left, fileLeft :
          /\ gone = IF FileWaits(h) THEN {h.thumb} ELSE {h.thumb, h.file}
          /\ left = {r \in queue : r.txn \notin gone}
          /\ fileLeft = IF FileWaits(h) THEN WithoutDep(deps, h.file) ELSE deps
          /\ \/ /\ queue' = left /\ deps' = WithoutDep(fileLeft, h.txn)
                /\ media' = media \ {h.file, h.thumb}
             \/ /\ ~ FileWaits(h) /\ ~ IsQueued(h.file) /\ ~ IsDependent(h.txn)
                /\ CancelEvent(h.txn, left) /\ media' = media
  <2>. PICK gone, left, fileLeft :
          /\ gone = IF FileWaits(h) THEN {h.thumb} ELSE {h.thumb, h.file}
          /\ left = {r \in queue : r.txn \notin gone}
          /\ fileLeft = IF FileWaits(h) THEN WithoutDep(deps, h.file) ELSE deps
    OBVIOUS
  <2>1. \/ /\ queue' = left /\ deps' = WithoutDep(fileLeft, h.txn)
           /\ media' = media \ {h.file, h.thumb}
        \/ /\ ~ FileWaits(h) /\ ~ IsQueued(h.file) /\ ~ IsDependent(h.txn)
           /\ CancelEvent(h.txn, left) /\ media' = media
        \/ aborted' = aborted
    BY DEF AbortMedia
  <2>. QED BY <2>1
<1>3. \A r \in queue : r.kind = "upload" /\ r.about = h.txn => r.txn \in {h.file, h.thumb}
    BY <1>1 DEF QueueInv, NamesInv, HandleInv, Rows
<1>4. CASE /\ queue' = left /\ deps' = WithoutDep(fileLeft, h.txn)
           /\ media' = media \ {h.file, h.thumb}
  <2>1. \A d \in deps' : d \in deps /\ d.own # h.txn
    BY <1>2, <1>4 DEF WithoutDep
  <2>2. \A r \in queue' : r.kind = "upload" /\ r.about = h.txn => r.txn = h.file /\ FileWaits(h)
    BY <1>2, <1>3, <1>4
  <2>3. h.thumb = NoTxn => ~ FileWaits(h) /\ \A d \in deps' : d.own # h.file
    BY <1>1, <2>1 DEF FileWaits, IsDependent
  <2>. QED BY <1>4, <2>1, <2>2, <2>3 DEF Sterile, LeftOf
<1>5. CASE /\ ~ FileWaits(h) /\ ~ IsQueued(h.file) /\ ~ IsDependent(h.txn)
           /\ CancelEvent(h.txn, left) /\ media' = media
  <2>1. queue' \subseteq left /\ \A d \in deps' : d \in deps \/ d.own = clock + 1
    BY <1>5, TableTypes DEF CancelEvent, Draws, NewDependent
  <2>2. \A r \in queue' : ~ (r.kind = "upload" /\ r.about = h.txn)
    BY <1>2, <1>3, <1>5, <2>1
  <2>3. IsQueued(h.txn)
    <3>1. beingSent = h.txn \/ IsQueued(h.txn)
        BY <1>5 DEF CancelEvent
    <3>2. h.txn # NoTxn
        BY DEF QueueInv, NamesInv, ShapeInv
    <3>. QED BY <3>1, <3>2 DEF QueueInv, BusyInv
  <2>4. h.file \notin media'
    BY <1>1, <1>5, <2>3 DEF CachedInv
  <2>5. \A d \in deps' : d.own # h.txn /\ (h.thumb = NoTxn => d.own # h.file)
    BY <1>1, <1>5, <2>1 DEF IsDependent
  <2>. QED BY <2>2, <2>4, <2>5 DEF Sterile, LeftOf
<1>. QED BY <1>2, <1>4, <1>5

\* Nor does anything come back.
LEMMA SterileStays ==
    ASSUME QueueInv, [Next]_vars, NEW h \in handles, h.file # NoTxn, Sterile(h)
    PROVE Sterile(h)'
<1>1. QueueFrom /\ DepsFrom
    BY RowsStep, DepsStep DEF QueueInv
<1>2. /\ clock \in Nat /\ h.txn \in Nat /\ h.file = h.txn + 1 /\ h.txn + 2 <= clock
      /\ \A d \in deps : d.own = h.file => d.kind = "file" /\ d.about = h.txn
      /\ h.thumb = NoTxn => ~ IsDependent(h.file)
    BY AttachmentIds
<1>3. /\ \A r \in queue : r.kind = "upload" /\ r.about = h.txn =>
            r.txn = h.file /\ h.file \notin media /\ h.thumb # NoTxn
      /\ \A d \in deps : d.own \in {h.txn, h.file} =>
            d.own = h.file /\ h.file \notin media /\ h.thumb # NoTxn
    BY DEF Sterile, LeftOf
<1>4. h.file \notin media => h.file \notin media'
    BY <1>2, MediaFrom
<1>5. ASSUME NEW r \in queue', r.kind = "upload", r.about = h.txn
      PROVE r.txn = h.file /\ h.file \notin media' /\ h.thumb # NoTxn
  <2>1. CASE KeptRow(r)
    BY <1>3, <1>4, <1>5, <2>1 DEF KeptRow, SameRow, SameRequest
  <2>2. CASE PromotedRow(r)
    <3>1. PICK d \in deps : r.txn = d.own /\ d.kind = "file" /\ r.about = d.about
        BY <1>5, <2>2, PromotedRowIs DEF QueueInv
    <3>2. d.own = h.file
        BY <1>2, <1>5, <3>1 DEF QueueInv, NamesInv, ShapeInv
    <3>. QED BY <1>3, <1>4, <3>1, <3>2
  <2>3. CASE NewRow(r)
    BY <1>2, <1>5, <2>3 DEF NewRow
  <2>. QED BY <1>1, <1>5, <2>1, <2>2, <2>3 DEF QueueFrom
<1>6. ASSUME NEW d \in deps', d.own \in {h.txn, h.file}
      PROVE d.own = h.file /\ h.file \notin media' /\ h.thumb # NoTxn
  <2>1. CASE KeptDep(d)
    BY <1>3, <1>4, <1>6, <2>1 DEF KeptDep, SameDependent
  <2>2. CASE NewDep(d)
    BY <1>2, <1>6, <2>2 DEF NewDep
  <2>. QED BY <1>1, <1>6, <2>1, <2>2 DEF DepsFrom
<1>. QED BY <1>5, <1>6 DEF Sterile, LeftOf

\* Once an upload was aborted, with or without a thumbnail and at whichever stage of its requests,
\* whatever else is called and whatever fails: no event waits for uploads any more, the thumbnail is
\* not uploaded, and a file that is still in the store has no content to be uploaded from.
THEOREM AbortedUploadsSendNothing == Spec => []AbortedUploadSendsNothing
<1>1. Init => CachedInv /\ AbortedUploadSendsNothing
    BY DEF Init, CachedInv, AbortedUploadSendsNothing
<1>2. QueueInv /\ CachedInv /\ [Next]_vars => CachedInv'
    BY CachedStep
<1>3. ASSUME QueueInv, CachedInv, AbortedUploadSendsNothing, [Next]_vars
      PROVE AbortedUploadSendsNothing'
  <2>1. SUFFICES ASSUME NEW h \in handles', h.file # NoTxn, h.txn \in aborted' PROVE Sterile(h)'
    BY DEF AbortedUploadSendsNothing, Sterile
  <2>2. HandlesGrow /\ AbortsGrow
    BY <1>3, DepsStep DEF QueueInv
  <2>3. clock \in Nat /\ \A g \in handles : g.txn \in Nat /\ g.txn <= clock
    BY <1>3, IdsDrawn DEF QueueInv, NamesInv
  <2>4. h \in handles
    <3>1. \E g \in handles : g.txn = h.txn
        BY <1>3, <2>1, <2>2 DEF AbortsGrow, QueueInv, NamesInv, HandleInv
    <3>. QED BY <2>1, <2>2, <2>3, <3>1 DEF HandlesGrow, NewHandleFor
  <2>5. CASE h.txn \in aborted
    BY <1>3, <2>1, <2>4, <2>5, SterileStays DEF AbortedUploadSendsNothing, Sterile
  <2>6. CASE h.txn \notin aborted
    <3>1. AbortMedia(h)
        BY <1>3, <2>1, <2>4, <2>6, AbortedFrom DEF QueueInv
    <3>. QED BY <1>3, <2>1, <2>4, <2>6, <3>1, AbortMediaEmpties
  <2>. QED BY <2>5, <2>6
<1>. QED BY <1>1, <1>2, <1>3, QueueInvariant, PTL DEF Spec
=============================================================================
