----------------------- MODULE SendQueueHandleProofs -----------------------
(***************************************************************************)
(* What holds of the send queue under conditions, and of its handles:      *)
(* messages reach the server in order when the state store does what it is *)
(* told; an event that was aborted is not on the server, or is redacted    *)
(* there, as long as every answer of the server arrives and is written     *)
(* down; an edit counts, whenever it was made, as long as nothing fails.   *)
(* And the loop over the dependents keeps those that are said to count.    *)
(***************************************************************************)
EXTENDS SendQueueProofs, CanonicalDependents, FiniteSetTheorems, WellFoundedInduction

-----------------------------------------------------------------------------
(* The order of the messages, when the state store works *)

\* No write to the state store fails.
StoreWorks == "store" \notin Failures

LEMMA NoStoreError ==
    ASSUME StoreWorks
    PROVE ~ Fails("store")
    BY DEF StoreWorks, Fails

\* Only what is submitted, or was a dependent request, is new in the queue.
LEMMA QueueKeptStep ==
    ASSUME RecordsOK, [Next]_vars, ~ SubmitStep, \A d \in deps : ~ ApplyPromote(d)
    PROVE QueueKept
<1>0. queue \in SUBSET Request
    BY DEF RecordsOK
<1>1. CASE queue' \subseteq queue
    BY <1>1, Kept DEF QueueKept
<1>2. CASE TaskStep \/ ServerAccepts \/ SendFails
  <2>1. ASSUME NEW d \in deps, ApplyLocally(d) PROVE QueueKept
    <3>1. \/ queue' = WithBody(queue, d.parent, d.body)
          \/ queue' \subseteq queue
        BY <2>1, TableTypes DEF ApplyLocally, AppliedLocally
    <3>2. ASSUME queue' = WithBody(queue, d.parent, d.body) PROVE QueueKept
        BY <1>0, <3>2, Kept DEF QueueKept
    <3>. QED BY <1>1, <3>1, <3>2
  <2>2. CASE SendFailsForGood
    <3>1. \/ queue' = WithWedged(queue, {request.txn}, TRUE)
          \/ queue' \subseteq queue
        BY <2>2, TableTypes DEF SendFailsForGood, Wedge
    <3>2. ASSUME queue' = WithWedged(queue, {request.txn}, TRUE) PROVE QueueKept
        BY <1>0, <3>2, Kept DEF QueueKept
    <3>. QED BY <1>1, <3>1, <3>2
  <2>3. CASE MarkAsSent
    BY <1>1, <2>3, TableTypes DEF MarkAsSent
  <2>4. CASE queue' = queue
    BY <1>1, <2>4
  <2>. QED
    BY <1>2, <2>1, <2>2, <2>3, <2>4 DEF TaskStep, LoopStart, Apply, ApplyRedaction, ApplyLater,
       ApplyEnd, CheckEnabled, Woken, PeekNextToSend, UploadCancelled, ServerAccepts, SendFails,
       SendFailsRecoverably, storeVars
<1>3. CASE HandleStep
  <2>1. ASSUME NEW h, React(h) \/ Reply(h) \/ Abort(h) \/ AbortReaction(h) \/ AbortMedia(h)
        PROVE queue' \subseteq queue
    <3>1. \/ queue' \subseteq queue
          \/ \E q \in SUBSET queue : CancelEvent(h.txn, q)
        BY <2>1 DEF React, Reply, Abort, AbortReaction, AbortMedia
    <3>. QED BY <3>1, TableTypes DEF CancelEvent
  <2>2. ASSUME NEW h, Edit(h) PROVE QueueKept
    <3>1. queue' = queue \/ queue' = WithBody(queue, h.txn, clock')
        BY <2>2 DEF Edit
    <3>. QED BY <1>0, <3>1, Kept DEF QueueKept
  <2>3. ASSUME NEW h, Unwedge(h) PROVE QueueKept
    <3>1. \E T : queue' = WithWedged(queue, T, FALSE)
        BY <2>3 DEF Unwedge
    <3>. QED BY <1>0, <3>1, Kept DEF QueueKept
  <2>. QED BY <1>1, <1>3, <2>1, <2>2, <2>3 DEF HandleStep
<1>4. CASE OpenRoom \/ Respawn \/ SwitchStep \/ DropClient \/ Restart \/ UNCHANGED vars
  <2>1. queue' = queue \/ \E T : queue' = WithWedged(queue, T, FALSE)
    BY <1>4 DEF OpenRoom, Respawn, SwitchStep, RetryVerified, SetEnabled, SetGloballyEnabled,
       DropClient, Restart, vars, storeVars
  <2>2. ASSUME NEW T, queue' = WithWedged(queue, T, FALSE) PROVE QueueKept
    BY <1>0, <2>2, Kept DEF QueueKept
  <2>. QED BY <1>1, <2>1, <2>2
<1>. QED BY <1>2, <1>3, <1>4 DEF Next

-----------------------------------------------------------------------------
(* What was made a request is no longer a dependent one *)

ApartInv == \A d \in deps, r \in Rows : r.txn # d.own

LEMMA ApartStep ==
    ASSUME QueueInv, ~ Fails("store"), ApartInv, [Next]_vars
    PROVE ApartInv'
<1>0. /\ clock \in Nat /\ clock' \in Nat /\ clock <= clock'
      /\ \A r \in Rows : r.txn \in Nat /\ r.txn <= clock
      /\ \A d \in deps : d.own \in Nat /\ d.own <= clock
    BY IdsDrawn, ClockStep DEF QueueInv, NamesInv
<1>1. TaskFrom /\ DepsFrom
    BY TaskFromStep, DepsStep DEF QueueInv
<1>2. \A d \in deps' : d.own > clock \/ \E e \in deps : d.own = e.own
    BY <1>0, <1>1 DEF DepsFrom, KeptDep, SameDependent, NewDep
<1>3. ASSUME NEW d0 \in deps, ApplyPromote(d0) PROVE ApartInv'
  <2>0. pc' # "send"
    BY <1>3 DEF ApplyPromote, IsNext, ApplyNext, ApplyStops
  <2>1. \/ queue' = queue /\ deps' \subseteq deps
        \/ queue' = queue \cup {Promoted(d0)} /\ deps' = WithoutDep(deps, d0.own)
    BY <1>3, TableTypes DEF ApplyPromote
  <2>2. Promoted(d0).txn = d0.own
    BY DEF Promoted, NewRequest
  <2>. QED BY <2>0, <2>1, <2>2 DEF ApartInv, Rows, WithoutDep
<1>4. ASSUME NEW op, SendAttachment(op) PROVE ApartInv'
  <2>0. PICK event \in Nat, file \in Nat, thumb \in Nat :
            /\ event = clock + 1 /\ file = clock + 2
            /\ thumb = IF op = "thumbnail" THEN clock + 3 ELSE NoTxn
    BY <1>0 DEF NoTxn
  <2>1. /\ queue' = queue \cup Uploads(event, file, thumb) /\ pc' = pc /\ request' = request
        /\ deps' = deps \cup FileUpload(event, file, thumb) \cup FinishUpload(event, file, thumb)
    BY <1>4, <2>0 DEF SendAttachment, taskVars, sendVars
  <2>2. Rows' = Rows \cup Uploads(event, file, thumb)
    BY <2>1 DEF Rows
  <2>3. \A r \in Uploads(event, file, thumb) :
            r.txn = (IF thumb = NoTxn THEN file ELSE thumb) /\ r.txn > clock /\ r.txn # event
    BY <1>0, <2>0 DEF Uploads, NewRequest, NoTxn
  <2>4. /\ \A d \in FileUpload(event, file, thumb) : d.own = file /\ thumb # NoTxn
        /\ \A d \in FinishUpload(event, file, thumb) : d.own = event
    BY DEF FileUpload, FinishUpload, NewDependent
  <2>5. file # thumb /\ event > clock /\ file > clock
    BY <1>0, <2>0 DEF NoTxn
  <2>. QED BY <1>0, <2>1, <2>2, <2>3, <2>4, <2>5 DEF ApartInv
<1>5. CASE Push("send", "message") \/ Push("redact", "redaction") \/ PushSuperseding(NoTxn)
  <2>1. /\ deps' = deps /\ pc' = pc /\ request' = request
        /\ \A r \in queue' : r \in queue \/ r.txn = clock + 1
    BY <1>5 DEF Push, PushSuperseding, Draws, NewRequest, Quiet, taskVars, sendVars
  <2>. QED BY <1>0, <2>1 DEF ApartInv, Rows
<1>6. CASE ~ SubmitStep /\ \A d \in deps : ~ ApplyPromote(d)
  <2>1. QueueKept
    BY <1>6, QueueKeptStep DEF QueueInv
  <2>2. \A r \in Rows' : \E s \in Rows : r.txn = s.txn
    BY <1>1, <2>1 DEF QueueKept, TaskFrom, Rows, SameRequest, IsFirst
  <2>. QED BY <1>0, <1>2, <2>2 DEF ApartInv
<1>. QED BY <1>3, <1>4, <1>5, <1>6 DEF SubmitStep

-----------------------------------------------------------------------------
(* Uploads that were sent are followed up before the next request is taken *)

ReadyInv ==
    /\ pc \in {"check", "peek"} => \A d \in deps : IsMedia(d) => ~ d.sent
    /\ pc = "apply" => \A d \in deps : IsMedia(d) /\ d.sent => d.own \in todo

\* Where the task gets on to look for a request, and what it has still to apply.
TaskMoves ==
    /\ pc' \in {"check", "peek"} =>
          \/ pc \in {"check", "peek"}
          \/ pc = "apply" /\ todo = {} /\ deps' = deps
    /\ pc' = "apply" =>
          \/ pc = "loop" /\ todo' = {d.own : d \in deps'}
          \/ pc = "apply" /\ todo' = todo
          \/ /\ pc = "apply"
             /\ \E d \in deps :
                  /\ todo' = todo \ {d.own}
                  /\ ~ IsMedia(d) \/ ~ d.sent \/ \A e \in deps' : e.own # d.own

LEMMA TaskMovesStep ==
    ASSUME StoreWorks, ApartInv, [Next]_vars
    PROVE TaskMoves
<1>1. CASE LoopStart
    BY <1>1, NoStoreError DEF LoopStart, TaskMoves
<1>2. ASSUME NEW d \in deps, ApplyPromote(d) PROVE TaskMoves
  <2>1. /\ pc = "apply" /\ pc' = pc /\ todo' = todo \ {d.own}
        /\ deps' = WithoutDep(deps, d.own) \/ IsQueued(d.own)
    BY <1>2, NoStoreError DEF ApplyPromote, IsNext, ApplyNext
  <2>2. ~ IsQueued(d.own)
    BY DEF ApartInv, Rows, IsQueued
  <2>3. \A e \in deps' : e.own # d.own
    BY <2>1, <2>2 DEF WithoutDep
  <2>. QED BY <2>1, <2>3 DEF TaskMoves
<1>3. ASSUME NEW d \in deps, ApplyRedaction(d) \/ ApplyLocally(d) PROVE TaskMoves
  <2>1. /\ pc = "apply" /\ pc' = pc /\ todo' = todo \ {d.own}
        /\ d.kind \in {"edit", "redact"}
    BY <1>3, NoStoreError DEF ApplyRedaction, ApplyLocally, IsNext, ApplyNext
  <2>. QED BY <2>1 DEF TaskMoves, IsMedia
<1>4. ASSUME NEW d \in deps, ApplyLater(d) PROVE TaskMoves
    BY <1>4 DEF ApplyLater, IsNext, ApplyNext, IsReady, TaskMoves
<1>5. CASE ApplyEnd
    BY <1>5 DEF ApplyEnd, storeVars, TaskMoves
<1>6. CASE \/ CheckEnabled \/ Woken \/ PeekNextToSend \/ MarkAsSent \/ UploadCancelled \/ SendFails
           \/ ServerAccepts
    BY <1>6 DEF CheckEnabled, Woken, PeekNextToSend, MarkAsSent, UploadCancelled, ServerAccepts,
       SendFails, SendFailsRecoverably, SendFailsForGood, SendReturns, TaskMoves
<1>7. CASE pc' = pc /\ todo' = todo
    BY <1>7 DEF TaskMoves
<1>8. CASE pc' \notin {"check", "peek", "apply"}
    BY <1>8 DEF TaskMoves
<1>9. CASE SubmitStep \/ HandleStep
  <2>1. pc' = pc /\ todo' = todo
    BY <1>9 DEF SubmitStep, Push, PushSuperseding, SendAttachment, HandleStep, React, Reply, Edit,
       Abort, AbortReaction, AbortMedia, Unwedge, Quiet, taskVars
  <2>. QED BY <1>7, <2>1
<1>10. CASE OpenRoom \/ Respawn \/ SwitchStep \/ DropClient \/ Restart \/ UNCHANGED vars
  <2>1. (pc' = pc /\ todo' = todo) \/ pc' \in {"off", "loop"}
    BY <1>10 DEF OpenRoom, Respawn, ForRoom, SwitchStep, RetryVerified, SetEnabled,
       SetGloballyEnabled, DropClient, Restart, vars, taskVars
  <2>. QED BY <1>7, <1>8, <2>1
<1>. QED
    BY <1>1, <1>2, <1>3, <1>4, <1>5, <1>6, <1>9, <1>10 DEF Next, TaskStep, Apply

\* A dependent request is the only one with its id.
UniqueDeps == \A d, e \in deps : d.own = e.own => d = e

LEMMA UniqueDepsStep ==
    ASSUME QueueInv, UniqueDeps, [Next]_vars
    PROVE UniqueDeps'
<1>0. /\ RecordsOK /\ clock \in Nat
      /\ \A d \in deps : d \in Dependent
    BY DEF QueueInv, RecordsOK
<1>1. \A d \in deps : d.own \in Nat /\ d.own <= clock
    BY IdsDrawn DEF QueueInv, NamesInv
<1>2. ASSUME deps' \subseteq deps PROVE UniqueDeps'
    BY <1>2 DEF UniqueDeps
<1>3. ASSUME NEW D, deps' \subseteq deps \cup D,
             \A d \in D : d.own > clock, \A d, e \in D : d.own = e.own => d = e
      PROVE UniqueDeps'
    BY <1>0, <1>1, <1>3 DEF UniqueDeps
<1>4. ASSUME NEW d, deps' \subseteq deps \cup {d}, d.own = clock + 1 PROVE UniqueDeps'
    BY <1>0, <1>1, <1>4 DEF UniqueDeps
<1>5. CASE TaskStep \/ ServerAccepts \/ SendFails
  <2>1. ~ MarkAsSent => deps' \subseteq deps
    BY <1>5, TableTypes DEF TaskStep, LoopStart, Apply, ApplyPromote, ApplyRedaction, ApplyLocally,
       ApplyLater, ApplyEnd, CheckEnabled, Woken, PeekNextToSend, UploadCancelled, ServerAccepts,
       SendFails, SendFailsRecoverably, SendFailsForGood, storeVars
  <2>2. ASSUME deps' = MarkReady(deps, request.txn) PROVE UniqueDeps'
    <3>1. \A d \in deps' : \E e \in deps :
              /\ d = IF e.parent = request.txn THEN [e EXCEPT !.sent = TRUE] ELSE e
              /\ d.own = e.own
        BY <1>0, <2>2 DEF MarkReady, Dependent
    <3>2. ASSUME NEW d \in deps', NEW e \in deps', d.own = e.own PROVE d = e
      <4>1. PICK x \in deps :
                d = (IF x.parent = request.txn THEN [x EXCEPT !.sent = TRUE] ELSE x) /\ d.own = x.own
        BY <3>1
      <4>2. PICK y \in deps :
                e = (IF y.parent = request.txn THEN [y EXCEPT !.sent = TRUE] ELSE y) /\ e.own = y.own
        BY <3>1
      <4>3. x = y
        BY <3>2, <4>1, <4>2 DEF UniqueDeps
      <4>. QED BY <4>1, <4>2, <4>3, Zenon
    <3>. QED BY <3>2 DEF UniqueDeps
  <2>. QED BY <1>2, <2>1, <2>2 DEF MarkAsSent
<1>6. ASSUME NEW h, Edit(h) PROVE UniqueDeps'
  <2>1. clock' = clock + 1
    BY <1>6 DEF Edit, Draws
  <2>2. CASE deps' = {IF d.own = h.txn THEN [d EXCEPT !.body = clock'] ELSE d : d \in deps}
    <3>1. \A d \in deps' : \E e \in deps :
              /\ d = IF e.own = h.txn THEN [e EXCEPT !.body = clock'] ELSE e
              /\ d.own = e.own
        BY <1>0, <2>2 DEF Dependent
    <3>2. ASSUME NEW d \in deps', NEW e \in deps', d.own = e.own PROVE d = e
      <4>1. PICK x \in deps :
                d = (IF x.own = h.txn THEN [x EXCEPT !.body = clock'] ELSE x) /\ d.own = x.own
        BY <3>1
      <4>2. PICK y \in deps :
                e = (IF y.own = h.txn THEN [y EXCEPT !.body = clock'] ELSE y) /\ e.own = y.own
        BY <3>1
      <4>3. x = y
        BY <3>2, <4>1, <4>2 DEF UniqueDeps
      <4>. QED BY <4>1, <4>2, <4>3, Zenon
    <3>. QED BY <3>2 DEF UniqueDeps
  <2>3. CASE deps' \subseteq deps \cup {NewDependent(clock', h.txn, clock', "edit", NoTxn, clock')}
    <3>1. NewDependent(clock', h.txn, clock', "edit", NoTxn, clock').own = clock + 1
        BY <2>1 DEF NewDependent
    <3>. QED BY <1>4, <2>3, <3>1
  <2>. QED BY <1>6, <2>2, <2>3 DEF Edit
<1>7. ASSUME NEW op, SendAttachment(op) PROVE UniqueDeps'
  <2>0. PICK event \in Nat, file \in Nat, thumb \in Nat :
            /\ event = clock + 1 /\ file = clock + 2
            /\ thumb = IF op = "thumbnail" THEN clock + 3 ELSE NoTxn
    BY <1>0 DEF NoTxn
  <2>1. deps' \subseteq deps \cup FileUpload(event, file, thumb) \cup FinishUpload(event, file, thumb)
    BY <1>7, <2>0 DEF SendAttachment
  <2>2. /\ \A d \in FileUpload(event, file, thumb) : d.own = file
        /\ \A d \in FinishUpload(event, file, thumb) : d.own = event
    BY DEF FileUpload, FinishUpload, NewDependent
  <2>3. /\ \A d, e \in FileUpload(event, file, thumb) : d = e
        /\ \A d, e \in FinishUpload(event, file, thumb) : d = e
    BY DEF FileUpload, FinishUpload
  <2>4. PICK D : D = FileUpload(event, file, thumb) \cup FinishUpload(event, file, thumb)
    OBVIOUS
  <2>5. deps' \subseteq deps \cup D
    BY <2>1, <2>4
  <2>6. (\A d \in D : d.own > clock) /\ (\A d, e \in D : d.own = e.own => d = e)
    BY <1>0, <2>0, <2>2, <2>3, <2>4
  <2>. QED BY <1>3, <2>5, <2>6
<1>8. ASSUME NEW h, React(h) \/ Reply(h) \/ Abort(h) \/ AbortReaction(h) \/ AbortMedia(h)
      PROVE UniqueDeps'
  <2>1. \/ deps' \subseteq deps
        \/ \E d : deps' = deps \cup {d} /\ d.own = clock + 1
    <3>1. \A k, n : NewDependent(clock', h.txn, clock', k, NoTxn, n).own = clock'
        BY DEF NewDependent
    <3>2. ASSUME React(h) \/ Reply(h) PROVE \E d : deps' = deps \cup {d} /\ d.own = clock + 1
        BY <3>1, <3>2 DEF React, Reply, Draws
    <3>3. ASSUME NEW q, CancelEvent(h.txn, q)
          PROVE deps' = deps \/ \E d : deps' = deps \cup {d} /\ d.own = clock + 1
        BY <3>1, <3>3 DEF CancelEvent, Draws
    <3>4. ASSUME Abort(h) \/ AbortReaction(h) \/ AbortMedia(h)
          PROVE deps' \subseteq deps \/ \E q : CancelEvent(h.txn, q)
        BY <3>4, TableTypes DEF Abort, AbortReaction, AbortMedia
    <3>. QED BY <1>8, <3>2, <3>3, <3>4
  <2>. QED BY <1>2, <1>4, <2>1
<1>9. CASE \/ Push("send", "message") \/ Push("redact", "redaction") \/ PushSuperseding(NoTxn)
           \/ \E h : Unwedge(h)
           \/ OpenRoom \/ Respawn \/ SwitchStep \/ DropClient \/ Restart \/ UNCHANGED vars
  <2>1. deps' = deps
    BY <1>9 DEF Push, PushSuperseding, Unwedge, OpenRoom, Respawn, SwitchStep, RetryVerified,
       SetEnabled, SetGloballyEnabled, DropClient, Restart, vars, storeVars
  <2>. QED BY <1>2, <2>1
<1>. QED BY <1>5, <1>6, <1>7, <1>8, <1>9 DEF Next, SubmitStep, HandleStep

LEMMA ReadyStep ==
    ASSUME QueueInv, StoreWorks, ApartInv, UniqueDeps, ReadyInv, [Next]_vars
    PROVE ReadyInv'
<1>1. TaskMoves /\ DepsFrom
    BY TaskMovesStep, DepsStep DEF QueueInv
<1>2. ASSUME pc # "send", NEW d \in deps', d.sent
      PROVE \E e \in deps : e.own = d.own /\ e.kind = d.kind /\ e.sent
    BY <1>1, <1>2 DEF DepsFrom, KeptDep, NewDep, SameDependent
<1>3. ASSUME pc' \in {"check", "peek"}, NEW d \in deps', IsMedia(d) PROVE ~ d.sent
    BY <1>1, <1>2, <1>3 DEF TaskMoves, ReadyInv, IsMedia
<1>4. ASSUME pc' = "apply", NEW d \in deps', IsMedia(d), d.sent PROVE d.own \in todo'
  <2>1. CASE pc = "loop" /\ todo' = {e.own : e \in deps'}
    BY <2>1
  <2>2. CASE pc = "apply"
    <3>1. PICK e \in deps : e.own = d.own /\ e.kind = d.kind /\ e.sent
        BY <1>2, <1>4, <2>2
    <3>2. d.own \in todo
        BY <1>4, <2>2, <3>1 DEF ReadyInv, IsMedia
    <3>3. ASSUME NEW f \in deps, f.own = d.own PROVE IsMedia(f) /\ f.sent
        BY <1>4, <3>1, <3>3 DEF UniqueDeps, IsMedia
    <3>. QED BY <1>1, <1>4, <2>2, <3>2, <3>3 DEF TaskMoves
  <2>. QED BY <1>1, <1>4, <2>1, <2>2 DEF TaskMoves
<1>. QED BY <1>3, <1>4 DEF ReadyInv

-----------------------------------------------------------------------------
(* Messages that were not sent come after those that were *)

\* A request for a message, or for an upload that a message needs; and that message.
IsMessage(r) == r.kind \in {"message", "upload"}
MessageOf(r) == IF r.kind = "upload" THEN r.about ELSE r.txn

\* The messages that are still to be sent, and what comes before all of them.
Owed ==
    {MessageOf(r) : r \in {q \in queue : IsMessage(q)}}
      \cup {MediaEvent(d) : d \in {e \in deps : IsMedia(e)}}
FirstInLine(t) == t <= clock /\ \A o \in Owed : t <= o

\* Rows are in the order of their messages, but for those that an upload made: these, and what
\* an upload has made ready, and what is on its way, and what was sent, are first in line.
RowOrder ==
    \A r \in queue : IsMessage(r) =>
        IF r.high THEN FirstInLine(MessageOf(r)) ELSE MessageOf(r) = r.row
ReadyFirst == \A d \in deps : IsMedia(d) /\ d.sent => FirstInLine(MediaEvent(d))
RequestFirst == pc = "send" /\ IsMessage(request) => FirstInLine(MessageOf(request))
SentFirst ==
    \A i \in DOMAIN log : log[i].kind = "message" =>
        /\ FirstInLine(log[i].txn)
        /\ pc = "send" /\ IsMessage(request) => log[i].txn <= MessageOf(request)
OrderInv == RowOrder /\ ReadyFirst /\ RequestFirst /\ SentFirst /\ SentInOrder

\* What is owed was owed before, or is submitted now.
LEMMA OwedFrom ==
    ASSUME RecordsOK, QueueFrom, DepsFrom, NEW t \in Owed'
    PROVE t \in Owed \/ t = clock + 1
<1>1. ASSUME NEW r \in queue', IsMessage(r), t = MessageOf(r) PROVE t \in Owed \/ t = clock + 1
  <2>1. CASE KeptRow(r)
    BY <1>1, <2>1 DEF KeptRow, SameRow, SameRequest, Owed, IsMessage, MessageOf
  <2>2. CASE PromotedRow(r)
    <3>1. PICK d \in deps : /\ r.txn = d.own /\ (r.kind = "upload" <=> d.kind = "file")
                            /\ (d.kind = "file" => r.about = d.about)
                            /\ (r.kind = "message" <=> d.kind = "finish")
        BY <2>2, PromotedRowIs
    <3>2. IsMedia(d) /\ t = MediaEvent(d)
        BY <1>1, <3>1 DEF IsMessage, MessageOf, IsMedia, MediaEvent
    <3>. QED BY <3>2 DEF Owed
  <2>3. CASE NewRow(r)
    BY <1>1, <2>3 DEF NewRow, IsMessage, MessageOf
  <2>. QED BY <1>1, <2>1, <2>2, <2>3 DEF QueueFrom
<1>2. ASSUME NEW d \in deps', IsMedia(d), t = MediaEvent(d) PROVE t \in Owed \/ t = clock + 1
  <2>1. ASSUME NEW e \in deps, SameDependent(d, e), d.about = e.about PROVE t \in Owed
    BY <1>2, <2>1 DEF Owed, IsMedia, MediaEvent, SameDependent
  <2>2. CASE NewDep(d)
    BY <1>2, <2>2 DEF NewDep, IsMedia, MediaEvent
  <2>. QED BY <1>2, <2>1, <2>2 DEF DepsFrom, KeptDep
<1>. QED BY <1>1, <1>2 DEF Owed

LEMMA FirstStays ==
    ASSUME RecordsOK, QueueFrom, DepsFrom, clock' \in Nat, clock <= clock',
           NEW t \in Nat, FirstInLine(t)
    PROVE FirstInLine(t)'
<1>1. clock \in Nat
    BY DEF RecordsOK
<1>. QED BY <1>1, OwedFrom DEF FirstInLine

\* The upload that a dependent request waits for is one for the same message.
LEMMA UploadOf ==
    ASSUME QueueInv, NEW r \in Rows, NEW d \in deps, IsMedia(d), r.txn = d.parent
    PROVE r.kind = "upload" /\ r.about = MediaEvent(d)
<1>0. ShapeInv /\ AttachmentInv
    BY DEF QueueInv, NamesInv
<1>1. /\ MediaEvent(d) \in Attachments /\ IsUploadTxn(d.parent)
      /\ d.parent \in {MediaEvent(d) + 1, MediaEvent(d) + 2}
    BY ParentIs DEF QueueInv
<1>2. r.kind = "upload"
    BY <1>1 DEF IsUploadTxn
<1>3. r.about \in Attachments /\ r.txn \in {r.about + 1, r.about + 2}
    BY <1>0, <1>2 DEF Attachments, ShapeInv
<1>4. \A t \in Attachments : t \in Nat /\ t + 1 \notin Attachments
    BY <1>0, IdsDrawn DEF QueueInv, AttachmentInv, IsUploadTxn
<1>. QED BY <1>1, <1>2, <1>3, <1>4

\* When no upload is left to be followed up, a message that waits has an upload in the queue.
LEMMA WaitsInQueue ==
    ASSUME QueueInv, NothingLost, \A e \in deps : IsMedia(e) => ~ e.sent,
           NEW d \in deps, IsMedia(d)
    PROVE \E s \in queue : s.kind = "upload" /\ s.about = MediaEvent(d)
<1>0. RecordsOK /\ CausalInv /\ NamesInv
    BY DEF QueueInv
<1>1. ASSUME NEW e \in deps, IsMedia(e) PROVE IsQueued(e.parent) \/ IsDependent(e.parent)
  <2>1. \A h \in handles : h.txn # e.parent
    BY <1>0, <1>1, ParentIs DEF IsUploadTxn
  <2>2. ~ Dead(e.parent)
    BY <1>0, <2>1 DEF Dead, NamesInv, HandleInv
  <2>. QED BY <1>1, <2>2 DEF NothingLost
<1>2. ASSUME NEW e \in deps, IsMedia(e), IsQueued(e.parent)
      PROVE \E s \in queue : s.kind = "upload" /\ s.about = MediaEvent(e)
    BY <1>2, UploadOf DEF IsQueued, Rows
<1>3. CASE IsDependent(d.parent)
  <2>1. PICK e \in deps : e.own = d.parent
    BY <1>3 DEF IsDependent
  <2>2. e.kind = "file"
    BY <1>0, <2>1, ParentIs DEF IsUploadTxn
  <2>3. e.about \in Attachments /\ MediaEvent(d) \in Attachments
    BY <2>2 DEF Attachments, MediaEvent, IsMedia
  <2>4. /\ e.own = e.about + 1 /\ e.parent = e.about + 2
        /\ e.about \in Nat /\ MediaEvent(d) \in Nat
    BY <1>0, <2>2, <2>3, IdsDrawn DEF NamesInv, ShapeInv
  <2>5. d.kind = "finish" /\ d.own = e.about
    <3>1. d.parent = e.about + 1
        BY <2>1, <2>4
    <3>. QED BY <1>0, <2>3, <3>1, WaitsForUpload
  <2>6. ~ IsDependent(e.parent)
    BY <1>0, <2>3, <2>4, WaitsForUpload DEF IsDependent
  <2>7. IsMedia(e) /\ MediaEvent(e) = MediaEvent(d)
    BY <2>2, <2>5 DEF IsMedia, MediaEvent
  <2>. QED BY <1>1, <1>2, <2>6, <2>7
<1>. QED BY <1>1, <1>2, <1>3

\* So the first request of the queue is for the message that is first in line.
LEMMA FirstIsFirst ==
    ASSUME QueueInv, NothingLost, RowOrder, \A d \in deps : IsMedia(d) => ~ d.sent,
           NEW r \in queue, IsFirst(r), IsMessage(r)
    PROVE FirstInLine(MessageOf(r))
<1>0. /\ clock \in Nat
      /\ \A s \in queue : s \in Request
    BY DEF QueueInv, RecordsOK
<1>1. \A s \in queue : s.row \in Nat /\ s.txn \in Nat /\ s.about \in Nat /\ s.high \in BOOLEAN
    BY <1>0 DEF Request
<1>2. CASE r.high
    BY <1>2 DEF RowOrder
<1>3. CASE ~ r.high
  <2>1. MessageOf(r) = r.row
    BY <1>3 DEF RowOrder
  <2>2. \A s \in queue : ~ s.high /\ r.row <= s.row
    BY <1>1, <1>3 DEF IsFirst, Before
  <2>3. ASSUME NEW s \in queue, IsMessage(s) PROVE MessageOf(r) <= MessageOf(s)
    BY <2>1, <2>2, <2>3 DEF RowOrder
  <2>4. ASSUME NEW d \in deps, IsMedia(d) PROVE MessageOf(r) <= MediaEvent(d)
    <3>1. PICK s \in queue : s.kind = "upload" /\ s.about = MediaEvent(d)
        BY <2>4, WaitsInQueue
    <3>. QED BY <2>3, <3>1 DEF IsMessage, MessageOf
  <2>5. \A o \in Owed : MessageOf(r) <= o
    BY <2>3, <2>4 DEF Owed
  <2>6. MessageOf(r) <= clock
    <3>1. r \in Rows
        BY DEF Rows
    <3>2. r.txn <= clock
        BY <3>1, IdsDrawn DEF QueueInv, NamesInv
    <3>3. ASSUME r.kind = "upload" PROVE r.about <= clock
      <4>1. r.about \in Attachments
        BY <3>1, <3>3 DEF Attachments
      <4>2. r.about \in Nat /\ r.about + 2 <= clock
        BY <4>1, IdsDrawn DEF QueueInv, NamesInv
      <4>. QED BY <1>0, <4>2
    <3>. QED BY <3>2, <3>3 DEF MessageOf
  <2>. QED BY <2>5, <2>6 DEF FirstInLine
<1>. QED BY <1>2, <1>3

LEMMA RowOrderStep ==
    ASSUME QueueInv, OrderInv, QueueFrom, DepsFrom, clock' \in Nat, clock <= clock'
    PROVE RowOrder' /\ ReadyFirst'
<1>0. /\ RecordsOK
      /\ \A r \in queue : r.txn \in Nat /\ r.about \in Nat
      /\ \A d \in deps : d.own \in Nat /\ d.about \in Nat
    <2>1. RecordsOK
        BY DEF QueueInv
    <2>. QED BY <2>1 DEF RecordsOK, Request, Dependent
<1>1. /\ \A r \in queue : MessageOf(r) \in Nat
      /\ \A d \in deps : MediaEvent(d) \in Nat
    BY <1>0 DEF MessageOf, MediaEvent
<1>2. ASSUME NEW r \in queue', IsMessage(r)
      PROVE IF r.high THEN FirstInLine(MessageOf(r))' ELSE MessageOf(r) = r.row
  <2>1. CASE KeptRow(r)
    <3>1. PICK s \in queue : SameRow(r, s)
        BY <2>1 DEF KeptRow
    <3>2. IsMessage(s) /\ MessageOf(s) = MessageOf(r) /\ s.high = r.high /\ s.row = r.row
        BY <1>2, <3>1 DEF SameRow, SameRequest, IsMessage, MessageOf
    <3>3. r.high => FirstInLine(MessageOf(s))'
        BY <1>0, <1>1, <3>2, FirstStays DEF OrderInv, RowOrder
    <3>4. ~ r.high => MessageOf(s) = s.row
        BY <3>2 DEF OrderInv, RowOrder
    <3>. QED BY <3>2, <3>3, <3>4
  <2>2. CASE PromotedRow(r)
    <3>1. PICK d \in deps : /\ r.txn = d.own /\ (r.kind = "upload" <=> d.kind = "file") /\ d.sent
                            /\ (d.kind = "file" => r.about = d.about)
                            /\ (r.kind = "message" <=> d.kind = "finish")
                            /\ (IsMedia(d) => r.high)
        BY <1>0, <2>2, PromotedRowIs
    <3>2. IsMedia(d) /\ MessageOf(r) = MediaEvent(d)
        BY <1>2, <3>1 DEF IsMessage, MessageOf, IsMedia, MediaEvent
    <3>3. FirstInLine(MediaEvent(d))'
        BY <1>0, <1>1, <3>1, <3>2, FirstStays DEF OrderInv, ReadyFirst
    <3>. QED BY <3>1, <3>2, <3>3
  <2>3. CASE NewRow(r)
    BY <1>2, <2>3 DEF NewRow, IsMessage, MessageOf
  <2>. QED BY <1>2, <2>1, <2>2, <2>3 DEF QueueFrom
<1>3. ASSUME NEW d \in deps', IsMedia(d), d.sent PROVE FirstInLine(MediaEvent(d))'
  <2>1. PICK e \in deps :
            /\ SameDependent(d, e) /\ d.about = e.about
            /\ e.sent \/ (pc = "send" /\ delivered /\ d.parent = request.txn)
    BY <1>3 DEF DepsFrom, KeptDep, NewDep
  <2>2. IsMedia(e) /\ MediaEvent(e) = MediaEvent(d) /\ e.parent = d.parent
    BY <1>3, <2>1 DEF SameDependent, IsMedia, MediaEvent
  <2>3. FirstInLine(MediaEvent(e))
    <3>1. CASE e.sent
        BY <2>2, <3>1 DEF OrderInv, ReadyFirst
    <3>2. CASE pc = "send" /\ d.parent = request.txn
      <4>1. request \in Rows
        BY <3>2 DEF Rows
      <4>2. request.kind = "upload" /\ request.about = MediaEvent(e)
        BY <2>2, <3>2, <4>1, UploadOf
      <4>. QED BY <3>2, <4>2 DEF OrderInv, RequestFirst, IsMessage, MessageOf
    <3>. QED BY <2>1, <3>1, <3>2
  <2>. QED BY <1>0, <1>1, <2>2, <2>3, FirstStays
<1>. QED BY <1>2, <1>3 DEF RowOrder, ReadyFirst

LEMMA OrderStep ==
    ASSUME QueueInv, NothingLost, ReadyInv, OrderInv, [Next]_vars
    PROVE OrderInv'
<1>0. /\ RecordsOK /\ RecordsOK' /\ clock \in Nat /\ clock' \in Nat /\ clock <= clock'
      /\ QueueFrom /\ TaskFrom /\ DepsFrom /\ ServerGets
    <2>1. RecordsOK /\ CausalInv
        BY DEF QueueInv
    <2>2. RecordsOK' /\ clock <= clock' /\ QueueFrom /\ TaskFrom /\ DepsFrom /\ ServerGets
        BY <2>1, RecordsStep, ClockStep, RowsStep, TaskFromStep, DepsStep, ServerGetsStep
    <2>. QED BY <2>1, <2>2 DEF RecordsOK
<1>1. RowOrder' /\ ReadyFirst'
    BY <1>0, RowOrderStep
<1>2. log \in Seq(LogEntry) /\ request \in Request
    BY <1>0 DEF RecordsOK
<1>3. \A i \in DOMAIN log : log[i] \in LogEntry
    BY <1>2
<1>4. \A i \in DOMAIN log : log[i].txn \in Nat
    BY <1>3 DEF LogEntry
<1>5. \A t \in Nat : FirstInLine(t) => FirstInLine(t)'
    BY <1>0, FirstStays
<1>6. ASSUME pc' = "send", NEW r, r = request', IsMessage(r)
      PROVE /\ FirstInLine(MessageOf(r)) /\ MessageOf(r) \in Nat
            /\ \A i \in DOMAIN log : log[i].kind = "message" => log[i].txn <= MessageOf(r)
  <2>1. r \in Request
    BY <1>0, <1>6 DEF RecordsOK
  <2>2. MessageOf(r) \in Nat
    BY <2>1, Fields DEF MessageOf
  <2>3. CASE pc = "send" /\ r = request
    BY <1>6, <2>2, <2>3 DEF OrderInv, RequestFirst, SentFirst
  <2>4. CASE pc = "peek" /\ IsFirst(r)
    <3>1. r \in queue
        BY <2>4 DEF IsFirst
    <3>2. FirstInLine(MessageOf(r))
        BY <1>6, <2>4, <3>1, FirstIsFirst DEF OrderInv, ReadyInv
    <3>3. MessageOf(r) \in Owed
        BY <1>6, <3>1 DEF Owed
    <3>. QED BY <2>2, <3>2, <3>3 DEF OrderInv, SentFirst, FirstInLine
  <2>. QED BY <1>0, <1>6, <2>3, <2>4 DEF TaskFrom
<1>7. RequestFirst'
  <2>1. SUFFICES ASSUME pc' = "send", IsMessage(request') PROVE FirstInLine(MessageOf(request))'
    BY DEF RequestFirst
  <2>2. PICK r : r = request'
    OBVIOUS
  <2>3. FirstInLine(MessageOf(r))'
    BY <1>5, <1>6, <2>1, <2>2
  <2>. QED BY <2>2, <2>3
<1>8. ASSUME NEW i \in DOMAIN log, log[i].kind = "message", NEW t, t = log[i].txn
      PROVE /\ FirstInLine(t)'
            /\ pc' = "send" /\ IsMessage(request') => t <= MessageOf(request')
    BY <1>4, <1>5, <1>6, <1>8 DEF OrderInv, SentFirst
<1>9. ASSUME log' = log PROVE SentFirst' /\ SentInOrder'
    BY <1>8, <1>9 DEF OrderInv, SentFirst, SentInOrder
<1>10. ASSUME NEW e \in LogEntry, log' = Append(log, e),
              e.kind = "message" =>
                 /\ pc = "send" /\ request.kind = "message" /\ e.txn = request.txn
                 /\ ~ OnServer(request.txn) /\ UNCHANGED <<pc, request>>
       PROVE SentFirst' /\ SentInOrder'
  <2>1. /\ Len(log) \in Nat /\ DOMAIN log = 1..Len(log) /\ DOMAIN log' = 1..(Len(log) + 1)
        /\ \A i \in 1..Len(log) : log'[i] = log[i]
        /\ log'[Len(log) + 1] = e /\ e.txn \in Nat
    BY <1>2, <1>10 DEF LogEntry
  <2>2. ASSUME e.kind = "message"
        PROVE /\ FirstInLine(e.txn) /\ MessageOf(request) = e.txn
              /\ \A i \in DOMAIN log : log[i].kind = "message" => log[i].txn < e.txn
    <3>1. MessageOf(request) = e.txn /\ IsMessage(request)
        BY <1>10, <2>2 DEF MessageOf, IsMessage
    <3>2. \A i \in DOMAIN log : log[i].kind = "message" => log[i].txn # e.txn
        BY <1>10, <2>2 DEF OnServer
    <3>. QED BY <1>4, <1>10, <2>1, <2>2, <3>1, <3>2 DEF OrderInv, RequestFirst, SentFirst
  <2>3. ASSUME NEW i \in DOMAIN log', log'[i].kind = "message", NEW t, t = log'[i].txn
        PROVE /\ FirstInLine(t)'
              /\ pc' = "send" /\ IsMessage(request') => t <= MessageOf(request')
    <3>1. CASE i \in DOMAIN log
        BY <1>8, <2>1, <2>3, <3>1
    <3>2. CASE i = Len(log) + 1
      <4>1. e.kind = "message" /\ t = e.txn
        BY <2>1, <2>3, <3>2
      <4>2. request' = request /\ MessageOf(request) = t /\ FirstInLine(t)
        BY <1>10, <2>2, <4>1
      <4>. QED BY <1>5, <2>1, <4>1, <4>2
    <3>. QED BY <2>1, <3>1, <3>2
  <2>4. SentInOrder'
    <3>1. SUFFICES ASSUME NEW i \in DOMAIN log', NEW j \in DOMAIN log', i < j,
                          log'[i].kind = "message", log'[j].kind = "message"
                   PROVE log'[i].txn < log'[j].txn
        BY DEF SentInOrder
    <3>2. CASE j \in DOMAIN log
        BY <2>1, <3>1, <3>2 DEF OrderInv, SentInOrder
    <3>3. CASE j = Len(log) + 1
      <4>1. i \in DOMAIN log
          BY <2>1, <3>1, <3>3
      <4>. QED BY <2>1, <2>2, <3>1, <3>3, <4>1
    <3>. QED BY <2>1, <3>2, <3>3
  <2>. QED BY <2>3, <2>4 DEF SentFirst
<1>11. Entry(request) \in LogEntry /\ Entry(request).txn = request.txn
       /\ Entry(request).kind = request.kind
    BY <1>2 DEF Entry, LogEntry, Request
<1>. QED BY <1>0, <1>1, <1>7, <1>9, <1>10, <1>11 DEF ServerGets, OrderInv

MessageInv == ApartInv /\ UniqueDeps /\ ReadyInv /\ OrderInv

\* Messages, and media among them, reach the server in the order in which they were submitted,
\* however long their uploads take, whatever is retried, edited, aborted or lost, and wherever the
\* process stops: an upload that was sent is followed up before the next request is looked for, and
\* what follows it up jumps the queue (apply_dependent_requests, finish_upload).  The state store
\* must do what it is told: a follow-up that cannot be stored lets a later message go first.
THEOREM MessagesAreSentInOrder == ASSUME StoreWorks PROVE Spec => []SentInOrder
<1>1. Init => MessageInv
    BY DEF Init, MessageInv, ApartInv, UniqueDeps, ReadyInv, OrderInv, RowOrder, ReadyFirst,
       RequestFirst, SentFirst, SentInOrder
<1>2. ASSUME QueueInv, NothingLost, MessageInv, [Next]_vars PROVE MessageInv'
    BY <1>2, NoStoreError, ApartStep, UniqueDepsStep, ReadyStep, OrderStep DEF MessageInv
<1>3. QueueInv /\ NothingLost /\ MessageInv /\ [Next]_vars => MessageInv'
    BY <1>2
<1>4. MessageInv => SentInOrder
    BY DEF MessageInv, OrderInv
<1>5. WholeAborts
    BY DEF StoreWorks, WholeAborts
<1>6. Spec => []NothingLost
    BY <1>5, NothingIsLost
<1>. QED BY <1>1, <1>3, <1>4, <1>6, QueueInvariant, PTL DEF Spec

-----------------------------------------------------------------------------
(* Handles *)

\* In this step no answer is lost on its way, for want of the state store, or with the process.
Calm == ~ Fails("store") /\ ~ Fails("lost") /\ ~ Fails("crash")

LEMMA NothingDisturbs ==
    ASSUME Calm
    PROVE ~ Fails("store") /\ ~ Fails("lost") /\ ~ Fails("crash")
    BY DEF Calm

-----------------------------------------------------------------------------
(* What a step does to the request on its way and to the log *)

\* No upload is left that the message with this id waits for.
NoUploads(t) ==
    /\ \A r \in Rows : r.kind = "upload" => r.about # t
    /\ \A d \in deps : d.kind = "file" => d.about # t

\* The task and the client go on, and a request that is not an upload is not cancelled.
RunsInv ==
    /\ ~ dropping /\ pc # "stopped"
    /\ pc = "send" /\ request.kind # "upload" => beingSent = request.txn /\ ~ cancelled

\* Only what is uploaded has the id of an upload.
LEMMA UploadRowTxn ==
    ASSUME QueueInv, NEW r \in Rows, r.kind = "upload"
    PROVE IsUploadTxn(r.txn)
<1>1. r.about \in Attachments
    BY DEF Attachments
<1>. QED BY <1>1 DEF QueueInv, NamesInv, ShapeInv, AttachmentInv

LEMMA RunsStep ==
    ASSUME QueueInv, Calm, RunsInv, [Next]_vars
    PROVE RunsInv'
<1>1. ~ dropping' /\ pc' # "stopped"
  <2>1. CASE TaskStep \/ ServerAccepts \/ SendFails
    BY <2>1 DEF RunsInv, TaskStep, LoopStart, Apply, ApplyPromote, ApplyRedaction, ApplyLocally,
       ApplyLater, ApplyEnd, IsNext, ApplyNext, ApplyStops, CheckEnabled, Woken, PeekNextToSend,
       MarkAsSent, UploadCancelled, SendReturns, ServerAccepts, SendFails, SendFailsRecoverably,
       SendFailsForGood, switchVars
  <2>2. CASE SubmitStep \/ HandleStep
    <3>1. dropping' = dropping /\ pc' = pc
        BY <2>2 DEF SubmitStep, Push, PushSuperseding, SendAttachment, HandleStep, React, Reply,
           Edit, Abort, AbortReaction, AbortMedia, Unwedge, Quiet, switchVars, taskVars
    <3>. QED BY <3>1 DEF RunsInv
  <2>3. CASE DropClient \/ Restart
    BY <2>3, NothingDisturbs DEF RunsInv, DropClient, Restart
  <2>4. CASE OpenRoom \/ Respawn \/ SwitchStep \/ UNCHANGED vars
    <3>1. dropping' = dropping /\ pc' \in {pc, "loop"}
        BY <2>4 DEF OpenRoom, Respawn, ForRoom, SwitchStep, RetryVerified, SetEnabled,
           SetGloballyEnabled, vars, switchVars, taskVars
    <3>. QED BY <3>1 DEF RunsInv
  <2>. QED BY <2>1, <2>2, <2>3, <2>4 DEF Next
<1>2. ASSUME pc' = "send", request'.kind # "upload" PROVE beingSent' = request'.txn /\ ~ cancelled'
  <2>1. CASE PeekNextToSend
    BY <1>2, <2>1 DEF PeekNextToSend
  <2>2. CASE ~ PeekNextToSend /\ (TaskStep \/ ServerAccepts \/ SendFails)
    <3>1. pc = "send" /\ request' = request /\ beingSent' = beingSent /\ cancelled' = cancelled
        BY <1>2, <2>2 DEF TaskStep, LoopStart, Apply, ApplyPromote, ApplyRedaction, ApplyLocally,
           ApplyLater, ApplyEnd, IsNext, ApplyNext, ApplyStops, CheckEnabled, Woken, MarkAsSent,
           UploadCancelled, SendReturns, ServerAccepts, SendFails, SendFailsRecoverably,
           SendFailsForGood
    <3>. QED BY <1>2, <3>1 DEF RunsInv
  <2>3. ASSUME NEW h \in handles, AbortMedia(h) PROVE beingSent' = request'.txn /\ ~ cancelled'
    <3>1. pc = "send" /\ request' = request
        BY <1>2, <2>3 DEF AbortMedia
    <3>2. request \in Rows /\ beingSent = request.txn /\ ~ cancelled
        BY <1>2, <3>1 DEF RunsInv, Rows
    <3>3. ASSUME beingSent \in {h.file, h.thumb} \ {NoTxn} PROVE FALSE
      <4>1. h.file # NoTxn /\ h.txn \in Attachments
        BY <2>3 DEF AbortMedia, Attachments
      <4>2. beingSent \in {h.txn + 1, h.txn + 2}
        BY <3>3, <4>1 DEF QueueInv, NamesInv, ShapeInv
      <4>3. IsUploadTxn(beingSent)
        BY <4>1, <4>2 DEF QueueInv, NamesInv, AttachmentInv
      <4>. QED BY <1>2, <3>1, <3>2, <4>3 DEF IsUploadTxn
    <3>4. UNCHANGED <<beingSent, cancelled>> \/ beingSent \in {h.file, h.thumb} \ {NoTxn}
        BY <2>3 DEF AbortMedia
    <3>. QED BY <3>1, <3>2, <3>3, <3>4
  <2>4. CASE SubmitStep \/ (HandleStep /\ \A h \in handles : ~ AbortMedia(h))
    <3>1. pc = "send" /\ request' = request /\ beingSent' = beingSent /\ cancelled' = cancelled
        BY <1>2, <2>4 DEF SubmitStep, Push, PushSuperseding, SendAttachment, HandleStep, React,
           Reply, Edit, Abort, AbortReaction, Unwedge, Quiet, taskVars, sendVars
    <3>. QED BY <1>2, <3>1 DEF RunsInv
  <2>5. CASE OpenRoom \/ Respawn \/ SwitchStep \/ DropClient \/ Restart \/ UNCHANGED vars
    <3>1. pc = "send" /\ request' = request /\ beingSent' = beingSent /\ cancelled' = cancelled
        BY <1>2, <2>5 DEF OpenRoom, Respawn, ForRoom, SwitchStep, RetryVerified, SetEnabled,
           SetGloballyEnabled, DropClient, Restart, vars, taskVars, sendVars
    <3>. QED BY <1>2, <3>1 DEF RunsInv
  <2>. QED BY <2>1, <2>2, <2>3, <2>4, <2>5 DEF Next, HandleStep
<1>. QED BY <1>1, <1>2 DEF RunsInv

\* How sending ends: the answer is written down, or nothing was delivered, or an upload ends.
SendEnds ==
    pc = "send" =>
        \/ pc' = "send" /\ request' = request /\ (delivered => delivered')
        \/ /\ pc' # "send" /\ deps' = MarkReady(deps, request.txn)
           /\ queue' = Without(queue, request.txn)
        \/ ~ delivered
        \/ request.kind = "upload"

LEMMA SendEndsStep ==
    ASSUME Calm, RunsInv, [Next]_vars
    PROVE SendEnds
<1>0. SUFFICES ASSUME pc = "send" PROVE SendEnds
    BY DEF SendEnds
<1>1. CASE MarkAsSent
    BY <1>1, NothingDisturbs DEF MarkAsSent, SendReturns, RunsInv, SendEnds
<1>2. CASE SendFails
    BY <1>2, NothingDisturbs DEF SendFails, SendFailsRecoverably, SendFailsForGood, SendEnds
<1>3. CASE UploadCancelled
    BY <1>0, <1>3 DEF UploadCancelled, RunsInv, SendEnds
<1>4. CASE ServerAccepts
    BY <1>0, <1>4 DEF ServerAccepts, SendEnds
<1>5. CASE pc' = pc /\ request' = request /\ delivered' = delivered
    BY <1>0, <1>5 DEF SendEnds
<1>6. CASE SubmitStep \/ HandleStep
  <2>1. pc' = pc /\ request' = request /\ delivered' = delivered
    BY <1>6 DEF SubmitStep, Push, PushSuperseding, SendAttachment, HandleStep, React, Reply, Edit,
       Abort, AbortReaction, AbortMedia, Unwedge, Quiet, taskVars, sendVars
  <2>. QED BY <1>5, <2>1
<1>7. CASE OpenRoom \/ Respawn \/ SwitchStep \/ UNCHANGED vars
  <2>1. pc' = pc /\ request' = request /\ delivered' = delivered
    BY <1>0, <1>7 DEF OpenRoom, Respawn, SwitchStep, RetryVerified, SetEnabled, SetGloballyEnabled,
       ForRoom, vars, taskVars, sendVars
  <2>. QED BY <1>5, <2>1
<1>8. ~ DropClient /\ ~ Restart
    BY <1>0, NothingDisturbs DEF DropClient, Restart
<1>9. CASE TaskStep
    BY <1>0, <1>1, <1>3, <1>9 DEF TaskStep, LoopStart, Apply, ApplyPromote, ApplyRedaction,
       ApplyLocally, ApplyLater, ApplyEnd, IsNext, CheckEnabled, Woken, PeekNextToSend
<1>. QED BY <1>2, <1>4, <1>6, <1>7, <1>8, <1>9 DEF Next

\* The server gets the request on its way, or the redaction of an event that was sent, which
\* then is no longer waiting.
LogGrows ==
    \/ log' = log
    \/ /\ pc = "send" /\ request.kind # "upload" /\ log' = Append(log, Entry(request))
       /\ delivered' = TRUE /\ UNCHANGED <<queue, deps, clock, pc, request, aborted>>
    \/ \E d \in deps :
          /\ pc = "apply" /\ IsRedact(d) /\ d.sent /\ log' = Append(log, Entry(Promoted(d)))
          /\ deps' = WithoutDep(deps, d.own) /\ UNCHANGED <<queue, clock, pc, aborted>>

LEMMA LogGrowsStep ==
    ASSUME Calm, [Next]_vars
    PROVE LogGrows
<1>1. CASE ServerAccepts
    BY <1>1 DEF ServerAccepts, Accept, LogGrows, storeVars, userVars
<1>2. ASSUME NEW d \in deps, ApplyRedaction(d) PROVE LogGrows
    BY <1>2, NothingDisturbs DEF ApplyRedaction, IsNext, IsReady, ApplyNext, IsRedact, Accept,
       LogGrows, userVars
<1>3. CASE log' = log
    BY <1>3 DEF LogGrows
<1>4. CASE TaskStep \/ SendFails
    BY <1>2, <1>3, <1>4 DEF TaskStep, SendFails, LoopStart, Apply, ApplyPromote,
       ApplyLocally, ApplyLater, ApplyEnd, CheckEnabled, Woken, PeekNextToSend,
       MarkAsSent, UploadCancelled, SendFailsRecoverably, SendFailsForGood
<1>5. CASE SubmitStep \/ HandleStep
  <2>1. log' = log
    BY <1>5 DEF SubmitStep, Push, PushSuperseding, SendAttachment, HandleStep, React, Reply, Edit,
       Abort, AbortReaction, AbortMedia, Unwedge, Quiet
  <2>. QED BY <1>3, <2>1
<1>6. CASE SwitchStep \/ OpenRoom \/ Respawn \/ DropClient \/ Restart \/ UNCHANGED vars
    BY <1>3, <1>6 DEF SwitchStep, RetryVerified, SetEnabled, SetGloballyEnabled, OpenRoom, Respawn,
       DropClient, Restart, vars
<1>. QED BY <1>1, <1>4, <1>5, <1>6 DEF Next

\* A dependent request learns from mark_as_sent that its parent was sent.
LEMMA SentFrom ==
    ASSUME RecordsOK, Calm, RunsInv, [Next]_vars, NEW d \in deps', d.sent
    PROVE \/ \E e \in deps : SameDependent(d, e) /\ e.sent
          \/ /\ pc = "send" /\ pc' # "send" /\ delivered /\ d.parent = request.txn
             /\ queue' = Without(queue, request.txn)
<1>0. \A e \in deps : e \in Dependent
    BY DEF RecordsOK
<1>1. CASE d \in deps
    BY <1>1 DEF SameDependent
<1>2. CASE MarkAsSent
  <2>1. /\ pc = "send" /\ pc' # "send" /\ delivered /\ queue' = Without(queue, request.txn)
        /\ deps' = MarkReady(deps, request.txn)
    BY <1>2, NothingDisturbs DEF MarkAsSent, SendReturns, RunsInv
  <2>2. d \in deps \/ d.parent = request.txn
    BY <1>0, <2>1 DEF MarkReady, Dependent
  <2>. QED BY <1>1, <2>1, <2>2
<1>3. CASE TaskStep \/ ServerAccepts \/ SendFails
  <2>1. ~ MarkAsSent => deps' \subseteq deps
    BY <1>3, TableTypes DEF TaskStep, LoopStart, Apply, ApplyPromote, ApplyRedaction, ApplyLocally,
       ApplyLater, ApplyEnd, CheckEnabled, Woken, PeekNextToSend, UploadCancelled, ServerAccepts,
       SendFails, SendFailsRecoverably, SendFailsForGood, storeVars
  <2>. QED BY <1>1, <1>2, <2>1
<1>4. \A a, b, c, k, x, y : ~ NewDependent(a, b, c, k, x, y).sent
    BY DEF NewDependent
<1>5. ASSUME NEW h, Edit(h) PROVE \E e \in deps : SameDependent(d, e) /\ e.sent
  <2>1. CASE deps' = {IF e.own = h.txn THEN [e EXCEPT !.body = clock'] ELSE e : e \in deps}
    <3>1. \E e \in deps : SameDependent(d, e) /\ e.sent = d.sent
        BY <1>0, <2>1 DEF SameDependent, Dependent
    <3>. QED BY <3>1
  <2>2. CASE d \in deps
    BY <2>2 DEF SameDependent
  <2>. QED BY <1>4, <1>5, <2>1, <2>2 DEF Edit
<1>6. CASE SubmitStep
  <2>1. ASSUME NEW op, SendAttachment(op)
        PROVE \E x, y, z : deps' \subseteq deps \cup FileUpload(x, y, z) \cup FinishUpload(x, y, z)
    BY <2>1, NothingDisturbs DEF SendAttachment
  <2>2. \A x, y, z : \A e \in FileUpload(x, y, z) \cup FinishUpload(x, y, z) : ~ e.sent
    BY <1>4 DEF FileUpload, FinishUpload
  <2>3. deps' = deps \/ \E op : SendAttachment(op)
    BY <1>6 DEF SubmitStep, Push, PushSuperseding
  <2>. QED BY <1>1, <2>1, <2>2, <2>3
<1>7. ASSUME NEW h, React(h) \/ Reply(h) \/ Unwedge(h) PROVE d \in deps
  <2>1. \/ deps' = deps
        \/ \E k : deps' = deps \cup {NewDependent(clock', h.txn, clock', k, NoTxn, clock')}
    BY <1>7 DEF React, Reply, Unwedge
  <2>. QED BY <1>4, <2>1
<1>8. ASSUME NEW h, Abort(h) \/ AbortReaction(h) \/ AbortMedia(h) PROVE d \in deps
  <2>1. deps' \subseteq deps \/ \E q : CancelEvent(h.txn, q)
    BY <1>8, TableTypes DEF Abort, AbortReaction, AbortMedia
  <2>. QED BY <1>4, <2>1 DEF CancelEvent
<1>9. CASE OpenRoom \/ Respawn \/ SwitchStep \/ DropClient \/ Restart \/ UNCHANGED vars
  <2>1. deps' = deps
    BY <1>9 DEF OpenRoom, Respawn, SwitchStep, RetryVerified, SetEnabled, SetGloballyEnabled,
       DropClient, Restart, vars, storeVars
  <2>. QED BY <1>1, <2>1
<1>. QED BY <1>1, <1>3, <1>5, <1>6, <1>7, <1>8, <1>9 DEF Next, HandleStep

-----------------------------------------------------------------------------
(* Who is aborted, and who is redacted for it *)

IsRedacted(t) == \E d \in deps : IsRedact(d) /\ d.parent = t

\* The server has no event that still waits or that uploads are still made for.
LogInv ==
    \A i \in DOMAIN log :
        /\ log[i].txn <= clock /\ NoUploads(log[i].txn)
        /\ \A d \in deps : d.own # log[i].txn

\* What waits was not aborted; only a media waits for uploads; when the parent was sent, it is
\* neither in the queue nor waiting itself.
DepInv ==
    \A d \in deps :
        /\ d.own \notin aborted
        /\ d.kind # "file" /\ (d.kind = "finish" => d.sent) => NoUploads(d.own)
        /\ d.sent => /\ \A r \in Rows : r.txn # d.parent
                     /\ \A e \in deps : e.own # d.parent

\* A request that the server has is being sent, and its answer is there; the uploads of a media
\* follow each other.
RowInv ==
    /\ \A r \in Rows : r.kind # "upload" =>
          /\ NoUploads(r.txn)
          /\ OnServer(r.txn) => pc = "send" /\ request.txn = r.txn /\ delivered
    /\ \A r, s \in Rows :
          r.kind = "upload" /\ s.kind = "upload" /\ r.about = s.about => r.txn = s.txn

\* A request that was aborted and is there nonetheless is redacted; before that is ready, the
\* server can have the event only while it is being sent.
RedactInv ==
    /\ \A r \in Rows : r.txn \in aborted => IsRedacted(r.txn)
    /\ \A d \in deps : IsRedact(d) /\ ~ d.sent /\ OnServer(d.parent) =>
          pc = "send" /\ request.txn = d.parent /\ delivered

AbortInv == RunsInv /\ ApartInv /\ UniqueDeps /\ LogInv /\ DepInv /\ RowInv /\ RedactInv

\* What abort_upload still finds of an attachment.
LEMMA MediaLeft ==
    ASSUME QueueInv, NEW h \in handles, h.file # NoTxn, FileWaits(h) \/ IsQueued(h.file)
    PROVE ~ NoUploads(h.txn)
<1>0. ShapeInv /\ AttachmentInv
    BY DEF QueueInv, NamesInv
<1>1. h.txn \in Attachments /\ h.file = h.txn + 1
    BY <1>0 DEF Attachments, ShapeInv
<1>2. IsUploadTxn(h.file)
    BY <1>0, <1>1 DEF AttachmentInv
<1>3. \A t \in Attachments : t \in Nat /\ t + 1 \notin Attachments
    BY <1>0, IdsDrawn DEF QueueInv, AttachmentInv, IsUploadTxn
<1>4. CASE FileWaits(h)
  <2>1. PICK d \in deps : d.own = h.file
    BY <1>4 DEF FileWaits, IsDependent
  <2>2. d.kind = "file"
    BY <1>2, <2>1 DEF IsUploadTxn
  <2>3. d.about \in Attachments /\ d.own = d.about + 1
    BY <1>0, <2>2 DEF Attachments, MediaEvent, IsMedia, ShapeInv
  <2>4. d.about = h.txn
    BY <1>1, <1>3, <2>1, <2>3
  <2>. QED BY <2>2, <2>4 DEF NoUploads
<1>5. CASE IsQueued(h.file)
  <2>1. PICK r \in Rows : r.txn = h.file
    BY <1>5 DEF IsQueued, Rows
  <2>2. r.kind = "upload"
    BY <1>2, <2>1 DEF IsUploadTxn
  <2>3. r.about \in Attachments /\ r.txn \in {r.about + 1, r.about + 2}
    BY <1>0, <2>2 DEF Attachments, ShapeInv
  <2>4. r.about = h.txn
    <3>1. r.about \in Nat /\ h.txn \in Nat /\ r.about + 1 # h.txn
        BY <1>1, <1>3, <2>3
    <3>. QED BY <1>1, <2>1, <2>3, <3>1
  <2>. QED BY <2>2, <2>4 DEF NoUploads
<1>. QED BY <1>4, <1>5

\* What abort takes back: it was being sent and is redacted, or was queued, or waited, or was
\* waited for by its uploads.
AbortedHow(t) ==
    /\ UNCHANGED <<log, pc, request>> /\ queue' \subseteq queue
    /\ \E h \in handles : h.txn = t
    /\ \/ IsRedacted(t)' /\ IsQueued(t)
       \/ beingSent # t /\ IsQueued(t) /\ \A r \in queue' : r.txn # t
       \/ IsDependent(t) /\ \A d \in deps' : d.own # t
       \/ ~ NoUploads(t) /\ \A d \in deps' : d.own # t

LEMMA CancelHow ==
    ASSUME QueueInv, NEW h \in handles, NEW q \in SUBSET queue, CancelEvent(h.txn, q),
           UNCHANGED <<log, pc, request>>, NEW t \in aborted', t \notin aborted
    PROVE AbortedHow(t)
<1>1. t = h.txn /\ t # NoTxn
    BY DEF CancelEvent, QueueInv, NamesInv, ShapeInv
<1>2. queue' \subseteq queue
    BY TableTypes DEF CancelEvent
<1>3. CASE /\ beingSent = t
           /\ deps' = deps \cup {NewDependent(clock', t, clock', "redact", NoTxn, 0)}
  <2>1. IsQueued(t)
    BY <1>1, <1>3 DEF QueueInv, BusyInv
  <2>2. PICK d \in deps' : d = NewDependent(clock', t, clock', "redact", NoTxn, 0)
    BY <1>3
  <2>3. d.kind = "redact" /\ d.parent = t
    BY <2>2 DEF NewDependent
  <2>4. IsRedacted(t)'
    BY <2>3 DEF IsRedacted, IsRedact
  <2>. QED BY <1>1, <1>2, <2>1, <2>4 DEF AbortedHow
<1>4. CASE beingSent # t /\ IsQueued(t) /\ queue' = Without(q, t)
    BY <1>1, <1>2, <1>4 DEF AbortedHow, Without
<1>. QED BY <1>1, <1>3, <1>4 DEF CancelEvent

LEMMA AbortedNow ==
    ASSUME QueueInv, Calm, [Next]_vars, NEW t \in aborted', t \notin aborted
    PROVE AbortedHow(t)
<1>1. HandleStep
    BY DEF Next, TaskStep, LoopStart, Apply, ApplyPromote, ApplyRedaction, ApplyLocally, ApplyLater,
       ApplyEnd, CheckEnabled, Woken, PeekNextToSend, MarkAsSent, UploadCancelled, ServerAccepts,
       SendFails, SendFailsRecoverably, SendFailsForGood, SubmitStep, Push, PushSuperseding,
       SendAttachment, OpenRoom, Respawn, SwitchStep, RetryVerified, SetEnabled, SetGloballyEnabled,
       DropClient, Restart, vars, userVars
<1>2. PICK h \in handles : Abort(h) \/ AbortReaction(h) \/ AbortMedia(h)
    BY <1>1 DEF HandleStep, React, Reply, Edit, Unwedge, userVars
<1>3. UNCHANGED <<log, pc, request>>
    BY <1>2 DEF Abort, AbortReaction, AbortMedia, Quiet, taskVars, sendVars
<1>4. CASE \E q \in SUBSET queue : CancelEvent(h.txn, q)
    BY <1>3, <1>4, CancelHow
<1>5. CASE Abort(h)
    BY <1>4, <1>5 DEF Abort
<1>6. CASE AbortReaction(h)
  <2>1. CASE /\ IsDependent(h.txn) /\ deps' = WithoutDep(deps, h.txn) /\ queue' = queue
             /\ aborted' = aborted \cup {h.txn}
    BY <1>3, <2>1 DEF AbortedHow, WithoutDep
  <2>. QED BY <1>4, <1>6, <2>1 DEF AbortReaction
<1>7. CASE AbortMedia(h)
  <2>1. PICK left, fileLeft :
            /\ left \in SUBSET queue
            /\ \/ /\ FileWaits(h) \/ IsQueued(h.file) \/ IsDependent(h.txn)
                  /\ queue' = left /\ deps' = WithoutDep(fileLeft, h.txn)
                  /\ aborted' = aborted \cup {h.txn}
               \/ CancelEvent(h.txn, left)
    BY <1>7, NothingDisturbs DEF AbortMedia
  <2>2. CASE /\ FileWaits(h) \/ IsQueued(h.file) \/ IsDependent(h.txn)
             /\ queue' = left /\ deps' = WithoutDep(fileLeft, h.txn)
             /\ aborted' = aborted \cup {h.txn}
    <3>1. t = h.txn /\ queue' \subseteq queue /\ \A d \in deps' : d.own # t
        BY <2>1, <2>2 DEF WithoutDep
    <3>2. IsDependent(t) \/ ~ NoUploads(t)
        BY <1>7, <2>2, <3>1, MediaLeft DEF AbortMedia
    <3>. QED BY <1>3, <3>1, <3>2 DEF AbortedHow
  <2>. QED BY <1>4, <2>1, <2>2
<1>. QED BY <1>2, <1>5, <1>6, <1>7

\* A redaction that is new is one of the event being sent.
LEMMA RedactFrom ==
    ASSUME QueueInv, Calm, [Next]_vars, NEW d \in deps', IsRedact(d)
    PROVE \/ \E e \in deps : SameDependent(d, e) /\ (e.sent => d.sent)
          \/ /\ beingSent = d.parent /\ d.own = clock + 1
             /\ \E h \in handles : h.txn = d.parent
             /\ UNCHANGED <<pc, request, delivered, log>>
<1>0. RecordsOK /\ DepsFrom
    BY DepsStep DEF QueueInv
<1>1. CASE KeptDep(d)
    BY <1>1 DEF KeptDep
<1>2. CASE ~ KeptDep(d)
  <2>1. NewDep(d) /\ d \notin deps
    BY <1>0, <1>2, DepsKept DEF DepsFrom
  <2>2. HandleStep
    <3>1. CASE TaskStep \/ ServerAccepts \/ SendFails
      <4>1. deps' \subseteq deps \/ (pc = "send" /\ delivered /\ deps' = MarkReady(deps, request.txn))
        BY <3>1, TableTypes DEF TaskStep, LoopStart, Apply, ApplyPromote, ApplyRedaction,
           ApplyLocally, ApplyLater, ApplyEnd, CheckEnabled, Woken, PeekNextToSend, MarkAsSent,
           SendReturns, UploadCancelled, ServerAccepts, SendFails, SendFailsRecoverably,
           SendFailsForGood, storeVars
      <4>. QED BY <1>0, <1>2, <4>1, DepsKept
    <3>2. CASE SubmitStep
      <4>1. ASSUME NEW op, SendAttachment(op)
            PROVE \E x, y, z : deps' \subseteq deps \cup FileUpload(x, y, z) \cup FinishUpload(x, y, z)
        BY <4>1, NothingDisturbs DEF SendAttachment
      <4>2. \A a, b, c, k, x, y : NewDependent(a, b, c, k, x, y).kind = k
        BY DEF NewDependent
      <4>3. \A x, y, z : \A e \in FileUpload(x, y, z) \cup FinishUpload(x, y, z) : ~ IsRedact(e)
        BY <4>2 DEF FileUpload, FinishUpload, IsRedact
      <4>4. deps' = deps \/ \E op : SendAttachment(op)
        BY <3>2 DEF SubmitStep, Push, PushSuperseding
      <4>. QED BY <2>1, <4>1, <4>3, <4>4
    <3>3. CASE OpenRoom \/ Respawn \/ SwitchStep \/ DropClient \/ Restart \/ UNCHANGED vars
      <4>1. deps' = deps
        BY <3>3 DEF OpenRoom, Respawn, SwitchStep, RetryVerified, SetEnabled, SetGloballyEnabled,
           DropClient, Restart, vars, storeVars
      <4>. QED BY <2>1, <4>1
    <3>. QED BY <3>1, <3>2, <3>3 DEF Next
  <2>3. \A a, b, c, k, x, y : /\ NewDependent(a, b, c, k, x, y).kind = k
                              /\ NewDependent(a, b, c, k, x, y).parent = b
    BY DEF NewDependent
  <2>4. ASSUME NEW h \in handles, React(h) \/ Reply(h) \/ Edit(h) PROVE FALSE
    <3>1. ASSUME NEW k, k # "redact", NEW n,
                 deps' = deps \cup {NewDependent(clock', h.txn, clock', k, NoTxn, n)}
          PROVE FALSE
        BY <2>1, <2>3, <3>1 DEF IsRedact
    <3>2. ASSUME deps' = {IF e.own = h.txn THEN [e EXCEPT !.body = clock'] ELSE e : e \in deps}
          PROVE FALSE
        BY <1>0, <1>2, <3>2, DepsKept
    <3>3. \/ deps' = deps
          \/ \E k \in {"react", "reply", "edit"} : \E n :
                deps' = deps \cup {NewDependent(clock', h.txn, clock', k, NoTxn, n)}
          \/ deps' = {IF e.own = h.txn THEN [e EXCEPT !.body = clock'] ELSE e : e \in deps}
        BY <2>4 DEF React, Reply, Edit
    <3>. QED BY <2>1, <3>1, <3>2, <3>3
  <2>5. ASSUME NEW h, Unwedge(h) PROVE FALSE
    BY <2>1, <2>5 DEF Unwedge
  <2>6. PICK h \in handles : Abort(h) \/ AbortReaction(h) \/ AbortMedia(h)
    BY <2>2, <2>4, <2>5 DEF HandleStep
  <2>7. UNCHANGED <<pc, request, delivered, log>>
    BY <2>6 DEF Abort, AbortReaction, AbortMedia, Quiet, taskVars, sendVars
  <2>8. \E q : CancelEvent(h.txn, q)
    BY <2>1, <2>6, TableTypes DEF Abort, AbortReaction, AbortMedia
  <2>9. /\ beingSent = h.txn
        /\ deps' = deps \cup {NewDependent(clock', h.txn, clock', "redact", NoTxn, 0)}
    BY <2>1, <2>8 DEF CancelEvent
  <2>10. d.parent = h.txn
    BY <2>1, <2>3, <2>9
  <2>11. d.own = clock + 1
    BY <2>1 DEF NewDep, IsRedact
  <2>. QED BY <2>7, <2>9, <2>10, <2>11
<1>. QED BY <1>1, <1>2

\* A set of numbers has a least element.
LEMMA Least ==
    ASSUME NEW T, \A x \in T : x \in Nat, T # {}
    PROVE \E m \in T : \A x \in T : m <= x
<1>1. PICK R : R = OpToRel(<, Nat)
    OBVIOUS
<1>2. IsWellFoundedOn(R, Nat)
    BY <1>1, NatLessThanWellFounded, Zenon
<1>3. PICK m \in T : \A x \in T : ~ (<<x, m>> \in R)
    BY <1>2, WFMin
<1>4. \A x, y \in Nat : <<x, y>> \in R <=> x < y
    BY <1>1 DEF OpToRel
<1>5. ASSUME NEW x \in T PROVE m <= x
  <2>1. x \in Nat /\ m \in Nat /\ ~ (x < m)
    BY <1>3, <1>4
  <2>. QED BY <2>1
<1>. QED BY <1>5

\* A redaction that is gone was sent, or the event was taken out of the queue instead.
LEMMA RedactKept ==
    ASSUME QueueInv, Calm, AbortInv, [Next]_vars, NEW d \in deps, IsRedact(d)
    PROVE \/ IsRedacted(d.parent)'
          \/ d.sent /\ log' = Append(log, Entry(Promoted(d)))
          \/ /\ ~ d.sent /\ pc = "apply" /\ pc' = pc /\ queue' = Without(queue, d.parent)
             /\ log' = log
<1>0. /\ \A e \in deps : e \in Dependent
      /\ d.row \in Nat
    <2>1. \A e \in deps : e \in Dependent
        BY DEF QueueInv, RecordsOK
    <2>. QED BY <2>1 DEF Dependent
<1>1. ASSUME d \in deps' PROVE IsRedacted(d.parent)'
    BY <1>1 DEF IsRedacted
<1>2. ASSUME NEW e \in deps, d \notin WithoutDep(deps, e.own) PROVE d = e
    BY <1>2 DEF WithoutDep, AbortInv, UniqueDeps
<1>3. CASE LoopStart
  <2>1. PICK T : T = {e.row : e \in {f \in deps : IsRedact(f) /\ f.parent = d.parent}}
    OBVIOUS
  <2>2. T # {} /\ \A x \in T : x \in Nat
    BY <1>0, <2>1 DEF Dependent
  <2>3. PICK x \in T : \A y \in T : x <= y
    BY <2>2, Least
  <2>4. PICK e \in deps : e.row = x /\ IsRedact(e) /\ e.parent = d.parent
    BY <2>1
  <2>5. e \in Canonical(deps)
    BY <2>1, <2>3, <2>4 DEF Canonical
  <2>6. e \in deps'
    BY <1>3, <2>5, NothingDisturbs DEF LoopStart
  <2>7. PICK t : t = d.parent
    OBVIOUS
  <2>8. IsRedacted(t)'
    BY <2>4, <2>6, <2>7 DEF IsRedacted
  <2>. QED BY <2>7, <2>8 DEF IsRedacted
<1>4. ASSUME NEW e \in deps, ApplyPromote(e) PROVE d \in deps'
    BY <1>2, <1>4, NothingDisturbs DEF ApplyPromote, IsRedact
<1>5. ASSUME NEW e \in deps, ApplyRedaction(e)
      PROVE d \in deps' \/ (d.sent /\ log' = Append(log, Entry(Promoted(d))))
  <2>1. CASE deps' = WithoutDep(deps, e.own) /\ log' = Accept(Promoted(e)) /\ IsReady(e)
    <3>1. Promoted(e).txn = e.own
        BY DEF Promoted, NewRequest
    <3>2. ~ OnServer(Promoted(e).txn)
        BY <3>1 DEF AbortInv, LogInv, OnServer
    <3>. QED BY <1>2, <2>1, <3>2 DEF Accept, IsReady
  <2>. QED BY <1>5, <2>1, NothingDisturbs DEF ApplyRedaction
<1>6. ASSUME NEW e \in deps, ApplyLocally(e)
      PROVE \/ d \in deps'
            \/ /\ ~ d.sent /\ pc = "apply" /\ pc' = pc /\ queue' = Without(queue, d.parent)
               /\ log' = log
  <2>1. /\ pc = "apply" /\ pc' = pc /\ log' = log /\ ~ e.sent
        /\ queue' = AppliedLocally(e) /\ deps' = WithoutDep(deps, e.own)
    BY <1>6, NothingDisturbs DEF ApplyLocally, IsNext, IsReady, ApplyNext
  <2>2. IsRedact(e) => queue' = Without(queue, e.parent)
    BY <2>1 DEF AppliedLocally, IsRedact
  <2>. QED BY <1>2, <2>1, <2>2
<1>7. ASSUME deps' = MarkReady(deps, request.txn) PROVE IsRedacted(d.parent)'
  <2>1. PICK e \in deps' : e = IF d.parent = request.txn THEN [d EXCEPT !.sent = TRUE] ELSE d
    BY <1>7 DEF MarkReady
  <2>2. e.kind = d.kind /\ e.parent = d.parent
    BY <1>0, <2>1 DEF Dependent
  <2>. QED BY <2>2 DEF IsRedacted, IsRedact
<1>8. CASE TaskStep \/ ServerAccepts \/ SendFails
  <2>1. \/ LoopStart \/ \E e \in deps : ApplyPromote(e) \/ ApplyRedaction(e) \/ ApplyLocally(e)
        \/ deps' = deps \/ deps' = MarkReady(deps, request.txn)
    BY <1>8 DEF TaskStep, Apply, ApplyLater, ApplyEnd, CheckEnabled, Woken, PeekNextToSend,
       MarkAsSent, UploadCancelled, ServerAccepts, SendFails, SendFailsRecoverably,
       SendFailsForGood, storeVars
  <2>. QED BY <1>1, <1>3, <1>4, <1>5, <1>6, <1>7, <2>1
<1>9. CASE SubmitStep
    BY <1>1, <1>9 DEF SubmitStep, Push, PushSuperseding, SendAttachment
<1>10. ASSUME NEW h \in handles, Edit(h) PROVE IsRedacted(d.parent)'
  <2>1. CASE deps' = {IF e.own = h.txn THEN [e EXCEPT !.body = clock'] ELSE e : e \in deps}
    <3>1. PICK e \in deps' : e = IF d.own = h.txn THEN [d EXCEPT !.body = clock'] ELSE d
        BY <2>1
    <3>2. e.kind = d.kind /\ e.parent = d.parent
        BY <1>0, <3>1 DEF Dependent
    <3>. QED BY <3>2 DEF IsRedacted, IsRedact
  <2>. QED BY <1>1, <1>10, <2>1 DEF Edit
<1>11. ASSUME NEW h \in handles, React(h) \/ Reply(h) \/ Abort(h) \/ AbortReaction(h) \/ AbortMedia(h)
       PROVE d \in deps'
  <2>1. d.own # h.txn
    BY DEF QueueInv, NamesInv, HandleInv, IsRedact
  <2>2. h.file # NoTxn => d.own # h.file
    <3>1. ASSUME h.file # NoTxn PROVE IsUploadTxn(h.file)
      <4>1. h.txn \in Attachments /\ h.file = h.txn + 1
        BY <3>1 DEF Attachments, QueueInv, NamesInv, ShapeInv
      <4>. QED BY <4>1 DEF QueueInv, NamesInv, AttachmentInv
    <3>. QED BY <3>1 DEF IsUploadTxn, IsRedact
  <2>3. \/ deps \subseteq deps' \/ deps' = WithoutDep(deps, h.txn)
        \/ h.file # NoTxn /\ deps' = WithoutDep(WithoutDep(deps, h.file), h.txn)
    BY <1>11, NothingDisturbs DEF React, Reply, Abort, AbortReaction, AbortMedia, CancelEvent
  <2>. QED BY <2>1, <2>2, <2>3 DEF WithoutDep
<1>12. ASSUME NEW h, Unwedge(h) PROVE d \in deps'
    BY <1>12 DEF Unwedge
<1>13. CASE OpenRoom \/ Respawn \/ SwitchStep \/ DropClient \/ Restart \/ UNCHANGED vars
  <2>1. deps' = deps
    BY <1>13 DEF OpenRoom, Respawn, SwitchStep, RetryVerified, SetEnabled, SetGloballyEnabled,
       DropClient, Restart, vars, storeVars
  <2>. QED BY <1>1, <2>1
<1>. QED BY <1>1, <1>8, <1>9, <1>10, <1>11, <1>12, <1>13 DEF Next, HandleStep

-----------------------------------------------------------------------------
(* Uploads that a message waits for *)

\* What is new when an attachment is sent.
LEMMA AttachmentIs ==
    ASSUME QueueInv, Calm, [Next]_vars, clock + 3 <= clock'
    PROVE /\ \A r \in queue' : r.txn > clock => r.kind = "upload"
          /\ \A r, s \in queue' : r.txn > clock /\ s.txn > clock => r.txn = s.txn
          /\ \A d \in deps' : d.own > clock => IsMedia(d)
<1>0. /\ clock \in Nat
      /\ \A r \in queue : r.txn \in Nat /\ r.txn <= clock
      /\ \A d \in deps : d.own \in Nat /\ d.own <= clock
    BY IdsDrawn DEF QueueInv, NamesInv, Rows
<1>1. PICK op : SendAttachment(op)
  <2>1. CASE clock' \in {clock, clock + 1}
    BY <1>0, <2>1
  <2>2. CASE TaskStep \/ SendFails \/ ServerAccepts
    BY <2>1, <2>2 DEF TaskStep, SendFails, LoopStart, Apply, ApplyPromote, ApplyRedaction,
       ApplyLocally, ApplyLater, ApplyEnd, CheckEnabled, Woken, PeekNextToSend, ServerAccepts,
       MarkAsSent, UploadCancelled, SendFailsRecoverably, SendFailsForGood
  <2>3. CASE HandleStep
    BY <2>1, <2>3 DEF HandleStep, React, Reply, Edit, Abort, AbortReaction, AbortMedia, CancelEvent,
       Unwedge, Draws
  <2>4. CASE SwitchStep \/ OpenRoom \/ Respawn \/ DropClient \/ Restart \/ UNCHANGED vars
    BY <2>1, <2>4 DEF SwitchStep, RetryVerified, SetEnabled, SetGloballyEnabled, OpenRoom, Respawn,
       DropClient, Restart, vars
  <2>5. CASE SubmitStep
    BY <2>1, <2>5 DEF SubmitStep, Push, PushSuperseding, Draws
  <2>. QED BY <2>2, <2>3, <2>4, <2>5 DEF Next
<1>2. PICK event \in Nat, file \in Nat, thumb \in Nat :
          /\ event = clock + 1 /\ file = clock + 2
          /\ thumb = IF op = "thumbnail" THEN clock + 3 ELSE NoTxn
    BY <1>0 DEF NoTxn
<1>3. /\ queue' \subseteq queue \cup Uploads(event, file, thumb)
      /\ deps' \subseteq deps \cup FileUpload(event, file, thumb) \cup FinishUpload(event, file, thumb)
    BY <1>1, <1>2 DEF SendAttachment
<1>4. \A r, s \in Uploads(event, file, thumb) : r = s
    BY DEF Uploads
<1>5. \A r \in Uploads(event, file, thumb) : r.kind = "upload"
    BY DEF Uploads, NewRequest
<1>6. \A a, b, c, k, x, y : NewDependent(a, b, c, k, x, y).kind = k
    BY DEF NewDependent
<1>7. \A d \in FileUpload(event, file, thumb) \cup FinishUpload(event, file, thumb) : IsMedia(d)
    BY <1>6 DEF FileUpload, FinishUpload, IsMedia
<1>. QED BY <1>0, <1>3, <1>4, <1>5, <1>7

LEMMA RowsNow ==
    ASSUME QueueFrom, TaskFrom, NEW r \in Rows'
    PROVE \/ \E s \in Rows : SameRequest(r, s)
          \/ r \in queue' /\ PromotedRow(r)
          \/ r \in queue' /\ NewRow(r)
<1>1. ASSUME r \in queue'
      PROVE (\E s \in Rows : SameRequest(r, s)) \/ PromotedRow(r) \/ NewRow(r)
    BY <1>1 DEF QueueFrom, KeptRow, SameRow, Rows
<1>2. ASSUME pc' = "send" PROVE \E s \in Rows : SameRequest(request', s)
    BY <1>2 DEF TaskFrom, Rows, IsFirst, SameRequest
<1>3. r \in queue' \/ (pc' = "send" /\ r = request')
    BY DEF Rows
<1>. QED BY <1>1, <1>2, <1>3

\* An id that is not drawn yet has no uploads, and one that has none gets none.
LEMMA NoUploadsYet ==
    ASSUME QueueInv, NEW t \in Nat, t > clock
    PROVE NoUploads(t)
<1>1. clock \in Nat /\ \A e \in Attachments : e \in Nat /\ e + 2 <= clock
    BY IdsDrawn DEF QueueInv, NamesInv
<1>2. \A e \in Attachments : e # t
    BY <1>1
<1>. QED BY <1>2 DEF NoUploads, Attachments, MediaEvent, IsMedia

LEMMA NoUploadsStays ==
    ASSUME QueueInv, [Next]_vars, NEW t \in Nat, NoUploads(t),
           t <= clock \/ ~ (clock + 3 <= clock')
    PROVE NoUploads(t)'
<1>0. RecordsOK /\ clock \in Nat /\ QueueFrom /\ TaskFrom /\ DepsFrom
  <2>1. RecordsOK /\ CausalInv
    BY DEF QueueInv
  <2>. QED BY <2>1, RowsStep, TaskFromStep, DepsStep DEF RecordsOK
<1>1. ASSUME NEW r \in Rows', r.kind = "upload" PROVE r.about # t
  <2>1. ASSUME NEW s \in Rows, SameRequest(r, s) PROVE r.about # t
    BY <1>1, <2>1 DEF NoUploads, SameRequest
  <2>2. CASE PromotedRow(r)
    <3>1. PICK d \in deps : /\ (r.kind = "upload" <=> d.kind = "file")
                            /\ (d.kind = "file" => r.about = d.about)
        BY <1>0, <2>2, PromotedRowIs
    <3>. QED BY <1>1, <3>1 DEF NoUploads
  <2>3. CASE NewRow(r)
    BY <1>0, <1>1, <2>3 DEF NewRow
  <2>. QED BY <1>0, <1>1, <2>1, <2>2, <2>3, RowsNow
<1>2. ASSUME NEW d \in deps', d.kind = "file" PROVE d.about # t
  <2>1. ASSUME NEW e \in deps, SameDependent(d, e), d.about = e.about PROVE d.about # t
    BY <1>2, <2>1 DEF NoUploads, SameDependent
  <2>2. CASE NewDep(d)
    BY <1>0, <1>2, <2>2 DEF NewDep
  <2>. QED BY <1>0, <1>2, <2>1, <2>2 DEF DepsFrom, KeptDep
<1>. QED BY <1>1, <1>2 DEF NoUploads

\* What the server gets and what it has.
LEMMA OnServerFrom ==
    ASSUME QueueInv, LogGrows, NEW t, OnServer(t)'
    PROVE \/ OnServer(t)
          \/ /\ pc = "send" /\ request.kind # "upload" /\ t = request.txn /\ delivered' = TRUE
             /\ UNCHANGED <<queue, deps, clock, pc, request, aborted>>
          \/ \E d \in deps : /\ pc = "apply" /\ IsRedact(d) /\ d.sent /\ t = d.own
                             /\ deps' = WithoutDep(deps, d.own)
                             /\ UNCHANGED <<queue, clock, pc, aborted>>
<1>1. log \in Seq(LogEntry)
    BY DEF QueueInv, RecordsOK
<1>2. ASSUME NEW e, log' = Append(log, e) PROVE OnServer(t) \/ t = e.txn
  <2>1. /\ Len(log) \in Nat /\ DOMAIN log = 1..Len(log) /\ DOMAIN log' = 1..(Len(log) + 1)
        /\ \A i \in 1..Len(log) : log'[i] = log[i]
        /\ log'[Len(log) + 1] = e
    BY <1>1, <1>2
  <2>2. PICK i \in DOMAIN log' : log'[i].txn = t /\ log'[i].kind # "receipt"
    BY DEF OnServer
  <2>. QED BY <2>1, <2>2 DEF OnServer
<1>3. \A r : Entry(r).txn = r.txn
    BY DEF Entry
<1>4. \A d : Promoted(d).txn = d.own
    BY DEF Promoted, NewRequest
<1>5. CASE log' = log
    BY <1>5 DEF OnServer
<1>6. CASE \/ log' = log
           \/ /\ pc = "send" /\ request.kind # "upload" /\ log' = Append(log, Entry(request))
              /\ delivered' = TRUE /\ UNCHANGED <<queue, deps, clock, pc, request, aborted>>
    BY <1>2, <1>3, <1>5, <1>6
<1>7. ASSUME NEW d \in deps, pc = "apply", IsRedact(d), d.sent, log' = Append(log, Entry(Promoted(d))),
             deps' = WithoutDep(deps, d.own), UNCHANGED <<queue, clock, pc, aborted>>
      PROVE \/ OnServer(t)
            \/ \E e \in deps : /\ pc = "apply" /\ IsRedact(e) /\ e.sent /\ t = e.own
                               /\ deps' = WithoutDep(deps, e.own)
                               /\ UNCHANGED <<queue, clock, pc, aborted>>
    BY <1>2, <1>3, <1>4, <1>7
<1>. QED BY <1>6, <1>7 DEF LogGrows

-----------------------------------------------------------------------------
(* Every step keeps the invariant *)

\* What all the parts need to know of a step.
StepFacts ==
    /\ RecordsOK /\ clock \in Nat /\ clock' \in Nat /\ clock <= clock'
    /\ QueueFrom /\ TaskFrom /\ DepsFrom /\ AbortsGrow /\ LogGrows /\ SendEnds
    /\ \A r \in Rows : r.txn \in Nat /\ r.txn <= clock
    /\ \A d \in deps : d.own \in Nat /\ d.own <= clock /\ d.parent \in Nat /\ d.parent <= clock
    /\ \A h \in handles : h.txn \in Nat /\ h.txn <= clock
    /\ \A t \in aborted : t \in Nat /\ t <= clock

LEMMA StepFactsHold ==
    ASSUME QueueInv, Calm, RunsInv, [Next]_vars
    PROVE StepFacts
<1>1. RecordsOK /\ CausalInv /\ AttachmentInv
    BY DEF QueueInv, NamesInv
<1>2. clock' \in Nat /\ clock <= clock'
    BY <1>1, ClockStep
<1>3. QueueFrom /\ TaskFrom /\ DepsFrom /\ AbortsGrow /\ LogGrows /\ SendEnds
    BY <1>1, RowsStep, TaskFromStep, DepsStep, LogGrowsStep, SendEndsStep
<1>4. /\ clock \in Nat
      /\ \A r \in Rows : r.txn \in Nat /\ r.txn <= clock
      /\ \A d \in deps : d.own \in Nat /\ d.own <= clock /\ d.parent \in Nat /\ d.parent <= clock
      /\ \A h \in handles : h.txn \in Nat /\ h.txn <= clock
    BY <1>1, IdsDrawn
<1>5. \A t \in aborted : t \in Nat /\ t <= clock
    BY <1>4 DEF QueueInv, NamesInv, HandleInv
<1>. QED BY <1>1, <1>2, <1>3, <1>4, <1>5 DEF StepFacts

LEMMA LogStep ==
    ASSUME QueueInv, Calm, AbortInv, StepFacts, [Next]_vars
    PROVE LogInv'
<1>1. log \in Seq(LogEntry)
    BY DEF QueueInv, RecordsOK
<1>2. \A i \in DOMAIN log : log[i].txn \in Nat
  <2>1. \A i \in DOMAIN log : log[i] \in LogEntry
    BY <1>1
  <2>. QED BY <2>1 DEF LogEntry
<1>3. ASSUME NEW t \in Nat, t <= clock, NoUploads(t), \A d \in deps : d.own # t
      PROVE t <= clock' /\ NoUploads(t)' /\ \A d \in deps' : d.own # t
  <2>1. \A d \in deps' : d.own > clock \/ \E e \in deps : d.own = e.own
    BY DEF StepFacts, DepsFrom, KeptDep, SameDependent, NewDep
  <2>. QED BY <1>3, <2>1, NoUploadsStays DEF StepFacts
<1>4. ASSUME NEW i \in DOMAIN log, NEW t, t = log[i].txn
      PROVE t <= clock' /\ NoUploads(t)' /\ \A d \in deps' : d.own # t
    BY <1>2, <1>3, <1>4 DEF AbortInv, LogInv
<1>5. CASE log' = log
    BY <1>4, <1>5 DEF LogInv
<1>6. ASSUME NEW e, log' = Append(log, e), NEW t, t = e.txn,
             t <= clock' /\ NoUploads(t)' /\ \A d \in deps' : d.own # t
      PROVE LogInv'
  <2>1. /\ Len(log) \in Nat /\ DOMAIN log = 1..Len(log) /\ DOMAIN log' = 1..(Len(log) + 1)
        /\ \A i \in 1..Len(log) : log'[i] = log[i]
        /\ log'[Len(log) + 1] = e
    BY <1>1, <1>6
  <2>2. ASSUME NEW i \in DOMAIN log', NEW u, u = log'[i].txn
        PROVE u <= clock' /\ NoUploads(u)' /\ \A d \in deps' : d.own # u
    BY <1>4, <1>6, <2>1, <2>2
  <2>. QED BY <2>2 DEF LogInv
<1>7. \A r : Entry(r).txn = r.txn
    BY DEF Entry
<1>8. ASSUME pc = "send", request.kind # "upload", log' = Append(log, Entry(request)), deps' = deps
      PROVE LogInv'
  <2>1. request \in Rows
    BY <1>8 DEF Rows
  <2>2. PICK t \in Nat : t = request.txn /\ t <= clock
    BY <2>1 DEF StepFacts
  <2>3. NoUploads(t) /\ \A d \in deps : d.own # t
    BY <1>8, <2>1, <2>2 DEF AbortInv, RowInv, ApartInv
  <2>4. t <= clock' /\ NoUploads(t)' /\ \A d \in deps' : d.own # t
    BY <1>3, <2>2, <2>3
  <2>. QED BY <1>6, <1>7, <1>8, <2>2, <2>4
<1>9. ASSUME NEW d \in deps, IsRedact(d), log' = Append(log, Entry(Promoted(d))),
             deps' = WithoutDep(deps, d.own)
      PROVE LogInv'
  <2>1. PICK t \in Nat : t = d.own /\ t <= clock
    BY DEF StepFacts
  <2>2. NoUploads(t)
    BY <1>9, <2>1 DEF AbortInv, DepInv, IsRedact
  <2>3. NoUploads(t)' /\ t <= clock'
    BY <2>1, <2>2, NoUploadsStays DEF StepFacts
  <2>4. \A e \in deps' : e.own # t
    BY <1>9, <2>1 DEF WithoutDep
  <2>5. Promoted(d).txn = t
    BY <2>1 DEF Promoted, NewRequest
  <2>. QED BY <1>6, <1>7, <1>9, <2>3, <2>4, <2>5
<1>. QED BY <1>5, <1>8, <1>9 DEF StepFacts, LogGrows

LEMMA DepStep ==
    ASSUME QueueInv, Calm, AbortInv, StepFacts, [Next]_vars
    PROVE DepInv'
<1>1. ASSUME NEW d \in deps' PROVE d.own \notin aborted'
  <2>1. ASSUME NEW e \in deps, d.own = e.own PROVE d.own \notin aborted'
    <3>1. SUFFICES ASSUME d.own \in aborted' PROVE FALSE
        OBVIOUS
    <3>2. AbortedHow(d.own)
        BY <2>1, <3>1, AbortedNow DEF AbortInv, DepInv
    <3>3. ~ IsQueued(d.own)
        BY <2>1 DEF AbortInv, ApartInv, IsQueued, Rows
    <3>. QED BY <1>1, <3>2, <3>3 DEF AbortedHow
  <2>2. CASE NewDep(d)
    <3>1. d.own \in {clock + 1, clock + 2}
        BY <2>2 DEF NewDep
    <3>2. \A t \in aborted' : t \in Nat /\ t <= clock
        BY DEF StepFacts, AbortsGrow, QueueInv, NamesInv, HandleInv
    <3>. QED BY <3>1, <3>2 DEF StepFacts
  <2>. QED BY <1>1, <2>1, <2>2 DEF StepFacts, DepsFrom, KeptDep, SameDependent
<1>2. ASSUME NEW d \in deps', d.sent
      PROVE /\ \A r \in Rows' : r.txn # d.parent
            /\ \A e \in deps' : e.own # d.parent
  <2>1. ASSUME NEW t, t \in Nat, t <= clock, \A e \in deps : e.own # t PROVE \A e \in deps' : e.own # t
    BY <2>1 DEF StepFacts, DepsFrom, KeptDep, SameDependent, NewDep
  <2>2. ASSUME NEW e \in deps, SameDependent(d, e), e.sent
        PROVE /\ \A r \in Rows' : r.txn # d.parent
              /\ \A f \in deps' : f.own # d.parent
    <3>1. /\ d.parent \in Nat /\ d.parent <= clock
          /\ \A r \in Rows : r.txn # d.parent
          /\ \A f \in deps : f.own # d.parent
        BY <2>2 DEF SameDependent, StepFacts, AbortInv, DepInv
    <3>2. ASSUME NEW r \in Rows' PROVE r.txn # d.parent
      <4>1. ASSUME NEW s \in Rows, SameRequest(r, s) PROVE r.txn # d.parent
        BY <3>1, <4>1 DEF SameRequest
      <4>2. CASE PromotedRow(r)
        <5>1. \E f \in deps : r.txn = f.own
            BY <4>2, PromotedRowIs DEF StepFacts
        <5>. QED BY <3>1, <5>1
      <4>3. CASE NewRow(r)
        BY <3>1, <4>3 DEF NewRow, Fresh, StepFacts
      <4>. QED BY <3>2, <4>1, <4>2, <4>3, RowsNow DEF StepFacts
    <3>. QED BY <2>1, <3>1, <3>2
  <2>3. CASE /\ pc = "send" /\ pc' # "send" /\ d.parent = request.txn
             /\ queue' = Without(queue, request.txn)
    <3>1. Rows' = queue' /\ request \in Rows
        BY <2>3 DEF Rows
    <3>2. \A r \in Rows' : r.txn # d.parent
        BY <2>3, <3>1 DEF Without
    <3>3. d.parent \in Nat /\ d.parent <= clock /\ \A e \in deps : e.own # d.parent
        BY <2>3, <3>1 DEF StepFacts, AbortInv, ApartInv
    <3>. QED BY <2>1, <3>2, <3>3
  <2>. QED BY <1>2, <2>2, <2>3, SentFrom DEF StepFacts, AbortInv
<1>3. ASSUME NEW d \in deps', d.kind # "file", d.kind = "finish" => d.sent PROVE NoUploads(d.own)'
  <2>1. ASSUME NEW e \in deps, d.own = e.own, NoUploads(e.own) PROVE NoUploads(d.own)'
    BY <2>1, NoUploadsStays DEF StepFacts
  <2>2. CASE NewDep(d)
    <3>1. d.own = clock + 1 /\ ~ IsMedia(d)
        BY <1>3, <2>2 DEF NewDep, IsMedia
    <3>2. ~ (clock + 3 <= clock')
        BY <3>1, AttachmentIs DEF StepFacts
    <3>3. NoUploads(d.own)
        BY <3>1, NoUploadsYet DEF StepFacts
    <3>. QED BY <3>1, <3>2, <3>3, NoUploadsStays DEF StepFacts
  <2>3. ASSUME NEW e \in deps, SameDependent(d, e), d.kind # "finish" PROVE NoUploads(d.own)'
    <3>1. NoUploads(e.own)
        BY <1>3, <2>3 DEF AbortInv, DepInv, SameDependent
    <3>. QED BY <2>1, <2>3, <3>1 DEF SameDependent
  <2>4. CASE d.kind = "finish" /\ ~ NewDep(d)
    <3>1. ASSUME NEW e \in deps, SameDependent(d, e), e.sent PROVE NoUploads(d.own)'
      <4>1. NoUploads(e.own)
        BY <1>3, <3>1 DEF AbortInv, DepInv, SameDependent
      <4>. QED BY <2>1, <3>1, <4>1 DEF SameDependent
    <3>2. CASE /\ pc = "send" /\ pc' # "send" /\ d.parent = request.txn
               /\ queue' = Without(queue, request.txn)
      <4>1. PICK e \in deps : SameDependent(d, e)
        BY <1>3, <2>4 DEF StepFacts, DepsFrom, KeptDep
      <4>2. Rows' = queue' /\ queue \subseteq Rows /\ request \in Rows
        BY <3>2 DEF Rows
      <4>3. IsMedia(e) /\ MediaEvent(e) = d.own /\ request.txn = e.parent
        BY <2>4, <3>2, <4>1 DEF SameDependent, IsMedia, MediaEvent
      <4>4. request.kind = "upload" /\ request.about = d.own
        BY <4>2, <4>3, UploadOf
      <4>5. request.txn = d.own + 1 /\ d.own \in Nat /\ d.own <= clock
        BY <2>4, <3>2, <4>1 DEF SameDependent, QueueInv, NamesInv, ShapeInv, StepFacts
      <4>6. ASSUME NEW r \in Rows', r.kind = "upload" PROVE r.about # d.own
        <5>1. r \in Rows /\ r.txn # request.txn
            BY <3>2, <4>2 DEF Without
        <5>. QED BY <4>2, <4>4, <4>6, <5>1 DEF AbortInv, RowInv
      <4>7. ASSUME NEW f \in deps', f.kind = "file" PROVE f.about # d.own
        <5>1. ASSUME NEW g \in deps, SameDependent(f, g), f.about = g.about PROVE f.about # d.own
          <6>1. g.own = g.about + 1 /\ g.own # request.txn
            BY <4>2, <4>7, <5>1 DEF SameDependent, QueueInv, NamesInv, ShapeInv, AbortInv, ApartInv
          <6>. QED BY <4>5, <5>1, <6>1
        <5>2. CASE NewDep(f)
            BY <4>5, <4>7, <5>2 DEF NewDep, StepFacts
        <5>. QED BY <4>7, <5>1, <5>2 DEF StepFacts, DepsFrom, KeptDep
      <4>. QED BY <4>6, <4>7 DEF NoUploads
    <3>. QED BY <1>3, <2>4, <3>1, <3>2, SentFrom DEF StepFacts, AbortInv
  <2>. QED BY <1>3, <2>2, <2>3, <2>4 DEF StepFacts, DepsFrom, KeptDep
<1>. QED BY <1>1, <1>2, <1>3 DEF DepInv

LEMMA RowStep ==
    ASSUME QueueInv, Calm, AbortInv, StepFacts, [Next]_vars
    PROVE RowInv'
<1>1. ASSUME NEW r \in Rows', r.kind # "upload" PROVE NoUploads(r.txn)'
  <2>1. ASSUME NEW s \in Rows, SameRequest(r, s) PROVE NoUploads(r.txn)'
    <3>1. NoUploads(s.txn) /\ s.txn \in Nat /\ s.txn <= clock
        BY <1>1, <2>1 DEF SameRequest, AbortInv, RowInv, StepFacts
    <3>. QED BY <2>1, <3>1, NoUploadsStays DEF SameRequest
  <2>2. CASE PromotedRow(r)
    <3>1. PICK d \in deps : r.txn = d.own /\ (r.kind = "upload" <=> d.kind = "file") /\ d.sent
        BY <2>2, PromotedRowIs DEF StepFacts
    <3>2. NoUploads(d.own) /\ d.own \in Nat /\ d.own <= clock
        BY <1>1, <3>1 DEF AbortInv, DepInv, StepFacts
    <3>. QED BY <3>1, <3>2, NoUploadsStays
  <2>3. CASE r \in queue' /\ NewRow(r)
    <3>1. r.txn = clock + 1
        BY <1>1, <2>3 DEF NewRow
    <3>2. ~ (clock + 3 <= clock')
        BY <1>1, <2>3, <3>1, AttachmentIs DEF StepFacts
    <3>3. NoUploads(r.txn)
        BY <3>1, NoUploadsYet DEF StepFacts
    <3>. QED BY <3>1, <3>2, <3>3, NoUploadsStays DEF StepFacts
  <2>. QED BY <1>1, <2>1, <2>2, <2>3, RowsNow DEF StepFacts
<1>2. ASSUME NEW r \in Rows', r.kind # "upload", OnServer(r.txn)'
      PROVE pc' = "send" /\ request'.txn = r.txn /\ delivered'
  <2>1. CASE /\ pc = "send" /\ r.txn = request.txn /\ delivered' = TRUE
             /\ UNCHANGED <<queue, deps, clock, pc, request, aborted>>
    BY <2>1
  <2>2. ASSUME NEW d \in deps, pc = "apply", r.txn = d.own, UNCHANGED <<queue, pc>> PROVE FALSE
    <3>1. r \in Rows
        BY <2>2 DEF Rows
    <3>. QED BY <2>2, <3>1 DEF AbortInv, ApartInv
  <2>3. CASE OnServer(r.txn)
    <3>1. ASSUME NEW s \in Rows, SameRequest(r, s)
          PROVE pc' = "send" /\ request'.txn = r.txn /\ delivered'
      <4>1. pc = "send" /\ request.txn = r.txn /\ delivered
        BY <1>2, <2>3, <3>1 DEF SameRequest, AbortInv, RowInv
      <4>2. request.kind # "upload"
        <5>1. SUFFICES ASSUME request.kind = "upload" PROVE FALSE
            OBVIOUS
        <5>2. request \in Rows
            BY <4>1 DEF Rows
        <5>3. IsUploadTxn(request.txn)
            BY <5>1, <5>2, UploadRowTxn
        <5>. QED BY <1>2, <3>1, <4>1, <5>3 DEF IsUploadTxn, SameRequest
      <4>3. ASSUME pc' # "send", queue' = Without(queue, request.txn) PROVE FALSE
        BY <1>2, <4>1, <4>3 DEF Rows, Without
      <4>. QED BY <4>1, <4>2, <4>3 DEF StepFacts, SendEnds
    <3>2. ASSUME PromotedRow(r) PROVE FALSE
      <4>1. \E d \in deps : r.txn = d.own
        BY <3>2, PromotedRowIs DEF StepFacts
      <4>. QED BY <2>3, <4>1 DEF AbortInv, LogInv, OnServer
    <3>3. ASSUME NewRow(r) PROVE FALSE
      <4>1. r.txn = clock + 1
        BY <1>2, <3>3 DEF NewRow
      <4>2. \A i \in DOMAIN log : log[i].txn <= clock
        BY DEF AbortInv, LogInv
      <4>. QED BY <2>3, <4>1, <4>2 DEF StepFacts, OnServer
    <3>. QED BY <1>2, <3>1, <3>2, <3>3, RowsNow DEF StepFacts
  <2>. QED BY <1>2, <2>1, <2>2, <2>3, OnServerFrom DEF StepFacts
<1>3. ASSUME NEW r \in Rows', NEW s \in Rows', r.kind = "upload", s.kind = "upload", r.about = s.about
      PROVE r.txn = s.txn
  <2>0. \A u \in Attachments : u \in Nat /\ u + 2 <= clock
    BY IdsDrawn DEF QueueInv, NamesInv
  <2>1. ASSUME NEW x \in Rows', x.kind = "upload"
        PROVE \/ \E u \in Rows : SameRequest(x, u)
              \/ \E d \in deps : d.kind = "file" /\ d.sent /\ x.txn = d.own /\ x.about = d.about
              \/ x \in queue' /\ NewRow(x)
    <3>1. CASE PromotedRow(x)
        BY <2>1, <3>1, PromotedRowIs DEF StepFacts
    <3>. QED BY <2>1, <3>1, RowsNow DEF StepFacts
  <2>2. ASSUME NEW x \in Rows', x.kind = "upload", ~ NewRow(x) PROVE x.about \in Nat /\ x.about <= clock
    <3>1. x.about \in Attachments
        BY <2>1, <2>2 DEF SameRequest, Attachments, MediaEvent, IsMedia
    <3>. QED BY <2>0, <3>1 DEF StepFacts
  <2>3. ASSUME NEW x \in Rows', x.kind = "upload", NewRow(x)
        PROVE x.about = clock + 1 /\ x.txn > clock /\ clock + 3 <= clock'
    BY <2>3 DEF NewRow, Fresh
  <2>4. CASE NewRow(r) /\ NewRow(s)
    <3>1. r \in queue' /\ s \in queue'
      <4>1. ASSUME NEW x \in Rows', x.kind = "upload", NewRow(x) PROVE x \in queue'
        <5>1. ASSUME NEW u \in Rows, x.txn = u.txn PROVE FALSE
            BY <2>3, <4>1, <5>1 DEF StepFacts
        <5>2. ASSUME NEW d \in deps, x.txn = d.own PROVE FALSE
            BY <2>3, <4>1, <5>2 DEF StepFacts
        <5>. QED BY <2>1, <4>1, <5>1, <5>2 DEF SameRequest
      <4>. QED BY <1>3, <2>4, <4>1
    <3>. QED BY <1>3, <2>3, <2>4, <3>1, AttachmentIs
  <2>5. CASE (NewRow(r) /\ ~ NewRow(s)) \/ (~ NewRow(r) /\ NewRow(s))
    BY <1>3, <2>2, <2>3, <2>5 DEF StepFacts
  <2>6. CASE ~ NewRow(r) /\ ~ NewRow(s)
    <3>1. ASSUME NEW u \in Rows, u.kind = "upload", NEW d \in deps, d.kind = "file", d.sent,
                 u.about = d.about
          PROVE u.txn = d.own
      <4>1. /\ u.txn \in {u.about + 1, u.about + 2}
            /\ d.own = d.about + 1 /\ d.parent = d.about + 2
        BY <3>1 DEF QueueInv, NamesInv, ShapeInv
      <4>2. u.txn # d.parent
        BY <3>1 DEF AbortInv, DepInv
      <4>. QED BY <3>1, <4>1, <4>2
    <3>2. ASSUME NEW d \in deps, NEW e \in deps, d.kind = "file", e.kind = "file", d.about = e.about
          PROVE d.own = e.own
        BY <3>2 DEF QueueInv, NamesInv, ShapeInv
    <3>3. ASSUME NEW u \in Rows, NEW v \in Rows, u.kind = "upload", v.kind = "upload",
                 u.about = v.about
          PROVE u.txn = v.txn
        BY <3>3 DEF AbortInv, RowInv
    <3>. QED BY <1>3, <2>1, <2>6, <3>1, <3>2, <3>3 DEF SameRequest
  <2>. QED BY <2>4, <2>5, <2>6
<1>. QED BY <1>1, <1>2, <1>3 DEF RowInv

\* Of a handle, no id is one of an upload.
LEMMA HandleNotUpload ==
    ASSUME QueueInv, NEW h \in handles, NEW r \in Rows, r.txn = h.txn
    PROVE r.kind # "upload"
    BY UploadRowTxn DEF IsUploadTxn

LEMMA RedactStep ==
    ASSUME QueueInv, Calm, AbortInv, StepFacts, UniqueDeps', [Next]_vars
    PROVE RedactInv'
<1>1. ASSUME NEW r \in Rows', NEW t, t = r.txn, t \in aborted' PROVE IsRedacted(t)'
  <2>1. CASE t \in aborted
    <3>1. ASSUME NEW s \in Rows, SameRequest(r, s) PROVE IsRedacted(t)'
      <4>1. s.txn = t
        BY <1>1, <3>1 DEF SameRequest
      <4>2. PICK d \in deps : IsRedact(d) /\ d.parent = t
        BY <2>1, <4>1 DEF AbortInv, RedactInv, IsRedacted
      <4>3. ~ d.sent
        BY <4>1, <4>2 DEF AbortInv, DepInv
      <4>4. ASSUME pc = "apply", pc' = pc, queue' = Without(queue, d.parent) PROVE FALSE
        BY <1>1, <4>2, <4>4 DEF Rows, Without
      <4>5. IsRedacted(d.parent)'
        BY <4>2, <4>3, <4>4, RedactKept
      <4>. QED BY <4>2, <4>5 DEF IsRedacted
    <3>2. ASSUME PromotedRow(r) PROVE FALSE
      <4>1. \E d \in deps : r.txn = d.own
        BY <3>2, PromotedRowIs DEF StepFacts
      <4>. QED BY <1>1, <2>1, <4>1 DEF AbortInv, DepInv
    <3>3. ASSUME NewRow(r) PROVE FALSE
        BY <1>1, <2>1, <3>3 DEF NewRow, Fresh, StepFacts
    <3>. QED BY <1>1, <3>1, <3>2, <3>3, RowsNow DEF StepFacts
  <2>2. CASE t \notin aborted
    <3>1. AbortedHow(t)
        BY <1>1, <2>2, AbortedNow
    <3>2. r \in Rows
        BY <1>1, <3>1 DEF AbortedHow, Rows
    <3>3. r.kind # "upload"
        BY <1>1, <3>1, <3>2, HandleNotUpload DEF AbortedHow
    <3>4. ASSUME beingSent # t, \A q \in queue' : q.txn # t PROVE FALSE
      <4>1. pc = "send" /\ r = request
        BY <1>1, <3>1, <3>4 DEF AbortedHow, Rows
      <4>. QED BY <1>1, <3>3, <3>4, <4>1 DEF AbortInv, RunsInv
    <3>5. ~ IsDependent(t)
        BY <1>1, <3>2 DEF IsDependent, AbortInv, ApartInv
    <3>6. NoUploads(t)
        BY <1>1, <3>2, <3>3 DEF AbortInv, RowInv
    <3>. QED BY <3>1, <3>4, <3>5, <3>6 DEF AbortedHow
  <2>. QED BY <2>1, <2>2
<1>2. ASSUME NEW d \in deps', IsRedact(d), ~ d.sent, NEW t, t = d.parent, OnServer(t)'
      PROVE pc' = "send" /\ request'.txn = t /\ delivered'
  <2>1. CASE /\ pc = "send" /\ t = request.txn /\ delivered' = TRUE
             /\ UNCHANGED <<queue, deps, clock, pc, request, aborted>>
    BY <2>1
  <2>2. \E h \in handles : h.txn = t
    <3>1. ASSUME NEW e \in deps, SameDependent(d, e) PROVE \E h \in handles : h.txn = t
        BY <1>2, <3>1 DEF SameDependent, IsRedact, IsMedia, QueueInv, NamesInv, HandleInv
    <3>. QED BY <1>2, <3>1, RedactFrom
  <2>3. ASSUME NEW f \in deps, IsRedact(f), t = f.own PROVE FALSE
    BY <2>2, <2>3 DEF QueueInv, NamesInv, HandleInv, IsRedact
  <2>4. CASE OnServer(t)
    <3>1. ASSUME NEW e \in deps, SameDependent(d, e), e.sent => d.sent
          PROVE pc' = "send" /\ request'.txn = t /\ delivered'
      <4>1. e.parent = t /\ IsRedact(e) /\ ~ e.sent
        BY <1>2, <3>1 DEF SameDependent, IsRedact
      <4>2. pc = "send" /\ request.txn = t /\ delivered
        BY <2>4, <4>1 DEF AbortInv, RedactInv
      <4>3. request.kind # "upload"
        BY <2>2, <4>2, HandleNotUpload DEF Rows
      <4>4. ASSUME deps' = MarkReady(deps, request.txn) PROVE FALSE
        <5>1. PICK g \in deps : d = IF g.parent = request.txn THEN [g EXCEPT !.sent = TRUE] ELSE g
            BY <1>2, <4>4 DEF MarkReady
        <5>2. g \in Dependent
            BY DEF StepFacts, RecordsOK
        <5>3. d.parent = g.parent
            BY <5>1, <5>2 DEF Dependent
        <5>. QED BY <1>2, <4>2, <5>1, <5>2, <5>3 DEF Dependent
      <4>. QED BY <4>2, <4>3, <4>4 DEF StepFacts, SendEnds
    <3>2. ASSUME beingSent = t, UNCHANGED <<pc, request, delivered, log>>
          PROVE pc' = "send" /\ request'.txn = t /\ delivered'
      <4>1. t # NoTxn
        BY <2>2 DEF QueueInv, NamesInv, ShapeInv
      <4>2. pc = "send" /\ request.txn = t
        BY <3>2, <4>1 DEF QueueInv, OneInv, OneAtATime
      <4>3. request \in Rows /\ request.kind # "upload"
        BY <2>2, <4>2, HandleNotUpload DEF Rows
      <4>4. delivered
        BY <2>4, <4>2, <4>3 DEF AbortInv, RowInv
      <4>. QED BY <3>2, <4>2, <4>4
    <3>. QED BY <1>2, <3>1, <3>2, RedactFrom
  <2>. QED BY <1>2, <2>1, <2>3, <2>4, OnServerFrom DEF StepFacts
<1>. QED BY <1>1, <1>2 DEF RedactInv

-----------------------------------------------------------------------------
(* What was aborted stays undone *)

IsUndone(t) == \E i \in DOMAIN log : log[i].kind = "redaction" /\ log[i].about = t

LEMMA UndoneStays ==
    ASSUME QueueInv, LogGrows
    PROVE /\ \A t : IsUndone(t) => IsUndone(t)'
          /\ \A d \in deps : IsRedact(d) /\ log' = Append(log, Entry(Promoted(d))) =>
                IsUndone(d.parent)'
<1>1. log \in Seq(LogEntry)
    BY DEF QueueInv, RecordsOK
<1>2. ASSUME NEW e, log' = Append(log, e)
      PROVE /\ Len(log) \in Nat /\ DOMAIN log = 1..Len(log) /\ DOMAIN log' = 1..(Len(log) + 1)
            /\ \A i \in 1..Len(log) : log'[i] = log[i]
            /\ log'[Len(log) + 1] = e
    BY <1>1, <1>2
<1>3. ASSUME NEW t, IsUndone(t) PROVE IsUndone(t)'
  <2>1. ASSUME NEW e, log' = Append(log, e) PROVE IsUndone(t)'
    BY <1>2, <1>3, <2>1 DEF IsUndone
  <2>2. CASE log' = log
    BY <1>3, <2>2 DEF IsUndone
  <2>. QED BY <2>1, <2>2 DEF LogGrows
<1>4. ASSUME NEW d \in deps, IsRedact(d), log' = Append(log, Entry(Promoted(d))), NEW t, t = d.parent
      PROVE IsUndone(t)'
  <2>1. Promoted(d).kind = "redaction" /\ Promoted(d).about = d.parent
    BY <1>4 DEF Promoted, NewRequest, PromotedKind, PromotedAbout, IsRedact
  <2>2. Entry(Promoted(d)).kind = "redaction" /\ Entry(Promoted(d)).about = t
    BY <1>4, <2>1 DEF Entry
  <2>. QED BY <1>2, <1>4, <2>2 DEF IsUndone
<1>. QED BY <1>3, <1>4

LEMMA HoldsStep ==
    ASSUME QueueInv, Calm, AbortInv, AbortHolds, StepFacts, [Next]_vars
    PROVE AbortHolds'
<1>1. SUFFICES ASSUME NEW t \in aborted', OnServer(t)' PROVE IsUndone(t)' \/ IsRedacted(t)'
    BY DEF AbortHolds, IsUndone, IsRedacted
<1>2. CASE t \in aborted
  <2>1. ASSUME pc = "send", t = request.txn, deps' = deps PROVE IsRedacted(t)'
    <3>1. IsRedacted(t)
        BY <1>2, <2>1 DEF Rows, AbortInv, RedactInv
    <3>. QED BY <2>1, <3>1 DEF IsRedacted
  <2>2. \A d \in deps : d.own # t
    BY <1>2 DEF AbortInv, DepInv
  <2>3. CASE OnServer(t)
    <3>1. CASE IsUndone(t)
        BY <3>1, UndoneStays DEF StepFacts
    <3>2. ASSUME NEW d \in deps, IsRedact(d), d.parent = t PROVE IsUndone(t)' \/ IsRedacted(t)'
      <4>1. d.sent \/ pc = "send"
        BY <2>3, <3>2 DEF AbortInv, RedactInv
      <4>2. IsRedacted(d.parent)' \/ log' = Append(log, Entry(Promoted(d)))
        BY <3>2, <4>1, RedactKept
      <4>3. ASSUME log' = Append(log, Entry(Promoted(d))) PROVE IsUndone(d.parent)'
        BY <3>2, <4>3, UndoneStays DEF StepFacts
      <4>4. CASE IsRedacted(d.parent)'
        BY <3>2, <4>4 DEF IsRedacted
      <4>5. CASE IsUndone(d.parent)'
        BY <3>2, <4>5 DEF IsUndone
      <4>. QED BY <4>2, <4>3, <4>4, <4>5
    <3>. QED BY <1>2, <2>3, <3>1, <3>2 DEF AbortHolds, IsUndone
  <2>. QED BY <1>1, <2>1, <2>2, <2>3, OnServerFrom DEF StepFacts
<1>3. CASE t \notin aborted
  <2>1. AbortedHow(t)
    BY <1>1, <1>3, AbortedNow
  <2>2. PICK h \in handles : h.txn = t
    BY <2>1 DEF AbortedHow
  <2>3. OnServer(t)
    BY <1>1, <2>1 DEF AbortedHow, OnServer
  <2>4. ~ IsDependent(t) /\ NoUploads(t)
    BY <2>3 DEF OnServer, IsDependent, AbortInv, LogInv
  <2>5. IsQueued(t) => beingSent = t
    <3>1. SUFFICES ASSUME NEW r \in queue, r.txn = t PROVE beingSent = t
        BY DEF IsQueued
    <3>2. r \in Rows /\ r.kind # "upload"
        BY <2>2, <3>1, HandleNotUpload DEF Rows
    <3>3. pc = "send" /\ request.txn = t
        BY <2>3, <3>1, <3>2 DEF AbortInv, RowInv
    <3>4. request.kind # "upload"
        BY <2>2, <3>3, HandleNotUpload DEF Rows
    <3>. QED BY <3>3, <3>4 DEF AbortInv, RunsInv
  <2>. QED BY <2>1, <2>4, <2>5 DEF AbortedHow
<1>. QED BY <1>2, <1>3

LEMMA AbortInit == Init => AbortInv /\ AbortHolds
<1>1. SUFFICES ASSUME Init PROVE AbortInv /\ AbortHolds
    OBVIOUS
<1>2. Rows = {} /\ deps = {} /\ aborted = {} /\ DOMAIN log = {} /\ pc = "off" /\ ~ dropping
    BY <1>1 DEF Init, Rows
<1>3. RunsInv /\ ApartInv /\ UniqueDeps
    BY <1>2 DEF RunsInv, ApartInv, UniqueDeps
<1>4. LogInv /\ DepInv /\ RowInv /\ RedactInv
    BY <1>2 DEF LogInv, DepInv, RowInv, RedactInv
<1>. QED BY <1>2, <1>3, <1>4 DEF AbortInv, AbortHolds

\* Every answer of the server reaches mark_as_sent and is written down.
AnswersArrive == Failures \cap {"lost", "crash", "store"} = {}

LEMMA AbortStep ==
    ASSUME QueueInv, Calm, AbortInv, [Next]_vars
    PROVE AbortInv' /\ StepFacts
<1>1. RunsInv /\ ApartInv /\ UniqueDeps /\ ~ Fails("store")
    BY NothingDisturbs DEF AbortInv
<1>2. RunsInv' /\ ApartInv' /\ UniqueDeps' /\ StepFacts
    BY <1>1, RunsStep, ApartStep, UniqueDepsStep, StepFactsHold
<1>3. LogInv' /\ DepInv' /\ RowInv' /\ RedactInv'
    BY <1>2, LogStep, DepStep, RowStep, RedactStep
<1>. QED BY <1>2, <1>3 DEF AbortInv

\* An event whose sending was aborted is not on the server, or is redacted there, or its
\* redaction is in the store, wherever the task was when abort was called (abort_with_reason,
\* cancel_event, abort_upload, SendReactionHandle::abort), with requests that fail and are sent
\* again.  It takes that every answer of the server arrives and is written down (Calm):
\* when mark_as_sent does not get to know of one, the event stays in the queue, and abort takes
\* it out there although the server has it.
THEOREM AbortsHold ==
    ASSUME AnswersArrive
    PROVE Spec => []AbortHolds
<1>1. Init => AbortInv /\ AbortHolds
    BY AbortInit
<1>2. AbortInv /\ AbortHolds /\ QueueInv /\ [Next]_vars => (AbortInv /\ AbortHolds)'
  <2>1. Calm
    BY DEF AnswersArrive, Calm, Fails
  <2>. QED BY <2>1, AbortStep, HoldsStep
<1>. QED BY <1>1, <1>2, QueueInvariant, PTL DEF Spec

-----------------------------------------------------------------------------
(* An edit has a request that carries it, as long as nothing fails *)

\* Where the content of an edit, or of a later one, is: on the server, with the event in the
\* queue or waiting for uploads, or in an edit of its own.
Carried(e) ==
    \/ \E i \in DOMAIN log : log[i].body >= e.body /\ e.txn \in {log[i].txn, log[i].about}
    \/ \E r \in queue : r.body >= e.body /\ (r.txn = e.txn \/ (r.kind = "edit" /\ r.about = e.txn))
    \/ \E d \in deps : d.body >= e.body /\ (d.own = e.txn \/ (d.kind = "edit" /\ d.parent = e.txn))

UniqueRows == \A r, s \in queue : r.txn = s.txn => r = s

\* The application has no handle of an edit; its row tells its version.
EditRows ==
    /\ \A r \in Rows, h \in handles : r.kind = "edit" => r.txn # h.txn
    /\ \A d \in deps : d.kind = "edit" => d.row = d.own /\ d.body = d.own

\* An edit that waits was made while the event is being sent.
EditsWait == \A d \in deps : d.kind = "edit" /\ ~ d.sent => pc = "send" /\ request.txn = d.parent

\* The request on its way is the one that the queue has, and so is what the server got.
RequestInv ==
    pc = "send" /\ request.kind # "upload" =>
        /\ \A r \in queue : r.txn = request.txn => Entry(r) = Entry(request)
        /\ delivered => \E i \in DOMAIN log : log[i] = Entry(request)

CarriedInv ==
    \A e \in edits :
        /\ e.body <= clock
        /\ \E h \in handles : h.txn = e.txn
        /\ (Dead(e.txn) \/ Carried(e))

EditInv == UniqueRows /\ EditRows /\ EditsWait /\ RequestInv /\ CarriedInv

Smooth == \A k : ~ Fails(k)

LEMMA SmoothStep ==
    ASSUME RecordsOK, [Next]_vars, failures' = 0
    PROVE failures = 0 /\ Smooth /\ Calm
<1>0. failures \in Nat
    BY SendQueueConstants DEF RecordsOK
<1>1. failures' \in {failures, failures + 1}
  <2>1. CASE TaskStep \/ SendFails \/ ServerAccepts
    BY <2>1 DEF TaskStep, SendFails, LoopStart, Apply, ApplyPromote, ApplyRedaction, ApplyLocally,
       ApplyLater, ApplyEnd, CheckEnabled, Woken, PeekNextToSend, ServerAccepts, MarkAsSent,
       UploadCancelled, SendFailsRecoverably, SendFailsForGood, Fails, NothingFails
  <2>2. CASE SubmitStep
    BY <2>2 DEF SubmitStep, Push, PushSuperseding, SendAttachment, Fails, NothingFails, Quiet
  <2>3. CASE HandleStep
    BY <2>3 DEF HandleStep, React, Reply, Edit, Abort, AbortReaction, AbortMedia, Unwedge, Fails,
       NothingFails, Quiet
  <2>4. CASE SwitchStep \/ OpenRoom \/ Respawn \/ DropClient \/ Restart \/ UNCHANGED vars
    BY <2>4 DEF SwitchStep, RetryVerified, SetEnabled, SetGloballyEnabled, OpenRoom, Respawn,
       DropClient, Restart, vars, Fails, NothingFails
  <2>. QED BY <2>1, <2>2, <2>3, <2>4 DEF Next
<1>2. Smooth
    BY <1>0 DEF Smooth, Fails
<1>. QED BY <1>0, <1>1, <1>2 DEF Smooth, Calm

\* A set of numbers that has a bound has a greatest element.
LEMMA Greatest ==
    ASSUME NEW S, S # {}, NEW n \in Nat, \A x \in S : x \in Nat /\ x <= n
    PROVE \E m \in S : \A x \in S : x <= m
<1>1. PICK T : T = {n - x : x \in S}
    OBVIOUS
<1>2. T # {} /\ \A x \in T : x \in Nat
  <2>1. T # {}
    BY <1>1
  <2>2. \A x \in T : x \in Nat
    BY <1>1
  <2>. QED BY <2>1, <2>2
<1>3. PICK k \in T : \A x \in T : k <= x
    BY <1>2, Least
<1>4. PICK m \in S : k = n - m
    BY <1>1
<1>5. ASSUME NEW x \in S PROVE x <= m
  <2>1. n - x \in T
    BY <1>1
  <2>. QED BY <1>3, <1>4, <2>1
<1>. QED BY <1>5

\* The last edit of an event is canonical, unless the event is redacted.
LEMMA LastEdit ==
    ASSUME QueueInv, EditRows, NEW d \in deps, d.kind = "edit",
           ~ \E e \in deps : e.parent = d.parent /\ IsRedact(e)
    PROVE \E m \in Canonical(deps) : m.kind = "edit" /\ m.parent = d.parent /\ m.body >= d.body
<1>0. clock \in Nat /\ \A e \in deps : e.own \in Nat /\ e.own <= clock
    BY IdsDrawn DEF QueueInv, NamesInv
<1>1. PICK S : S = {e.own : e \in {f \in deps : f.kind = "edit" /\ f.parent = d.parent}}
    OBVIOUS
<1>2. d.own \in S /\ \A x \in S : x \in Nat /\ x <= clock
    BY <1>0, <1>1
<1>3. PICK x \in S : \A y \in S : y <= x
    BY <1>0, <1>2, Greatest
<1>4. PICK m \in deps : m.own = x /\ m.kind = "edit" /\ m.parent = d.parent
    BY <1>1
<1>5. ASSUME NEW e \in deps, e.kind = "edit", e.parent = m.parent PROVE e.row <= m.row
    BY <1>1, <1>3, <1>4, <1>5 DEF EditRows
<1>6. m \in Canonical(deps)
    BY <1>4, <1>5 DEF Canonical
<1>7. m.body >= d.body
    BY <1>0, <1>2, <1>3, <1>4 DEF EditRows
<1>. QED BY <1>4, <1>6, <1>7

\* What a step does to the queue: requests leave it, or one with a new id comes, or they are
\* wedged or not, or one that is not on its way is edited.
QueueForms ==
    \/ queue' \subseteq queue
    \/ \E x : /\ queue' \subseteq queue \cup {x} /\ \A r \in queue : r.txn # x.txn
              /\ pc = "apply" \/ x.txn > clock
    \/ \E T : queue' = WithWedged(queue, T, TRUE) \/ queue' = WithWedged(queue, T, FALSE)
    \/ \E h \in handles : /\ queue' = WithBody(queue, h.txn, clock') /\ beingSent # h.txn
                          /\ UNCHANGED <<pc, request>>

LEMMA QueueFormsStep ==
    ASSUME QueueInv, Smooth, EditsWait, [Next]_vars
    PROVE QueueForms
<1>0. clock \in Nat /\ \A r \in queue : r.txn \in Nat /\ r.txn <= clock
    BY IdsDrawn DEF QueueInv, NamesInv, Rows
<1>1. CASE TaskStep \/ ServerAccepts \/ SendFails
  <2>1. ASSUME NEW d \in deps, ApplyPromote(d) PROVE QueueForms
    <3>1. Promoted(d).txn = d.own
        BY DEF Promoted, NewRequest
    <3>2. pc = "apply" /\ (queue' = queue \/ (~ IsQueued(d.own) /\ queue' = queue \cup {Promoted(d)}))
        BY <2>1 DEF ApplyPromote, IsNext
    <3>. QED BY <3>1, <3>2 DEF QueueForms, IsQueued
  <2>2. ASSUME NEW d \in deps, ApplyLocally(d) PROVE queue' \subseteq queue
    <3>1. d.kind # "edit"
        BY <2>2 DEF ApplyLocally, IsNext, IsReady, EditsWait
    <3>. QED BY <2>2, <3>1, TableTypes DEF ApplyLocally, AppliedLocally
  <2>3. CASE SendFailsForGood
    <3>1. queue' = WithWedged(queue, {request.txn}, TRUE) \/ queue' \subseteq queue
        BY <2>3, TableTypes DEF SendFailsForGood, Wedge
    <3>. QED BY <3>1 DEF QueueForms
  <2>4. CASE MarkAsSent
    BY <2>4, TableTypes DEF MarkAsSent, QueueForms
  <2>5. CASE queue' = queue
    BY <2>5 DEF QueueForms
  <2>6. \/ \E d \in deps : ApplyPromote(d) \/ ApplyLocally(d)
        \/ SendFailsForGood \/ MarkAsSent \/ queue' = queue
    BY <1>1 DEF TaskStep, LoopStart, Apply, ApplyRedaction, ApplyLater, ApplyEnd, CheckEnabled,
       Woken, PeekNextToSend, UploadCancelled, ServerAccepts, SendFails, SendFailsRecoverably,
       storeVars
  <2>. QED BY <2>1, <2>2, <2>3, <2>4, <2>5, <2>6 DEF QueueForms
<1>2. CASE SubmitStep
  <2>1. \A t, row, high, kind, about, body : NewRequest(t, row, high, kind, about, body).txn = t
    BY DEF NewRequest
  <2>2. ASSUME NEW x, queue' \subseteq queue \cup {x}, x.txn \in Nat, x.txn > clock PROVE QueueForms
    <3>1. \A r \in queue : r.txn # x.txn
        BY <1>0, <2>2
    <3>. QED BY <2>2, <3>1, Zenon DEF QueueForms
  <2>3. ASSUME NEW high, NEW kind, clock' = clock + 1,
               queue' \subseteq queue \cup {NewRequest(clock', clock', high, kind, NoTxn, clock')}
        PROVE QueueForms
    <3>1. PICK x : x = NewRequest(clock', clock', high, kind, NoTxn, clock')
        OBVIOUS
    <3>2. x.txn \in Nat /\ x.txn > clock
        BY <1>0, <2>1, <2>3, <3>1
    <3>. QED BY <2>2, <2>3, <3>1, <3>2
  <2>4. CASE Push("send", "message") \/ Push("redact", "redaction") \/ PushSuperseding(NoTxn)
    BY <2>3, <2>4 DEF Push, PushSuperseding, Draws, Smooth
  <2>5. ASSUME NEW op, SendAttachment(op) PROVE QueueForms
    <3>1. PICK file \in Nat, thumb \in Nat :
              /\ file = clock + 2 /\ thumb = IF op = "thumbnail" THEN clock + 3 ELSE NoTxn
        BY <1>0 DEF NoTxn
    <3>2. queue' \subseteq queue \cup Uploads(clock + 1, file, thumb)
        BY <2>5, <3>1, Zenon DEF SendAttachment, Smooth
    <3>3. PICK t : t = IF thumb = NoTxn THEN file ELSE thumb
        OBVIOUS
    <3>4. t \in Nat /\ t > clock
        BY <1>0, <3>1, <3>3 DEF NoTxn
    <3>5. PICK x : x = NewRequest(t, clock + 1, FALSE, "upload", clock + 1, 0)
        OBVIOUS
    <3>6. x.txn = t
        BY <3>5 DEF NewRequest
    <3>7. Uploads(clock + 1, file, thumb) = {x}
        BY <3>3, <3>5 DEF Uploads
    <3>. QED BY <2>2, <3>2, <3>4, <3>6, <3>7
  <2>. QED BY <1>2, <2>4, <2>5 DEF SubmitStep
<1>3. CASE HandleStep
  <2>1. ASSUME NEW h, React(h) \/ Reply(h) \/ Abort(h) \/ AbortReaction(h) \/ AbortMedia(h)
        PROVE queue' \subseteq queue
    <3>1. \/ queue' \subseteq queue
          \/ \E q \in SUBSET queue : CancelEvent(h.txn, q)
        BY <2>1 DEF React, Reply, Abort, AbortReaction, AbortMedia
    <3>. QED BY <3>1, TableTypes DEF CancelEvent
  <2>2. ASSUME NEW h \in handles, Edit(h) PROVE QueueForms
    BY <2>2 DEF Edit, QueueForms, Quiet, taskVars, sendVars
  <2>3. ASSUME NEW h, Unwedge(h) PROVE QueueForms
    BY <2>3 DEF Unwedge, QueueForms
  <2>. QED BY <1>3, <2>1, <2>2, <2>3 DEF HandleStep, QueueForms
<1>4. CASE OpenRoom \/ Respawn \/ SwitchStep \/ DropClient \/ Restart \/ UNCHANGED vars
  <2>1. queue' = queue \/ \E T : queue' = WithWedged(queue, T, FALSE)
    BY <1>4 DEF OpenRoom, Respawn, SwitchStep, RetryVerified, SetEnabled, SetGloballyEnabled,
       DropClient, Restart, vars, storeVars
  <2>. QED BY <2>1 DEF QueueForms
<1>. QED BY <1>1, <1>2, <1>3, <1>4 DEF Next

\* Wedging does not change what is sent, and editing changes one request.
LEMMA RowImages ==
    ASSUME RecordsOK
    PROVE /\ \A T : \A r \in WithWedged(queue, T, TRUE) : \E s \in queue : Entry(r) = Entry(s)
          /\ \A T : \A r \in WithWedged(queue, T, FALSE) : \E s \in queue : Entry(r) = Entry(s)
          /\ \A t, body : \A r \in WithBody(queue, t, body) : r.txn = t \/ r \in queue
<1>0. \A s \in queue : s \in Request
    BY DEF RecordsOK
<1>1. ASSUME NEW T, NEW w \in BOOLEAN, NEW r \in WithWedged(queue, T, w)
      PROVE \E s \in queue : Entry(r) = Entry(s)
  <2>1. PICK s \in queue : r = IF s.txn \in T THEN [s EXCEPT !.wedged = w] ELSE s
    BY DEF WithWedged
  <2>2. r.txn = s.txn /\ r.kind = s.kind /\ r.about = s.about /\ r.body = s.body
    BY <1>0, <2>1 DEF Request
  <2>. QED BY <2>2 DEF Entry
<1>2. ASSUME NEW t, NEW body, NEW r \in WithBody(queue, t, body) PROVE r.txn = t \/ r \in queue
  <2>1. PICK s \in queue : r = IF s.txn = t THEN [s EXCEPT !.body = body, !.wedged = FALSE] ELSE s
    BY DEF WithBody
  <2>. QED BY <1>0, <2>1 DEF Request
<1>. QED BY <1>1, <1>2

LEMMA UniqueRowsStep ==
    ASSUME QueueInv, QueueForms, UniqueRows
    PROVE UniqueRows'
<1>0. RecordsOK
    BY DEF QueueInv
<1>1. SUFFICES ASSUME NEW r \in queue', NEW s \in queue', r.txn = s.txn PROVE r = s
    BY DEF UniqueRows
<1>3. CASE queue' \subseteq queue
    BY <1>1, <1>3 DEF UniqueRows
<1>4. ASSUME NEW x, queue' \subseteq queue \cup {x}, \A q \in queue : q.txn # x.txn PROVE r = s
    BY <1>1, <1>4 DEF UniqueRows
<1>5. ASSUME NEW T, NEW w \in BOOLEAN, queue' = WithWedged(queue, T, w) PROVE r = s
  <2>1. PICK p \in queue : r = IF p.txn \in T THEN [p EXCEPT !.wedged = w] ELSE p
    BY <1>5 DEF WithWedged
  <2>2. PICK q \in queue : s = IF q.txn \in T THEN [q EXCEPT !.wedged = w] ELSE q
    BY <1>5 DEF WithWedged
  <2>3. r.txn = p.txn /\ s.txn = q.txn
    BY <1>0, <2>1, <2>2 DEF Request
  <2>4. p = q
    BY <1>1, <2>3 DEF UniqueRows
  <2>. QED BY <2>1, <2>2, <2>4, Zenon
<1>6. ASSUME NEW t, NEW body, queue' = WithBody(queue, t, body) PROVE r = s
  <2>1. PICK p \in queue : r = IF p.txn = t THEN [p EXCEPT !.body = body, !.wedged = FALSE] ELSE p
    BY <1>6 DEF WithBody
  <2>2. PICK q \in queue : s = IF q.txn = t THEN [q EXCEPT !.body = body, !.wedged = FALSE] ELSE q
    BY <1>6 DEF WithBody
  <2>3. r.txn = p.txn /\ s.txn = q.txn
    BY <1>0, <2>1, <2>2 DEF Request
  <2>4. p = q
    BY <1>1, <2>3 DEF UniqueRows
  <2>. QED BY <2>1, <2>2, <2>4, Zenon
<1>. QED BY <1>3, <1>4, <1>5, <1>6 DEF QueueForms

\* When nothing fails, what is sent is not an upload only until it is marked as sent.
LEMMA SmoothSend ==
    ASSUME Smooth, RunsInv, SendEnds, [Next]_vars, pc = "send", request.kind # "upload"
    PROVE \/ pc' = "send" /\ request' = request
          \/ pc' # "send" /\ deps' = MarkReady(deps, request.txn)
<1>1. CASE delivered
    BY <1>1 DEF SendEnds
<1>2. CASE ~ delivered
  <2>1. ~ MarkAsSent /\ ~ UploadCancelled /\ ~ SendFails /\ ~ DropClient /\ ~ Restart
    BY <1>2 DEF MarkAsSent, UploadCancelled, RunsInv, SendFails, SendFailsRecoverably,
       SendFailsForGood, DropClient, Restart, Smooth
  <2>2. CASE TaskStep \/ ServerAccepts
    BY <2>1, <2>2 DEF TaskStep, LoopStart, Apply, ApplyPromote, ApplyRedaction, ApplyLocally,
       ApplyLater, ApplyEnd, IsNext, CheckEnabled, Woken, PeekNextToSend, ServerAccepts
  <2>3. CASE SubmitStep \/ HandleStep
    BY <2>3 DEF SubmitStep, Push, PushSuperseding, SendAttachment, HandleStep, React, Reply, Edit,
       Abort, AbortReaction, AbortMedia, Unwedge, Quiet, taskVars, sendVars
  <2>4. CASE OpenRoom \/ Respawn \/ SwitchStep \/ UNCHANGED vars
    BY <2>4 DEF OpenRoom, Respawn, ForRoom, SwitchStep, RetryVerified, SetEnabled,
       SetGloballyEnabled, vars, taskVars, sendVars
  <2>. QED BY <2>1, <2>2, <2>3, <2>4 DEF Next
<1>. QED BY <1>1, <1>2

\* An edit that is new is one of the event being sent.
LEMMA EditFrom ==
    ASSUME QueueInv, Smooth, [Next]_vars, NEW d \in deps', d.kind = "edit"
    PROVE \/ \E e \in deps : /\ SameDependent(d, e) /\ d.row = e.row /\ d.body = e.body
                             /\ e.sent => d.sent
          \/ /\ beingSent = d.parent /\ d.row = d.own /\ d.body = d.own
             /\ \E h \in handles : h.txn = d.parent
             /\ UNCHANGED <<pc, request>>
<1>0. \A e \in deps : e \in Dependent
    BY DEF QueueInv, RecordsOK
<1>1. CASE d \in deps
    BY <1>1 DEF SameDependent
<1>2. ASSUME deps' = MarkReady(deps, request.txn)
      PROVE \E e \in deps : /\ SameDependent(d, e) /\ d.row = e.row /\ d.body = e.body
                            /\ e.sent => d.sent
  <2>1. PICK e \in deps : d = IF e.parent = request.txn THEN [e EXCEPT !.sent = TRUE] ELSE e
    BY <1>2 DEF MarkReady
  <2>2. SameDependent(d, e) /\ d.row = e.row /\ d.body = e.body /\ (e.sent => d.sent)
    BY <1>0, <2>1 DEF Dependent, SameDependent
  <2>. QED BY <2>2
<1>3. CASE TaskStep \/ ServerAccepts \/ SendFails
  <2>1. deps' \subseteq deps \/ deps' = MarkReady(deps, request.txn)
    BY <1>3, TableTypes DEF TaskStep, LoopStart, Apply, ApplyPromote, ApplyRedaction, ApplyLocally,
       ApplyLater, ApplyEnd, CheckEnabled, Woken, PeekNextToSend, MarkAsSent, UploadCancelled,
       ServerAccepts, SendFails, SendFailsRecoverably, SendFailsForGood, storeVars
  <2>. QED BY <1>1, <1>2, <2>1
<1>4. \A a, b, c, k, x, y : NewDependent(a, b, c, k, x, y).kind = k
    BY DEF NewDependent
<1>5. CASE SubmitStep
  <2>1. ASSUME NEW op, SendAttachment(op)
        PROVE \E x, y, z : deps' \subseteq deps \cup FileUpload(x, y, z) \cup FinishUpload(x, y, z)
    BY <2>1 DEF SendAttachment, Smooth
  <2>2. \A x, y, z : \A e \in FileUpload(x, y, z) \cup FinishUpload(x, y, z) : e.kind # "edit"
    BY <1>4 DEF FileUpload, FinishUpload
  <2>3. deps' = deps \/ \E op : SendAttachment(op)
    BY <1>5 DEF SubmitStep, Push, PushSuperseding
  <2>. QED BY <1>1, <2>1, <2>2, <2>3
<1>6. ASSUME NEW h \in handles, React(h) \/ Reply(h) \/ Unwedge(h) PROVE d \in deps
  <2>1. \/ deps' = deps
        \/ \E k \in {"react", "reply"} :
              deps' = deps \cup {NewDependent(clock', h.txn, clock', k, NoTxn, clock')}
    BY <1>6 DEF React, Reply, Unwedge
  <2>. QED BY <1>4, <2>1
<1>7. ASSUME NEW h \in handles, Abort(h) \/ AbortReaction(h) \/ AbortMedia(h) PROVE d \in deps
  <2>1. deps' \subseteq deps \/ \E q : CancelEvent(h.txn, q)
    BY <1>7, TableTypes DEF Abort, AbortReaction, AbortMedia
  <2>. QED BY <1>4, <2>1 DEF CancelEvent
<1>8. ASSUME NEW h \in handles, Edit(h), d \notin deps
      PROVE /\ beingSent = d.parent /\ d.row = d.own /\ d.body = d.own /\ d.parent = h.txn
            /\ UNCHANGED <<pc, request>>
  <2>1. UNCHANGED <<pc, request>>
    BY <1>8 DEF Edit, Quiet, taskVars, sendVars
  <2>2. ASSUME deps' = {IF e.own = h.txn THEN [e EXCEPT !.body = clock'] ELSE e : e \in deps}
        PROVE FALSE
    <3>1. PICK e \in deps : d = IF e.own = h.txn THEN [e EXCEPT !.body = clock'] ELSE e
        BY <2>2
    <3>2. e.own = h.txn /\ e.kind = "edit"
        BY <1>0, <1>8, <3>1 DEF Dependent
    <3>. QED BY <3>2 DEF QueueInv, NamesInv, HandleInv
  <2>3. d = NewDependent(clock', h.txn, clock', "edit", NoTxn, clock') /\ beingSent = h.txn
    BY <1>8, <2>2 DEF Edit
  <2>4. d.parent = h.txn /\ d.row = clock' /\ d.own = clock' /\ d.body = clock'
    BY <2>3 DEF NewDependent
  <2>. QED BY <2>1, <2>3, <2>4
<1>9. ASSUME NEW h, Unwedge(h) PROVE d \in deps
    BY <1>9 DEF Unwedge
<1>10. CASE OpenRoom \/ Respawn \/ SwitchStep \/ DropClient \/ Restart \/ UNCHANGED vars
  <2>1. deps' = deps
    BY <1>10 DEF OpenRoom, Respawn, SwitchStep, RetryVerified, SetEnabled, SetGloballyEnabled,
       DropClient, Restart, vars, storeVars
  <2>. QED BY <1>1, <2>1
<1>11. CASE HandleStep
    BY <1>1, <1>6, <1>7, <1>8, <1>9, <1>11 DEF HandleStep
<1>. QED BY <1>3, <1>5, <1>10, <1>11 DEF Next

LEMMA EditsWaitStep ==
    ASSUME QueueInv, Smooth, AbortInv, StepFacts, EditsWait, [Next]_vars
    PROVE EditsWait'
<1>1. SUFFICES ASSUME NEW d \in deps', d.kind = "edit", ~ d.sent
               PROVE pc' = "send" /\ request'.txn = d.parent
    BY DEF EditsWait
<1>2. ASSUME NEW e \in deps, SameDependent(d, e), e.sent => d.sent
      PROVE pc' = "send" /\ request'.txn = d.parent
  <2>1. pc = "send" /\ request.txn = d.parent
    BY <1>1, <1>2 DEF SameDependent, EditsWait
  <2>2. \E h \in handles : h.txn = d.parent
    BY <1>1, <1>2 DEF SameDependent, IsMedia, QueueInv, NamesInv, HandleInv
  <2>3. request.kind # "upload"
    BY <2>1, <2>2, HandleNotUpload DEF Rows
  <2>4. ASSUME deps' = MarkReady(deps, request.txn) PROVE FALSE
    <3>1. PICK g \in deps : d = IF g.parent = request.txn THEN [g EXCEPT !.sent = TRUE] ELSE g
        BY <2>4 DEF MarkReady
    <3>2. g \in Dependent
        BY DEF StepFacts, RecordsOK
    <3>3. d.parent = g.parent
        BY <3>1, <3>2 DEF Dependent
    <3>. QED BY <1>1, <2>1, <3>1, <3>2, <3>3 DEF Dependent
  <2>. QED BY <2>1, <2>3, <2>4, SmoothSend DEF AbortInv, StepFacts
<1>3. ASSUME beingSent = d.parent, \E h \in handles : h.txn = d.parent, UNCHANGED <<pc, request>>
      PROVE pc' = "send" /\ request'.txn = d.parent
  <2>1. d.parent # NoTxn
    BY <1>3 DEF QueueInv, NamesInv, ShapeInv
  <2>. QED BY <1>3, <2>1 DEF QueueInv, OneInv, OneAtATime
<1>. QED BY <1>1, <1>2, <1>3, EditFrom

LEMMA EditRowsStep ==
    ASSUME QueueInv, Smooth, StepFacts, EditRows, [Next]_vars
    PROVE EditRows'
<1>1. ASSUME NEW r \in Rows', NEW h \in handles', r.kind = "edit" PROVE r.txn # h.txn
  <2>1. HandlesGrow
    BY DepsStep DEF StepFacts
  <2>2. h \in handles \/ h.txn = clock + 1
    BY <2>1 DEF HandlesGrow, NewHandleFor
  <2>3. ASSUME NEW s \in Rows, SameRequest(r, s) PROVE r.txn # h.txn
    BY <1>1, <2>2, <2>3 DEF SameRequest, EditRows, StepFacts
  <2>4. CASE PromotedRow(r)
    <3>1. PICK d \in deps : d.kind # "redact" /\ r = Promoted(d)
        BY <2>4 DEF PromotedRow
    <3>2. r.txn = d.own /\ r.kind = PromotedKind[d.kind]
        BY <3>1 DEF Promoted, NewRequest
    <3>3. d.kind \in DependentKind
        BY DEF StepFacts, RecordsOK, Dependent
    <3>4. d.kind = "edit"
        BY <1>1, <3>2, <3>3 DEF PromotedKind, DependentKind
    <3>. QED BY <2>2, <3>2, <3>4 DEF StepFacts, QueueInv, NamesInv, HandleInv
  <2>5. ~ NewRow(r)
    BY <1>1 DEF NewRow
  <2>. QED BY <1>1, <2>3, <2>4, <2>5, RowsNow DEF StepFacts
<1>2. ASSUME NEW d \in deps', d.kind = "edit" PROVE d.row = d.own /\ d.body = d.own
    BY <1>2, EditFrom DEF EditRows, SameDependent
<1>. QED BY <1>1, <1>2 DEF EditRows

LEMMA RequestStep ==
    ASSUME QueueInv, Smooth, AbortInv, StepFacts, UniqueRows, QueueForms, RequestInv, [Next]_vars
    PROVE RequestInv'
<1>1. SUFFICES ASSUME pc' = "send", request'.kind # "upload"
               PROVE /\ \A r \in queue' : r.txn = request'.txn => Entry(r) = Entry(request')
                     /\ delivered' => \E i \in DOMAIN log' : log'[i] = Entry(request')
  <2>1. \A r : Entry(r)' = Entry(r)
    BY DEF Entry
  <2>2. Entry(request)' = Entry(request')
    BY DEF Entry
  <2>. QED BY <2>1, <2>2 DEF RequestInv
<1>2. CASE /\ pc = "peek" /\ IsFirst(request') /\ delivered' = FALSE
           /\ UNCHANGED <<queue, deps, log, clock, aborted>>
    BY <1>2 DEF IsFirst, UniqueRows
<1>3. CASE pc = "send" /\ request' = request
  <2>1. beingSent = request.txn /\ request \in Rows
    BY <1>1, <1>3 DEF AbortInv, RunsInv, Rows
  <2>2. ASSUME NEW r \in queue', r.txn = request.txn PROVE Entry(r) = Entry(request)
    <3>1. ASSUME NEW s \in queue, Entry(r) = Entry(s) PROVE Entry(r) = Entry(request)
      <4>1. \A x : Entry(x).txn = x.txn
        BY DEF Entry
      <4>2. s.txn = request.txn
        BY <2>2, <3>1, <4>1
      <4>. QED BY <1>1, <1>3, <3>1, <4>2 DEF RequestInv
    <3>2. ASSUME NEW x, queue' \subseteq queue \cup {x}, x.txn > clock PROVE r \in queue
        BY <2>1, <2>2, <3>2 DEF StepFacts
    <3>3. ASSUME NEW T, NEW w \in BOOLEAN, queue' = WithWedged(queue, T, w)
          PROVE \E s \in queue : Entry(r) = Entry(s)
        BY <3>3, RowImages DEF StepFacts
    <3>4. ASSUME NEW h \in handles, queue' = WithBody(queue, h.txn, clock'), beingSent # h.txn
          PROVE r \in queue
        BY <2>1, <2>2, <3>4, RowImages DEF StepFacts
    <3>. QED BY <1>3, <2>2, <3>1, <3>2, <3>3, <3>4 DEF QueueForms
  <2>3. ASSUME delivered' PROVE \E i \in DOMAIN log' : log'[i] = Entry(request)
    <3>1. log \in Seq(LogEntry)
        BY DEF StepFacts, RecordsOK
    <3>2. ASSUME NEW e, log' = Append(log, e)
          PROVE /\ \A i \in DOMAIN log : i \in DOMAIN log' /\ log'[i] = log[i]
                /\ \E i \in DOMAIN log' : log'[i] = e
      <4>1. /\ Len(log) \in Nat /\ DOMAIN log = 1..Len(log) /\ DOMAIN log' = 1..(Len(log) + 1)
            /\ \A i \in 1..Len(log) : log'[i] = log[i]
            /\ log'[Len(log) + 1] = e
        BY <3>1, <3>2
      <4>2. Len(log) + 1 \in DOMAIN log'
        BY <4>1
      <4>. QED BY <4>1, <4>2
    <3>3. CASE delivered
      <4>1. PICK i \in DOMAIN log : log[i] = Entry(request)
        BY <1>1, <1>3, <3>3 DEF RequestInv
      <4>2. i \in DOMAIN log' /\ log'[i] = log[i]
        BY <3>2 DEF StepFacts, LogGrows
      <4>. QED BY <4>1, <4>2
    <3>4. CASE ~ delivered
      <4>1. ServerAccepts
        BY <1>1, <1>3, <2>3, <3>4 DEF Next, TaskStep, LoopStart, Apply, ApplyPromote, ApplyRedaction,
           ApplyLocally, ApplyLater, ApplyEnd, CheckEnabled, Woken, PeekNextToSend, MarkAsSent,
           UploadCancelled, SendFails, SendFailsRecoverably, SendFailsForGood, SubmitStep, Push,
           PushSuperseding, SendAttachment, HandleStep, React, Reply, Edit, Abort, AbortReaction,
           AbortMedia, Unwedge, Quiet, SwitchStep, RetryVerified, SetEnabled, SetGloballyEnabled,
           OpenRoom, Respawn, DropClient, Restart, vars, taskVars, sendVars
      <4>2. ~ OnServer(request.txn)
        BY <1>1, <1>3, <2>1, <3>4 DEF AbortInv, RowInv
      <4>3. log' = Append(log, Entry(request))
        BY <1>1, <1>3, <4>1, <4>2 DEF ServerAccepts, Accept
      <4>. QED BY <3>2, <4>3
    <3>. QED BY <3>3, <3>4
  <2>. QED BY <1>3, <2>2, <2>3
<1>. QED BY <1>1, <1>2, <1>3 DEF StepFacts, TaskFrom

\* Where a request of the queue goes: it stays, perhaps with a newer content, or was sent, or was
\* aborted.
RowGoes(r) ==
    \/ \E s \in queue' : SameRequest(s, r) /\ s.body \in {r.body, clock'}
    \/ pc = "send" /\ delivered /\ r.txn = request.txn /\ log' = log
    \/ r.txn \in aborted'

LEMMA CancelKeeps ==
    ASSUME NEW t, NEW q, CancelEvent(t, q), NEW r \in q
    PROVE RowGoes(r)
<1>1. CASE r \in queue'
    BY <1>1 DEF RowGoes, SameRequest
<1>2. CASE queue' = Without(q, t) /\ aborted' = aborted \cup {t}
    BY <1>1, <1>2 DEF Without, RowGoes
<1>. QED BY <1>1, <1>2 DEF CancelEvent

LEMMA RowGoesStep ==
    ASSUME QueueInv, Smooth, AbortInv, StepFacts, EditsWait, [Next]_vars,
           NEW r \in queue, r.kind \notin {"upload", "receipt"}
    PROVE RowGoes(r)
<1>0. r \in Request
    BY DEF StepFacts, RecordsOK
<1>1. ASSUME r \in queue' PROVE RowGoes(r)
    BY <1>1 DEF RowGoes, SameRequest
<1>2. ASSUME NEW T, NEW w \in BOOLEAN, queue' = WithWedged(queue, T, w) PROVE RowGoes(r)
  <2>1. PICK s \in queue' : s = IF r.txn \in T THEN [r EXCEPT !.wedged = w] ELSE r
    BY <1>2 DEF WithWedged
  <2>2. SameRequest(s, r) /\ s.body = r.body
    BY <1>0, <2>1 DEF SameRequest, Request
  <2>. QED BY <2>2 DEF RowGoes
<1>3. ASSUME NEW t, queue' = WithBody(queue, t, clock') PROVE RowGoes(r)
  <2>1. PICK s \in queue' :
            s = IF r.txn = t THEN [r EXCEPT !.body = clock', !.wedged = FALSE] ELSE r
    BY <1>3 DEF WithBody
  <2>2. SameRequest(s, r) /\ s.body \in {r.body, clock'}
    BY <1>0, <2>1 DEF SameRequest, Request
  <2>. QED BY <2>2 DEF RowGoes
<1>4. CASE TaskStep \/ ServerAccepts \/ SendFails
  <2>1. ASSUME NEW d \in deps, ApplyLocally(d) PROVE RowGoes(r)
    <3>1. d.kind = "redact"
        BY <2>1 DEF ApplyLocally, IsNext, IsReady, EditsWait
    <3>2. queue' = Without(queue, d.parent) \/ queue' = queue
        BY <2>1, <3>1 DEF ApplyLocally, AppliedLocally
    <3>3. d.parent \in aborted'
        BY <3>1 DEF IsRedact, QueueInv, NamesInv, HandleInv, StepFacts, AbortsGrow
    <3>. QED BY <1>1, <3>2, <3>3 DEF Without, RowGoes
  <2>2. CASE SendFailsForGood
    <3>1. request.kind = "upload"
        BY <2>2 DEF SendFailsForGood, Smooth
    <3>2. queue' = WithWedged(queue, {request.txn}, TRUE) \/ queue' = queue
        BY <2>2, <3>1 DEF SendFailsForGood, Wedge, IsOrderSensitive
    <3>. QED BY <1>1, <1>2, <3>2
  <2>3. CASE MarkAsSent
    <3>1. pc = "send" /\ delivered /\ queue' = Without(queue, request.txn) /\ log' = log
        BY <2>3 DEF MarkAsSent, SendReturns, Smooth, AbortInv, RunsInv
    <3>. QED BY <1>1, <3>1 DEF Without, RowGoes
  <2>4. \/ \E d \in deps : ApplyLocally(d)
        \/ SendFailsForGood \/ MarkAsSent \/ queue \subseteq queue'
    BY <1>4 DEF TaskStep, LoopStart, Apply, ApplyPromote, ApplyRedaction, ApplyLater, ApplyEnd,
       CheckEnabled, Woken, PeekNextToSend, UploadCancelled, ServerAccepts, SendFails,
       SendFailsRecoverably, storeVars
  <2>. QED BY <1>1, <2>1, <2>2, <2>3, <2>4
<1>5. CASE SubmitStep
  <2>1. r \in queue'
    BY <1>5 DEF SubmitStep, Push, PushSuperseding, SupersededBy, SendAttachment, Smooth
  <2>. QED BY <1>1, <2>1
<1>6. ASSUME NEW h \in handles, AbortMedia(h) PROVE RowGoes(r)
  <2>1. r.txn \notin {h.file, h.thumb}
    <3>1. h.file # NoTxn /\ h.txn \in Attachments
        BY <1>6 DEF AbortMedia, Attachments
    <3>2. h.file = h.txn + 1 /\ h.thumb \in {NoTxn, h.txn + 2}
        BY <3>1 DEF QueueInv, NamesInv, ShapeInv
    <3>3. r.txn # NoTxn /\ r.txn \notin {h.txn + 1, h.txn + 2}
        BY <3>1 DEF QueueInv, NamesInv, ShapeInv, AttachmentInv, IsUploadTxn, Rows
    <3>. QED BY <3>2, <3>3
  <2>2. PICK left : /\ r \in left
                    /\ queue' = left \/ CancelEvent(h.txn, left)
    BY <1>6, <2>1 DEF AbortMedia
  <2>. QED BY <1>1, <2>2, CancelKeeps
<1>7. ASSUME NEW h \in handles, React(h) \/ Reply(h) \/ Edit(h) \/ Abort(h) \/ AbortReaction(h)
      PROVE RowGoes(r)
  <2>1. queue' = queue \/ queue' = WithBody(queue, h.txn, clock') \/ CancelEvent(h.txn, queue)
    BY <1>7 DEF React, Reply, Edit, Abort, AbortReaction
  <2>. QED BY <1>1, <1>3, <2>1, CancelKeeps
<1>8. ASSUME NEW h, Unwedge(h) PROVE RowGoes(r)
  <2>1. \E T : queue' = WithWedged(queue, T, FALSE)
    BY <1>8 DEF Unwedge
  <2>. QED BY <1>2, <2>1
<1>9. CASE OpenRoom \/ Respawn \/ SwitchStep \/ DropClient \/ Restart \/ UNCHANGED vars
  <2>1. queue' = queue \/ \E T : queue' = WithWedged(queue, T, FALSE)
    BY <1>9 DEF OpenRoom, Respawn, SwitchStep, RetryVerified, SetEnabled, SetGloballyEnabled,
       DropClient, Restart, vars, storeVars
  <2>. QED BY <1>1, <1>2, <2>1
<1>. QED BY <1>4, <1>5, <1>6, <1>7, <1>8, <1>9 DEF Next, HandleStep

\* Where a dependent request goes: it stays, perhaps with a newer content, or became a request,
\* or was aborted, or others make it pointless.
DepGoes(d) ==
    \/ \E f \in deps' : SameDependent(f, d) /\ f.body \in {d.body, clock'}
    \/ \E r \in queue' : /\ r.txn = d.own /\ r.kind = PromotedKind[d.kind]
                         /\ r.about = PromotedAbout(d) /\ r.body = d.body
    \/ d.own \in aborted'
    \/ deps' = Canonical(deps) /\ d \notin Canonical(deps)

LEMMA DepGoesStep ==
    ASSUME QueueInv, Smooth, AbortInv, StepFacts, EditsWait, [Next]_vars,
           NEW d \in deps, d.kind \notin {"file", "redact"}
    PROVE DepGoes(d)
<1>0. d \in Dependent
    BY DEF StepFacts, RecordsOK
<1>1. ASSUME d \in deps' PROVE DepGoes(d)
    BY <1>1 DEF DepGoes, SameDependent
<1>2. ASSUME NEW e \in deps, d \notin WithoutDep(deps, e.own) PROVE d = e
    BY <1>2 DEF WithoutDep, AbortInv, UniqueDeps
<1>3. CASE LoopStart
    BY <1>1, <1>3 DEF LoopStart, Smooth, DepGoes
<1>4. ASSUME NEW e \in deps, ApplyPromote(e) PROVE DepGoes(d)
  <2>1. CASE queue' = queue \cup {Promoted(e)} /\ deps' = WithoutDep(deps, e.own) /\ d = e
    <3>1. PICK r \in queue' : r = Promoted(d)
        BY <2>1
    <3>2. /\ r.txn = d.own /\ r.kind = PromotedKind[d.kind] /\ r.about = PromotedAbout(d)
          /\ r.body = d.body
        BY <3>1 DEF Promoted, NewRequest
    <3>. QED BY <3>2 DEF DepGoes
  <2>2. deps' = deps \/ (deps' = WithoutDep(deps, e.own) /\ queue' = queue \cup {Promoted(e)})
    BY <1>4 DEF ApplyPromote, Smooth
  <2>. QED BY <1>1, <1>2, <2>1, <2>2
<1>5. ASSUME NEW e \in deps, ApplyRedaction(e) \/ ApplyLocally(e) PROVE DepGoes(d)
  <2>1. e.kind = "redact"
    BY <1>5 DEF ApplyRedaction, ApplyLocally, IsNext, IsReady, EditsWait
  <2>2. deps' = deps \/ deps' = WithoutDep(deps, e.own)
    BY <1>5 DEF ApplyRedaction, ApplyLocally
  <2>. QED BY <1>1, <1>2, <2>1, <2>2
<1>6. ASSUME deps' = MarkReady(deps, request.txn) PROVE DepGoes(d)
  <2>1. PICK f \in deps' : f = IF d.parent = request.txn THEN [d EXCEPT !.sent = TRUE] ELSE d
    BY <1>6 DEF MarkReady
  <2>2. SameDependent(f, d) /\ f.body = d.body
    BY <1>0, <2>1 DEF Dependent, SameDependent
  <2>. QED BY <2>2 DEF DepGoes
<1>7. CASE TaskStep \/ ServerAccepts \/ SendFails
  <2>1. \/ LoopStart \/ \E e \in deps : ApplyPromote(e) \/ ApplyRedaction(e) \/ ApplyLocally(e)
        \/ deps' = deps \/ deps' = MarkReady(deps, request.txn)
    BY <1>7 DEF TaskStep, Apply, ApplyLater, ApplyEnd, CheckEnabled, Woken, PeekNextToSend,
       MarkAsSent, UploadCancelled, ServerAccepts, SendFails, SendFailsRecoverably,
       SendFailsForGood, storeVars
  <2>. QED BY <1>1, <1>3, <1>4, <1>5, <1>6, <2>1
<1>8. CASE SubmitStep
  <2>1. d \in deps'
    BY <1>8 DEF SubmitStep, Push, PushSuperseding, SendAttachment, Smooth
  <2>. QED BY <1>1, <2>1
<1>9. ASSUME NEW h \in handles, Edit(h) PROVE DepGoes(d)
  <2>1. ASSUME deps' = {IF e.own = h.txn THEN [e EXCEPT !.body = clock'] ELSE e : e \in deps}
        PROVE DepGoes(d)
    <3>1. PICK f \in deps' : f = IF d.own = h.txn THEN [d EXCEPT !.body = clock'] ELSE d
        BY <2>1
    <3>2. SameDependent(f, d) /\ f.body \in {d.body, clock'}
        BY <1>0, <3>1 DEF Dependent, SameDependent
    <3>. QED BY <3>2 DEF DepGoes
  <2>. QED BY <1>1, <1>9, <2>1 DEF Edit
<1>10. ASSUME NEW h \in handles, React(h) \/ Reply(h) \/ Abort(h) \/ AbortReaction(h) \/ AbortMedia(h)
       PROVE DepGoes(d)
  <2>1. h.file # NoTxn => d.own # h.file
    <3>1. ASSUME h.file # NoTxn PROVE IsUploadTxn(h.file)
      <4>1. h.txn \in Attachments /\ h.file = h.txn + 1
        BY <3>1 DEF Attachments, QueueInv, NamesInv, ShapeInv
      <4>. QED BY <4>1 DEF QueueInv, NamesInv, AttachmentInv
    <3>. QED BY <3>1 DEF IsUploadTxn
  <2>2. \/ deps \subseteq deps'
        \/ deps' = WithoutDep(deps, h.txn) /\ h.txn \in aborted'
        \/ /\ h.file # NoTxn /\ deps' = WithoutDep(WithoutDep(deps, h.file), h.txn)
           /\ h.txn \in aborted'
    BY <1>10 DEF React, Reply, Abort, AbortReaction, AbortMedia, CancelEvent, Smooth
  <2>. QED BY <1>1, <2>1, <2>2 DEF WithoutDep, DepGoes
<1>11. ASSUME NEW h, Unwedge(h) PROVE d \in deps'
    BY <1>11 DEF Unwedge
<1>12. CASE OpenRoom \/ Respawn \/ SwitchStep \/ DropClient \/ Restart \/ UNCHANGED vars
  <2>1. deps' = deps
    BY <1>12 DEF OpenRoom, Respawn, SwitchStep, RetryVerified, SetEnabled, SetGloballyEnabled,
       DropClient, Restart, vars, storeVars
  <2>. QED BY <1>1, <2>1
<1>. QED BY <1>1, <1>7, <1>8, <1>9, <1>10, <1>11, <1>12 DEF Next, HandleStep

\* A content that is carried stays carried.
LEMMA CarriedStays ==
    ASSUME QueueInv, Smooth, AbortInv, StepFacts, EditInv, [Next]_vars,
           NEW e \in edits, Carried(e)
    PROVE Carried(e)' \/ Dead(e.txn)'
<1>0. /\ HandlesGrow /\ log \in Seq(LogEntry)
      /\ e.body \in Nat /\ clock \in Nat /\ clock' \in Nat /\ clock' >= e.body
  <2>1. HandlesGrow /\ log \in Seq(LogEntry) /\ e.body \in Nat
    BY DepsStep DEF StepFacts, RecordsOK
  <2>2. e.body <= clock
    BY DEF EditInv, CarriedInv
  <2>. QED BY <2>1, <2>2 DEF StepFacts
<1>1. PICK h \in handles : h.txn = e.txn
    BY DEF EditInv, CarriedInv
<1>2. ASSUME e.txn \in aborted' PROVE Dead(e.txn)'
    BY <1>2 DEF Dead
<1>3. ASSUME NEW t \in aborted' PROVE \E g \in handles : g.txn = t
    BY DEF StepFacts, AbortsGrow, QueueInv, NamesInv, HandleInv
<1>4. ASSUME NEW i \in DOMAIN log, log[i].body >= e.body, e.txn \in {log[i].txn, log[i].about}
      PROVE Carried(e)'
  <2>1. ASSUME NEW x, log' = Append(log, x) PROVE i \in DOMAIN log' /\ log'[i] = log[i]
    <3>1. /\ Len(log) \in Nat /\ DOMAIN log = 1..Len(log) /\ DOMAIN log' = 1..(Len(log) + 1)
          /\ \A j \in 1..Len(log) : log'[j] = log[j]
        BY <1>0, <2>1
    <3>. QED BY <3>1
  <2>2. i \in DOMAIN log' /\ log'[i] = log[i]
    BY <2>1 DEF StepFacts, LogGrows
  <2>. QED BY <1>4, <2>2 DEF Carried
<1>5. ASSUME NEW r \in queue, r.body >= e.body, r.kind # "upload",
             pc = "send", delivered, r.txn = request.txn, log' = log,
             r.txn = e.txn \/ r.about = e.txn
      PROVE Carried(e)'
  <2>1. request.kind # "upload"
    <3>1. SUFFICES ASSUME request.kind = "upload" PROVE FALSE
        OBVIOUS
    <3>2. IsUploadTxn(request.txn)
        BY <1>5, <3>1, UploadRowTxn DEF Rows
    <3>. QED BY <1>5, <3>2 DEF IsUploadTxn, Rows
  <2>2. PICK i \in DOMAIN log : log[i] = Entry(r)
    BY <1>5, <2>1 DEF EditInv, RequestInv
  <2>3. log[i].txn = r.txn /\ log[i].about = r.about /\ log[i].body = r.body
    BY <2>2 DEF Entry
  <2>. QED BY <1>4, <1>5, <2>3
<1>6. ASSUME NEW r \in queue, r.body >= e.body, r.txn = e.txn PROVE Carried(e)' \/ Dead(e.txn)'
  <2>1. r.kind \notin {"upload", "receipt"}
    BY <1>1, <1>6 DEF QueueInv, CausalInv, TxnInv, IsEventTxn
  <2>2. RowGoes(r)
    BY <2>1, RowGoesStep DEF EditInv
  <2>3. ASSUME NEW s \in queue', SameRequest(s, r), s.body \in {r.body, clock'} PROVE Carried(e)'
    BY <1>0, <1>6, <2>3 DEF SameRequest, Carried
  <2>. QED BY <1>2, <1>5, <1>6, <2>1, <2>2, <2>3 DEF RowGoes
<1>7. ASSUME NEW r \in queue, r.body >= e.body, r.kind = "edit", r.about = e.txn PROVE Carried(e)'
  <2>1. RowGoes(r)
    BY <1>7, RowGoesStep DEF EditInv
  <2>2. ASSUME NEW s \in queue', SameRequest(s, r), s.body \in {r.body, clock'} PROVE Carried(e)'
    BY <1>0, <1>7, <2>2 DEF SameRequest, Carried
  <2>3. r.txn \notin aborted'
    BY <1>3, <1>7 DEF EditInv, EditRows, Rows
  <2>. QED BY <1>5, <1>7, <2>1, <2>2, <2>3 DEF RowGoes
<1>8. ASSUME NEW d \in deps, d.body >= e.body, d.own = e.txn PROVE Carried(e)' \/ Dead(e.txn)'
  <2>1. d.kind \in {"react", "reply", "finish"}
    BY <1>1, <1>8 DEF QueueInv, NamesInv, HandleInv
  <2>2. DepGoes(d)
    BY <2>1, DepGoesStep DEF EditInv
  <2>3. ASSUME NEW f \in deps', SameDependent(f, d), f.body \in {d.body, clock'} PROVE Carried(e)'
    BY <1>0, <1>8, <2>3 DEF SameDependent, Carried
  <2>4. ASSUME NEW r \in queue', r.txn = d.own, r.body = d.body PROVE Carried(e)'
    BY <1>8, <2>4 DEF Carried
  <2>5. ASSUME d \notin Canonical(deps) PROVE Dead(e.txn)'
    <3>1. PICK g \in deps : g.parent = d.parent /\ IsRedact(g)
        BY <2>1, <2>5 DEF Canonical
    <3>2. g.parent \in aborted /\ \E x \in handles : x.txn = g.parent
        BY <3>1 DEF QueueInv, NamesInv, HandleInv
    <3>3. d.kind # "finish"
        BY <3>1, <3>2, ParentIs DEF QueueInv, IsMedia, IsUploadTxn
    <3>4. \E x \in handles : x.txn = d.own /\ x.about = d.parent
        BY <2>1, <3>3 DEF QueueInv, NamesInv, HandleInv
    <3>5. Dead(e.txn)
        BY <1>8, <3>1, <3>2, <3>4 DEF Dead
    <3>. QED BY <1>0, <3>5, DeadStays DEF StepFacts
  <2>. QED BY <1>2, <1>8, <2>2, <2>3, <2>4, <2>5 DEF DepGoes
<1>9. ASSUME NEW d \in deps, d.body >= e.body, d.kind = "edit", d.parent = e.txn
      PROVE Carried(e)' \/ Dead(e.txn)'
  <2>1. DepGoes(d)
    BY <1>9, DepGoesStep DEF EditInv
  <2>2. ASSUME NEW f \in deps', SameDependent(f, d), f.body \in {d.body, clock'} PROVE Carried(e)'
    BY <1>0, <1>9, <2>2 DEF SameDependent, Carried
  <2>3. ASSUME NEW r \in queue', r.kind = PromotedKind[d.kind], r.about = PromotedAbout(d),
               r.body = d.body
        PROVE Carried(e)'
    <3>1. r.kind = "edit" /\ r.about = e.txn
        BY <1>9, <2>3 DEF PromotedKind, PromotedAbout
    <3>. QED BY <1>9, <2>3, <3>1 DEF Carried
  <2>4. d.own \notin aborted'
    BY <1>3, <1>9 DEF QueueInv, NamesInv, HandleInv
  <2>5. CASE \E g \in deps : g.parent = d.parent /\ IsRedact(g)
    <3>1. Dead(e.txn)
        BY <1>9, <2>5 DEF QueueInv, NamesInv, HandleInv, Dead
    <3>. QED BY <1>0, <3>1, DeadStays DEF StepFacts
  <2>6. ASSUME deps' = Canonical(deps), ~ \E g \in deps : g.parent = d.parent /\ IsRedact(g)
        PROVE Carried(e)'
    <3>1. PICK m \in deps' : m.kind = "edit" /\ m.parent = d.parent /\ m.body >= d.body
        BY <1>9, <2>6, LastEdit DEF EditInv
    <3>2. m.body \in Nat /\ d.body \in Nat
        BY <2>6, TableTypes DEF StepFacts, RecordsOK, Dependent
    <3>3. m.body >= e.body
        BY <1>0, <1>9, <3>1, <3>2
    <3>. QED BY <1>9, <3>1, <3>3 DEF Carried
  <2>. QED BY <2>1, <2>2, <2>3, <2>4, <2>5, <2>6 DEF DepGoes
<1>. QED BY <1>4, <1>6, <1>7, <1>8, <1>9 DEF Carried

\* An edit that is new is carried.
LEMMA EditCarried ==
    ASSUME QueueInv, NEW h \in handles, Edit(h), NEW e, e.txn = h.txn, e.body = clock'
    PROVE Carried(e)'
<1>0. /\ clock' \in Nat /\ \A d \in deps : d \in Dependent
      /\ \A r \in queue : r \in Request
    BY DEF Edit, Draws, QueueInv, RecordsOK
<1>1. CASE /\ CaptionWaits(h)
           /\ deps' = {IF d.own = h.txn THEN [d EXCEPT !.body = clock'] ELSE d : d \in deps}
  <2>1. PICK d \in deps : d.own = h.txn
    BY <1>1 DEF CaptionWaits, IsDependent
  <2>2. PICK f \in deps' : f = [d EXCEPT !.body = clock']
    BY <1>1, <2>1
  <2>3. f.own = h.txn /\ f.body = clock'
    BY <1>0, <2>1, <2>2 DEF Dependent
  <2>. QED BY <1>0, <2>3 DEF Carried
<1>2. CASE deps' = deps \cup {NewDependent(clock', h.txn, clock', "edit", NoTxn, clock')}
  <2>1. PICK f \in deps' : f = NewDependent(clock', h.txn, clock', "edit", NoTxn, clock')
    BY <1>2
  <2>2. f.kind = "edit" /\ f.parent = h.txn /\ f.body = clock'
    BY <2>1 DEF NewDependent
  <2>. QED BY <1>0, <2>2 DEF Carried
<1>3. CASE IsQueued(h.txn) /\ queue' = WithBody(queue, h.txn, clock')
  <2>1. PICK r \in queue : r.txn = h.txn
    BY <1>3 DEF IsQueued
  <2>2. PICK s \in queue' : s = [r EXCEPT !.body = clock', !.wedged = FALSE]
    BY <1>3, <2>1 DEF WithBody
  <2>3. s.txn = h.txn /\ s.body = clock'
    BY <1>0, <2>1, <2>2 DEF Request
  <2>. QED BY <1>0, <2>3 DEF Carried
<1>. QED BY <1>1, <1>2, <1>3 DEF Edit

LEMMA EditsFrom ==
    ASSUME [Next]_vars, NEW e \in edits', e \notin edits
    PROVE \E h \in handles : Edit(h) /\ e.txn = h.txn /\ e.body = clock'
<1>1. HandleStep
    BY DEF Next, TaskStep, LoopStart, Apply, ApplyPromote, ApplyRedaction, ApplyLocally, ApplyLater,
       ApplyEnd, CheckEnabled, Woken, PeekNextToSend, MarkAsSent, UploadCancelled, ServerAccepts,
       SendFails, SendFailsRecoverably, SendFailsForGood, SubmitStep, Push, PushSuperseding,
       SendAttachment, OpenRoom, Respawn, SwitchStep, RetryVerified, SetEnabled, SetGloballyEnabled,
       DropClient, Restart, vars, userVars
<1>2. PICK h \in handles : Edit(h)
    BY <1>1 DEF HandleStep, React, Reply, Abort, AbortReaction, AbortMedia, Unwedge, userVars
<1>. QED BY <1>2 DEF Edit

LEMMA EditStep ==
    ASSUME QueueInv, Smooth, Calm, AbortInv, EditInv, [Next]_vars
    PROVE EditInv'
<1>1. StepFacts /\ UniqueRows /\ EditRows /\ EditsWait /\ RequestInv
    BY AbortStep DEF EditInv
<1>2. QueueForms
    BY <1>1, QueueFormsStep
<1>3. UniqueRows' /\ EditRows' /\ EditsWait' /\ RequestInv'
    BY <1>1, <1>2, UniqueRowsStep, EditRowsStep, EditsWaitStep, RequestStep
<1>4. ASSUME NEW e \in edits'
      PROVE /\ e.body <= clock' /\ \E h \in handles' : h.txn = e.txn
            /\ Dead(e.txn)' \/ Carried(e)'
  <2>1. HandlesGrow /\ AbortsGrow
    BY <1>1, DepsStep DEF StepFacts
  <2>2. CASE e \in edits
    <3>1. /\ e.body \in Nat /\ e.body <= clock /\ \E h \in handles : h.txn = e.txn
          /\ Dead(e.txn) \/ Carried(e)
        BY <1>1, <2>2 DEF EditInv, CarriedInv, StepFacts, RecordsOK
    <3>2. Dead(e.txn)' \/ Carried(e)'
        BY <1>1, <2>1, <2>2, <3>1, DeadStays, CarriedStays
    <3>3. e.body <= clock' /\ \E h \in handles' : h.txn = e.txn
        BY <1>1, <2>1, <3>1 DEF StepFacts, HandlesGrow
    <3>. QED BY <3>2, <3>3
  <2>3. CASE e \notin edits
    <3>1. PICK h \in handles : Edit(h) /\ e.txn = h.txn /\ e.body = clock'
        BY <1>4, <2>3, EditsFrom
    <3>2. Carried(e)'
        BY <3>1, EditCarried
    <3>3. clock' \in Nat /\ h \in handles'
        BY <1>1, <2>1 DEF StepFacts, HandlesGrow
    <3>. QED BY <3>1, <3>2, <3>3
  <2>. QED BY <2>2, <2>3
<1>5. CarriedInv'
    BY <1>4 DEF CarriedInv
<1>. QED BY <1>3, <1>5 DEF EditInv

\* As long as nothing fails, an edit counts whether it is made before, while or after its event
\* is sent, or while its caption waits for uploads: once the event is on the server and no edit
\* of it is waiting, the server has the content of the last edit (replace_event,
\* edit_media_caption, canonicalize_dependent_requests).
THEOREM EditsCount == Spec => []EditsArriveUndisturbed
<1>1. Init => (failures = 0 => AbortInv /\ EditInv)
  <2>1. SUFFICES ASSUME Init PROVE AbortInv /\ EditInv
    OBVIOUS
  <2>2. AbortInv
    BY <2>1, AbortInit
  <2>3. queue = {} /\ Rows = {} /\ deps = {} /\ edits = {} /\ pc = "off"
    BY <2>1 DEF Init, Rows
  <2>4. UniqueRows /\ EditRows /\ EditsWait /\ RequestInv /\ CarriedInv
    BY <2>3 DEF UniqueRows, EditRows, EditsWait, RequestInv, CarriedInv
  <2>. QED BY <2>2, <2>4 DEF EditInv
<1>2. /\ failures = 0 => AbortInv /\ EditInv
      /\ QueueInv /\ [Next]_vars
      => (failures = 0 => AbortInv /\ EditInv)'
  <2>1. SUFFICES ASSUME failures = 0 => AbortInv /\ EditInv, QueueInv, [Next]_vars, failures' = 0
                 PROVE AbortInv' /\ EditInv'
    OBVIOUS
  <2>2. failures = 0 /\ Smooth /\ Calm
    BY <2>1, SmoothStep DEF QueueInv
  <2>. QED BY <2>1, <2>2, AbortStep, EditStep
<1>3. (failures = 0 => AbortInv /\ EditInv) => EditsArriveUndisturbed
  <2>1. SUFFICES ASSUME EditInv, NEW e \in edits, Settled(e.txn), ~ Dead(e.txn)
                 PROVE \E i \in DOMAIN log : log[i].body >= e.body /\ e.txn \in {log[i].txn, log[i].about}
    BY DEF EditsArriveUndisturbed, EditsArrive
  <2>. QED BY <2>1 DEF EditInv, CarriedInv, Carried, Settled
<1>. QED BY <1>1, <1>2, <1>3, QueueInvariant, PTL DEF Spec

-----------------------------------------------------------------------------
(* The loop over the dependents *)

Loop == INSTANCE Folding WITH Op <- CanonicalizeStep

HasRows(D) == /\ \A d \in D : d.row \in Nat
              /\ \A d, e \in D : d.row = e.row => d = e

\* There is an element of a finite set whose row is the last.
LEMMA LastRow ==
    ASSUME NEW D, IsFiniteSet(D), D # {}, \A d \in D : d.row \in Nat
    PROVE  \E m \in D : \A d \in D : d.row <= m.row
<1> DEFINE Good(n) == \A E : /\ IsFiniteSet(E) /\ Cardinality(E) = n + 1
                             /\ \A d \in E : d.row \in Nat
                             => \E m \in E : \A d \in E : d.row <= m.row
<1>1. PICK S : S = {n \in Nat : Good(n)}
    OBVIOUS
<1>2. Good(0)
  <2>1. SUFFICES ASSUME NEW E, IsFiniteSet(E), Cardinality(E) = 1, \A d \in E : d.row \in Nat
                 PROVE  \E m \in E : \A d \in E : d.row <= m.row
      OBVIOUS
  <2>2. PICK x : E = {x}
      BY <2>1, FS_Singleton
  <2>. QED BY <2>1, <2>2
<1>3. ASSUME NEW n \in Nat, Good(n) PROVE Good(n + 1)
  <2>1. SUFFICES ASSUME NEW E, IsFiniteSet(E), Cardinality(E) = n + 1 + 1, \A d \in E : d.row \in Nat
                 PROVE  \E m \in E : \A d \in E : d.row <= m.row
      OBVIOUS
  <2>2. PICK x \in E : TRUE
      BY <2>1, FS_EmptySet
  <2>3. IsFiniteSet(E \ {x}) /\ Cardinality(E \ {x}) = n + 1
      BY <2>1, FS_RemoveElement
  <2>4. PICK m \in E \ {x} : \A d \in E \ {x} : d.row <= m.row
      BY <1>3, <2>1, <2>3
  <2>5. CASE x.row <= m.row
      BY <2>4, <2>5
  <2>6. CASE m.row <= x.row
      BY <2>1, <2>4, <2>6
  <2>. QED BY <2>1, <2>5, <2>6
<1>4. \A n \in Nat : n \in S
  <2>1. 0 \in S
      BY <1>1, <1>2
  <2>2. \A n \in Nat : n \in S => n + 1 \in S
      BY <1>1, <1>3
  <2>. QED BY <2>1, <2>2, Loop!NatInd
<1>5. Cardinality(D) \in Nat /\ Cardinality(D) # 0
    BY FS_CardinalityType, FS_EmptySet
<1>6. PICK n \in Nat : Cardinality(D) = n + 1
  <2>1. Cardinality(D) - 1 \in Nat /\ Cardinality(D) = (Cardinality(D) - 1) + 1
    BY <1>5
  <2>. QED BY <2>1
<1>7. Good(n)
    BY <1>1, <1>4
<1>. QED BY <1>6, <1>7

\* The rows of a finite set can be put in their order.
LEMMA StoredExists ==
    ASSUME NEW D, IsFiniteSet(D), HasRows(D)
    PROVE  \E s \in [1 .. Cardinality(D) -> D] : InRowOrder(s)
<1> DEFINE Good(n) == \A E : IsFiniteSet(E) /\ Cardinality(E) = n /\ HasRows(E)
                             => \E s \in [1 .. n -> E] : InRowOrder(s)
<1>1. PICK S : S = {n \in Nat : Good(n)}
    OBVIOUS
<1>2. Good(0)
  <2>1. ASSUME NEW E PROVE \E s \in [1 .. 0 -> E] : InRowOrder(s)
    <3>1. [i \in 1 .. 0 |-> i] \in [1 .. 0 -> E] /\ InRowOrder([i \in 1 .. 0 |-> i])
        BY DEF InRowOrder
    <3>. QED BY <3>1
  <2>. QED BY <2>1
<1>3. ASSUME NEW n \in Nat, Good(n) PROVE Good(n + 1)
  <2>1. SUFFICES ASSUME NEW E, IsFiniteSet(E), Cardinality(E) = n + 1, HasRows(E)
                 PROVE  \E s \in [1 .. n + 1 -> E] : InRowOrder(s)
      OBVIOUS
  <2>2. E # {}
      BY <2>1, FS_EmptySet
  <2>3. PICK m \in E : \A d \in E : d.row <= m.row
      BY <2>1, <2>2, LastRow DEF HasRows
  <2>4. IsFiniteSet(E \ {m}) /\ Cardinality(E \ {m}) = n
    <3>1. IsFiniteSet(E \ {m}) /\ Cardinality(E \ {m}) = Cardinality(E) - 1
        BY <2>1, <2>3, FS_RemoveElement
    <3>. QED BY <2>1, <3>1
  <2>5. HasRows(E \ {m})
      BY <2>1 DEF HasRows
  <2>6. PICK s \in [1 .. n -> E \ {m}] : InRowOrder(s)
      BY <1>3, <2>4, <2>5
  <2>7. PICK t : t = [i \in 1 .. n + 1 |-> IF i = n + 1 THEN m ELSE s[i]]
      OBVIOUS
  <2>8. t \in [1 .. n + 1 -> E]
      BY <2>6, <2>7
  <2>9. ASSUME NEW i \in 1 .. n + 1, NEW j \in 1 .. n + 1, i < j PROVE t[i].row < t[j].row
    <3>1. i \in 1 .. n /\ t[i] = s[i] /\ s[i] \in E \ {m}
        BY <2>6, <2>7, <2>9
    <3>2. CASE j = n + 1
      <4>1. t[j] = m /\ s[i].row # m.row
          BY <2>1, <2>7, <3>1, <3>2 DEF HasRows
      <4>. QED BY <2>1, <2>3, <3>1, <4>1 DEF HasRows
    <3>3. CASE j # n + 1
      <4>1. j \in 1 .. n /\ t[j] = s[j]
          BY <2>7, <3>3
      <4>. QED BY <2>6, <2>9, <3>1, <4>1 DEF InRowOrder
    <3>. QED BY <3>2, <3>3
  <2>10. DOMAIN t = 1 .. n + 1
      BY <2>7
  <2>11. InRowOrder(t)
      BY <2>9, <2>10 DEF InRowOrder
  <2>. QED BY <2>8, <2>11
<1>4. \A n \in Nat : n \in S
  <2>1. 0 \in S
      BY <1>1, <1>2
  <2>2. \A n \in Nat : n \in S => n + 1 \in S
      BY <1>1, <1>3
  <2>. QED BY <2>1, <2>2, Loop!NatInd
<1>5. Cardinality(D) \in Nat
    BY FS_CardinalityType
<1>6. Good(Cardinality(D))
    BY <1>1, <1>4, <1>5
<1>. QED BY <1>6

\* The stored dependents, each of them once.
LEMMA StoredIs ==
    ASSUME NEW D, IsFiniteSet(D), HasRows(D)
    PROVE  /\ Cardinality(D) \in Nat
           /\ Stored(D) \in [1 .. Cardinality(D) -> D] /\ InRowOrder(Stored(D))
           /\ \A d \in D : \E i \in 1 .. Cardinality(D) : Stored(D)[i] = d
<1>1. Stored(D) \in [1 .. Cardinality(D) -> D] /\ InRowOrder(Stored(D))
    BY StoredExists, Zenon DEF Stored
<1>2. Cardinality(D) \in Nat
    BY FS_CardinalityType
<1>3. PICK n, s : n = Cardinality(D) /\ s = Stored(D)
    OBVIOUS
<1>4. s \in [1 .. n -> D] /\ InRowOrder(s) /\ n \in Nat
    BY <1>1, <1>2, <1>3
<1>5. \A i, j \in 1 .. n : s[i] = s[j] => i = j
  <2>1. \A i, j \in 1 .. n : i < j => s[i].row < s[j].row
      BY <1>4 DEF InRowOrder
  <2>2. \A i \in 1 .. n : s[i].row \in Nat
      BY <1>4 DEF HasRows
  <2>. QED BY <1>4, <2>1, <2>2
<1>6. s \in Injection(1 .. n, D)
    BY <1>4, <1>5 DEF Injection, IsInjective
<1>7. IsFiniteSet(1 .. n) /\ Cardinality(1 .. n) = n
    BY <1>4, FS_Interval
<1>8. s \in Surjection(1 .. n, D)
    BY <1>3, <1>6, <1>7, FS_Injection
<1>9. \A d \in D : \E i \in 1 .. n : s[i] = d
    BY <1>8 DEF Surjection
<1>. QED BY <1>1, <1>2, <1>3, <1>9

\* What the loop has made of the rows in E, all of one parent.
Lists(list, E) ==
    /\ list \in Seq(Dependent)
    /\ {list[i] : i \in DOMAIN list} = Canonical(E)
    /\ \A i, j \in DOMAIN list : i < j => list[i] # list[j] /\ AppliedBefore(list[i], list[j])

\* The canonical dependents of a parent, without their siblings.
LEMMA CanonicalOfOne ==
    ASSUME NEW E, NEW p, \A d \in E : d.parent = p
    PROVE  Canonical(E) =
             {d \in E : IF \E e \in E : IsRedact(e)
                        THEN IsRedact(d) /\ \A e \in E : IsRedact(e) => d.row <= e.row
                        ELSE d.kind = "edit" => \A e \in E : e.kind = "edit" => e.row <= d.row}
<1>1. \A d \in E : {e \in E : e.parent = d.parent} = E
    OBVIOUS
<1>. QED BY <1>1 DEF Canonical

\* The index that SelectInSeq finds.
LEMMA FirstEdit ==
    ASSUME NEW n \in Nat, NEW list, list \in Seq(Dependent), DOMAIN list = 1 .. n,
           NEW k, k = SelectInSeq(list, LAMBDA x : x.kind = "edit")
    PROVE  \/ k = 0 /\ \A i \in 1 .. n : list[i].kind # "edit"
           \/ k \in 1 .. n /\ list[k].kind = "edit"
<1>1. PICK I : I = {i \in 1 .. Len(list) : list[i].kind = "edit"}
    OBVIOUS
<1>2. k = IF I # {} THEN Min(I) ELSE 0
    BY <1>1 DEF SelectInSeq
<1>3. Len(list) = n
    OBVIOUS
<1>4. CASE I = {}
    BY <1>1, <1>2, <1>3, <1>4
<1>5. CASE I # {}
  <2>1. I # {} /\ \A x \in I : x \in Nat
      BY <1>1, <1>5
  <2>2. \E x \in I : \A y \in I : x <= y
      BY <2>1, Loop!Least
  <2>3. Min(I) \in I
      BY <2>2, Zenon DEF Min
  <2>. QED BY <1>1, <1>2, <1>3, <1>5, <2>3
<1>. QED BY <1>4, <1>5

\* One more row, which comes after those in E.
LEMMA StepLists ==
    ASSUME NEW E, NEW p, E \subseteq Dependent, \A e \in E : e.parent = p, HasRows(E),
           NEW d \in Dependent, d.parent = p, \A e \in E : e.row < d.row,
           NEW list, Lists(list, E)
    PROVE  Lists(CanonicalizeStep(list, d), E \cup {d})
<1>0. PICK n \in Nat : DOMAIN list = 1 .. n
    BY DEF Lists
<1>1. PICK k : k = SelectInSeq(list, LAMBDA x : x.kind = "edit")
    OBVIOUS
<1>2. \/ k = 0 /\ \A i \in 1 .. n : list[i].kind # "edit"
      \/ k \in 1 .. n /\ list[k].kind = "edit"
    BY <1>0, <1>1, FirstEdit DEF Lists
<1>3. PICK new : new = CanonicalizeStep(list, d)
    OBVIOUS
<1>4. new = IF \E i \in 1 .. n : IsRedact(list[i]) THEN list
            ELSE IF IsRedact(d) THEN <<d>>
            ELSE IF d.kind # "edit" THEN Append(list, d)
            ELSE IF k # 0 THEN [list EXCEPT ![k] = d] ELSE <<d>> \o list
    BY <1>0, <1>1, <1>3 DEF CanonicalizeStep
<1>5. PICK C : C = {list[i] : i \in 1 .. n}
    OBVIOUS
<1>6. C = {x \in E : IF \E e \in E : IsRedact(e)
                     THEN IsRedact(x) /\ \A e \in E : IsRedact(e) => x.row <= e.row
                     ELSE x.kind = "edit" => \A e \in E : e.kind = "edit" => e.row <= x.row}
  <2>1. C = Canonical(E)
      BY <1>0, <1>5 DEF Lists
  <2>. QED BY <2>1, CanonicalOfOne
<1>7. PICK F : F = E \cup {d}
    OBVIOUS
<1>8. Canonical(F) =
         {x \in F : IF \E e \in F : IsRedact(e)
                    THEN IsRedact(x) /\ \A e \in F : IsRedact(e) => x.row <= e.row
                    ELSE x.kind = "edit" => \A e \in F : e.kind = "edit" => e.row <= x.row}
  <2>1. \A e \in F : e.parent = p
      BY <1>7
  <2>. QED BY <2>1, CanonicalOfOne
<1>9. /\ \A x \in F : x.row \in Nat
      /\ list \in Seq(Dependent) /\ Len(list) = n
      /\ \A i, j \in 1 .. n : i < j => list[i] # list[j] /\ AppliedBefore(list[i], list[j])
      /\ \A i \in 1 .. n : list[i] \in Dependent
  <2>1. \A x \in F : x.row \in Nat
      BY <1>7 DEF HasRows, Dependent
  <2>. QED BY <1>0, <2>1 DEF Lists
<1>10. (\E i \in 1 .. n : IsRedact(list[i])) <=> \E e \in E : IsRedact(e)
  <2>1. ASSUME NEW i \in 1 .. n, IsRedact(list[i]) PROVE \E e \in E : IsRedact(e)
      BY <1>5, <1>6, <2>1
  <2>2. ASSUME NEW e \in E, IsRedact(e) PROVE \E i \in 1 .. n : IsRedact(list[i])
    <3>1. PICK R : R = {x.row : x \in {y \in E : IsRedact(y)}}
        OBVIOUS
    <3>2. R # {} /\ \A x \in R : x \in Nat
        BY <2>2, <3>1 DEF HasRows
    <3>3. PICK r \in R : \A x \in R : r <= x
        BY <3>2, Loop!Least
    <3>4. PICK m \in E : IsRedact(m) /\ m.row = r
        BY <3>1
    <3>5. \A x \in E : IsRedact(x) => m.row <= x.row
        BY <3>1, <3>3, <3>4
    <3>6. m \in C
        BY <1>6, <2>2, <3>4, <3>5
    <3>. QED BY <1>5, <3>4, <3>6
  <2>. QED BY <2>1, <2>2
<1>11. CASE \E e \in E : IsRedact(e)
  <2>1. new = list
      BY <1>4, <1>10, <1>11
  <2>2. Canonical(F) = C
    <3>1. ASSUME NEW x \in F PROVE x \in Canonical(F) <=> x \in C
      <4>1. CASE x = d
        <5>1. \A e \in E : e.row < d.row
            OBVIOUS
        <5>2. d \notin C
            BY <1>6, <1>9, <1>7, <5>1
        <5>3. ~ \A e \in F : IsRedact(e) => d.row <= e.row
            BY <1>7, <1>9, <1>11, <5>1
        <5>. QED BY <1>7, <1>8, <1>11, <4>1, <5>2, <5>3
      <4>2. CASE x \in E
        <5>1. \E e \in F : IsRedact(e)
            BY <1>7, <1>11
        <5>2. (\A e \in F : IsRedact(e) => x.row <= e.row) <=> \A e \in E : IsRedact(e) => x.row <= e.row
            BY <1>7, <1>9, <4>2
        <5>3. x \in Canonical(F) <=> IsRedact(x) /\ \A e \in F : IsRedact(e) => x.row <= e.row
            BY <1>8, <3>1, <5>1
        <5>4. x \in C <=> IsRedact(x) /\ \A e \in E : IsRedact(e) => x.row <= e.row
            BY <1>6, <1>11, <4>2
        <5>. QED BY <5>2, <5>3, <5>4
      <4>. QED BY <1>7, <4>1, <4>2
    <3>2. C \subseteq F /\ Canonical(F) \subseteq F
        BY <1>6, <1>7, <1>8
    <3>. QED BY <3>1, <3>2
  <2>3. Lists(list, F)
      BY <1>0, <1>5, <1>9, <2>2 DEF Lists
  <2>. QED BY <1>3, <1>7, <2>1, <2>3
<1>12. CASE IsRedact(d) /\ ~ \E e \in E : IsRedact(e)
  <2>1. new = <<d>>
      BY <1>4, <1>10, <1>12
  <2>2. Canonical(F) = {d}
    <3>1. \E e \in F : IsRedact(e)
        BY <1>7, <1>12
    <3>2. d \in Canonical(F)
      <4>1. \A e \in F : IsRedact(e) => d.row <= e.row
          BY <1>7, <1>9, <1>12
      <4>. QED BY <1>7, <1>8, <1>12, <3>1, <4>1
    <3>3. \A x \in Canonical(F) : IsRedact(x) /\ x \in F
        BY <1>8, <3>1
    <3>. QED BY <1>7, <1>12, <3>2, <3>3
  <2>3. Lists(<<d>>, F)
    <3>1. <<d>> \in Seq(Dependent) /\ DOMAIN <<d>> = {1} /\ <<d>>[1] = d
        OBVIOUS
    <3>2. {<<d>>[i] : i \in DOMAIN <<d>>} = {d}
        BY <3>1
    <3>3. \A i, j \in DOMAIN <<d>> : ~ (i < j)
        BY <3>1
    <3>. QED BY <2>2, <3>1, <3>2, <3>3 DEF Lists
  <2>. QED BY <1>3, <1>7, <2>1, <2>3
<1>13. ASSUME ~ IsRedact(d), ~ \E e \in E : IsRedact(e)
       PROVE  /\ ~ \E e \in F : IsRedact(e)
              /\ Canonical(F) = {x \in F : x.kind = "edit" => \A e \in F : e.kind = "edit" => e.row <= x.row}
              /\ C = {x \in E : x.kind = "edit" => \A e \in E : e.kind = "edit" => e.row <= x.row}
              /\ ~ \E i \in 1 .. n : IsRedact(list[i])
  <2>1. ~ \E e \in F : IsRedact(e)
      BY <1>7, <1>13
  <2>. QED BY <1>6, <1>8, <1>10, <1>13, <2>1
<1>14. ASSUME ~ IsRedact(d), ~ (\E e \in E : IsRedact(e)), d.kind = "edit"
       PROVE  /\ Canonical(F) = {x \in C : x.kind # "edit"} \cup {d}
  <2>1. ASSUME NEW x \in E PROVE x \in Canonical(F) <=> (x \in C /\ x.kind # "edit")
    <3>1. CASE x.kind = "edit"
      <4>1. ~ (d.row <= x.row)
          BY <1>9, <1>7
      <4>. QED BY <1>7, <1>13, <1>14, <3>1, <4>1
    <3>2. CASE x.kind # "edit"
        BY <1>7, <1>13, <1>14, <3>2
    <3>. QED BY <3>1, <3>2
  <2>2. d \in Canonical(F)
    <3>1. \A e \in F : e.row <= d.row
        BY <1>7, <1>9
    <3>. QED BY <1>7, <1>13, <1>14, <3>1
  <2>3. C \subseteq E /\ Canonical(F) \subseteq F /\ d \notin E
    <3>1. C \subseteq E /\ Canonical(F) \subseteq F
        BY <1>6, <1>8
    <3>2. d \notin E
        BY <1>7, <1>9
    <3>. QED BY <3>1, <3>2
  <2>. QED BY <1>7, <2>1, <2>2, <2>3
<1>15. CASE ~ IsRedact(d) /\ ~ (\E e \in E : IsRedact(e)) /\ d.kind = "edit" /\ k # 0
  <2>1. new = [list EXCEPT ![k] = d] /\ k \in 1 .. n /\ list[k].kind = "edit"
      BY <1>2, <1>4, <1>10, <1>15
  <2>2. \A i \in 1 .. n : list[i].kind = "edit" => i = k
    <3>1. SUFFICES ASSUME NEW i \in 1 .. n, list[i].kind = "edit", i # k PROVE FALSE
        OBVIOUS
    <3>2. list[i] \in C /\ list[k] \in C
        BY <1>5, <2>1
    <3>3. list[i] \in E /\ list[k] \in E /\ list[i].row = list[k].row
      <4>1. list[i] \in E /\ list[k] \in E
          BY <1>6, <3>2
      <4>2. list[i].row <= list[k].row /\ list[k].row <= list[i].row
          BY <1>13, <1>15, <2>1, <3>1, <3>2, <4>1
      <4>. QED BY <1>7, <1>9, <4>1, <4>2
    <3>4. list[i] = list[k]
        BY <3>3 DEF HasRows
    <3>. QED BY <1>9, <2>1, <3>1, <3>4
  <2>3. new \in Seq(Dependent) /\ DOMAIN new = 1 .. n
        /\ \A i \in 1 .. n : new[i] = IF i = k THEN d ELSE list[i]
      BY <1>0, <1>9, <2>1
  <2>4. {new[i] : i \in 1 .. n} = Canonical(F)
    <3>1. ASSUME NEW i \in 1 .. n PROVE new[i] \in Canonical(F)
        BY <1>5, <1>14, <1>15, <2>2, <2>3
    <3>2. ASSUME NEW x \in Canonical(F) PROVE \E i \in 1 .. n : x = new[i]
      <4>1. CASE x = d
          BY <2>1, <2>3, <4>1
      <4>2. CASE x # d
        <5>1. PICK i \in 1 .. n : x = list[i] /\ list[i].kind # "edit"
            BY <1>5, <1>14, <1>15, <3>2, <4>2
        <5>. QED BY <2>1, <2>3, <5>1
      <4>. QED BY <4>1, <4>2
    <3>. QED BY <3>1, <3>2
  <2>5. ASSUME NEW i \in 1 .. n, NEW j \in 1 .. n, i < j
        PROVE  new[i] # new[j] /\ AppliedBefore(new[i], new[j])
    <3>1. AppliedBefore(list[i], list[j]) /\ list[i] # list[j]
        BY <1>9, <2>5
    <3>2. \A x \in 1 .. n : x # k => list[x] # d
        BY <1>15, <2>2
    <3>3. CASE i = k
        BY <1>15, <2>3, <2>5, <3>2, <3>3 DEF AppliedBefore
    <3>4. CASE j = k
        BY <2>1, <2>2, <2>5, <3>1, <3>4 DEF AppliedBefore
    <3>. QED BY <2>3, <3>1, <3>3, <3>4
  <2>6. {new[i] : i \in DOMAIN new} = Canonical(F) /\ DOMAIN new = 1 .. n /\ new \in Seq(Dependent)
      BY <2>3, <2>4
  <2>7. \A i, j \in 1 .. n : i < j => new[i] # new[j] /\ AppliedBefore(new[i], new[j])
      BY <2>5
  <2>8. Lists(new, F)
      BY <2>6, <2>7 DEF Lists
  <2>. QED BY <1>3, <1>7, <2>8
<1>16. CASE ~ IsRedact(d) /\ ~ (\E e \in E : IsRedact(e)) /\ d.kind = "edit" /\ k = 0
  <2>1. new = <<d>> \o list /\ \A i \in 1 .. n : list[i].kind # "edit"
      BY <1>2, <1>4, <1>10, <1>16
  <2>2. /\ new \in Seq(Dependent) /\ DOMAIN new = 1 .. n + 1
        /\ new[1] = d /\ \A i \in 1 .. n + 1 : i # 1 => i - 1 \in 1 .. n /\ new[i] = list[i - 1]
      BY <1>0, <1>9, <2>1
  <2>3. {new[i] : i \in 1 .. n + 1} = Canonical(F)
    <3>1. ASSUME NEW i \in 1 .. n + 1 PROVE new[i] \in Canonical(F)
        BY <1>5, <1>14, <1>16, <2>1, <2>2
    <3>2. ASSUME NEW x \in Canonical(F) PROVE \E i \in 1 .. n + 1 : x = new[i]
      <4>1. CASE x = d
          BY <2>2, <4>1
      <4>2. CASE x # d
        <5>1. PICK i \in 1 .. n : x = list[i]
            BY <1>5, <1>14, <1>16, <3>2, <4>2
        <5>2. i + 1 \in 1 .. n + 1 /\ i + 1 # 1 /\ (i + 1) - 1 = i
            OBVIOUS
        <5>. QED BY <2>2, <5>1, <5>2
      <4>. QED BY <4>1, <4>2
    <3>. QED BY <3>1, <3>2
  <2>4. ASSUME NEW i \in 1 .. n + 1, NEW j \in 1 .. n + 1, i < j
        PROVE  new[i] # new[j] /\ AppliedBefore(new[i], new[j])
    <3>1. j - 1 \in 1 .. n /\ new[j] = list[j - 1]
        BY <2>2, <2>4
    <3>2. CASE i = 1
        BY <1>16, <2>1, <2>2, <3>1, <3>2 DEF AppliedBefore
    <3>3. CASE i # 1
      <4>1. i - 1 \in 1 .. n /\ new[i] = list[i - 1] /\ i - 1 < j - 1
          BY <2>2, <2>4, <3>3
      <4>. QED BY <1>9, <3>1, <4>1
    <3>. QED BY <3>2, <3>3
  <2>. QED BY <1>3, <1>7, <2>2, <2>3, <2>4 DEF Lists
<1>17. CASE ~ IsRedact(d) /\ ~ (\E e \in E : IsRedact(e)) /\ d.kind # "edit"
  <2>1. new = Append(list, d)
      BY <1>4, <1>10, <1>17
  <2>2. /\ new \in Seq(Dependent) /\ DOMAIN new = 1 .. n + 1
        /\ new[n + 1] = d /\ \A i \in 1 .. n : new[i] = list[i]
      BY <1>0, <1>9, <2>1
  <2>3. Canonical(F) = C \cup {d}
    <3>1. ASSUME NEW x \in E PROVE x \in Canonical(F) <=> x \in C
        BY <1>7, <1>13, <1>17
    <3>2. d \in Canonical(F)
        BY <1>7, <1>13, <1>17
    <3>3. C \subseteq E /\ Canonical(F) \subseteq F
        BY <1>6, <1>8
    <3>. QED BY <1>7, <3>1, <3>2, <3>3
  <2>4. {new[i] : i \in 1 .. n + 1} = Canonical(F)
    <3>1. ASSUME NEW i \in 1 .. n + 1 PROVE new[i] \in Canonical(F)
        BY <1>5, <2>2, <2>3
    <3>2. ASSUME NEW x \in Canonical(F) PROVE \E i \in 1 .. n + 1 : x = new[i]
      <4>1. CASE x = d
          BY <2>2, <4>1
      <4>2. CASE x # d
        <5>1. PICK i \in 1 .. n : x = list[i]
            BY <1>5, <2>3, <3>2, <4>2
        <5>. QED BY <2>2, <5>1
      <4>. QED BY <4>1, <4>2
    <3>. QED BY <3>1, <3>2
  <2>5. ASSUME NEW i \in 1 .. n + 1, NEW j \in 1 .. n + 1, i < j
        PROVE  new[i] # new[j] /\ AppliedBefore(new[i], new[j])
    <3>1. i \in 1 .. n /\ new[i] = list[i]
        BY <2>2, <2>5
    <3>2. CASE j = n + 1
      <4>1. list[i] \in E
          BY <1>5, <1>6, <3>1
      <4>2. list[i].row < d.row
          BY <4>1
      <4>. QED BY <1>7, <1>9, <1>17, <2>2, <3>1, <3>2, <4>2 DEF AppliedBefore
    <3>3. CASE j # n + 1
        BY <1>9, <2>2, <2>5, <3>1, <3>3
    <3>. QED BY <3>2, <3>3
  <2>6. {new[i] : i \in DOMAIN new} = Canonical(F)
      BY <2>2, <2>4
  <2>7. Lists(new, F)
      BY <2>2, <2>5, <2>6 DEF Lists
  <2>. QED BY <1>3, <1>7, <2>7
<1>. QED BY <1>11, <1>12, <1>15, <1>16, <1>17

\* The loop over all rows of a parent.
LEMMA CanonicalizeLists ==
    ASSUME NEW D, NEW p, IsFiniteSet(D), D \subseteq Dependent, HasRows(D)
    PROVE  Lists(Canonicalize(D, p), {d \in D : d.parent = p})
<1>1. PICK E : E = {d \in D : d.parent = p}
    OBVIOUS
<1>2. IsFiniteSet(E) /\ HasRows(E) /\ E \subseteq Dependent
  <2>1. E \in SUBSET D
      BY <1>1
  <2>2. IsFiniteSet(E)
      BY <2>1, FS_Subset
  <2>. QED BY <2>1, <2>2 DEF HasRows
<1>3. PICK n, s : n = Cardinality(E) /\ s = Stored(E)
    OBVIOUS
<1>4. /\ n \in Nat /\ s \in [1 .. n -> E] /\ InRowOrder(s)
      /\ \A d \in E : \E i \in 1 .. n : s[i] = d
    BY <1>2, <1>3, StoredIs
<1>5. DOMAIN s = 1 .. n
    BY <1>4
<1>6. PICK e0 : e0 = <<>>
    OBVIOUS
<1>7. PICK F : Loop!IsRun(F, e0, s, n) /\ F[n] = Loop!Fold(e0, s)
    BY <1>4, <1>5, Loop!FoldRuns
<1>8. F[0] = e0 /\ \A i \in 1 .. n : F[i] = CanonicalizeStep(F[i - 1], s[i])
    BY <1>7 DEF Loop!IsRun
<1>9. Loop!Fold(e0, s) = Canonicalize(D, p)
    BY <1>1, <1>3, <1>6 DEF Canonicalize, Loop!Fold, Loop!FoldLeft, FoldLeft, Loop!MapThenFoldSet,
       MapThenFoldSet, Loop!Max, Max
<1>10. PICK T : T = {k \in Nat : k <= n => Lists(F[k], {s[i] : i \in 1 .. k})}
    OBVIOUS
<1>11. 0 \in T
  <2>1. {s[i] : i \in 1 .. 0} = {} /\ Canonical({}) = {}
      BY DEF Canonical
  <2>2. Lists(e0, {})
    <3>1. e0 \in Seq(Dependent) /\ DOMAIN e0 = {}
        BY <1>6
    <3>. QED BY <2>1, <3>1 DEF Lists
  <2>. QED BY <1>8, <1>10, <2>1, <2>2
<1>12. ASSUME NEW k \in Nat, k \in T PROVE k + 1 \in T
  <2>1. SUFFICES ASSUME k + 1 <= n PROVE Lists(F[k + 1], {s[i] : i \in 1 .. k + 1})
      BY <1>10
  <2>2. PICK G : G = {s[i] : i \in 1 .. k}
      OBVIOUS
  <2>3. k + 1 \in 1 .. n /\ (k + 1) - 1 = k /\ Lists(F[k], G)
    <3>1. k + 1 \in 1 .. n /\ (k + 1) - 1 = k /\ k <= n
        BY <1>4, <2>1
    <3>2. Lists(F[k], {s[i] : i \in 1 .. k})
        BY <1>10, <1>12, <3>1
    <3>. QED BY <2>2, <3>1, <3>2
  <2>4. PICK d : d = s[k + 1]
      OBVIOUS
  <2>5. F[k + 1] = CanonicalizeStep(F[k], d)
      BY <1>8, <2>3, <2>4
  <2>6. G \subseteq E /\ d \in E
      BY <1>4, <2>2, <2>3, <2>4
  <2>7. \A e \in G : e.row < d.row
      BY <1>4, <2>2, <2>3, <2>4 DEF InRowOrder
  <2>8. HasRows(G) /\ G \subseteq Dependent /\ d \in Dependent /\ d.parent = p /\ \A e \in G : e.parent = p
      BY <1>1, <1>2, <2>6 DEF HasRows
  <2>9. Lists(CanonicalizeStep(F[k], d), G \cup {d})
      BY <2>3, <2>7, <2>8, StepLists
  <2>10. {s[i] : i \in 1 .. k + 1} = G \cup {d}
    <3>1. \A i \in 1 .. k + 1 : i = k + 1 \/ i \in 1 .. k
        OBVIOUS
    <3>2. 1 .. k \subseteq 1 .. k + 1 /\ k + 1 \in 1 .. k + 1
        OBVIOUS
    <3>. QED BY <2>2, <2>4, <3>1, <3>2
  <2>. QED BY <2>5, <2>9, <2>10
<1>13. n \in T
    BY <1>4, <1>11, <1>12, Loop!NatInd
<1>14. {s[i] : i \in 1 .. n} = E
    BY <1>4
<1>15. Lists(F[n], {s[i] : i \in 1 .. n})
    BY <1>4, <1>10, <1>13
<1>16. Lists(F[n], E)
    BY <1>14, <1>15
<1>17. F[n] = Canonicalize(D, p)
    BY <1>7, <1>9
<1>. QED BY <1>1, <1>16, <1>17

\* Every row has a number of its own.
DepRows ==
    /\ IsFiniteSet(deps)
    /\ \A d, e \in deps : d.row = e.row => d = e
    /\ \A d \in deps : d.row <= clock

LEMMA LoopKeepsTheCanonical ==
    ASSUME RecordsOK, DepRows
    PROVE  KeepsTheCanonical
<1>1. IsFiniteSet(deps) /\ deps \subseteq Dependent /\ HasRows(deps)
    BY DEF RecordsOK, DepRows, HasRows, Dependent
<1>2. ASSUME NEW p \in Parents
      PROVE  Lists(Canonicalize(deps, p), {d \in deps : d.parent = p})
    BY <1>1, CanonicalizeLists
<1>3. ASSUME NEW p \in Parents
      PROVE  Canonical({d \in deps : d.parent = p}) = {d \in Canonical(deps) : d.parent = p}
  <2>1. \A d \in deps : d.parent = p =>
            {e \in {x \in deps : x.parent = p} : e.parent = d.parent} = {e \in deps : e.parent = d.parent}
      OBVIOUS
  <2>. QED BY <2>1 DEF Canonical
<1>4. ASSUME NEW p \in Parents
      PROVE  ToSet(Canonicalize(deps, p)) = {d \in Canonical(deps) : d.parent = p}
    BY <1>2, <1>3 DEF Lists, ToSet
<1>5. UNION {ToSet(Canonicalize(deps, p)) : p \in Parents} = Canonical(deps)
  <2>1. \A d \in Canonical(deps) : d.parent \in Parents
      BY DEF Canonical, Parents
  <2>. QED BY <1>4, <2>1
<1>6. ASSUME NEW p \in Parents, NEW list, list = Canonicalize(deps, p),
             NEW i \in DOMAIN list, NEW j \in DOMAIN list, i < j
      PROVE  list[i] # list[j] /\ AppliedBefore(list[i], list[j])
    BY <1>2, <1>6 DEF Lists
<1>. QED BY <1>5, <1>6 DEF KeepsTheCanonical

\* What a step does to the table: rows go or are written again, with the same number, or
\* come with the next numbers.
RowsRemain(D) == D \subseteq deps
RowsWritten(D) == \E f : /\ D = {f[d] : d \in deps} /\ DOMAIN f = deps
                         /\ \A d \in deps : f[d].row = d.row
RowsCome(D) ==
    \E a, b : D \subseteq deps \cup {a, b} /\ a.row = clock + 1 /\ b.row = clock + 2 /\ clock + 2 <= clock'
RowComes(D) == \E a : D \subseteq deps \cup {a} /\ a.row = clock + 1 /\ clock + 1 <= clock'
RowsMove == RowsRemain(deps') \/ RowsWritten(deps') \/ RowComes(deps') \/ RowsCome(deps')

LEMMA DepRowsStep ==
    ASSUME RecordsOK, DepRows, clock' \in Nat, clock <= clock', RowsMove
    PROVE  DepRows'
<1>0. clock \in Nat /\ \A d \in deps : d.row \in Nat /\ d.row <= clock
    BY DEF RecordsOK, DepRows, Dependent
<1>1. CASE RowsRemain(deps')
  <2>1. deps' \in SUBSET deps
      BY <1>1 DEF RowsRemain
  <2>2. IsFiniteSet(deps')
      BY <2>1, FS_Subset DEF DepRows
  <2>. QED BY <1>0, <2>1, <2>2 DEF DepRows
<1>2. CASE RowsWritten(deps')
  <2>1. PICK f : deps' = {f[d] : d \in deps} /\ DOMAIN f = deps /\ \A d \in deps : f[d].row = d.row
      BY <1>2 DEF RowsWritten
  <2>2. PICK g : g = [d \in deps |-> f[d]]
      OBVIOUS
  <2>3. g \in Surjection(deps, deps')
      BY <2>1, <2>2 DEF Surjection
  <2>4. IsFiniteSet(deps')
      BY <2>3, FS_Surjection DEF DepRows
  <2>. QED BY <1>0, <2>1, <2>4 DEF DepRows
<1>3. CASE RowComes(deps')
  <2>1. PICK a : deps' \subseteq deps \cup {a} /\ a.row = clock + 1 /\ clock + 1 <= clock'
      BY <1>3 DEF RowComes
  <2>2. IsFiniteSet(deps \cup {a})
      BY FS_AddElement DEF DepRows
  <2>3. deps' \in SUBSET (deps \cup {a})
      BY <2>1
  <2>4. IsFiniteSet(deps')
      BY <2>2, <2>3, FS_Subset
  <2>. QED BY <1>0, <2>1, <2>4 DEF DepRows
<1>4. CASE RowsCome(deps')
  <2>1. PICK a, b : deps' \subseteq deps \cup {a, b} /\ a.row = clock + 1 /\ b.row = clock + 2 /\ clock + 2 <= clock'
      BY <1>4 DEF RowsCome
  <2>2. IsFiniteSet(deps \cup {a})
      BY FS_AddElement DEF DepRows
  <2>3. IsFiniteSet((deps \cup {a}) \cup {b})
      BY <2>2, FS_AddElement
  <2>4. deps' \in SUBSET ((deps \cup {a}) \cup {b})
      BY <2>1
  <2>5. IsFiniteSet(deps')
      BY <2>3, <2>4, FS_Subset
  <2>. QED BY <1>0, <2>1, <2>5 DEF DepRows
<1>. QED BY <1>1, <1>2, <1>3, <1>4 DEF RowsMove

LEMMA NextDeps ==
    ASSUME RecordsOK, Next
    PROVE  clock <= clock' /\ RowsMove
<1>0. clock \in Nat /\ deps \subseteq Dependent
    BY DEF RecordsOK
<1>1. ASSUME deps' \subseteq deps PROVE RowsMove
    BY <1>1 DEF RowsMove, RowsRemain
<1>2. ASSUME NEW own, NEW parent, NEW kind, NEW about, NEW body, clock' = clock + 1,
             deps' = deps \cup {NewDependent(own, parent, clock', kind, about, body)}
      PROVE  RowsMove /\ clock <= clock'
  <2>1. NewDependent(own, parent, clock', kind, about, body).row = clock + 1
      BY <1>2 DEF NewDependent
  <2>2. RowComes(deps')
      BY <1>0, <1>2, <2>1 DEF RowComes
  <2>. QED BY <1>0, <1>2, <2>2 DEF RowsMove
<1>3. ASSUME NEW t, deps' = MarkReady(deps, t) PROVE RowsMove
  <2>1. PICK f : f = [d \in deps |-> IF d.parent = t THEN [d EXCEPT !.sent = TRUE] ELSE d]
      OBVIOUS
  <2>2. deps' = {f[d] : d \in deps}
      BY <1>3, <2>1 DEF MarkReady
  <2>3. \A d \in deps : f[d].row = d.row
      BY <1>0, <2>1 DEF Dependent
  <2>4. RowsWritten(deps')
      BY <2>1, <2>2, <2>3 DEF RowsWritten
  <2>. QED BY <2>4 DEF RowsMove
<1>4. ASSUME NEW t, NEW q, CancelEvent(t, q) PROVE clock <= clock' /\ RowsMove
  <2>1. CASE UNCHANGED <<deps, clock>>
      BY <1>0, <1>1, <2>1
  <2>2. CASE Draws(1) /\ deps' = deps \cup {NewDependent(clock', t, clock', "redact", NoTxn, 0)}
      BY <1>2, <2>2 DEF Draws
  <2>. QED BY <1>4, <2>1, <2>2 DEF CancelEvent
<1>5. CASE UNCHANGED <<deps, clock>>
    BY <1>0, <1>1, <1>5
<1>6. CASE LoopStart
    BY <1>0, <1>1, <1>6 DEF LoopStart, Canonical
<1>7. CASE Apply
  <2>1. ASSUME NEW d \in deps, ApplyPromote(d) \/ ApplyRedaction(d) \/ ApplyLocally(d) \/ ApplyLater(d)
        PROVE  clock <= clock' /\ deps' \subseteq deps
      BY <1>0, <2>1 DEF ApplyPromote, ApplyRedaction, ApplyLocally, ApplyLater, WithoutDep, storeVars
  <2>2. CASE ApplyEnd
      BY <1>5, <2>2 DEF ApplyEnd, storeVars
  <2>. QED BY <1>1, <1>7, <2>1, <2>2 DEF Apply
<1>8. CASE MarkAsSent
    BY <1>0, <1>1, <1>3, <1>8 DEF MarkAsSent
<1>9. ASSUME NEW op, SendAttachment(op) PROVE clock <= clock' /\ RowsMove
  <2> DEFINE event == clock + 1
             file == clock + 2
             thumb == IF op = "thumbnail" THEN clock + 3 ELSE NoTxn
  <2>1. deps' \subseteq deps \cup FileUpload(event, file, thumb) \cup FinishUpload(event, file, thumb)
      BY <1>9 DEF SendAttachment
  <2>2. clock' = clock + 3
      BY <1>9 DEF SendAttachment, Draws
  <2> HIDE DEF event, file, thumb
  <2>3. PICK a, b : a = NewDependent(file, thumb, clock + 1, "file", event, 0)
                    /\ b = NewDependent(event, file, clock + 2, "finish", thumb, event)
      OBVIOUS
  <2>4. deps' \subseteq deps \cup {a, b}
      BY <2>1, <2>3 DEF FileUpload, FinishUpload
  <2>5. a.row = clock + 1 /\ b.row = clock + 2
      BY <2>3 DEF NewDependent
  <2>6. RowsCome(deps')
      BY <1>0, <2>2, <2>4, <2>5 DEF RowsCome
  <2>. QED BY <1>0, <2>2, <2>6 DEF RowsMove
<1>10. ASSUME NEW h, React(h) \/ Reply(h) PROVE clock <= clock' /\ RowsMove
    BY <1>2, <1>10 DEF React, Reply, Draws
<1>11. ASSUME NEW h, Edit(h) PROVE clock <= clock' /\ RowsMove
  <2>1. clock' = clock + 1
      BY <1>11 DEF Edit, Draws
  <2>2. CASE deps' = {IF d.own = h.txn THEN [d EXCEPT !.body = clock'] ELSE d : d \in deps}
    <3>0. PICK c : c = clock'
        OBVIOUS
    <3>1. PICK f : f = [d \in deps |-> IF d.own = h.txn THEN [d EXCEPT !.body = c] ELSE d]
        OBVIOUS
    <3>2. deps' = {f[d] : d \in deps} /\ DOMAIN f = deps
      <4>1. deps' = {IF d.own = h.txn THEN [d EXCEPT !.body = c] ELSE d : d \in deps}
          BY <2>2, <3>0
      <4>. QED BY <3>1, <4>1
    <3>3. \A d \in deps : f[d].row = d.row
        BY <1>0, <3>1 DEF Dependent
    <3>4. RowsWritten(deps')
        BY <3>2, <3>3 DEF RowsWritten
    <3>. QED BY <1>0, <2>1, <3>4 DEF RowsMove
  <2>3. CASE deps' = deps \cup {NewDependent(clock', h.txn, clock', "edit", NoTxn, clock')}
      BY <1>2, <2>1, <2>3
  <2>4. CASE deps' = deps
      BY <1>0, <1>1, <2>1, <2>4
  <2>. QED BY <1>11, <2>2, <2>3, <2>4 DEF Edit
<1>12. ASSUME NEW h, Abort(h) \/ AbortReaction(h) PROVE clock <= clock' /\ RowsMove
  <2>1. CASE \E t, q : CancelEvent(t, q)
      BY <1>4, <2>1
  <2>2. CASE deps' = WithoutDep(deps, h.txn) /\ clock' = clock
      BY <1>0, <1>1, <2>2 DEF WithoutDep
  <2>. QED BY <1>12, <2>1, <2>2 DEF Abort, AbortReaction
<1>13. ASSUME NEW h, AbortMedia(h) PROVE clock <= clock' /\ RowsMove
  <2>1. CASE \E q : CancelEvent(h.txn, q)
      BY <1>4, <2>1
  <2>2. CASE ~ \E q : CancelEvent(h.txn, q)
    <3>1. clock' = clock
        BY <1>13, <2>2 DEF AbortMedia
    <3>2. deps' \subseteq deps
        BY <1>13, <2>2 DEF AbortMedia, WithoutDep
    <3>. QED BY <1>0, <1>1, <3>1, <3>2
  <2>. QED BY <2>1, <2>2
<1>14. CASE SubmitStep
  <2>1. ASSUME NEW op, NEW kind, Push(op, kind) PROVE clock <= clock' /\ RowsMove
      BY <1>0, <1>1, <2>1 DEF Push, Draws
  <2>2. CASE PushSuperseding(NoTxn)
    <3>1. deps' = deps /\ clock' \in {clock, clock + 1}
        BY <2>2 DEF PushSuperseding, Draws
    <3>. QED BY <1>0, <1>1, <3>1
  <2>. QED BY <1>9, <1>14, <2>1, <2>2 DEF SubmitStep
<1>15. CASE HandleStep
  <2>1. ASSUME NEW h, Unwedge(h) PROVE UNCHANGED <<deps, clock>>
      BY <2>1 DEF Unwedge
  <2>. QED BY <1>5, <1>10, <1>11, <1>12, <1>13, <1>15, <2>1 DEF HandleStep
<1>16. CASE SwitchStep
    BY <1>5, <1>16 DEF SwitchStep, RetryVerified, SetEnabled, SetGloballyEnabled, storeVars
<1>17. CASE OpenRoom \/ Respawn \/ CheckEnabled \/ Woken \/ PeekNextToSend \/ UploadCancelled
            \/ ServerAccepts \/ SendFails \/ DropClient \/ Restart
    BY <1>5, <1>17 DEF OpenRoom, Respawn, CheckEnabled, Woken, PeekNextToSend, UploadCancelled,
       ServerAccepts, SendFails, SendFailsRecoverably, SendFailsForGood, DropClient, Restart, storeVars
<1>. QED BY <1>6, <1>7, <1>8, <1>14, <1>15, <1>16, <1>17 DEF Next, TaskStep

\* The loop that is written in the code keeps what the table is described to keep.
THEOREM LoopIsCanonical == Spec => []KeepsTheCanonical
<1>1. Init => DepRows
    BY FS_EmptySet DEF Init, DepRows
<1>2. RecordsOK /\ RecordsOK' /\ DepRows /\ [Next]_vars => DepRows'
  <2>1. ASSUME RecordsOK, RecordsOK', DepRows, Next PROVE DepRows'
      BY <2>1, NextDeps, DepRowsStep DEF RecordsOK
  <2>2. ASSUME DepRows, UNCHANGED vars PROVE DepRows'
      BY <2>2 DEF DepRows, vars, storeVars
  <2>. QED BY <2>1, <2>2
<1>3. Spec => []RecordsOK
    BY TypeCorrect, PTL DEF TypeOK
<1>. QED BY <1>1, <1>2, <1>3, LoopKeepsTheCanonical, PTL DEF Spec
=============================================================================
