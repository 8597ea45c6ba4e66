----------------------------- MODULE SendQueue -----------------------------
(***************************************************************************)
(* The send queue of one room: client-matrix/src/send_queue/mod.rs and     *)
(* upload.rs, over the two tables that the state store keeps for it.       *)
(*                                                                         *)
(* Every method of QueueStorage locks being_sent until it returns, so each *)
(* is one step, except apply_dependent_requests, which has the lock while  *)
(* pc = "apply" and takes a step per dependent request, because some of    *)
(* them talk to the server.  A store error ends a method after some of its *)
(* writes; a crash in the middle of one is such an error and a Restart.    *)
(*                                                                         *)
(* Transaction ids are drawn from the same counter as the row numbers of   *)
(* the tables, so they tell which request was created first.               *)
(***************************************************************************)
EXTENDS DependentRequests, Sequences

CONSTANTS
    Ops,         \* what the application calls
    Failures,    \* what may go wrong
    MaxTxn,      \* bound: the application draws no transaction id above this
    MaxFailures  \* bound: how many things go wrong

AllOps == {"send", "redact", "receipt", "media", "thumbnail", "react", "reply",
           "abort", "edit", "unwedge", "verify", "enable", "disable", "global"}
AllFailures == {"recoverable", "unrecoverable", "lost", "store", "fetch", "crash"}

ASSUME SendQueueConstants ==
    /\ Ops \subseteq AllOps /\ Failures \subseteq AllFailures
    /\ MaxTxn \in Nat /\ MaxFailures \in Nat

VARIABLES
    queue, deps, media,                             \* persistent stores
    beingSent, enabled, globally, permit, dropping, \* memory of the process
    pc, todo, request, delivered, cancelled,        \* the sending task
    log,                                            \* what the server has accepted
    clock, failures,                                \* counters
    handles, aborted, refused, edits                \* what the application knows

storeVars == <<queue, deps, media>>
switchVars == <<enabled, globally, dropping>>
sendVars == <<request, delivered, cancelled>>
userVars == <<handles, aborted, refused, edits>>
taskVars == <<pc, todo, sendVars>>
vars == <<storeVars, beingSent, switchVars, permit, taskVars, log, clock, failures, userVars>>

\* QueuedRequestKind; the first four are all its variant Event.
EventKind == {"message", "edit", "reaction", "reply"}
RequestKind == EventKind \cup {"redaction", "upload", "receipt"}

\* about: the event that is edited, reacted or replied to, or, for an upload,
\* the media event it is for.  body: the version of the content.
Request == [txn : Nat, row : Nat, high : BOOLEAN, kind : RequestKind,
            about : Nat, body : Nat, wedged : BOOLEAN]
NewRequest(txn, row, high, kind, about, body) ==
    [txn |-> txn, row |-> row, high |-> high, kind |-> kind,
     about |-> about, body |-> body, wedged |-> FALSE]
NoRequest == NewRequest(NoTxn, 0, FALSE, "message", NoTxn, 0)

\* What the application keeps: SendHandle (file and thumb are its media_handles),
\* SendReactionHandle, SendRedactionHandle.
Handle == [txn : Nat, kind : {"event", "reaction", "redaction"}, about : Nat,
           file : Nat, thumb : Nat]
NewHandle(txn, kind, about, file, thumb) ==
    [txn |-> txn, kind |-> kind, about |-> about, file |-> file, thumb |-> thumb]

Label == {"off", "loop", "apply", "check", "peek", "wait", "send", "stopped"}

-----------------------------------------------------------------------------
(* The two tables of the state store *)

\* Mutant: the newest first.
BeforeNewest(r, s) == (r.high /\ ~ s.high) \/ (r.high = s.high /\ r.row > s.row)

\* ORDER BY priority DESC, ROWID
Before(r, s) == (r.high /\ ~ s.high) \/ (r.high = s.high /\ r.row < s.row)
IsFirst(r) == r \in queue /\ \A s \in queue : s = r \/ Before(r, s)

IsQueued(t) == \E r \in queue : r.txn = t
IsDependent(t) == \E d \in deps : d.own = t
Without(q, t) == {r \in q : r.txn # t}

\* Mutant: dependents are not removed.
WithDep(D, t) == D

WithoutDep(D, t) == {d \in D : d.own # t}
WithBody(q, t, body) ==
    {IF r.txn = t THEN [r EXCEPT !.body = body, !.wedged = FALSE] ELSE r : r \in q}
WithWedged(q, T, wedged) ==
    {IF r.txn \in T THEN [r EXCEPT !.wedged = wedged] ELSE r : r \in q}

\* Mutant: what depends on a request is not told that it was sent.
MarkNothing(D, t) == D

MarkReady(D, t) == {IF d.parent = t THEN [d EXCEPT !.sent = TRUE] ELSE d : d \in D}

\* The server knows a transaction id that it has seen before.
OnServer(t) == \E i \in DOMAIN log : log[i].txn = t /\ log[i].kind # "receipt"
Entry(r) == [txn |-> r.txn, kind |-> r.kind, about |-> r.about, body |-> r.body]
Accept(r) == IF OnServer(r.txn) THEN log ELSE Append(log, Entry(r))

Fails(kind) == kind \in Failures /\ failures < MaxFailures /\ failures' = failures + 1
NothingFails == failures' = failures

-----------------------------------------------------------------------------
Init ==
    /\ queue = {} /\ deps = {} /\ media = {}
    /\ beingSent = NoTxn /\ enabled = TRUE /\ globally = TRUE
    /\ permit = FALSE /\ dropping = FALSE
    /\ pc = "off" /\ todo = {}
    /\ request = NoRequest /\ delivered = FALSE /\ cancelled = FALSE
    /\ log = <<>> /\ clock = 0 /\ failures = 0
    /\ handles = {} /\ aborted = {} /\ refused = {} /\ edits = {}

-----------------------------------------------------------------------------
(* The sending task *)

\* for_room: the first use of the queue spawns its task.
ForRoom ==
    IF pc = "off" THEN pc' = "loop" /\ enabled' = globally
                  ELSE pc' = pc /\ enabled' = enabled

OpenRoom ==
    /\ pc = "off"
    /\ ForRoom
    /\ UNCHANGED <<storeVars, beingSent, globally, dropping, permit, todo, sendVars,
                   log, clock, failures, userVars>>

\* respawn_tasks_for_rooms_with_unsent_requests: load_rooms_with_unsent_requests
\* looks at the table of requests only.
Respawn ==
    /\ pc = "off" /\ globally /\ queue # {}
    /\ ForRoom
    /\ UNCHANGED <<storeVars, beingSent, globally, dropping, permit, todo, sendVars,
                   log, clock, failures, userVars>>

\* A dependent request could not be removed: apply_dependent_requests returns
\* the error of the store, which the task only logs.
ApplyStops == todo' = {} /\ pc' = "check"

\* The top of the loop, and the first half of apply_dependent_requests.
LoopStart ==
    /\ pc = "loop"
    /\ \/ dropping /\ pc' = "stopped" /\ NothingFails /\ UNCHANGED <<deps, todo>>
       \/ /\ ~ dropping
          /\ deps' = Canonical(deps)
          /\ todo' = {d.own : d \in deps'}
          /\ pc' = "apply"
          /\ NothingFails
       \/ /\ ~ dropping /\ deps # {} /\ Fails("store")
          /\ \E D \in SUBSET deps : Canonical(deps) \subseteq D /\ deps' = D
          /\ ApplyStops
    /\ UNCHANGED <<queue, media, beingSent, switchVars, permit, sendVars, log, clock, userVars>>

\* The order in which the dependents of an event are applied; those of different
\* events come in no order, out of a HashMap.
IsNext(d) ==
    /\ pc = "apply" /\ d.own \in todo
    /\ \A e \in deps : e.own \in todo /\ e.parent = d.parent /\ e # d => AppliedBefore(d, e)

\* Mutant: dependents are stored under their own kind.
PromotedKindSame == [k \in DependentKind |-> k]

PromotedKind ==
    [edit |-> "edit", react |-> "reaction", reply |-> "reply", file |-> "upload",
     finish |-> "message", redact |-> "redaction"]

\* Mutant: what becomes a request goes to the end of the queue.
PromotedLow(d) == FALSE

PromotedHigh(d) == d.kind # "reply"
PromotedAbout(d) == IF d.kind = "file" THEN d.about ELSE IF d.kind = "finish" THEN NoTxn ELSE d.parent
Promoted(d) ==
    NewRequest(d.own, clock + 1, PromotedHigh(d), PromotedKind[d.kind], PromotedAbout(d), d.body)

\* A finished upload gives the cached content the key the server chose for it.
MediaAfter(d) == IF d.kind = "finish" THEN media \ {d.parent, d.about} ELSE media

\* Mutant: the parent_key is not looked at.
AlwaysReady(d) == TRUE

IsReady(d) == d.sent

ApplyNext(d) == todo' = todo \ {d.own} /\ pc' = pc

\* try_apply_single_dependent_request on one that turns into a request.  The
\* transaction id is the key of the table: a second insertion fails.
ApplyPromote(d) ==
    /\ IsNext(d) /\ IsReady(d) /\ d.kind # "redact"
    /\ \/ ~ IsQueued(d.own) /\ NothingFails
          /\ queue' = queue \cup {Promoted(d)} /\ clock' = clock + 1
          /\ media' = MediaAfter(d)
          /\ deps' = WithoutDep(deps, d.own) /\ ApplyNext(d)
       \/ ~ IsQueued(d.own) /\ Fails("store")
          /\ queue' = queue \cup {Promoted(d)} /\ clock' = clock + 1
          /\ media' = MediaAfter(d)
          /\ deps' = deps /\ ApplyStops
       \/ (IF IsQueued(d.own) THEN NothingFails ELSE Fails("store"))
          /\ media' \in {media, MediaAfter(d)}
          /\ ApplyNext(d) /\ UNCHANGED <<queue, clock, deps>>
       \/ d.kind = "edit" /\ Fails("fetch")
          /\ deps' = WithoutDep(deps, d.own) /\ ApplyNext(d) /\ UNCHANGED <<queue, clock, media>>
    /\ UNCHANGED <<beingSent, switchVars, permit, sendVars, log, userVars>>

\* An event that was sent is redacted right away, once; "recoverable" stands for
\* any error of that.
ApplyRedaction(d) ==
    /\ IsNext(d) /\ IsReady(d) /\ d.kind = "redact"
    /\ \/ /\ NothingFails /\ log' = Accept(Promoted(d))
          /\ deps' = WithoutDep(deps, d.own) /\ ApplyNext(d)
       \/ Fails("recoverable") /\ ApplyNext(d) /\ UNCHANGED <<log, deps>>
       \/ Fails("lost") /\ log' = Accept(Promoted(d)) /\ deps' = deps /\ ApplyNext(d)
       \/ Fails("store") /\ log' = Accept(Promoted(d)) /\ deps' = deps /\ ApplyStops
    /\ UNCHANGED <<queue, media, beingSent, switchVars, permit, sendVars, clock, userVars>>

\* Editing or redacting an event that was not sent changes the queue instead.
AppliedLocally(d) ==
    IF d.kind = "edit" THEN WithBody(queue, d.parent, d.body) ELSE Without(queue, d.parent)
ApplyLocally(d) ==
    /\ IsNext(d) /\ ~ IsReady(d) /\ d.kind \in {"edit", "redact"}
    /\ \/ /\ NothingFails /\ queue' = AppliedLocally(d)
          /\ deps' = WithoutDep(deps, d.own) /\ ApplyNext(d)
       \/ Fails("store") /\ ApplyNext(d) /\ UNCHANGED <<queue, deps>>
       \/ Fails("store") /\ queue' = AppliedLocally(d) /\ deps' = deps /\ ApplyStops
    /\ UNCHANGED <<media, beingSent, switchVars, permit, sendVars, log, clock, userVars>>

ApplyLater(d) ==
    /\ IsNext(d) /\ ~ IsReady(d) /\ d.kind \notin {"edit", "redact"}
    /\ ApplyNext(d) /\ NothingFails
    /\ UNCHANGED <<storeVars, beingSent, switchVars, permit, sendVars, log, clock, userVars>>

ApplyEnd ==
    /\ pc = "apply" /\ todo = {}
    /\ pc' = "check"
    /\ UNCHANGED <<storeVars, beingSent, switchVars, permit, todo, sendVars, log, clock,
                   failures, userVars>>

CheckEnabled ==
    /\ pc = "check"
    /\ pc' = IF enabled THEN "peek" ELSE "wait"
    /\ UNCHANGED <<storeVars, beingSent, switchVars, permit, todo, sendVars, log, clock,
                   failures, userVars>>

\* notifier.notified(): notify_one leaves a permit when nobody waits.
Woken ==
    /\ pc = "wait" /\ permit
    /\ pc' = "loop" /\ permit' = FALSE
    /\ UNCHANGED <<storeVars, beingSent, switchVars, todo, sendVars, log, clock, failures,
                   userVars>>

\* peek_next_to_send: the first request, unless it is wedged.  That the room can then not
\* be had (WeakRoom::get) although the client is not being dropped is left out: the task
\* logs an error and starts over, and being_sent stays set.
PeekNextToSend ==
    /\ pc = "peek"
    /\ \/ \E r \in queue :
            /\ IsFirst(r) /\ ~ r.wedged
            /\ request' = r /\ beingSent' = r.txn /\ pc' = "send"
            /\ delivered' = FALSE /\ cancelled' = FALSE
            /\ NothingFails
       \/ /\ \A r \in queue : IsFirst(r) => r.wedged
          /\ pc' = "wait" /\ NothingFails /\ UNCHANGED <<beingSent, sendVars>>
       \/ /\ Fails("store")
          /\ pc' = "loop" /\ UNCHANGED <<beingSent, sendVars>>
    /\ UNCHANGED <<storeVars, switchVars, permit, todo, log, clock, userVars>>

\* handle_request: the server gets the request and acts on it.  An upload needs
\* the content that was cached for it.
ServerAccepts ==
    /\ pc = "send" /\ ~ delivered
    /\ request.kind = "upload" => request.txn \in media
    /\ delivered' = TRUE
    /\ log' = IF request.kind = "upload" THEN log ELSE Accept(request)
    /\ UNCHANGED <<storeVars, beingSent, switchVars, permit, pc, todo, request, cancelled,
                   clock, failures, userVars>>

\* Mutant: being_sent is not taken.
SendReturnsBusy == pc = "send" /\ pc' = "loop" /\ beingSent' = beingSent

\* Mutant: the dependents are not applied before the next request.
SendReturnsToCheck == pc = "send" /\ pc' = "check" /\ beingSent' = NoTxn

SendReturns == pc = "send" /\ pc' = "loop" /\ beingSent' = NoTxn

\* mark_as_sent, if the answer came; the process may be on its way out.
MarkAsSent ==
    /\ SendReturns /\ delivered
    /\ \/ deps' = MarkReady(deps, request.txn) /\ queue' = Without(queue, request.txn)
          /\ NothingFails
       \/ deps' \in {deps, MarkReady(deps, request.txn)} /\ queue' = queue
          /\ Fails("store")
       \/ dropping /\ NothingFails /\ UNCHANGED <<deps, queue>>
    /\ UNCHANGED <<media, switchVars, permit, todo, sendVars, log, clock, userVars>>

\* An upload that was cancelled returns nothing to mark.
UploadCancelled ==
    /\ pc = "send" /\ cancelled
    /\ pc' = "loop"
    /\ UNCHANGED <<storeVars, beingSent, switchVars, permit, todo, sendVars, log, clock,
                   failures, userVars>>

\* mark_as_not_being_sent; the answer to a request that arrived may be lost.
SendFailsRecoverably ==
    /\ SendReturns
    /\ IF delivered THEN Fails("lost") ELSE Fails("recoverable")
    /\ enabled' = FALSE
    /\ UNCHANGED <<storeVars, globally, dropping, permit, todo, sendVars, log, clock, userVars>>

\* mark_as_wedged, or drop_failed for a request that has no place in the order;
\* being_sent is taken whether or not the store can be written.
IsOrderSensitive(r) == r.kind # "receipt"
Wedge(r) ==
    IF IsOrderSensitive(r) THEN WithWedged(queue, {r.txn}, TRUE) ELSE Without(queue, r.txn)
SendFailsForGood ==
    /\ SendReturns /\ ~ delivered
    /\ enabled' = FALSE
    /\ IF request.kind = "upload" /\ request.txn \notin media
       THEN NothingFails ELSE Fails("unrecoverable")
    /\ \/ queue' = Wedge(request)
       \/ "store" \in Failures /\ queue' = queue
    /\ UNCHANGED <<deps, media, globally, dropping, permit, todo, sendVars, log, clock, userVars>>

-----------------------------------------------------------------------------
(* The application *)

\* A handle or a RoomSendQueue is at hand, and the lock of the store is free.
Calls(op) == op \in Ops /\ pc \notin {"off", "apply", "stopped"} /\ ~ dropping
Draws(n) == clock + n <= MaxTxn /\ clock' = clock + n
Notify == permit' = TRUE
Quiet == UNCHANGED <<beingSent, switchVars, taskVars, log, failures>>

\* send_raw and redact: push.
Push(op, kind) ==
    /\ Calls(op) /\ Draws(1)
    /\ queue' = queue \cup {NewRequest(clock', clock', FALSE, kind, NoTxn, clock')}
    /\ handles' = handles \cup {NewHandle(clock', IF op = "send" THEN "event" ELSE "redaction",
                                          NoTxn, NoTxn, NoTxn)}
    /\ Notify /\ Quiet
    /\ UNCHANGED <<deps, media, aborted, refused, edits>>

\* send_read_receipt, send_read_markers, set_unread_marker: push_superseding.
\* about is the key that the request supersedes another one on.
SupersededBy(key) == {r \in queue : r.kind = "receipt" /\ r.about = key /\ r.txn # beingSent}
PushSuperseding(key) ==
    /\ Calls("receipt")
    /\ \/ /\ Draws(1) /\ NothingFails /\ Notify
          /\ queue' = (queue \ SupersededBy(key))
                        \cup {NewRequest(clock', clock', TRUE, "receipt", key, clock')}
       \/ /\ Fails("store") /\ UNCHANGED <<clock, permit>>
          /\ \E gone \in SUBSET SupersededBy(key) : queue' = queue \ gone
    /\ UNCHANGED <<deps, media, beingSent, switchVars, taskVars, log, userVars>>

\* send_attachment: cache_media, then push_media.  Some of the writes are done
\* when the store fails.
Uploads(event, file, thumb) ==
    {NewRequest(IF thumb = NoTxn THEN file ELSE thumb, clock + 1, FALSE, "upload", event, 0)}
FileUpload(event, file, thumb) ==
    IF thumb = NoTxn THEN {} ELSE {NewDependent(file, thumb, clock + 1, "file", event, 0)}
FinishUpload(event, file, thumb) ==
    {NewDependent(event, file, clock + 2, "finish", thumb, event)}
SendAttachment(op) ==
    /\ Calls(op) /\ Draws(3)
    /\ LET event == clock + 1
           file == clock + 2
           thumb == IF op = "thumbnail" THEN clock + 3 ELSE NoTxn
           cached == media \cup ({file, thumb} \ {NoTxn})
           queued == queue \cup Uploads(event, file, thumb)
           waiting == deps \cup FileUpload(event, file, thumb)
       IN \/ /\ NothingFails /\ Notify
             /\ media' = cached /\ queue' = queued
             /\ deps' = waiting \cup FinishUpload(event, file, thumb)
             /\ handles' = handles \cup {NewHandle(event, "event", NoTxn, file, thumb)}
          \/ /\ Fails("store") /\ UNCHANGED <<permit, handles>>
             /\ \/ media' \in {media \cup {file}, cached} /\ UNCHANGED <<queue, deps>>
                \/ media' = cached /\ queue' = queued /\ deps' \in {deps, waiting}
    /\ UNCHANGED <<beingSent, switchVars, taskVars, log, aborted, refused, edits>>

\* SendHandle::react and reply: only to what is not sent yet.
IsOwnEvent(d) == d.kind \in {"reply", "finish"}
IsLocalEcho(t) == IsQueued(t) \/ \E d \in deps : d.own = t /\ IsOwnEvent(d)
React(h) ==
    /\ Calls("react") /\ h.kind = "event" /\ IsLocalEcho(h.txn) /\ Draws(1)
    /\ deps' = deps \cup {NewDependent(clock', h.txn, clock', "react", NoTxn, clock')}
    /\ handles' = handles \cup {NewHandle(clock', "reaction", h.txn, NoTxn, NoTxn)}
    /\ Notify /\ Quiet
    /\ UNCHANGED <<queue, media, aborted, refused, edits>>
Reply(h) ==
    /\ Calls("reply") /\ h.kind = "event" /\ IsLocalEcho(h.txn) /\ Draws(1)
    /\ deps' = deps \cup {NewDependent(clock', h.txn, clock', "reply", NoTxn, clock')}
    /\ handles' = handles \cup {NewHandle(clock', "event", h.txn, NoTxn, NoTxn)}
    /\ Notify /\ Quiet
    /\ UNCHANGED <<queue, media, aborted, refused, edits>>

\* Mutant: it does not matter whether the request is being sent.
CancelAnyway(t, q) ==
    \/ /\ IsQueued(t) /\ Notify
       /\ queue' = Without(q, t)
       /\ aborted' = aborted \cup {t} /\ UNCHANGED <<deps, clock, refused>>
    \/ /\ ~ IsQueued(t)
       /\ queue' = q
       /\ refused' = refused \cup ({t} \ aborted) /\ UNCHANGED <<deps, clock, permit, aborted>>

\* cancel_event on the requests q, and what abort_with_reason tells its caller.  A handle
\* can be aborted again: refused are those who are told that it is too late, unless they
\* were told before that it was done.
CancelEvent(t, q) ==
    \/ /\ beingSent = t /\ Draws(1) /\ Notify
       /\ deps' = deps \cup {NewDependent(clock', t, clock', "redact", NoTxn, 0)}
       /\ queue' = q
       /\ aborted' = aborted \cup {t} /\ UNCHANGED refused
    \/ /\ beingSent # t /\ IsQueued(t) /\ Notify
       /\ queue' = Without(q, t)
       /\ aborted' = aborted \cup {t} /\ UNCHANGED <<deps, clock, refused>>
    \/ /\ beingSent # t /\ ~ IsQueued(t)
       /\ queue' = q
       /\ refused' = refused \cup ({t} \ aborted) /\ UNCHANGED <<deps, clock, permit, aborted>>
Abort(h) ==
    /\ Calls("abort") /\ h.kind # "reaction" /\ h.file = NoTxn
    /\ CancelEvent(h.txn, queue)
    /\ Quiet /\ UNCHANGED <<media, handles, edits>>

\* Mutant: a reaction that still waits for its event is not looked for.
AbortQueuedReaction(h) ==
    /\ Calls("abort") /\ h.kind = "reaction"
    /\ CancelEvent(h.txn, queue)
    /\ Quiet /\ UNCHANGED <<media, handles, edits>>

\* SendReactionHandle::abort
AbortReaction(h) ==
    /\ Calls("abort") /\ h.kind = "reaction"
    /\ IF IsDependent(h.txn)
       THEN /\ deps' = WithoutDep(deps, h.txn)
            /\ aborted' = aborted \cup {h.txn}
            /\ UNCHANGED <<queue, clock, permit, refused>>
       ELSE CancelEvent(h.txn, queue)
    /\ Quiet /\ UNCHANGED <<media, handles, edits>>

\* abort_upload: the thumbnail that is queued goes with the two requests that
\* depend on it, or else the file that is queued with the one that depends on it,
\* or else the event that depends on the file.  When none of them is left, the
\* event is queued, or sent.
FileWaits(h) == h.thumb # NoTxn /\ IsQueued(h.thumb) /\ IsDependent(h.file)
AbortMedia(h) ==
    /\ Calls("abort") /\ h.file # NoTxn
    /\ LET gone == IF FileWaits(h) THEN {h.thumb} ELSE {h.thumb, h.file}
           left == {r \in queue : r.txn \notin gone}
           fileLeft == IF FileWaits(h) THEN WithoutDep(deps, h.file) ELSE deps
       IN /\ IF beingSent \in gone \ {NoTxn}
             THEN beingSent' = NoTxn /\ cancelled' = TRUE
             ELSE UNCHANGED <<beingSent, cancelled>>
          /\ \/ /\ FileWaits(h) \/ IsQueued(h.file) \/ IsDependent(h.txn)
                /\ queue' = left /\ deps' = WithoutDep(fileLeft, h.txn)
                /\ media' = media \ {h.file, h.thumb}
                /\ aborted' = aborted \cup {h.txn}
                /\ Notify /\ NothingFails /\ UNCHANGED <<clock, refused>>
             \/ /\ ~ FileWaits(h) /\ ~ IsQueued(h.file) /\ ~ IsDependent(h.txn)
                /\ CancelEvent(h.txn, left)
                /\ NothingFails /\ UNCHANGED media
             \/ /\ Fails("store") /\ queue' = left
                /\ deps' \in {deps, fileLeft, WithoutDep(fileLeft, h.txn)}
                /\ UNCHANGED <<media, aborted, refused, permit, clock>>
    /\ UNCHANGED <<switchVars, pc, todo, request, delivered, log, handles, edits>>

\* edit_media_caption, while the event waits for its uploads.
CaptionWaits(h) == h.file # NoTxn /\ IsDependent(h.txn)

\* SendHandle::edit, replace_event; edit_media_caption for a media.
Edit(h) ==
    /\ Calls("edit") /\ h.kind = "event" /\ Draws(1) /\ Notify
    /\ \/ /\ CaptionWaits(h)
          /\ deps' = {IF d.own = h.txn THEN [d EXCEPT !.body = clock'] ELSE d : d \in deps}
          /\ queue' = queue
       \/ /\ ~ CaptionWaits(h) /\ beingSent = h.txn
          /\ deps' = deps \cup {NewDependent(clock', h.txn, clock', "edit", NoTxn, clock')}
          /\ queue' = queue
       \/ /\ ~ CaptionWaits(h) /\ beingSent # h.txn /\ IsQueued(h.txn)
          /\ queue' = WithBody(queue, h.txn, clock')
          /\ deps' = deps
    /\ edits' = edits \cup {[txn |-> h.txn, body |-> clock']}
    /\ Quiet /\ UNCHANGED <<media, handles, aborted, refused>>

\* local_echoes: subscribe returns a SendHandle for every queued event.
EchoHandles == {NewHandle(r.txn, "event", NoTxn, NoTxn, NoTxn) :
                    r \in {q \in queue : q.kind \in EventKind}}

\* Mutant: the task is not woken up.
UnwedgeSilently(h) ==
    /\ Calls("unwedge") /\ h.kind = "event"
    /\ queue' = WithWedged(queue, {h.txn, h.file, h.thumb}, FALSE)
    /\ Quiet
    /\ UNCHANGED <<deps, media, permit, clock, userVars>>

\* SendHandle::unwedge: mark_as_unwedged for the event, the file and the thumbnail.
\* At most one of them is queued, so that they are as good as one step.
Unwedge(h) ==
    /\ Calls("unwedge") /\ h.kind = "event"
    /\ \/ /\ NothingFails /\ Notify
          /\ queue' = WithWedged(queue, {h.txn, h.file, h.thumb}, FALSE)
       \/ /\ Fails("store") /\ UNCHANGED permit
          /\ \E T \in {{}, {h.txn}, {h.txn, h.file}} : queue' = WithWedged(queue, T, FALSE)
    /\ UNCHANGED <<deps, media, beingSent, switchVars, taskVars, log, clock, userVars>>

\* retry_requests_blocked_on_verification, which does not lock the store: the
\* requests whose problem is gone.
RetryVerified(T) ==
    /\ "verify" \in Ops /\ ~ dropping /\ pc # "stopped"
    /\ T # {} /\ queue' = WithWedged(queue, T, FALSE)
    /\ ForRoom /\ Notify
    /\ UNCHANGED <<deps, media, beingSent, globally, dropping, todo, sendVars, log, clock,
                   failures, userVars>>

\* RoomSendQueue::set_enabled
SetEnabled(b) ==
    /\ (IF b THEN "enable" ELSE "disable") \in Ops
    /\ pc \notin {"off", "stopped"} /\ ~ dropping
    /\ enabled' = b
    /\ permit' = (permit \/ b)
    /\ UNCHANGED <<storeVars, beingSent, globally, dropping, taskVars, log, clock, failures,
                   userVars>>

\* SendQueue::set_enabled, and respawn; disable_without_respawning is the case
\* b = FALSE, as respawn returns at once when the queue is disabled.
SetGloballyEnabled(b) ==
    /\ "global" \in Ops /\ pc # "stopped" /\ ~ dropping
    /\ globally' = b
    /\ IF pc = "off"
       THEN /\ permit' = permit
            /\ IF b /\ queue # {} THEN pc' = "loop" /\ enabled' = b
                                 ELSE UNCHANGED <<pc, enabled>>
       ELSE enabled' = b /\ permit' = (permit \/ b) /\ pc' = pc
    /\ UNCHANGED <<storeVars, beingSent, dropping, todo, sendVars, log, clock, failures, userVars>>

-----------------------------------------------------------------------------
(* The end of the process *)

\* Drop for SendQueueData
DropClient ==
    /\ pc \notin {"off", "stopped"} /\ ~ dropping /\ Fails("crash")
    /\ dropping' = TRUE /\ Notify
    /\ UNCHANGED <<storeVars, beingSent, enabled, globally, taskVars, log, clock, userVars>>

\* The process stops, wherever it is, and a new one starts with the same stores.
Restart ==
    /\ IF pc = "stopped" THEN NothingFails ELSE pc # "off" /\ Fails("crash")
    /\ beingSent' = NoTxn /\ enabled' = TRUE /\ globally' = TRUE
    /\ permit' = FALSE /\ dropping' = FALSE
    /\ pc' = "off" /\ todo' = {}
    /\ request' = NoRequest /\ delivered' = FALSE /\ cancelled' = FALSE
    /\ UNCHANGED <<storeVars, log, clock, userVars>>

-----------------------------------------------------------------------------
Apply ==
    \/ \E d \in deps : ApplyPromote(d) \/ ApplyRedaction(d) \/ ApplyLocally(d) \/ ApplyLater(d)
    \/ ApplyEnd
TaskStep ==
    \/ LoopStart \/ Apply \/ CheckEnabled \/ Woken \/ PeekNextToSend
    \/ MarkAsSent \/ UploadCancelled
SendFails == SendFailsRecoverably \/ SendFailsForGood
SubmitStep ==
    \/ Push("send", "message") \/ Push("redact", "redaction")
    \/ PushSuperseding(NoTxn)
    \/ SendAttachment("media") \/ SendAttachment("thumbnail")
HandleStep ==
    \/ \E h \in handles :
        React(h) \/ Reply(h) \/ Edit(h) \/ Abort(h) \/ AbortReaction(h) \/ AbortMedia(h)
    \/ \E h \in handles \cup EchoHandles : Unwedge(h)
Wedged == {r.txn : r \in {q \in queue : q.wedged}}
SwitchStep ==
    \/ \E T \in SUBSET Wedged : RetryVerified(T)
    \/ \E b \in BOOLEAN : SetEnabled(b) \/ SetGloballyEnabled(b)
Next ==
    \/ OpenRoom \/ Respawn \/ TaskStep \/ ServerAccepts \/ SendFails
    \/ SubmitStep \/ HandleStep \/ SwitchStep \/ DropClient \/ Restart

Spec == Init /\ [][Next]_vars

\* The runtime runs the task and the server answers.  An application respawns the
\* tasks when it starts, enables a queue that disabled itself, and retries what
\* is wedged; the lock of the store is fair to it.
FairSpec ==
    /\ Spec
    /\ WF_vars(TaskStep) /\ WF_vars(ServerAccepts) /\ WF_vars(Respawn)
    /\ WF_vars(~ enabled /\ SetEnabled(TRUE))
    /\ SF_vars(\E h \in handles \cup EchoHandles : Unwedge(h) /\ queue' # queue)

-----------------------------------------------------------------------------
LogEntry == [txn : Nat, kind : RequestKind, about : Nat, body : Nat]
RecordsOK ==
    /\ queue \subseteq Request /\ deps \subseteq Dependent /\ media \subseteq Nat
    /\ beingSent \in Nat /\ pc \in Label /\ todo \subseteq Nat /\ request \in Request
    /\ log \in Seq(LogEntry) /\ clock \in Nat /\ failures \in 0..MaxFailures
    /\ handles \subseteq Handle /\ aborted \subseteq Nat /\ refused \subseteq Nat
    /\ edits \subseteq [txn : Nat, body : Nat]
FlagsOK ==
    /\ enabled \in BOOLEAN /\ globally \in BOOLEAN /\ permit \in BOOLEAN
    /\ dropping \in BOOLEAN /\ delivered \in BOOLEAN /\ cancelled \in BOOLEAN
TypeOK == RecordsOK /\ FlagsOK

\* At most one request is on its way, and being_sent names it: no method finds
\* being_sent to be another request than it expects (the error! of
\* peek_next_to_send and mark_as_sent), and dependents are applied, and events
\* edited in place, only when nothing is being sent (in a room that can be had, see
\* PeekNextToSend).
OneAtATime == beingSent # NoTxn => pc = "send" /\ beingSent = request.txn

\* Messages, media among them, reach the server in the order in which they were
\* submitted, whatever request fails, is retried or meets a restart in between (an error
\* of the state store while dependents are applied breaks it, README section 4).
SentInOrder ==
    \A i, j \in DOMAIN log :
        i < j /\ log[i].kind = "message" /\ log[j].kind = "message" => log[i].txn < log[j].txn

\* The same for all that shows up in the timeline as a message of its own.
EventsInOrder ==
    \A i, j \in DOMAIN log :
        i < j /\ log[i].kind \in {"message", "reply"} /\ log[j].kind \in {"message", "reply"}
            => log[i].txn < log[j].txn

\* An edit, reaction, reply or redaction reaches the server after the event that
\* it is about.
ParentFirst ==
    \A i \in DOMAIN log :
        log[i].about # NoTxn => \E j \in 1..(i - 1) : log[j].txn = log[i].about

\* Why it does: transaction ids are never reused, the events that are depended on
\* are events (not uploads or receipts), a parent_key is there only when the
\* server has the parent, and so is a request that is about another event.
IsEventTxn(t) ==
    /\ \A r \in queue \cup {request} : r.txn = t => r.kind \notin {"upload", "receipt"}
    /\ \A d \in deps : d.own = t => d.kind # "file"
TxnInv ==
    /\ \A r \in queue \cup {request} : r.txn <= clock
    /\ \A d \in deps : d.own <= clock /\ d.parent <= clock
    /\ \A h \in handles : h.txn <= clock /\ IsEventTxn(h.txn)
    /\ \A d \in deps : d.kind \notin {"file", "finish"} => IsEventTxn(d.parent)
KeyInv ==
    /\ \A d \in deps : d.kind \notin {"file", "finish"} /\ d.sent => OnServer(d.parent)
    /\ \A r \in queue \cup {request} : r.kind # "upload" /\ r.about # NoTxn => OnServer(r.about)
    /\ delivered /\ request.kind \notin {"upload", "receipt"} => OnServer(request.txn)
CausalInv == TxnInv /\ KeyInv /\ ParentFirst

\* A newer receipt is never overwritten by an older one.
ReceiptsMonotone ==
    \A i, j \in DOMAIN log :
        i < j /\ log[i].kind = "receipt" /\ log[j].kind = "receipt" => log[i].body <= log[j].body

Dead(t) == t \in aborted \/ \E h \in handles : h.txn = t /\ h.about \in aborted

\* What was submitted and neither sent nor aborted (nor about an event that was
\* aborted) is still in the store, and what waits there waits for something that
\* is in the store as well.
NothingLost ==
    /\ \A h \in handles : Dead(h.txn) \/ OnServer(h.txn) \/ IsQueued(h.txn) \/ IsDependent(h.txn)
    /\ \A d \in deps : d.sent \/ IsQueued(d.parent) \/ IsDependent(d.parent) \/ Dead(d.parent)

\* An event whose sending was aborted is not on the server, or was redacted there,
\* or the intent to redact it is in the store (abort_with_reason).
AbortHolds ==
    \A t \in aborted : OnServer(t) =>
        \/ \E i \in DOMAIN log : log[i].kind = "redaction" /\ log[i].about = t
        \/ \E d \in deps : IsRedact(d) /\ d.parent = t

\* abort says that it came too late only when the event was sent (or went away
\* together with the event that it is about).
RefusedWasSent == \A t \in refused : OnServer(t) \/ Dead(t)

\* What the store still has of an attachment: uploads, and requests that wait for one.
LeftOf(h) ==
    {r.txn : r \in {q \in queue : q.kind = "upload" /\ q.about = h.txn}}
      \cup {d.own : d \in {e \in deps : e.own \in {h.txn, h.file}}}

\* Once the upload of a media was aborted, "all the requests and dependent requests
\* have been cleaned up" (the comment at the end of abort_upload).
AbortedUploadIsGone ==
    \A h \in handles : h.file # NoTxn /\ h.txn \in aborted => LeftOf(h) = {}

\* At whatever stage of its requests the upload of a media was aborted, nothing more comes
\* of it: no upload of the thumbnail is left, no event that waits for the uploads, and a
\* file that is left, which can only be one behind a thumbnail, has lost the content it
\* would upload (abort_upload). An event that was in the queue by then is AbortHolds'.
AbortedUploadSendsNothing ==
    \A h \in handles : h.file # NoTxn /\ h.txn \in aborted =>
        /\ LeftOf(h) \subseteq {h.file} \ media
        /\ h.thumb = NoTxn => LeftOf(h) = {}

\* When an event that was edited has been sent, and no edit of it is waiting, then
\* the server has the content of the last edit, or one after it.
Settled(t) ==
    /\ \A r \in queue : r.txn # t /\ ~ (r.kind = "edit" /\ r.about = t)
    /\ \A d \in deps : d.own # t /\ ~ (d.kind = "edit" /\ d.parent = t)
EditsArrive ==
    \A e \in edits : Settled(e.txn) /\ OnServer(e.txn) /\ ~ Dead(e.txn) =>
        \E i \in DOMAIN log : log[i].body >= e.body /\ e.txn \in {log[i].txn, log[i].about}

\* The same as long as every request succeeds: whether an edit is made before,
\* while or after its event is sent, or its caption waits for uploads, it counts
\* (replace_event, edit_media_caption, canonicalize_dependent_requests).
EditsArriveUndisturbed == failures = 0 => EditsArrive

\* A queue that was disabled does not start to send another request ("the
\* disablement will happen before the next request is sent").
DisabledSendsNothing == [][pc = "peek" /\ pc' = "send" => enabled]_vars

\* Whatever is queued is sent, or dropped, in the end.
QueueDrains == queue # {} ~> queue = {}

\* A dependent request whose parent was sent is applied in the end, without
\* another call of the application (apply_dependent_requests at the top of the
\* loop of sending_task).  A redaction is tried once; see RedactionApplied.
ReadyApplied ==
    (\E d \in deps : d.sent /\ ~ IsRedact(d)) ~> (\A d \in deps : d.sent => IsRedact(d))
RedactionApplied == (\E d \in deps : d.sent /\ IsRedact(d)) ~> (\A d \in deps : ~ d.sent)

=============================================================================
