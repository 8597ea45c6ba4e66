--------------------------- MODULE RoomEventCache ---------------------------
(***************************************************************************)
(* The event cache of one room: a lazily loaded linked chunk in memory,    *)
(* its mirror in the store, the vector of a subscriber, the order tracker; *)
(* sync, back-pagination, the send queue and maintenance change them. Each *)
(* handler runs under the write lock of the state; a pagination gives the  *)
(* lock up while it talks to the server and before it sets its status.     *)
(*                                                                         *)
(* Events are numbered in the order of the server, which knows 1..head.    *)
(* A token k stands for the events before k.                               *)
(***************************************************************************)
EXTENDS ChunkReaders

CONSTANTS
  Pagers,         \* callers of run_backwards_until
  MaxEvents,      \* bound: events on the server
  Own,            \* the events this user sends
  Muted,          \* the events of a user who may become ignored
  Limit,          \* timeline limit of a sync
  Batch,          \* limit of /messages
  Ops,            \* which of the optional actions happen
  MaxDisturb      \* bound: resyncs, restarts, shrinks, purges, failures ...

ASSUME RoomEventCacheAssumption ==
  /\ {MaxEvents, Limit, Batch} \subseteq Nat \ {0}
  /\ MaxDisturb \in Nat
  /\ Own \cup Muted \subseteq 1 .. MaxEvents
  /\ Ops \subseteq {"sent", "resync", "lag", "shrink", "restart", "ignore", "purge", "fail"}

VARIABLES
  cache,      \* lc, rows of the store, vector and tracked as the readers know them
  waited,     \* waited_for_initial_prev_token
  status,     \* SharedPaginationStatus: idle, hit (idle at the start), paginating
  pager,      \* the paginations: pc, token asked for, `upto', outcome
  head,       \* the server has the events 1..head
  pos,        \* the client has been sent the events up to this one
  sent,       \* own events the send queue has put into the cache
  displaced,  \* ghost: own events the send queue put at the end, out of their place
  misled,     \* ghost: what has been done that may leave holes (see MisledBy)
  ignored,    \* the sender of Muted is ignored
  cutoff,     \* ghost: events before this one have been purged
  disturb     \* disturbances so far

vars == <<cache, waited, status, pager, head, pos, sent, displaced, misled, ignored, cutoff, disturb>>
ghosts == <<displaced, misled>>
server == <<head, pos, ignored, cutoff>>

-----------------------------------------------------------------------------
(* The server (external).                                                  *)
Visible(e) == ~(ignored /\ e \in Muted)
InOrder(S) == CHOOSE s \in [1 .. Cardinality(S) -> S] : \A i, j \in DOMAIN s : i < j => s[i] < s[j]
Between(lo, hi) == InOrder({e \in lo .. hi : Visible(e)})
First(hi, n) == IF hi - n + 1 < 1 THEN 1 ELSE hi - n + 1
\* The end token of a response that starts at event k; at the first event there may be none.
Tokens(k) == IF k = 1 THEN {NoToken, 1} ELSE {k}

-----------------------------------------------------------------------------
(* EventLinkedChunk and persistence: the store, the vector, the tracker.   *)
HasEvents(c) == ItemsOf(c.lc.chunks) # <<>>
Gaps(lc) == {i \in DOMAIN lc.chunks : IsGap(lc.chunks[i])}

\* propagate_changes: the store takes what it has not seen.
Propagate(c) ==
  [c EXCEPT !.rows = Apply(@, c.lc.log["store"]), !.lc = Take(@, "store")]

\* updates_as_vector_diffs, which also flushes the order tracker.
UpdatesAsVectorDiffs(c) ==
  [c EXCEPT !.vector = MapUpdates(@, c.lc.log["vector"]),
            !.tracked = TrackUpdates(@, c.lc.log["tracker"]),
            !.lc = Take(Take(@, "vector"), "tracker")]

\* A linked chunk with no chunk at all makes its first one, which the store has yet to see.
FreshChunk(lc) == Take(FirstChunk(lc), "tracker")

\* RoomEventCacheState::new with what the store holds.
Open(rows) ==
  LET raw == Raw(rows, LastId(rows))
      lc  == IF rows = NoRows THEN Take(FreshChunk(NewLinkedChunk), "vector")
             ELSE [NewLinkedChunk EXCEPT !.chunks = <<Chunk(raw.id, raw.gap, raw.items)>>,
                                         !.lazy = raw.prev, !.gen = MaxId(rows)]
  IN [lc |-> lc, rows |-> rows, vector |-> Mapper(lc.chunks), panicked |-> "no",
      tracked |-> Tracked(IF rows = NoRows THEN lc.chunks ELSE Chain(rows))]

\* shrink_to_last_reloaded_chunk. A store that is malformed is cleared.
ShrinkTo(c, rows) ==
  LET last == ReplaceWith(c.lc, Raw(rows, LastId(rows)), MaxId(rows))
      none == FreshChunk(Take(ClearAll(c.lc), "store"))
  IN [c EXCEPT !.rows = rows,
               !.lc = IF rows = NoRows THEN none ELSE Take(Take(last, "store"), "tracker"),
               !.tracked = Tracked(IF rows = NoRows THEN none.chunks ELSE Chain(rows))]
ShrinkToLastReloadedChunk(c) == ShrinkTo(c, IF WellFormed(c.rows) THEN c.rows ELSE NoRows)

\* reload(ForgetAll), what clear_all_rooms does to the room.
ForgetAll(c) ==
  UpdatesAsVectorDiffs(ShrinkToLastReloadedChunk(Propagate([c EXCEPT !.lc = ClearAll(@)])))

Above(a, b) == a.chunk > b.chunk \/ (a.chunk = b.chunk /\ a.index > b.index)
SortDescending(positions) ==
  CHOOSE s \in [1 .. Cardinality(positions) -> positions] :
    \A i, j \in DOMAIN s : i < j => Above(s[i], s[j])

\* remove_events: those of unloaded chunks first, and only in the store.
RemoveFromStoreUntracked(c, updates) == [c EXCEPT !.rows = Apply(@, updates)]
RemoveFromStore(c, updates) ==
  [c EXCEPT !.tracked = TrackUpdates(@, updates), !.rows = Apply(@, updates)]

RemoveFromMemory(c, positions) ==
  CASE positions = {} -> c
    [] \E at \in positions : ~IsItem(c.lc, at) -> [c EXCEPT !.panicked = "remove"]
    [] OTHER -> Propagate([c EXCEPT !.lc = FoldLeft(RemoveItemAt, @, SortDescending(positions))])

RemoveEvents(c, inMemory, inStore) ==
  LET sorted == SortDescending({d.at : d \in inStore})
      first  == IF inStore = {} THEN c
                ELSE RemoveFromStore(c, [i \in DOMAIN sorted |-> RemoveItem(sorted[i])])
  IN RemoveFromMemory(first, {d.at : d \in inMemory})

-----------------------------------------------------------------------------
(* The deduplicator.                                                       *)
SplitByMemory(c, found) ==
  [memory |-> {d \in found : d.at.chunk \in Ids(c.lc)},
   store |-> {d \in found : d.at.chunk \notin Ids(c.lc)}]

\* duplicates_are_ordered_like_the_linked_chunk.
OrderedLikeLinkedChunk(c, events, inStore) ==
  LET items == ItemsOf(c.lc.chunks)
      index(e) == CHOOSE i \in DOMAIN items : items[i] = e
  IN \/ inStore # {}
     \/ \E i \in DOMAIN events : events[i] \notin ToSet(items)
     \/ \A i \in 1 .. Len(events) - 1 : index(events[i]) < index(events[i + 1])
     \/ \A i \in 1 .. Len(events) - 1 : index(events[i]) > index(events[i + 1])

\* filter_duplicate_events.
Outcome(c, events, found, split) ==
  [memory |-> split.memory, store |-> split.store,
   all |-> /\ ToSet(events) \ Own # {}
           /\ Cardinality(found) = Len(events)
           /\ OrderedLikeLinkedChunk(c, events, split.store)]
FilterDuplicateEvents(c, events) ==
  LET found == Duplicates(c.rows, ToSet(events))
  IN Outcome(c, events, found, SplitByMemory(c, found))

-----------------------------------------------------------------------------
(* handle_sync.                                                            *)
\* The length of the longest tail of the linked chunk that the new events begin with.
CommonTail(c, events) ==
  LET items == ItemsOf(c.lc.chunks)
  IN Max({n \in 0 .. Len(events) : n <= Len(items) /\
            SubSeq(items, Len(items) - n + 1, Len(items)) = SubSeq(events, 1, n)})

\* push_gap: an empty last chunk of items goes once the gap is there.
PushGap(lc, token) ==
  LET n == Len(lc.chunks)
      pushed == PushGapBack(lc, token)
  IN IF ~IsGap(lc.chunks[n]) /\ lc.chunks[n].items = <<>>
     THEN RemoveEmptyChunkAt(pushed, lc.chunks[n].id) ELSE pushed

PushLiveEvents(lc, token, events) ==
  PushItemsBack(IF token = NoToken THEN lc ELSE PushGap(lc, token), events)

\* The token that is kept.
KeptTokenIfEmpty(c, all, limited, token) == IF HasEvents(c) \/ all THEN NoToken ELSE token
KeptToken(c, all, limited, token) ==
  IF (~limited /\ HasEvents(c)) \/ all THEN NoToken ELSE token

\* The last `tail' events of the linked chunk, at the positions `at', are replaced in place.
ReplaceOne(lc, known) == ReplaceItemAt(lc, known.at, known.event)
ReplaceTail(c, at, tail, events) ==
  [c EXCEPT !.lc = FoldLeft(ReplaceOne, @, [i \in 1 .. tail |->
                      [at |-> at[Len(at) - tail + i], event |-> events[i]]])]

\* The other duplicates go, and then the gap and the rest of the events come to the end.
RemoveAndPush(c, at, tail, dups, gap, events) ==
  LET kept == {at[i] : i \in Len(at) - tail + 1 .. Len(at)}
      removed == RemoveEvents(ReplaceTail(c, at, tail, events),
                              {d \in dups.memory : d.at \notin kept}, dups.store)
  IN Propagate([removed EXCEPT !.lc =
       PushLiveEvents(@, gap, SubSeq(events, tail + 1, Len(events)))])

PushUnknown(c, dups, gap, limited, events) ==
  LET tail == IF gap = NoToken THEN CommonTail(c, events) ELSE 0
      ShrinkIfGap(pushed) == IF limited /\ gap # NoToken THEN ShrinkToLastReloadedChunk(pushed)
                             ELSE pushed
  IN UpdatesAsVectorDiffs(ShrinkIfGap(RemoveAndPush(c, Positions(c.lc), tail, dups, gap, events)))

HandleSync(c, dups, events, limited, token) ==
  IF dups.all THEN c
  ELSE PushUnknown(c, dups, KeptToken(c, dups.all, limited, token), limited, events)

-----------------------------------------------------------------------------
(* Back-pagination.                                                        *)
\* push_backwards_pagination_events; gap is the chunk the answer is for, or NoChunk.
Fill(lc, gap, events) ==
  LET alone == Len(lc.chunks) = 1 IN
  CASE gap # NoChunk /\ events = <<>> /\ ~alone -> RemoveEmptyChunkAt(lc, gap)
    [] gap # NoChunk /\ (events # <<>> \/ alone) -> ReplaceGapAt(lc, gap, events)
    [] gap = NoChunk /\ Positions(lc) # <<>> -> InsertItemsAt(lc, Positions(lc)[1], events)
    [] OTHER -> PushItemsBack(lc, events)

\* The position before which the next gap belongs, if there is one.
PlaceOfGap(lc, gap, events, filled) ==
  LET alone == Len(lc.chunks) = 1
      next  == IdOf(lc, IndexOf(lc, gap) + 1)
  IN CASE gap # NoChunk /\ events = <<>> /\ ~alone ->
            IF next = NoChunk THEN <<>> ELSE <<Position(next, 0)>>
       [] gap # NoChunk /\ (events # <<>> \/ alone) -> <<Position(lc.gen + 1, 0)>>
       [] gap = NoChunk /\ Positions(lc) # <<>> -> <<Positions(lc)[1]>>
       [] OTHER -> IF events = <<>> THEN <<>> ELSE <<Positions(filled)[1]>>

PutGap(c, filled, place, token) ==
  LET onGap == place # <<>> /\ IsGap(filled.chunks[IndexOf(filled, place[1].chunk)])
  IN CASE token = NoToken -> [c EXCEPT !.lc = filled]
       [] token # NoToken /\ place = <<>> -> [c EXCEPT !.lc = PushGapBack(filled, token)]
       [] token # NoToken /\ onGap -> [c EXCEPT !.lc = filled, !.panicked = "gap"]
       [] OTHER -> [c EXCEPT !.lc = InsertGapAt(filled, token, place[1])]

PushFilled(c, gap, token, events, filled) ==
  PutGap(c, filled, PlaceOfGap(c.lc, gap, events, filled), token)
PushBackwards(c, gap, token, events) ==
  PushFilled(c, gap, token, events, Fill(c.lc, gap, events))

\* conclude_backwards_pagination_from_network, once the gap is known to be there still.
PushPage(c, dups, gap, token, events) ==
  IF dups.all THEN PushBackwards(c, gap, NoToken, <<>>)
  ELSE PushBackwards(RemoveEvents(c, dups.memory, dups.store), gap, token, events)

Flush(c) == IF c.panicked = "gap" THEN c ELSE UpdatesAsVectorDiffs(Propagate(c))

Conclude(c, dups, gap, token, events) ==
  Flush(PushPage([c EXCEPT !.panicked = "no"], dups, gap, token, events))

ReachedLoadedStart(lc) == Gaps(lc) = {}
ReachedStart(lc) == Gaps(lc) = {} /\ IsDefinitiveHead(lc)
-----------------------------------------------------------------------------
(* Initial state.                                                          *)
Quiet == [pc |-> "idle", token |-> NoToken, events |-> <<>>, end |-> NoToken, hit |-> FALSE]

Init ==
  /\ cache = Open(NoRows)
  /\ waited = FALSE
  /\ status = "idle"
  /\ pager = [p \in Pagers |-> Quiet]
  /\ head = 1
  /\ pos = 0
  /\ sent = {}
  /\ displaced = {}
  /\ misled = {}
  /\ ignored = FALSE
  /\ cutoff = 1
  /\ disturb = 0

Disturbed(op) ==
  /\ op \in Ops
  /\ disturb < MaxDisturb
  /\ disturb' = disturb + 1

(* Sync and the send queue.                                                *)
\* Someone sends an event (the server is external).
NewEvent ==
  /\ head < MaxEvents
  /\ head' = head + 1
  /\ UNCHANGED <<cache, waited, status, pager, pos, sent, ghosts, ignored, cutoff, disturb>>

\* Ghost: the gaps of the room are not in the order of their tokens, so that one leads to events
\* that come after another one.
Crossed(chain) ==
  \E i, j \in DOMAIN chain :
    i < j /\ IsGap(chain[i]) /\ IsGap(chain[j]) /\ chain[i].gap > chain[j].gap
CrossedBy(c) == IF WellFormed(c.rows) /\ Crossed(Chain(c.rows)) THEN {"crossed"} ELSE {}

\* handle_timeline of the server's answer, which begins at event lo.
HandleEvents(events, dups, limited, token) ==
  LET gap == KeptToken(cache, dups.all, limited, token)
  IN /\ cache' = IF events = <<>> /\ token = NoToken THEN cache
                 ELSE HandleSync(cache, dups, events, limited, token)
     /\ waited' = (waited \/ gap # NoToken)
     /\ status' = IF limited /\ gap # NoToken THEN "idle" ELSE status
     /\ displaced' = IF dups.all THEN displaced ELSE displaced \ ToSet(events)
     /\ misled' = misled \cup CrossedBy(cache')
     /\ pos' = head
     /\ UNCHANGED <<pager, head, sent, ignored, cutoff>>
HandleTimeline(lo, limited) ==
  LET events == Between(lo, head)
  IN \E token \in Tokens(lo) :
       HandleEvents(events, FilterDuplicateEvents(cache, events), limited, token)

\* The next response of a running session.
Sync ==
  /\ pos < head
  /\ LET lo == IF First(head, Limit) < pos + 1 THEN pos + 1 ELSE First(head, Limit)
     IN HandleTimeline(lo, lo > pos + 1)
  /\ UNCHANGED disturb

\* The first response of a new session: the last events, known or not.
Resync ==
  /\ Disturbed("resync")
  /\ HandleTimeline(First(head, Limit), First(head, Limit) > 1)

\* The room updates were more than the channel holds: handle_room_updates clears the rooms.
Lagged ==
  /\ Disturbed("lag")
  /\ pos < head
  /\ pos' = head
  /\ cache' = ForgetAll(cache)
  /\ waited' = FALSE
  /\ status' = "idle"
  /\ displaced' = {}
  /\ misled' = {}
  /\ UNCHANGED <<pager, head, sent, ignored, cutoff>>

\* insert_sent_event_from_send_queue: the answer to a send, before or after the sync.
InsertSentEvent(e) ==
  /\ "sent" \in Ops
  /\ e \in Own \ sent
  /\ e <= head
  /\ sent' = sent \cup {e}
  /\ cache' = IF HasEvents(cache) THEN HandleSync(cache, FilterDuplicateEvents(cache, <<e>>), <<e>>, FALSE, NoToken)
              ELSE cache
  /\ displaced' = IF ItemsOf(cache'.lc.chunks) = ItemsOf(cache.lc.chunks) THEN displaced
                  ELSE displaced \cup {e}
  /\ UNCHANGED <<waited, status, pager, server, misled, disturb>>

-----------------------------------------------------------------------------
(* Maintenance.                                                            *)
\* auto_shrink_if_no_subscribers, or reload(None) after another process wrote.
AutoShrink ==
  /\ Disturbed("shrink")
  /\ cache' = UpdatesAsVectorDiffs(ShrinkToLastReloadedChunk(cache))
  /\ status' = "idle"
  /\ UNCHANGED <<waited, pager, server, sent, ghosts>>

\* remove_events_sent_by, for a user who has just been ignored. The positions of the events in
\* memory are read from the store here, from the linked chunk in the code: StoreMirrorsMemory
\* makes them the same.
RemoveEventsSentBy ==
  /\ Disturbed("ignore")
  /\ ~ignored
  /\ ignored' = TRUE
  /\ LET split == SplitByMemory(cache, Duplicates(cache.rows, Muted))
     IN cache' = UpdatesAsVectorDiffs(RemoveEvents(cache, split.memory, split.store))
  /\ UNCHANGED <<waited, status, pager, head, pos, sent, ghosts, cutoff>>

\* purge_events_older_than: the leading events of the store that are too old.
PurgeEventsOlderThan(k) ==
  /\ Disturbed("purge")
  /\ LET items == ItemsOf(Chain(cache.rows))
         old   == {i \in DOMAIN items : \A j \in 1 .. i : items[j] < k}
         split == SplitByMemory(cache, Duplicates(cache.rows, {items[i] : i \in old}))
     IN /\ old # {}
        /\ cache' = UpdatesAsVectorDiffs(RemoveEvents(cache, split.memory, split.store))
        /\ displaced' = displaced \ {items[i] : i \in old}
  /\ cutoff' = IF k > cutoff THEN k ELSE cutoff
  /\ UNCHANGED <<waited, status, pager, head, pos, ignored, sent, misled>>

\* The process ends and starts again with what the store has.
Restart ==
  /\ Disturbed("restart")
  /\ cache' = Open(cache.rows)
  /\ waited' = FALSE
  /\ status' = "idle"
  /\ pager' = [p \in Pagers |-> Quiet]
  /\ UNCHANGED <<server, sent, ghosts>>

-----------------------------------------------------------------------------
(* Back-pagination: run_backwards_until of pager p.                        *)
Call(p) ==
  /\ pager[p].pc = "idle"
  /\ pager' = [pager EXCEPT ![p].pc = "start"]
  /\ UNCHANGED <<cache, waited, status, server, sent, ghosts, disturb>>

\* run_backwards_impl. A call that finds a pagination running waits for it.
Start(p) ==
  /\ pager[p].pc = "start"
  /\ status # "paginating"
  /\ status' = IF status = "hit" THEN "hit" ELSE "paginating"
  /\ pager' = [pager EXCEPT ![p].pc = IF status = "hit" THEN "idle" ELSE "load"]
  /\ UNCHANGED <<cache, waited, server, sent, ghosts, disturb>>

Goes(p, pc, token, hit) ==
  pager' = [pager EXCEPT ![p] = [Quiet EXCEPT !.pc = pc, !.token = token, !.hit = hit]]

\* load_more_events_backwards, and what paginate_backwards_impl makes of the outcome.
LoadMore(p) ==
  /\ pager[p].pc = "load"
  /\ LET lc   == cache.lc
         prev == PreviousIds(cache.rows, IdOf(lc, 1))
         raw  == Raw(cache.rows, CHOOSE id \in prev : TRUE)
         inserted == [cache EXCEPT !.lc = Take(Take(InsertNewFirstChunk(lc, raw), "tracker"), "store")]
     IN CASE Gaps(lc) # {} ->
               /\ Goes(p, "network", lc.chunks[Max(Gaps(lc))].gap, FALSE)
               /\ UNCHANGED <<cache, status>>
          [] Gaps(lc) = {} /\ prev = {} ->
               /\ IF HasEvents(cache) THEN Goes(p, "finish", NoToken, TRUE)
                  ELSE Goes(p, IF waited THEN "network" ELSE "wait", NoToken, FALSE)
               /\ UNCHANGED <<cache, status>>
          [] Gaps(lc) = {} /\ prev # {} ->
               IF CanBeFirst(lc, raw)
               THEN /\ cache' = UpdatesAsVectorDiffs(inserted)
                    /\ IF IsGap(raw) THEN Goes(p, "network", raw.gap, FALSE)
                       ELSE Goes(p, "finish", NoToken, raw.prev = NoChunk)
                    /\ UNCHANGED status
               ELSE /\ cache' = [cache EXCEPT !.rows = NoRows]
                    /\ Goes(p, "idle", NoToken, FALSE)
                    /\ status' = "idle"
  /\ UNCHANGED <<waited, server, sent, ghosts, disturb>>

\* A token arrives, or three seconds pass.
WaitForToken(p) ==
  /\ pager[p].pc = "wait"
  /\ waited' = TRUE
  /\ Goes(p, "load", NoToken, FALSE)
  /\ UNCHANGED <<cache, status, server, sent, ghosts, disturb>>

\* /messages: Batch events before the token, or the last ones, less the hidden ones.
Messages(p) ==
  /\ pager[p].pc = "network"
  /\ LET upto == IF pager[p].token = NoToken THEN head ELSE pager[p].token - 1
     IN \E end \in Tokens(First(upto, Batch)) :
          pager' = [pager EXCEPT ![p].pc = "answered", ![p].end = end,
                                 ![p].events = Between(First(upto, Batch), upto)]
  /\ UNCHANGED <<cache, waited, status, server, sent, ghosts, disturb>>

\* The request fails, or the caller goes away: ResetStatusOnDrop.
NetworkFailsKeepsStatus(p) ==
  /\ Disturbed("fail")
  /\ pager[p].pc = "network"
  /\ Goes(p, "idle", NoToken, FALSE)
  /\ UNCHANGED <<cache, waited, status, server, sent, ghosts>>
NetworkFails(p) ==
  /\ Disturbed("fail")
  /\ pager[p].pc = "network"
  /\ Goes(p, "idle", NoToken, FALSE)
  /\ status' = "idle"
  /\ UNCHANGED <<cache, waited, server, sent, ghosts>>

\* paginate_backwards_with_network: an empty answer with the same token is the end.
EndToken(request) ==
  IF request.events = <<>> /\ request.end = request.token THEN NoToken ELSE request.end

\* Ghost: an answer to a request without a token, which nothing ties to the cache, comes
\* after a sync has gone on.
IsStale(request) ==
  /\ request.token = NoToken
  /\ HasEvents(cache) \/ \E e \in 1 .. pos : \A i \in DOMAIN request.events : request.events[i] < e

\* Ghost: why what the answer leaves behind may have a hole. It was put where it does not belong,
\* or without the gap that was to follow; its events were known, and so the gap is dropped
\* although its end leads further; or it leaves the gaps crossed.
MisledBy(request, dups, after) ==
  CrossedBy(after)
  \cup (IF IsStale(request) THEN {"stale"} ELSE {})
  \cup (IF after.panicked = "gap" THEN {"panic"} ELSE {})
  \cup (IF dups.all /\ EndToken(request) # NoToken THEN {"known"} ELSE {})

\* The answer is put into the cache, with its lock; the status is set later.
Concluded(p, request, dups, after) ==
  /\ cache' = after
  /\ misled' = misled \cup MisledBy(request, dups, after)
  /\ displaced' = IF dups.all THEN displaced ELSE displaced \ ToSet(request.events)
  /\ IF after.panicked = "gap"
     THEN Goes(p, "idle", NoToken, FALSE) /\ status' = "idle"
     ELSE Goes(p, "finish", NoToken, ReachedStart(after.lc)) /\ UNCHANGED status

\* The answer meets the cache as it is now. No gap for the token: start over.
ConcludeFromNetwork(p) ==
  /\ pager[p].pc = "answered"
  /\ LET request == pager[p]
         gaps == {i \in Gaps(cache.lc) : cache.lc.chunks[i].gap = request.token}
         gap  == IF gaps = {} THEN NoChunk ELSE IdOf(cache.lc, Max(gaps))
         dups == FilterDuplicateEvents(cache, request.events)
     IN IF request.token # NoToken /\ gaps = {}
        THEN /\ Goes(p, "start", NoToken, FALSE)
             /\ status' = "idle"
             /\ UNCHANGED <<cache, ghosts>>
        ELSE Concluded(p, request, dups,
                       Conclude(cache, dups, gap, EndToken(request), request.events))
  /\ UNCHANGED <<waited, server, sent, disturb>>

\* The outcome becomes the status; run_backwards_until goes on until it has enough events.
Finish(p) ==
  /\ pager[p].pc = "finish"
  /\ status' = IF pager[p].hit THEN "hit" ELSE "idle"
  /\ \/ Goes(p, "idle", NoToken, FALSE)
     \/ /\ ~pager[p].hit
        /\ Goes(p, "start", NoToken, FALSE)
  /\ UNCHANGED <<cache, waited, server, sent, ghosts, disturb>>

Paginate(p) ==
  \/ Start(p) \/ LoadMore(p) \/ WaitForToken(p) \/ Messages(p)
  \/ ConcludeFromNetwork(p) \/ Finish(p)

Next ==
  \/ NewEvent \/ Sync \/ Resync \/ Lagged
  \/ \E e \in Own : InsertSentEvent(e)
  \/ AutoShrink \/ RemoveEventsSentBy \/ Restart
  \/ \E k \in 2 .. MaxEvents : PurgeEventsOlderThan(k)
  \/ \E p \in Pagers : Call(p) \/ Paginate(p) \/ NetworkFails(p)

Spec == Init /\ [][Next]_vars
-----------------------------------------------------------------------------
TypeOK ==
  /\ waited \in BOOLEAN /\ ignored \in BOOLEAN
  /\ status \in {"idle", "hit", "paginating"}
  /\ \A p \in Pagers :
       /\ pager[p].pc \in {"idle", "start", "load", "wait", "network", "answered", "finish"}
       /\ pager[p].token \in 0 .. MaxEvents /\ pager[p].hit \in BOOLEAN
  /\ head \in 1 .. MaxEvents /\ pos \in 0 .. head
  /\ displaced \subseteq sent /\ sent \subseteq Own
  /\ misled \subseteq {"stale", "panic", "known", "crossed"}
  /\ disturb \in 0 .. MaxDisturb

\* What the store holds once it has taken the updates it has yet to see.
Stored == Apply(cache.rows, cache.lc.log["store"])

\* Memory is a suffix of the store, linked to the rest, and what comes next can be loaded:
\* the updates of every operation tell the store exactly what happened; none is refused,
\* so no event is in the room twice, however often it was delivered, and no identifier is
\* used twice; and no position read from the store is stale (handle_sync, remove_events,
\* filter_duplicate_events, push_backwards_pagination_events, lazy loading).
StoreMirrorsMemory ==
  LET Mirrors(stored, chain, n) ==
        /\ stored # Refused
        /\ WellFormed(stored)
        /\ n >= 0
        /\ SubSeq(chain, n + 1, Len(chain)) = cache.lc.chunks
        /\ cache.lc.lazy = IF n = 0 THEN NoChunk ELSE chain[n].id
        /\ cache.lc.gen >= MaxId(stored)
        /\ \A i \in DOMAIN chain : Len(chain[i].items) <= Cap
      chain == Chain(Stored)
  IN /\ cache.panicked # "remove"
     /\ Mirrors(Stored, chain, Len(chain) - Len(cache.lc.chunks))

\* The order tracker knows the length of every chunk, loaded or not, so that the order of
\* two events is what the whole room says (OrderTracker, inhibited while chunks are loaded).
OrderTrackerIsExact ==
  TrackUpdates(cache.tracked, cache.lc.log["tracker"]) = Tracked(Chain(Stored))

\* A subscriber who applied every diff has the events in memory, in their order, although
\* detached items are never removed from its vector (UpdateToVectorDiff).
SubscriberSeesMemory ==
  MapUpdates(cache.vector, cache.lc.log["vector"]) = Mapper(cache.lc.chunks)

\* The events of the server that the cache may lack, or hold elsewhere, for a known reason.
Excused(e) == e \in displaced \/ e < cutoff \/ (ignored /\ e \in Muted)

\* The room as events and gaps, without what is out of place. A gap is NoToken.
LineOf(chain) ==
  SelectSeq(FlattenSeq([i \in DOMAIN chain |->
              IF IsGap(chain[i]) THEN <<NoToken>> ELSE chain[i].items]),
            LAMBDA e : e = NoToken \/ ~Excused(e))
Line == LineOf(Chain(Stored))

\* Where events are missing there is a gap to fetch them with: two events that stand next
\* to each other follow each other on the server. This is what dropping a token for
\* duplicates, for a sync that is not limited, or for the start of the room relies on. It
\* holds as long as no answer was put where it does not belong, no panic lost a gap, and the
\* gaps are in the order of their tokens; each of the three makes holes (README, section 4).
NoSilentHole ==
  LET Consecutive(line) ==
        \A i \in 1 .. Len(line) - 1 :
          line[i] # NoToken /\ line[i + 1] # NoToken =>
            /\ line[i] < line[i + 1]
            /\ \A e \in line[i] + 1 .. line[i + 1] - 1 : Excused(e)
  IN misled \subseteq {"known"} => Consecutive(Line)

\* No gap is left, and the room begins with its first event.
AtStart ==
  LET Begins(line) ==
        /\ NoToken \notin ToSet(line)
        /\ line # <<>> => \A e \in 1 .. line[1] - 1 : Excused(e)
  IN Begins(Line)

\* A pagination finds that it has reached the start of the timeline only if that is so when it
\* looks (reached_start of both conclusions), as long as nothing has misled the room; in
\* particular no gap was dropped, for its page of known events, that led further.
ReachedStartIsTrue ==
  [][\A p \in Pagers : pager'[p].hit /\ ~pager[p].hit /\ misled' = {} => AtStart']_vars

\* The expectation of push_backwards_pagination_events: the place where it puts the next
\* gap is one where a gap can be put, which the position of a gap is not.
NeverPanics == cache.panicked = "no"

\* PaginationStatus::Idle says that the start has been hit only if a pagination would have
\* no effect: there is no gap to fill and no chunk to load.
HitStartIsTrue == status = "hit" => ReachedStart(cache.lc)

\* The events are in the order of the server, but for those a gap will fetch again.
InServerOrder ==
  LET items == ItemsOf(cache.lc.chunks)
  IN Gaps(cache.lc) = {} => \A i \in 1 .. Len(items) - 1 : items[i] < items[i + 1]

\* Whoever keeps paginating gets to the start of the timeline, whatever happened before:
\* no loop of run_backwards_until goes on for ever, no token is asked for again and again.
PaginationReachesStart == <>[](status = "hit")

\* When Paginate(p) is enabled.
Ready(p) == pager[p].pc # "idle" /\ (pager[p].pc = "start" => status # "paginating")

\* Weak fairness of Paginate(p), written out: TLC evaluates the ENABLED of so large an
\* action too slowly.
FairSpec ==
  /\ Spec
  /\ \A p \in Pagers : WF_vars(Call(p))
  /\ \A p \in Pagers : []<>~Ready(p) \/ []<><<Paginate(p)>>_vars
=============================================================================
