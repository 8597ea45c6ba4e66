---------------------------- MODULE ChunkReaders ----------------------------
(***************************************************************************)
(* What reads the updates of a linked chunk: the tables of an event cache  *)
(* store, and UpdateToVectorDiff, which turns updates into changes of a    *)
(* flat vector and is also what the order tracker is made of.              *)
(***************************************************************************)
EXTENDS LinkedChunk, FiniteSets, FiniteSetsExt

(* The tables of the store, joined: chunk identifier to links, token and   *)
(* the items in the order of their positions. Refused stands for an error  *)
(* of the transaction (or a panic of the in-memory store): unknown chunk,  *)
(* identifier used twice, position or event taken.                         *)
Row(prev, next, gap, items) == [prev |-> prev, next |-> next, gap |-> gap, items |-> items]
NoRows == [id \in {} |-> Row(NoChunk, NoChunk, NoToken, <<>>)]
Refused == [id \in {NoChunk} |-> Row(NoChunk, NoChunk, NoToken, <<>>)]

StoredEvents(rows) == UNION {ToSet(rows[id].items) : id \in DOMAIN rows}

\* UPDATE linked_chunks SET next / previous: no row, no change.
SetNext(rows, id, next) == IF id \in DOMAIN rows THEN [rows EXCEPT ![id].next = next] ELSE rows
SetPrev(rows, id, prev) == IF id \in DOMAIN rows THEN [rows EXCEPT ![id].prev = prev] ELSE rows

InsertChunk(rows, u) ==
  IF u.new \in DOMAIN rows \/ ~({u.prev, u.next} \ {NoChunk} \subseteq DOMAIN rows)
  THEN Refused
  ELSE LET linked == SetPrev(SetNext(rows, u.prev, u.new), u.next, u.new)
       IN [id \in DOMAIN rows \cup {u.new} |->
             IF id = u.new THEN Row(u.prev, u.next, u.gap, <<>>) ELSE linked[id]]

DeleteChunk(rows, id) ==
  IF id \notin DOMAIN rows THEN Refused
  ELSE LET linked == SetPrev(SetNext(rows, rows[id].prev, rows[id].next),
                             rows[id].next, rows[id].prev)
       IN [x \in DOMAIN rows \ {id} |-> linked[x]]

HasPosition(rows, at) == at.chunk \in DOMAIN rows /\ at.index < Len(rows[at.chunk].items)

\* PushItems: a position or an event that is taken breaks a constraint of the tables.
AppendItems(rows, at, items) ==
  IF items = <<>> THEN rows
  ELSE IF /\ at.chunk \in DOMAIN rows
          /\ at.index = Len(rows[at.chunk].items)
          /\ ToSet(items) \cap StoredEvents(rows) = {}
       THEN [rows EXCEPT ![at.chunk].items = @ \o items]
       ELSE Refused

ApplyUpdate(rows, u) ==
  IF rows = Refused THEN Refused
  ELSE CASE u.type = "NewChunk" -> InsertChunk(rows, u)
         [] u.type = "RemoveChunk" -> DeleteChunk(rows, u.id)
         [] u.type = "PushItems" -> AppendItems(rows, u.at, u.items)
         [] u.type = "ReplaceItem" ->
              IF HasPosition(rows, u.at)
              THEN [rows EXCEPT ![u.at.chunk].items[u.at.index + 1] = u.item] ELSE Refused
         [] u.type = "RemoveItem" ->
              IF HasPosition(rows, u.at)
              THEN [rows EXCEPT ![u.at.chunk].items = RemoveAt(@, u.at.index + 1)] ELSE Refused
         [] u.type = "DetachLastItems" ->
              [rows EXCEPT ![u.at.chunk].items = SubSeq(@, 1, u.at.index)]
         [] u.type = "Clear" -> NoRows
         [] OTHER -> rows

\* handle_linked_chunk_updates: one transaction.
Apply(rows, updates) == FoldLeft(ApplyUpdate, rows, updates)

-----------------------------------------------------------------------------
(* Reading the store.                                                      *)
Raw(rows, id) ==
  [id |-> id, prev |-> rows[id].prev, next |-> rows[id].next,
   gap |-> rows[id].gap, items |-> rows[id].items]

LastIds(rows) == {id \in DOMAIN rows : rows[id].next = NoChunk}
LastId(rows) == CHOOSE id \in LastIds(rows) : TRUE
MaxId(rows) == Max(DOMAIN rows)

\* load_previous_chunk: the row whose next is the given chunk.
PreviousIds(rows, id) == {p \in DOMAIN rows : rows[p].next = id}

\* The rows by their links, last to first; it has as many steps as there are rows.
Backwards(rows) ==
  LET chain[n \in 1 .. Cardinality(DOMAIN rows)] ==
        IF n = 1 THEN LastId(rows)
        ELSE IF chain[n - 1] \in DOMAIN rows THEN rows[chain[n - 1]].prev ELSE NoChunk
  IN chain

\* What load_linked_chunk_metadata verifies.
WellFormed(rows) ==
  \/ rows = NoRows
  \/ /\ Cardinality(LastIds(rows)) = 1
     /\ LET chain == Backwards(rows) IN
          /\ {chain[n] : n \in DOMAIN chain} = DOMAIN rows
          /\ rows[chain[Cardinality(DOMAIN rows)]].prev = NoChunk
          /\ \A n \in DOMAIN chain : n > 1 => rows[chain[n]].next = chain[n - 1]

Chain(rows) ==
  IF rows = NoRows THEN <<>>
  ELSE LET back == Backwards(rows)
       IN [n \in DOMAIN back |->
             LET id == back[Cardinality(DOMAIN rows) - n + 1]
             IN Chunk(id, rows[id].gap, rows[id].items)]

\* filter_duplicated_events.
Duplicates(rows, events) ==
  UNION {{[event |-> rows[id].items[j], at |-> Position(id, j - 1)] :
            j \in {k \in DOMAIN rows[id].items : rows[id].items[k] \in events}} : id \in DOMAIN rows}

-----------------------------------------------------------------------------
(* UpdateToVectorDiff: the chunks it knows, as identifier and length, and  *)
(* the vector its diffs are applied to.                                    *)
Tracked(chunks) == [i \in DOMAIN chunks |-> [id |-> chunks[i].id, len |-> Len(chunks[i].items)]]
Mapper(chunks) == [chunks |-> Tracked(chunks), vector |-> ItemsOf(chunks),
                   reattaching |-> FALSE, detaching |-> FALSE]

Knows(m, id) == \E i \in DOMAIN m.chunks : m.chunks[i].id = id
At(m, id) == CHOOSE i \in DOMAIN m.chunks : m.chunks[i].id = id
AddLen(sum, chunk) == sum + chunk.len
Offset(m, at) == FoldLeft(AddLen, at.index, SubSeq(m.chunks, 1, At(m, at.chunk) - 1))

\* A chunk without neighbours that is not the first one is unreachable!: what is then known
\* of the chunks agrees with no linked chunk.
MapNewChunk(m, u) ==
  LET new == [id |-> u.new, len |-> 0] IN
  CASE u.next = NoChunk /\ (u.prev # NoChunk \/ m.chunks = <<>>) ->
         [m EXCEPT !.chunks = Append(@, new)]
    [] u.next = NoChunk /\ u.prev = NoChunk /\ m.chunks # <<>> ->
         [m EXCEPT !.chunks = <<[id |-> NoChunk, len |-> 0]>>]
    [] u.next # NoChunk /\ u.prev = NoChunk -> [m EXCEPT !.chunks = <<new>> \o @]
    [] OTHER -> IF Knows(m, u.next)
                THEN [m EXCEPT !.chunks = InsertAt(@, At(m, u.next), new)] ELSE m

\* Appends need no index, so they are right only if nothing is detached.
MapPushAlwaysAppends(m, u) ==
  LET i == At(m, u.at.chunk)
      back == i = Len(m.chunks) /\ u.at.index >= m.chunks[i].len
      grown == [m EXCEPT !.chunks[i].len = @ + Len(u.items)]
      offset == Offset(m, u.at)
  IN CASE m.reattaching -> grown
       [] back /\ ~m.reattaching -> [grown EXCEPT !.vector = @ \o u.items]
       [] OTHER -> [grown EXCEPT !.vector = SubSeq(@, 1, offset) \o u.items
                                              \o SubSeq(@, offset + 1, Len(@))]
MapPush(m, u) ==
  LET i == At(m, u.at.chunk)
      back == i = Len(m.chunks) /\ u.at.index >= m.chunks[i].len
      grown == [m EXCEPT !.chunks[i].len = @ + Len(u.items)]
      offset == Offset(m, u.at)
  IN CASE m.reattaching -> grown
       [] back /\ ~m.detaching /\ ~m.reattaching -> [grown EXCEPT !.vector = @ \o u.items]
       [] OTHER -> [grown EXCEPT !.vector = SubSeq(@, 1, offset) \o u.items
                                              \o SubSeq(@, offset + 1, Len(@))]

MapRemoveChunk(m, id) ==
  LET i == At(m, id)
      from == Offset(m, Position(id, 0))
  IN [m EXCEPT !.chunks = RemoveAt(@, i),
               !.vector = SubSeq(@, 1, from) \o SubSeq(@, from + m.chunks[i].len + 1, Len(@))]

MapRemoveItem(m, at) ==
  LET shorter == [m EXCEPT !.chunks[At(m, at.chunk)].len = @ - 1]
  IN IF m.reattaching THEN shorter
     ELSE [shorter EXCEPT !.vector = RemoveAt(@, Offset(m, at) + 1)]

\* An update of a chunk that is not known is skipped, with an error in the log.
MapUpdate(m, u) ==
  CASE u.type = "NewChunk" -> MapNewChunk(m, u)
    [] u.type = "RemoveChunk" -> IF Knows(m, u.id) THEN MapRemoveChunk(m, u.id) ELSE m
    [] u.type = "StartReattachItems" -> [m EXCEPT !.reattaching = TRUE]
    [] u.type = "EndReattachItems" -> [m EXCEPT !.reattaching = FALSE, !.detaching = FALSE]
    [] u.type = "Clear" -> [m EXCEPT !.chunks = <<>>, !.vector = <<>>]
    [] u.type \in {"PushItems", "ReplaceItem", "RemoveItem", "DetachLastItems"} ->
         CASE ~Knows(m, u.at.chunk) -> m
           [] u.type = "PushItems" /\ Knows(m, u.at.chunk) -> MapPush(m, u)
           [] u.type = "ReplaceItem" /\ Knows(m, u.at.chunk) ->
                [m EXCEPT !.vector[Offset(m, u.at) + 1] = u.item]
           [] u.type = "RemoveItem" /\ Knows(m, u.at.chunk) -> MapRemoveItem(m, u.at)
           [] u.type = "DetachLastItems" /\ Knows(m, u.at.chunk) ->
                [m EXCEPT !.chunks[At(m, u.at.chunk)].len = u.at.index, !.detaching = TRUE]

\* UpdateToVectorDiff::map; the two flags live for one call.
MapUpdates(m, updates) ==
  [FoldLeft(MapUpdate, m, updates) EXCEPT !.reattaching = FALSE, !.detaching = FALSE]

\* OrderTracker: only the lengths matter, so the vector may hold anything.
TrackUpdates(tracked, updates) ==
  LET size == FoldLeft(AddLen, 0, tracked)
  IN MapUpdates([chunks |-> tracked, vector |-> [i \in 1 .. size |-> 0],
                 reattaching |-> FALSE, detaching |-> FALSE], updates).chunks
=============================================================================
