---------------------------- MODULE LinkedChunk ----------------------------
(***************************************************************************)
(* LinkedChunk of client-common: a list of chunks, each of them a gap or   *)
(* up to Cap items, of which a prefix may still be in the store only       *)
(* (`lazy' is the lazy_previous of the first loaded chunk). Every          *)
(* operation emits updates to a log that several readers drain on their    *)
(* own: the store, the vector of a subscriber, the order tracker.          *)
(*                                                                         *)
(* An operation maps a linked chunk to a linked chunk. Positions are       *)
(* records of a chunk identifier and an index that counts from 0.          *)
(***************************************************************************)
EXTENDS Integers, Sequences, SequencesExt

CONSTANT Cap            \* DEFAULT_CHUNK_CAPACITY

ASSUME CapAssumption == Cap \in Nat \ {0}

NoChunk == -1           \* None for a ChunkIdentifier
NoToken == 0            \* a chunk with this gap is a chunk of items
Readers == {"store", "vector", "tracker"}

Position(id, index) == [chunk |-> id, index |-> index]
Chunk(id, gap, items) == [id |-> id, gap |-> gap, items |-> items]

(* Updates. A NewChunk with a token is NewGapChunk, one without NewItemsChunk. *)
NewChunk(prev, new, next, gap) ==
  [type |-> "NewChunk", prev |-> prev, new |-> new, next |-> next, gap |-> gap]
RemoveChunk(id) == [type |-> "RemoveChunk", id |-> id]
PushItems(at, items) == [type |-> "PushItems", at |-> at, items |-> items]
ReplaceItem(at, item) == [type |-> "ReplaceItem", at |-> at, item |-> item]
RemoveItem(at) == [type |-> "RemoveItem", at |-> at]
DetachLastItems(at) == [type |-> "DetachLastItems", at |-> at]
StartReattachItems == [type |-> "StartReattachItems"]
EndReattachItems == [type |-> "EndReattachItems"]
Clear == [type |-> "Clear"]

(* ObservableUpdates: what each reader has not taken yet. *)
Emit(lc, updates) == [lc EXCEPT !.log = [r \in Readers |-> lc.log[r] \o updates]]
Take(lc, reader) == [lc EXCEPT !.log[reader] = <<>>]
ClearPending(lc) == [lc EXCEPT !.log = [r \in Readers |-> <<>>]]

-----------------------------------------------------------------------------
IdOf(lc, i) == IF i \in DOMAIN lc.chunks THEN lc.chunks[i].id ELSE NoChunk
Ids(lc) == {lc.chunks[i].id : i \in DOMAIN lc.chunks}
IndexOf(lc, id) == CHOOSE i \in DOMAIN lc.chunks : lc.chunks[i].id = id
ItemsOf(chunks) == FlattenSeq([i \in DOMAIN chunks |-> chunks[i].items])
IsGap(chunk) == chunk.gap # NoToken
IsDefinitiveHead(lc) == lc.lazy = NoChunk

\* The identifier of the chunk before the i-th, loaded or not.
PreviousOf(lc, i) == IF i = 1 THEN lc.lazy ELSE IdOf(lc, i - 1)

(* A position that holds an item; the positions of all items, in order. *)
IsItem(lc, at) ==
  \E i \in DOMAIN lc.chunks : lc.chunks[i].id = at.chunk /\ at.index < Len(lc.chunks[i].items)
Positions(lc) ==
  FlattenSeq([i \in DOMAIN lc.chunks |->
    [j \in DOMAIN lc.chunks[i].items |-> Position(lc.chunks[i].id, j - 1)]])

-----------------------------------------------------------------------------
(* The empty list, and the first chunk, which is made on first access. *)
NewLinkedChunk ==
  [chunks |-> <<>>, lazy |-> NoChunk, gen |-> 0, log |-> [r \in Readers |-> <<>>]]

FirstChunk(lc) ==
  IF lc.chunks # <<>> THEN lc
  ELSE Emit([lc EXCEPT !.chunks = <<Chunk(0, NoToken, <<>>)>>],
            <<NewChunk(NoChunk, 0, NoChunk, NoToken)>>)

ClearAll(lc) ==
  Emit(ClearPending([lc EXCEPT !.chunks = <<>>, !.lazy = NoChunk, !.gen = 0]), <<Clear>>)

(* Chunk::insert_next, insert_before, unlink. The new chunk takes the next *)
(* identifier of the generator.                                            *)
InsertNext(lc, i, gap) ==
  Emit([lc EXCEPT !.chunks = InsertAt(@, i + 1, Chunk(lc.gen + 1, gap, <<>>)), !.gen = @ + 1],
       <<NewChunk(IdOf(lc, i), lc.gen + 1, IdOf(lc, i + 1), gap)>>)

InsertBeforeForgetsLazy(lc, i, gap) ==
  Emit([lc EXCEPT !.chunks = InsertAt(@, i, Chunk(lc.gen + 1, gap, <<>>)), !.gen = @ + 1],
       <<NewChunk(IdOf(lc, i - 1), lc.gen + 1, IdOf(lc, i), gap)>>)
InsertBefore(lc, i, gap) ==
  Emit([lc EXCEPT !.chunks = InsertAt(@, i, Chunk(lc.gen + 1, gap, <<>>)), !.gen = @ + 1],
       <<NewChunk(PreviousOf(lc, i), lc.gen + 1, IdOf(lc, i), gap)>>)

Unlink(lc, i) ==
  Emit([lc EXCEPT !.chunks = RemoveAt(@, i)], <<RemoveChunk(IdOf(lc, i))>>)

FreeSpace(chunk) ==
  IF IsGap(chunk) \/ Len(chunk.items) > Cap THEN 0 ELSE Cap - Len(chunk.items)

\* The i-th chunk takes the items, if there are any.
PushOnto(lc, i, s) ==
  IF s = <<>> THEN lc
  ELSE Emit([lc EXCEPT !.chunks[i].items = @ \o s],
            <<PushItems(Position(IdOf(lc, i), Len(lc.chunks[i].items)), s)>>)

(* Chunk::push_items: the chunk `at' takes what fits; for the rest there   *)
(* is a new chunk behind it, and another call. PushStep is one call, and   *)
(* no more of them than there are items find any left, but for the first.  *)
PushStep(x, call) ==
  LET free == FreeSpace(x.lc.chunks[x.at])
      fits == IF Len(x.rest) < free THEN Len(x.rest) ELSE free
      onto == PushOnto(x.lc, x.at, SubSeq(x.rest, 1, fits))
      rest == SubSeq(x.rest, fits + 1, Len(x.rest))
  IN IF rest = <<>> THEN [lc |-> onto, at |-> x.at, rest |-> rest]
     ELSE [lc |-> InsertNext(onto, x.at, NoToken), at |-> x.at + 1, rest |-> rest]

\* The linked chunk afterwards, and the index of the chunk that push_items returns.
Pushed(lc, i, s) ==
  FoldLeft(PushStep, [lc |-> lc, at |-> i, rest |-> s], [call \in 1 .. Len(s) + 1 |-> call])
Push(lc, i, s) == Pushed(lc, i, s).lc

-----------------------------------------------------------------------------
(* The operations of LinkedChunk.                                          *)
PushItemsBack(lc0, s) == LET lc == FirstChunk(lc0) IN Push(lc, Len(lc.chunks), s)
PushGapBack(lc0, gap) == LET lc == FirstChunk(lc0) IN InsertNext(lc, Len(lc.chunks), gap)

\* Drops the items of the i-th chunk from `index' on, to attach them again later.
Detach(lc, i, index) ==
  Emit([lc EXCEPT !.chunks[i].items = SubSeq(@, 1, index)],
       <<DetachLastItems(Position(IdOf(lc, i), index))>>)
Detached(lc, i, index) == SubSeq(lc.chunks[i].items, index + 1, Len(lc.chunks[i].items))

\* Attaches what was detached behind what has been pushed since.
Reattach(pushed, detached) ==
  Emit(Push(Emit(pushed.lc, <<StartReattachItems>>), pushed.at, detached), <<EndReattachItems>>)

InsertItemsAt(lc, at, s) ==
  LET i == IndexOf(lc, at.chunk)
  IN IF at.index = Len(lc.chunks[i].items)
     THEN Push(lc, i, s)
     ELSE Reattach(Pushed(Detach(lc, i, at.index), i, s), Detached(lc, i, at.index))

RemoveItemAt(lc, at) ==
  LET i  == IndexOf(lc, at.chunk)
      removed == Emit([lc EXCEPT !.chunks[i].items = RemoveAt(@, at.index + 1)],
                      <<RemoveItem(at)>>)
  IN IF removed.chunks[i].items = <<>> /\ i # 1 THEN Unlink(removed, i) ELSE removed

ReplaceItemAt(lc, at, item) ==
  Emit([lc EXCEPT !.chunks[IndexOf(lc, at.chunk)].items[at.index + 1] = item],
       <<ReplaceItem(at, item)>>)

InsertGapAt(lc, gap, at) ==
  LET i == IndexOf(lc, at.chunk)
  IN IF at.index = 0
     THEN InsertBefore(lc, i, gap)
     ELSE LET split == Emit(InsertNext(Detach(lc, i, at.index), i, gap), <<StartReattachItems>>)
              fresh == InsertNext(split, i + 1, NoToken)
          IN Emit(Push(fresh, i + 2, Detached(lc, i, at.index)), <<EndReattachItems>>)

RemoveEmptyChunkAt(lc, id) == Unlink(lc, IndexOf(lc, id))

\* The new chunk of items stands where the gap was, so it has its index.
ReplaceGapAt(lc, id, s) ==
  LET i == IndexOf(lc, id)
  IN Unlink(Push(InsertNext(lc, i, NoToken), i + 1, s), i)

-----------------------------------------------------------------------------
(* lazy_loader. `raw' is a chunk as the store returns it, with its links.  *)
NewFirstUpdates(raw) ==
  <<NewChunk(raw.prev, raw.id, raw.next, raw.gap)>>
    \o (IF IsGap(raw) THEN <<>> ELSE <<PushItems(Position(raw.id, 0), raw.items)>>)

\* What insert_new_first_chunk checks before it touches anything.
CanBeFirst(lc, raw) ==
  /\ Len(raw.items) <= Cap
  /\ raw.prev \notin Ids(lc)
  /\ raw.next = IdOf(lc, 1)
  /\ lc.lazy = raw.id

InsertNewFirstChunk(lc, raw) ==
  Emit([lc EXCEPT !.chunks = <<Chunk(raw.id, raw.gap, raw.items)>> \o @, !.lazy = raw.prev],
       NewFirstUpdates(raw))

ReplaceWith(lc, raw, gen) ==
  Emit(ClearPending([lc EXCEPT !.chunks = <<Chunk(raw.id, raw.gap, raw.items)>>,
                               !.lazy = raw.prev, !.gen = gen]),
       <<Clear>> \o NewFirstUpdates(raw))
=============================================================================
