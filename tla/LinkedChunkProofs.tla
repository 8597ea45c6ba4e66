------------------------- MODULE LinkedChunkProofs -------------------------
(***************************************************************************)
(* What the operations of the linked chunk do, for every capacity and for  *)
(* chunks and items of any number, to memory and to the rows of the store  *)
(* that follows their updates.                                             *)
(*                                                                         *)
(* Nice: the rows of the store are a list, with links both ways, in which  *)
(* no identifier and no event is twice and no chunk is too full.           *)
(* Mirrored: once the store has taken the updates it has yet to see, it is *)
(* Nice, and memory is what comes after its first n chunks; and the order  *)
(* tracker, once it has heard what waits for it, has the lengths of its    *)
(* chunks in their order (Follows).                                        *)
(***************************************************************************)
EXTENDS ChunkReaders, FiniteSetTheorems, SequenceTheorems, TLAPS

-----------------------------------------------------------------------------
(* The rows of the store: one update keeps them a list without duplicates. *)

Applying == INSTANCE Folding WITH Op <- ApplyUpdate

RowType == [prev : Int, next : Int, gap : Nat, items : Seq(Nat)]

\* The i-th identifier of S, or none.
Nth(S, i) == IF i \in 1 .. Len(S) THEN S[i] ELSE NoChunk

\* The rows are linked in the order of S, which has each identifier once.
Linked(rows, S) ==
  /\ S \in Seq(Nat)
  /\ \A i, j \in 1 .. Len(S) : S[i] = S[j] => i = j
  /\ DOMAIN rows = {S[i] : i \in 1 .. Len(S)}
  /\ \A i \in 1 .. Len(S) : rows[S[i]].prev = Nth(S, i - 1) /\ rows[S[i]].next = Nth(S, i + 1)

IsRow(r) == r \in RowType /\ Len(r.items) <= Cap /\ (r.gap # NoToken => r.items = <<>>)
Plain(rows) ==
  /\ rows = [id \in DOMAIN rows |-> rows[id]]
  /\ \A id \in DOMAIN rows : rows[id] \in RowType
Typed(rows) ==
  /\ rows = [id \in DOMAIN rows |-> rows[id]]
  /\ \A id \in DOMAIN rows : IsRow(rows[id])

\* No event is stored twice.
Once(rows) ==
  \A a, b \in DOMAIN rows : \A i \in 1 .. Len(rows[a].items), j \in 1 .. Len(rows[b].items) :
     rows[a].items[i] = rows[b].items[j] => a = b /\ i = j

Nice(rows, S) == Linked(rows, S) /\ Typed(rows) /\ Once(rows)

Ins(S, k, x) == [j \in 1 .. Len(S) + 1 |-> IF j <= k THEN S[j] ELSE IF j = k + 1 THEN x ELSE S[j - 1]]
Del(S, k) == [j \in 1 .. Len(S) - 1 |-> IF j < k THEN S[j] ELSE S[j + 1]]

\* What has rows of its own is not refused.
LEMMA NotRefused ==
  ASSUME NEW rows, NEW S, Linked(rows, S)
  PROVE  rows # Refused
<1>1. NoChunk \notin DOMAIN rows
  BY DEF Linked, NoChunk
<1>2. DOMAIN Refused = {NoChunk}
  BY DEF Refused
<1>. QED BY <1>1, <1>2

\* A store without a row is an empty list.
LEMMA NoRowsNice == Nice(NoRows, <<>>)
<1>1. DOMAIN NoRows = {} /\ NoRows = [id \in DOMAIN NoRows |-> NoRows[id]]
  BY DEF NoRows
<1>2. Linked(NoRows, <<>>)
  BY <1>1 DEF Linked
<1>. QED BY <1>1, <1>2 DEF Nice, Typed, Once

LinksSet(rows, p, v, q, w, after) ==
  /\ DOMAIN after = DOMAIN rows
  /\ \A id \in DOMAIN rows :
       /\ after[id] \in RowType
       /\ after[id].gap = rows[id].gap /\ after[id].items = rows[id].items
       /\ after[id].prev = (IF id = q THEN w ELSE rows[id].prev)
       /\ after[id].next = (IF id = p THEN v ELSE rows[id].next)

\* The two links that insert_chunk and remove_chunk write.
LEMMA SetLinks ==
  ASSUME NEW rows, Plain(rows), NEW p, NEW q, NEW v \in Int, NEW w \in Int
  PROVE  LinksSet(rows, p, v, q, w, SetPrev(SetNext(rows, p, v), q, w))
<1>1. PICK one : one = SetNext(rows, p, v)
  OBVIOUS
<1>2. PICK two : two = SetPrev(one, q, w)
  OBVIOUS
<1>3. \A id \in DOMAIN rows : rows[id] \in RowType
  BY DEF Plain
<1>4. /\ DOMAIN one = DOMAIN rows
      /\ \A id \in DOMAIN rows : one[id] = IF id = p THEN [rows[id] EXCEPT !.next = v] ELSE rows[id]
  BY <1>1 DEF SetNext, Plain
<1>5. /\ DOMAIN two = DOMAIN rows
      /\ \A id \in DOMAIN rows : two[id] = IF id = q THEN [one[id] EXCEPT !.prev = w] ELSE one[id]
  BY <1>2, <1>4 DEF SetPrev
<1>6. ASSUME NEW id \in DOMAIN rows
      PROVE  /\ two[id] \in RowType
             /\ two[id].gap = rows[id].gap /\ two[id].items = rows[id].items
             /\ two[id].prev = (IF id = q THEN w ELSE rows[id].prev)
             /\ two[id].next = (IF id = p THEN v ELSE rows[id].next)
  <2>1. PICK r : r = rows[id]
    OBVIOUS
  <2>2. r \in RowType
    BY <1>3, <2>1
  <2>3. PICK h : h = one[id]
    OBVIOUS
  <2>4. /\ h \in RowType /\ h.gap = r.gap /\ h.items = r.items /\ h.prev = r.prev
        /\ h.next = (IF id = p THEN v ELSE r.next)
    <3>1. CASE id = p
      <4>1. h = [r EXCEPT !.next = v]
        BY <1>4, <2>1, <2>3, <3>1
      <4>. QED BY <2>2, <3>1, <4>1 DEF RowType
    <3>2. CASE id # p
      <4>1. h = r
        BY <1>4, <2>1, <2>3, <3>2
      <4>. QED BY <2>2, <3>2, <4>1
    <3>. QED BY <3>1, <3>2
  <2>5. CASE id = q
    <3>1. two[id] = [h EXCEPT !.prev = w]
      BY <1>5, <2>3, <2>5
    <3>. QED BY <2>1, <2>4, <2>5, <3>1 DEF RowType
  <2>6. CASE id # q
    <3>1. two[id] = h
      BY <1>5, <2>3, <2>6
    <3>. QED BY <2>1, <2>4, <2>6, <3>1
  <2>. QED BY <2>5, <2>6
<1>. QED BY <1>1, <1>2, <1>5, <1>6 DEF LinksSet

RowInserted(rows, p, q, x, gap, after) ==
  /\ DOMAIN after = DOMAIN rows \cup {x}
  /\ after = [id \in DOMAIN after |-> after[id]]
  /\ after[x] = Row(p, q, gap, <<>>)
  /\ \A id \in DOMAIN rows :
       /\ after[id] \in RowType
       /\ after[id].gap = rows[id].gap /\ after[id].items = rows[id].items
       /\ after[id].prev = (IF id = q THEN x ELSE rows[id].prev)
       /\ after[id].next = (IF id = p THEN x ELSE rows[id].next)

\* A row for a new chunk between the k-th and the next.
LEMMA InsertRow ==
  ASSUME NEW rows, NEW S, Linked(rows, S), Typed(rows), NEW k \in 0 .. Len(S),
         NEW x \in Nat, x \notin DOMAIN rows, NEW gap \in Nat,
         NEW p, NEW q, p = Nth(S, k), q = Nth(S, k + 1)
  PROVE  RowInserted(rows, p, q, x, gap, InsertChunk(rows, NewChunk(p, x, q, gap)))
<1> PICK after, u : after = InsertChunk(rows, u) /\ u = NewChunk(p, x, q, gap)
  OBVIOUS
<1>1. u.prev = p /\ u.next = q /\ u.new = x /\ u.gap = gap
  BY DEF NewChunk
<1>2. {p, q} \ {NoChunk} \subseteq DOMAIN rows
  BY <1>1 DEF Linked, Nth
<1>3. PICK two : two = SetPrev(SetNext(rows, p, x), q, x)
  OBVIOUS
<1>4. LinksSet(rows, p, x, q, x, two)
  <2>1. Plain(rows)
    BY DEF Plain, Typed, IsRow
  <2>. QED BY <1>3, <2>1, SetLinks
<1>5. after = [id \in DOMAIN rows \cup {x} |->
             IF id = x THEN Row(p, q, gap, <<>>) ELSE two[id]]
  BY <1>1, <1>2, <1>3 DEF InsertChunk
<1>6. \A id \in DOMAIN rows : after[id] = two[id]
  BY <1>5
<1>7. /\ DOMAIN after = DOMAIN rows \cup {x}
      /\ after = [id \in DOMAIN after |-> after[id]]
      /\ after[x] = Row(p, q, gap, <<>>)
  BY <1>5
<1>. QED BY <1>4, <1>6, <1>7 DEF RowInserted, LinksSet

\* A chunk without items has been added behind the k-th.
Added(rows, S, k, x, gap, after) ==
  /\ Nice(after, Ins(S, k, x))
  /\ DOMAIN after = DOMAIN rows \cup {x}
  /\ after[x].gap = gap /\ after[x].items = <<>>
  /\ \A id \in DOMAIN rows : after[id].gap = rows[id].gap /\ after[id].items = rows[id].items

\* NewChunk keeps the rows a list in which no identifier and no event is twice, if it says
\* between which two chunks the new one is (insert_chunk).
LEMMA InsertNice ==
  ASSUME NEW rows, NEW S, Nice(rows, S), NEW k \in 0 .. Len(S),
         NEW x \in Nat, x \notin DOMAIN rows, NEW gap \in Nat
  PROVE  Added(rows, S, k, x, gap, ApplyUpdate(rows, NewChunk(Nth(S, k), x, Nth(S, k + 1), gap)))
<1>u. PICK u : u = NewChunk(Nth(S, k), x, Nth(S, k + 1), gap)
  OBVIOUS
<1>a. PICK after : after = ApplyUpdate(rows, u)
  OBVIOUS
<1>1. after = InsertChunk(rows, u)
  <2>1. u.type = "NewChunk" /\ rows # Refused
    BY <1>u, NotRefused DEF Nice, NewChunk
  <2>. QED BY <1>a, <2>1 DEF ApplyUpdate
<1>2. /\ DOMAIN after = DOMAIN rows \cup {x}
      /\ after = [id \in DOMAIN after |-> after[id]]
      /\ after[x] = Row(Nth(S, k), Nth(S, k + 1), gap, <<>>)
      /\ \A id \in DOMAIN rows :
              /\ after[id] \in RowType
              /\ after[id].gap = rows[id].gap /\ after[id].items = rows[id].items
              /\ after[id].prev = (IF id = Nth(S, k + 1) THEN x ELSE rows[id].prev)
              /\ after[id].next = (IF id = Nth(S, k) THEN x ELSE rows[id].next)
  <2>1. Linked(rows, S) /\ Typed(rows)
    BY DEF Nice
  <2>2. PICK p, q : p = Nth(S, k) /\ q = Nth(S, k + 1)
    OBVIOUS
  <2>3. RowInserted(rows, p, q, x, gap, InsertChunk(rows, NewChunk(p, x, q, gap)))
    BY <2>1, <2>2, InsertRow
  <2>4. RowInserted(rows, p, q, x, gap, after)
    BY <1>1, <1>u, <2>2, <2>3
  <2>. QED BY <2>2, <2>4 DEF RowInserted
<1>3. /\ after[x].gap = gap /\ after[x].items = <<>>
      /\ after[x].prev = Nth(S, k) /\ after[x].next = Nth(S, k + 1)
  BY <1>2 DEF Row
<1>4. \A id \in DOMAIN rows :
        /\ after[id].gap = rows[id].gap /\ after[id].items = rows[id].items
        /\ after[id].prev = (IF id = Nth(S, k + 1) THEN x ELSE rows[id].prev)
        /\ after[id].next = (IF id = Nth(S, k) THEN x ELSE rows[id].next)
  BY <1>2
<1>5. PICK n \in Nat : n = Len(S)
  BY DEF Nice, Linked
<1>6. PICK T : T = Ins(S, k, x)
  OBVIOUS
<1>7. /\ S \in Seq(Nat) /\ \A i \in 1 .. n : S[i] \in Nat
      /\ \A i, j \in 1 .. n : S[i] = S[j] => i = j
      /\ DOMAIN rows = {S[i] : i \in 1 .. n}
      /\ \A i \in 1 .. n : rows[S[i]].prev = Nth(S, i - 1) /\ rows[S[i]].next = Nth(S, i + 1)
  BY <1>5 DEF Nice, Linked
<1>8. T = [j \in 1 .. n + 1 |-> IF j <= k THEN S[j] ELSE IF j = k + 1 THEN x ELSE S[j - 1]]
  BY <1>5, <1>6 DEF Ins
<1>9. T \in Seq(Nat) /\ Len(T) = n + 1
  <2>1. \A j \in 1 .. n + 1 : T[j] \in Nat
    BY <1>5, <1>7, <1>8
  <2>. QED BY <1>8, <2>1
<1>10. \A i \in 1 .. n : S[i] # x
  BY <1>7
<1>11. \A i, j \in 1 .. n + 1 : T[i] = T[j] => i = j
  <2>1. SUFFICES ASSUME NEW i \in 1 .. n + 1, NEW j \in 1 .. n + 1, T[i] = T[j], i # j PROVE FALSE
    OBVIOUS
  <2>2. \A m \in 1 .. n + 1 : m = k + 1 \/ (m <= k /\ m \in 1 .. n /\ T[m] = S[m])
                                        \/ (m > k + 1 /\ m - 1 \in 1 .. n /\ T[m] = S[m - 1])
    BY <1>5, <1>8
  <2>3. T[k + 1] = x
    BY <1>5, <1>8
  <2>4. CASE i = k + 1
    <3>1. T[j] # x
      BY <1>10, <2>1, <2>2, <2>4
    <3>. QED BY <2>1, <2>3, <2>4, <3>1
  <2>5. CASE j = k + 1
    <3>1. T[i] # x
      BY <1>10, <2>1, <2>2, <2>5
    <3>. QED BY <2>1, <2>3, <2>5, <3>1
  <2>6. CASE i # k + 1 /\ j # k + 1
    <3>1. PICK a \in 1 .. n : T[i] = S[a] /\ ((i <= k /\ a = i) \/ (i > k + 1 /\ a = i - 1))
      BY <2>1, <2>2, <2>6
    <3>2. PICK b \in 1 .. n : T[j] = S[b] /\ ((j <= k /\ b = j) \/ (j > k + 1 /\ b = j - 1))
      BY <2>1, <2>2, <2>6
    <3>3. a = b
      BY <1>7, <2>1, <3>1, <3>2
    <3>. QED BY <2>1, <3>1, <3>2, <3>3
  <2>. QED BY <2>4, <2>5, <2>6
<1>12. DOMAIN after = {T[i] : i \in 1 .. n + 1}
  <2>1. ASSUME NEW i \in 1 .. n PROVE \E j \in 1 .. n + 1 : T[j] = S[i]
    <3>1. CASE i <= k
      BY <1>8, <3>1
    <3>2. CASE i > k
      <4>1. i + 1 \in 1 .. n + 1 /\ ~ (i + 1 <= k) /\ i + 1 # k + 1 /\ (i + 1) - 1 = i
        BY <3>2
      <4>. QED BY <1>8, <4>1
    <3>. QED BY <3>1, <3>2
  <2>2. k + 1 \in 1 .. n + 1 /\ T[k + 1] = x
    BY <1>5, <1>8
  <2>3. \A j \in 1 .. n + 1 : T[j] \in DOMAIN rows \cup {x}
    BY <1>5, <1>7, <1>8
  <2>4. DOMAIN after \subseteq {T[i] : i \in 1 .. n + 1}
    <3>1. \A y \in DOMAIN rows : \E j \in 1 .. n + 1 : T[j] = y
      <4>1. \A y \in DOMAIN rows : \E j \in 1 .. n : S[j] = y
        BY <1>7
      <4>. QED BY <2>1, <4>1
    <3>. QED BY <1>2, <2>2, <3>1
  <2>. QED BY <1>2, <2>3, <2>4
<1>13. ASSUME NEW i \in 1 .. n + 1
       PROVE  after[T[i]].prev = Nth(T, i - 1) /\ after[T[i]].next = Nth(T, i + 1)
  <2>1. CASE i = k + 1
    <3>1. T[i] = x
      BY <1>8, <2>1
    <3>2. Nth(T, i - 1) = Nth(S, k)
      BY <1>5, <1>8, <1>9, <2>1 DEF Nth
    <3>3. Nth(T, i + 1) = Nth(S, k + 1)
      BY <1>5, <1>8, <1>9, <2>1 DEF Nth
    <3>. QED BY <1>3, <3>1, <3>2, <3>3
  <2>2. CASE i <= k
    <3>1. i \in 1 .. n /\ T[i] = S[i] /\ S[i] \in DOMAIN rows
      BY <1>5, <1>7, <1>8, <2>2
    <3>2. S[i] # Nth(S, k + 1)
      BY <1>5, <1>7, <2>2, <3>1 DEF Nth, NoChunk
    <3>3. after[T[i]].prev = Nth(S, i - 1)
      <4>1. after[S[i]].prev = rows[S[i]].prev /\ rows[S[i]].prev = Nth(S, i - 1)
        BY <1>4, <1>7, <3>1, <3>2
      <4>. QED BY <3>1, <4>1
    <3>4. Nth(T, i - 1) = Nth(S, i - 1)
      BY <1>5, <1>8, <1>9, <2>2 DEF Nth
    <3>5. CASE i = k
      <4>1. S[i] = Nth(S, k) /\ T[i + 1] = x /\ i + 1 \in 1 .. n + 1
        BY <1>5, <1>8, <3>1, <3>5 DEF Nth
      <4>2. Nth(T, i + 1) = x
        BY <1>9, <4>1 DEF Nth
      <4>. QED BY <1>4, <3>1, <3>3, <3>4, <4>1, <4>2
    <3>6. CASE i # k
      <4>1. S[i] # Nth(S, k) /\ i + 1 \in 1 .. n
        BY <1>5, <1>7, <2>2, <3>1, <3>6 DEF Nth, NoChunk
      <4>2. Nth(T, i + 1) = Nth(S, i + 1)
        BY <1>5, <1>8, <1>9, <2>2, <3>6, <4>1 DEF Nth
      <4>3. after[S[i]].next = rows[S[i]].next /\ rows[S[i]].next = Nth(S, i + 1)
        BY <1>4, <1>7, <3>1, <4>1
      <4>. QED BY <3>1, <3>3, <3>4, <4>2, <4>3
    <3>. QED BY <3>5, <3>6
  <2>3. CASE i > k + 1
    <3>1. PICK j \in 1 .. n : j = i - 1 /\ j > k
      BY <1>5, <2>3
    <3>2. T[i] = S[j] /\ S[j] \in DOMAIN rows
      BY <1>5, <1>7, <1>8, <2>3, <3>1
    <3>3. S[j] # Nth(S, k)
      BY <1>5, <1>7, <3>1 DEF Nth, NoChunk
    <3>4. after[T[i]].next = Nth(S, j + 1)
      BY <1>4, <1>7, <3>1, <3>2, <3>3
    <3>5. Nth(T, i + 1) = Nth(S, j + 1)
      BY <1>5, <1>8, <1>9, <2>3, <3>1 DEF Nth
    <3>6. CASE j = k + 1
      <4>1. S[j] = Nth(S, k + 1)
        BY <1>5, <3>1, <3>6 DEF Nth
      <4>2. Nth(T, i - 1) = x
        BY <1>5, <1>8, <1>9, <3>1, <3>6 DEF Nth
      <4>. QED BY <1>4, <3>2, <3>4, <3>5, <4>1, <4>2
    <3>7. CASE j # k + 1
      <4>1. S[j] # Nth(S, k + 1)
        BY <1>5, <1>7, <3>1, <3>7 DEF Nth, NoChunk
      <4>2. Nth(T, i - 1) = Nth(S, j - 1)
        BY <1>5, <1>8, <1>9, <3>1, <3>7 DEF Nth
      <4>. QED BY <1>4, <1>7, <3>2, <3>4, <3>5, <4>1, <4>2
    <3>. QED BY <3>6, <3>7
  <2>. QED BY <1>5, <2>1, <2>2, <2>3
<1>14. Linked(after, T)
  BY <1>9, <1>11, <1>12, <1>13 DEF Linked
<1>15. Typed(after)
  <2>1. IsRow(after[x])
    <3>1. Nth(S, k) \in Int /\ Nth(S, k + 1) \in Int /\ <<>> \in Seq(Nat) /\ Len(<<>>) <= Cap
      BY <1>5, <1>7, CapAssumption DEF Nth, NoChunk
    <3>2. after[x] \in RowType
      <4>1. PICK p, q, e : p = Nth(S, k) /\ q = Nth(S, k + 1) /\ e = <<>>
        OBVIOUS
      <4>2. p \in Int /\ q \in Int /\ e \in Seq(Nat) /\ after[x] = Row(p, q, gap, e)
        BY <1>2, <3>1, <4>1
      <4>. QED BY <4>2 DEF Row, RowType
    <3>. QED BY <1>3, <3>1, <3>2 DEF IsRow
  <2>2. ASSUME NEW id \in DOMAIN rows PROVE IsRow(after[id])
    <3>1. IsRow(rows[id])
      BY DEF Nice, Typed
    <3>. QED BY <1>2, <3>1 DEF IsRow
  <2>. QED BY <1>2, <2>1, <2>2 DEF Typed
<1>16. Once(after)
  <2>1. \A id \in DOMAIN after : id # x => id \in DOMAIN rows /\ after[id].items = rows[id].items
    BY <1>2, <1>4
  <2>2. Len(after[x].items) = 0
    BY <1>3
  <2>. QED BY <2>1, <2>2 DEF Once, Nice
<1>17. Added(rows, S, k, x, gap, after)
  BY <1>2, <1>3, <1>4, <1>6, <1>14, <1>15, <1>16 DEF Nice, Added
<1>. QED BY <1>u, <1>a, <1>17

\* The row of the k-th chunk, which is x, is gone.
Dropped(rows, S, k, x, after) ==
  /\ Nice(after, Del(S, k))
  /\ DOMAIN after = DOMAIN rows \ {x}
  /\ \A id \in DOMAIN after : after[id].gap = rows[id].gap /\ after[id].items = rows[id].items

\* The row of a chunk without items goes.
LEMMA DeleteNice ==
  ASSUME NEW rows, NEW S, Nice(rows, S), NEW k \in 1 .. Len(S)
  PROVE  Dropped(rows, S, k, S[k], ApplyUpdate(rows, RemoveChunk(S[k])))
<1>x. PICK x : x = S[k]
  OBVIOUS
<1>a. PICK after : after = ApplyUpdate(rows, RemoveChunk(x))
  OBVIOUS
<1>1. PICK n \in Nat : n = Len(S)
  BY DEF Nice, Linked
<1>2. PICK T : T = Del(S, k)
  OBVIOUS
<1>3. /\ S \in Seq(Nat) /\ \A i \in 1 .. n : S[i] \in Nat
      /\ \A i, j \in 1 .. n : S[i] = S[j] => i = j
      /\ DOMAIN rows = {S[i] : i \in 1 .. n}
      /\ \A i \in 1 .. n : rows[S[i]].prev = Nth(S, i - 1) /\ rows[S[i]].next = Nth(S, i + 1)
  <2>1. Linked(rows, S)
    BY DEF Nice
  <2>2. S \in Seq(Nat)
    BY <2>1 DEF Linked
  <2>3. \A i \in 1 .. n : S[i] \in Nat
    BY <1>1, <2>2
  <2>. QED BY <1>1, <2>1, <2>2, <2>3 DEF Linked
<1>4. PICK p, q : p = Nth(S, k - 1) /\ q = Nth(S, k + 1)
  OBVIOUS
<1>5. x \in DOMAIN rows /\ rows[x].prev = p /\ rows[x].next = q /\ p \in Int /\ q \in Int
  <2>1. k \in 1 .. n
    BY <1>1
  <2>2. x \in DOMAIN rows /\ rows[x].prev = p /\ rows[x].next = q
    BY <1>x, <1>3, <1>4, <2>1
  <2>3. \A i \in Int : Nth(S, i) \in Int
    BY <1>1, <1>3 DEF Nth, NoChunk
  <2>4. k - 1 \in Int /\ k + 1 \in Int
    BY <2>1
  <2>. QED BY <1>4, <2>2, <2>3, <2>4
<1>6. PICK two : two = SetPrev(SetNext(rows, p, q), q, p)
  OBVIOUS
<1>7. LinksSet(rows, p, q, q, p, two)
  <2>1. Plain(rows)
    BY DEF Nice, Plain, Typed, IsRow
  <2>. QED BY <1>5, <1>6, <2>1, SetLinks
<1>8. after = [id \in DOMAIN rows \ {x} |-> two[id]]
  <2>1. PICK u : u = RemoveChunk(x)
    OBVIOUS
  <2>2. u.type = "RemoveChunk" /\ u.id = x
    BY <2>1 DEF RemoveChunk
  <2>3. rows # Refused
    BY NotRefused DEF Nice
  <2>4. after = DeleteChunk(rows, x)
    BY <1>a, <2>1, <2>2, <2>3 DEF ApplyUpdate
  <2>. QED BY <1>5, <1>6, <2>4 DEF DeleteChunk
<1>9. /\ DOMAIN after = DOMAIN rows \ {x}
      /\ after = [id \in DOMAIN after |-> after[id]]
      /\ \A id \in DOMAIN after :
           /\ id \in DOMAIN rows
           /\ after[id] \in RowType
           /\ after[id].gap = rows[id].gap /\ after[id].items = rows[id].items
           /\ after[id].prev = (IF id = q THEN p ELSE rows[id].prev)
           /\ after[id].next = (IF id = p THEN q ELSE rows[id].next)
  BY <1>7, <1>8 DEF LinksSet
<1>10. T = [j \in 1 .. n - 1 |-> IF j < k THEN S[j] ELSE S[j + 1]]
  BY <1>1, <1>2 DEF Del
<1>11. T \in Seq(Nat) /\ Len(T) = n - 1
  <2>1. \A j \in 1 .. n - 1 : T[j] \in Nat
    BY <1>1, <1>3, <1>10
  <2>2. n - 1 \in Nat
    BY <1>1
  <2>. QED BY <1>10, <2>1, <2>2
<1>12. \A m \in 1 .. n - 1 : \E a \in 1 .. n : /\ T[m] = S[a] /\ a # k
                                               /\ (m < k /\ a = m) \/ (m >= k /\ a = m + 1)
  <2>1. ASSUME NEW m \in 1 .. n - 1
        PROVE  \E a \in 1 .. n : T[m] = S[a] /\ a # k /\ ((m < k /\ a = m) \/ (m >= k /\ a = m + 1))
    <3>1. CASE m < k
      <4>1. m \in 1 .. n /\ T[m] = S[m] /\ m # k
        BY <1>10, <3>1
      <4>. QED BY <3>1, <4>1
    <3>2. CASE m >= k
      <4>1. m + 1 \in 1 .. n /\ T[m] = S[m + 1] /\ m + 1 # k
        BY <1>10, <3>2
      <4>. QED BY <3>2, <4>1
    <3>. QED BY <1>1, <3>1, <3>2
  <2>. QED BY <2>1
<1>13. \A i, j \in 1 .. n - 1 : T[i] = T[j] => i = j
  <2>1. SUFFICES ASSUME NEW i \in 1 .. n - 1, NEW j \in 1 .. n - 1, T[i] = T[j] PROVE i = j
    OBVIOUS
  <2>2. PICK a \in 1 .. n : T[i] = S[a] /\ ((i < k /\ a = i) \/ (i >= k /\ a = i + 1))
    BY <1>12
  <2>3. PICK b \in 1 .. n : T[j] = S[b] /\ ((j < k /\ b = j) \/ (j >= k /\ b = j + 1))
    BY <1>12
  <2>4. a = b
    BY <1>3, <2>1, <2>2, <2>3
  <2>. QED BY <2>2, <2>3, <2>4
<1>14. DOMAIN after = {T[i] : i \in 1 .. n - 1}
  <2>1. ASSUME NEW i \in 1 .. n, i # k PROVE \E j \in 1 .. n - 1 : T[j] = S[i]
    <3>1. CASE i < k
      <4>1. i \in 1 .. n - 1
        BY <1>1, <3>1
      <4>. QED BY <1>10, <3>1, <4>1
    <3>2. CASE i > k
      <4>1. i - 1 \in 1 .. n - 1 /\ ~ (i - 1 < k) /\ (i - 1) + 1 = i
        BY <1>1, <3>2
      <4>. QED BY <1>10, <4>1
    <3>. QED BY <1>1, <2>1, <3>1, <3>2
  <2>2. \A y \in DOMAIN after : \E i \in 1 .. n : i # k /\ y = S[i]
    BY <1>x, <1>3, <1>9
  <2>3. DOMAIN after \subseteq {T[i] : i \in 1 .. n - 1}
    <3>1. \A y \in DOMAIN after : \E j \in 1 .. n - 1 : T[j] = y
      BY <2>1, <2>2
    <3>. QED BY <3>1
  <2>4. \A m \in 1 .. n - 1 : T[m] \in DOMAIN after
    <3>1. ASSUME NEW m \in 1 .. n - 1 PROVE T[m] \in DOMAIN after
      <4>1. PICK a \in 1 .. n : T[m] = S[a] /\ a # k
        BY <1>12
      <4>2. S[a] # x
        BY <1>x, <1>1, <1>3, <4>1
      <4>. QED BY <1>3, <1>9, <4>1, <4>2
    <3>. QED BY <3>1
  <2>. QED BY <2>3, <2>4
<1>15. ASSUME NEW i \in 1 .. n - 1
       PROVE  after[T[i]].prev = Nth(T, i - 1) /\ after[T[i]].next = Nth(T, i + 1)
  <2>1. T[i] \in DOMAIN after
    BY <1>14
  <2>2. CASE i < k
    <3>1. i \in 1 .. n /\ T[i] = S[i]
      BY <1>1, <1>10, <2>2
    <3>2. S[i] # q
      BY <1>1, <1>3, <1>4, <2>2, <3>1 DEF Nth, NoChunk
    <3>3. after[T[i]].prev = Nth(S, i - 1)
      <4>1. after[S[i]].prev = rows[S[i]].prev /\ rows[S[i]].prev = Nth(S, i - 1)
        BY <1>3, <1>9, <2>1, <3>1, <3>2
      <4>. QED BY <3>1, <4>1
    <3>4. Nth(T, i - 1) = Nth(S, i - 1)
      BY <1>1, <1>10, <1>11, <2>2 DEF Nth
    <3>5. CASE i = k - 1
      <4>1. S[i] = p
        BY <1>1, <1>4, <3>1, <3>5 DEF Nth
      <4>2. Nth(T, i + 1) = q
        BY <1>1, <1>4, <1>10, <1>11, <3>5 DEF Nth
      <4>. QED BY <1>9, <2>1, <3>1, <3>3, <3>4, <4>1, <4>2
    <3>6. CASE i # k - 1
      <4>1. S[i] # p /\ i + 1 \in 1 .. n - 1
        BY <1>1, <1>3, <1>4, <2>2, <3>1, <3>6 DEF Nth, NoChunk
      <4>2. Nth(T, i + 1) = Nth(S, i + 1)
        BY <1>1, <1>10, <1>11, <2>2, <3>6, <4>1 DEF Nth
      <4>3. after[S[i]].next = rows[S[i]].next /\ rows[S[i]].next = Nth(S, i + 1)
        BY <1>3, <1>9, <2>1, <3>1, <4>1
      <4>. QED BY <3>1, <3>3, <3>4, <4>2, <4>3
    <3>. QED BY <3>5, <3>6
  <2>3. CASE i >= k
    <3>1. PICK j \in 1 .. n : j = i + 1 /\ j > k
      BY <1>1, <2>3
    <3>2. T[i] = S[j]
      BY <1>1, <1>10, <2>3, <3>1
    <3>3. S[j] # p
      BY <1>1, <1>3, <1>4, <3>1 DEF Nth, NoChunk
    <3>4. after[T[i]].next = Nth(S, j + 1)
      <4>1. after[S[j]].next = rows[S[j]].next /\ rows[S[j]].next = Nth(S, j + 1)
        BY <1>3, <1>9, <2>1, <3>1, <3>2, <3>3
      <4>. QED BY <3>2, <4>1
    <3>5. Nth(T, i + 1) = Nth(S, j + 1)
      BY <1>1, <1>10, <1>11, <2>3, <3>1 DEF Nth
    <3>6. CASE j = k + 1
      <4>1. S[j] = q
        BY <1>1, <1>4, <3>1, <3>6 DEF Nth
      <4>2. Nth(T, i - 1) = p
        BY <1>1, <1>4, <1>10, <1>11, <3>1, <3>6 DEF Nth
      <4>. QED BY <1>9, <2>1, <3>2, <3>4, <3>5, <4>1, <4>2
    <3>7. CASE j # k + 1
      <4>1. S[j] # q
        BY <1>1, <1>3, <1>4, <3>1, <3>7 DEF Nth, NoChunk
      <4>2. Nth(T, i - 1) = Nth(S, j - 1)
        BY <1>1, <1>10, <1>11, <3>1, <3>7 DEF Nth
      <4>3. after[S[j]].prev = rows[S[j]].prev /\ rows[S[j]].prev = Nth(S, j - 1)
        BY <1>3, <1>9, <2>1, <3>1, <3>2, <4>1
      <4>. QED BY <3>2, <3>4, <3>5, <4>2, <4>3
    <3>. QED BY <3>6, <3>7
  <2>. QED BY <1>1, <2>2, <2>3
<1>16. Linked(after, T)
  BY <1>11, <1>13, <1>14, <1>15 DEF Linked
<1>17. Typed(after)
  <2>1. \A id \in DOMAIN rows : IsRow(rows[id])
    BY DEF Nice, Typed
  <2>. QED BY <1>9, <2>1 DEF Typed, IsRow
<1>18. Once(after)
  BY <1>9 DEF Once, Nice
<1>19. Dropped(rows, S, k, x, after)
  BY <1>2, <1>9, <1>16, <1>17, <1>18 DEF Nice, Dropped
<1>. QED BY <1>x, <1>a, <1>19

Injective(s) == \A i, j \in 1 .. Len(s) : s[i] = s[j] => i = j

\* What the row of x may hold instead of its items.
MayHold(rows, x, items) ==
  /\ items \in Seq(Nat) /\ Len(items) <= Cap
  /\ rows[x].gap # NoToken => items = <<>>
  /\ Injective(items)
  /\ \A id \in DOMAIN rows : id # x =>
       \A i \in 1 .. Len(items), j \in 1 .. Len(rows[id].items) : items[i] # rows[id].items[j]

Changed(rows, x, items, after, S) ==
  /\ Nice(after, S)
  /\ DOMAIN after = DOMAIN rows
  /\ after[x].items = items
  /\ \A id \in DOMAIN rows : after[id].gap = rows[id].gap /\ (id # x => after[id] = rows[id])

\* The items of one chunk change.
LEMMA ItemsNice ==
  ASSUME NEW rows, NEW S, Nice(rows, S), NEW x \in DOMAIN rows, NEW items, MayHold(rows, x, items),
         NEW after, after = [rows EXCEPT ![x].items = items]
  PROVE  Changed(rows, x, items, after, S)
<1>1. \A id \in DOMAIN rows : rows[id] \in RowType
  BY DEF Nice, Typed, IsRow
<1>2. DOMAIN after = DOMAIN rows /\ after = [id \in DOMAIN after |-> after[id]]
  BY DEF Nice, Typed
<1>3. \A id \in DOMAIN rows : id # x => after[id] = rows[id]
  BY DEF Nice, Typed
<1>4. PICK r : r = rows[x]
  OBVIOUS
<1>5. after[x] = [r EXCEPT !.items = items]
  BY <1>4 DEF Nice, Typed
<1>6. /\ after[x] \in RowType /\ after[x].items = items /\ after[x].gap = rows[x].gap
      /\ after[x].prev = rows[x].prev /\ after[x].next = rows[x].next
  BY <1>1, <1>4, <1>5 DEF RowType, MayHold
<1>7. Typed(after)
  BY <1>2, <1>3, <1>6 DEF Nice, Typed, IsRow, MayHold
<1>8. Linked(after, S)
  <2>1. \A id \in DOMAIN rows : after[id].prev = rows[id].prev /\ after[id].next = rows[id].next
    BY <1>3, <1>6
  <2>. QED BY <1>2, <2>1 DEF Nice, Linked
<1>9. Once(after)
  <2>1. SUFFICES ASSUME NEW a \in DOMAIN rows, NEW b \in DOMAIN rows,
                        NEW i \in 1 .. Len(after[a].items), NEW j \in 1 .. Len(after[b].items),
                        after[a].items[i] = after[b].items[j]
                 PROVE  a = b /\ i = j
    BY <1>2 DEF Once
  <2>2. CASE a = x /\ b = x
    BY <1>6, <2>1, <2>2 DEF MayHold, Injective
  <2>3. CASE a = x /\ b # x
    BY <1>3, <1>6, <2>1, <2>3 DEF MayHold
  <2>4. CASE a # x /\ b = x
    BY <1>3, <1>6, <2>1, <2>4 DEF MayHold
  <2>5. CASE a # x /\ b # x
    BY <1>3, <2>1, <2>5 DEF Once, Nice
  <2>. QED BY <2>2, <2>3, <2>4, <2>5
<1>. QED BY <1>2, <1>3, <1>6, <1>7, <1>8, <1>9 DEF Nice, Changed

\* The events in the rows, without the detour over sets of sets.
LEMMA Events ==
  ASSUME NEW rows, Typed(rows)
  PROVE  \A e : e \in StoredEvents(rows) <=>
            \E id \in DOMAIN rows : \E i \in 1 .. Len(rows[id].items) : rows[id].items[i] = e
<1>1. \A id \in DOMAIN rows : DOMAIN rows[id].items = 1 .. Len(rows[id].items)
  BY DEF Typed, IsRow, RowType
<1>2. ASSUME NEW e, e \in StoredEvents(rows)
      PROVE  \E id \in DOMAIN rows : \E i \in 1 .. Len(rows[id].items) : rows[id].items[i] = e
  <2>1. PICK id \in DOMAIN rows : e \in ToSet(rows[id].items)
    BY <1>2 DEF StoredEvents
  <2>. QED BY <1>1, <2>1 DEF ToSet
<1>3. ASSUME NEW e, NEW id \in DOMAIN rows, NEW i \in 1 .. Len(rows[id].items), rows[id].items[i] = e
      PROVE  e \in StoredEvents(rows)
  <2>1. e \in ToSet(rows[id].items)
    BY <1>1, <1>3 DEF ToSet
  <2>. QED BY <2>1 DEF StoredEvents
<1>. QED BY <1>2, <1>3

\* The items of a chunk are those of its row.
LEMMA ItemsOnce ==
  ASSUME NEW rows, NEW S, Nice(rows, S), NEW x \in DOMAIN rows
  PROVE  /\ rows[x].items \in Seq(Nat) /\ Len(rows[x].items) \in Nat /\ Len(rows[x].items) <= Cap
         /\ Injective(rows[x].items)
         /\ rows[x].gap \in Nat /\ (rows[x].gap # NoToken => rows[x].items = <<>>)
         /\ x \in Nat
<1>1. IsRow(rows[x]) /\ x \in Nat
  <2>1. \A i \in 1 .. Len(S) : S[i] \in Nat
    BY DEF Nice, Linked
  <2>2. x \in Nat
    BY <2>1 DEF Nice, Linked
  <2>. QED BY <2>2 DEF Nice, Typed
<1>2. rows[x].items \in Seq(Nat)
  BY <1>1 DEF IsRow, RowType
<1>. QED BY <1>1, <1>2 DEF IsRow, RowType, Once, Nice, Injective

\* New items at the end of a chunk.
LEMMA AppendNice ==
  ASSUME NEW rows, NEW S, Nice(rows, S), NEW x \in DOMAIN rows, rows[x].gap = NoToken,
         NEW s \in Seq(Nat), s # <<>>, Len(rows[x].items) + Len(s) <= Cap, Injective(s),
         \A i \in 1 .. Len(s) : s[i] \notin StoredEvents(rows)
  PROVE  LET after == ApplyUpdate(rows, PushItems(Position(x, Len(rows[x].items)), s))
         IN  /\ Changed(rows, x, rows[x].items \o s, after, S)
             /\ \A e : e \in StoredEvents(after) <=> e \in StoredEvents(rows) \/ \E i \in 1 .. Len(s) : s[i] = e
<1> DEFINE after == ApplyUpdate(rows, PushItems(Position(x, Len(rows[x].items)), s))
<1>1. PICK u : u = PushItems(Position(x, Len(rows[x].items)), s)
  OBVIOUS
<1>2. u.type = "PushItems" /\ u.at.chunk = x /\ u.at.index = Len(rows[x].items) /\ u.items = s
  BY <1>1 DEF PushItems, Position
<1>3. rows # Refused
  BY NotRefused DEF Nice
<1>4. PICK r : r = rows[x].items
  OBVIOUS
<1>5. r \in Seq(Nat) /\ Len(r) \in Nat /\ Injective(r)
  BY <1>4, ItemsOnce
<1>6. PICK t : t = r \o s
  OBVIOUS
<1>7. /\ t \in Seq(Nat) /\ Len(t) = Len(r) + Len(s)
      /\ \A i \in 1 .. Len(r) : t[i] = r[i]
      /\ \A i \in 1 .. Len(s) : t[Len(r) + i] = s[i]
  BY <1>5, <1>6
<1>8. Len(s) \in Nat
  OBVIOUS
<1>9. \A i \in 1 .. Len(t) : i \in 1 .. Len(r) \/ (i - Len(r) \in 1 .. Len(s) /\ t[i] = s[i - Len(r)])
  <2>1. ASSUME NEW i \in 1 .. Len(t), i \notin 1 .. Len(r) PROVE i - Len(r) \in 1 .. Len(s) /\ t[i] = s[i - Len(r)]
    <3>1. i - Len(r) \in 1 .. Len(s) /\ Len(r) + (i - Len(r)) = i
      BY <1>5, <1>7, <1>8, <2>1
    <3>. QED BY <1>7, <3>1
  <2>. QED BY <2>1
<1>10. \A e : e \in StoredEvents(rows) <=>
            \E id \in DOMAIN rows : \E i \in 1 .. Len(rows[id].items) : rows[id].items[i] = e
  BY Events DEF Nice
<1>11. Injective(t)
  <2>1. SUFFICES ASSUME NEW i \in 1 .. Len(t), NEW j \in 1 .. Len(t), t[i] = t[j] PROVE i = j
    BY DEF Injective
  <2>2. \A a \in 1 .. Len(r), b \in 1 .. Len(s) : r[a] # s[b]
    BY <1>4, <1>10
  <2>3. CASE i \in 1 .. Len(r) /\ j \in 1 .. Len(r)
    BY <1>5, <1>7, <2>1, <2>3 DEF Injective
  <2>4. CASE i \in 1 .. Len(r) /\ j \notin 1 .. Len(r)
    BY <1>7, <1>9, <2>1, <2>2, <2>4
  <2>5. CASE i \notin 1 .. Len(r) /\ j \in 1 .. Len(r)
    BY <1>7, <1>9, <2>1, <2>2, <2>5
  <2>6. CASE i \notin 1 .. Len(r) /\ j \notin 1 .. Len(r)
    <3>1. i - Len(r) = j - Len(r)
      BY <1>9, <2>1, <2>6 DEF Injective
    <3>. QED BY <1>5, <3>1
  <2>. QED BY <2>3, <2>4, <2>5, <2>6
<1>12. \A id \in DOMAIN rows : id # x =>
         \A i \in 1 .. Len(t), j \in 1 .. Len(rows[id].items) : t[i] # rows[id].items[j]
  <2>1. SUFFICES ASSUME NEW id \in DOMAIN rows, id # x, NEW i \in 1 .. Len(t),
                        NEW j \in 1 .. Len(rows[id].items), t[i] = rows[id].items[j]
                 PROVE  FALSE
    OBVIOUS
  <2>2. CASE i \in 1 .. Len(r)
    <3>1. rows[x].items[i] = rows[id].items[j] /\ i \in 1 .. Len(rows[x].items)
      BY <1>4, <1>7, <2>1, <2>2
    <3>2. Once(rows)
      BY DEF Nice
    <3>. QED BY <2>1, <3>1, <3>2 DEF Once
  <2>3. CASE i \notin 1 .. Len(r)
    BY <1>9, <1>10, <2>1, <2>3
  <2>. QED BY <2>2, <2>3
<1>13. after = [rows EXCEPT ![x].items = t]
  <2>1. ToSet(s) \cap StoredEvents(rows) = {}
    BY DEF ToSet
  <2>2. after = AppendItems(rows, u.at, s)
    BY <1>1, <1>2, <1>3 DEF ApplyUpdate
  <2>. QED BY <1>2, <1>4, <1>6, <2>1, <2>2 DEF AppendItems
<1>14. Changed(rows, x, t, after, S)
  <2>1. Len(t) <= Cap /\ (rows[x].gap # NoToken => t = <<>>)
    BY <1>4, <1>7
  <2>2. MayHold(rows, x, t)
    BY <1>7, <1>11, <1>12, <2>1 DEF MayHold
  <2>. QED BY <1>13, <2>2, ItemsNice
<1>15. \A e : e \in StoredEvents(after) <=>
            \E id \in DOMAIN after : \E i \in 1 .. Len(after[id].items) : after[id].items[i] = e
  <2>1. Typed(after)
    BY <1>14 DEF Nice, Changed
  <2>. QED BY <2>1, Events
<1>16. ASSUME NEW e PROVE e \in StoredEvents(after) <=> e \in StoredEvents(rows) \/ \E i \in 1 .. Len(s) : s[i] = e
  <2>1. ASSUME e \in StoredEvents(after) PROVE e \in StoredEvents(rows) \/ \E i \in 1 .. Len(s) : s[i] = e
    <3>1. PICK id \in DOMAIN rows : \E i \in 1 .. Len(after[id].items) : after[id].items[i] = e
      BY <1>14, <1>15, <2>1 DEF Changed
    <3>2. CASE id = x
      <4>1. PICK i \in 1 .. Len(t) : t[i] = e
        BY <1>14, <3>1, <3>2 DEF Changed
      <4>2. CASE i \in 1 .. Len(r)
        BY <1>4, <1>7, <1>10, <4>1, <4>2
      <4>3. CASE i \notin 1 .. Len(r)
        BY <1>9, <4>1, <4>3
      <4>. QED BY <4>2, <4>3
    <3>3. CASE id # x
      BY <1>10, <1>14, <3>1, <3>3 DEF Changed
    <3>. QED BY <3>2, <3>3
  <2>2. ASSUME NEW i \in 1 .. Len(s), s[i] = e PROVE e \in StoredEvents(after)
    <3>1. Len(r) + i \in 1 .. Len(t) /\ t[Len(r) + i] = e
      BY <1>5, <1>7, <1>8, <2>2
    <3>. QED BY <1>14, <1>15, <3>1 DEF Changed
  <2>3. ASSUME e \in StoredEvents(rows) PROVE e \in StoredEvents(after)
    <3>1. PICK id \in DOMAIN rows : \E i \in 1 .. Len(rows[id].items) : rows[id].items[i] = e
      BY <1>10, <2>3
    <3>2. CASE id = x
      <4>1. PICK i \in 1 .. Len(r) : r[i] = e
        BY <1>4, <3>1, <3>2
      <4>2. i \in 1 .. Len(t) /\ t[i] = e
        BY <1>5, <1>7, <1>8, <4>1
      <4>. QED BY <1>14, <1>15, <4>2 DEF Changed
    <3>3. CASE id # x
      BY <1>14, <1>15, <3>1, <3>3 DEF Changed
    <3>. QED BY <3>2, <3>3
  <2>. QED BY <2>1, <2>2, <2>3
<1>17. Changed(rows, x, rows[x].items \o s, after, S)
  BY <1>4, <1>6, <1>14
<1>. QED BY <1>16, <1>17

\* Items of a chunk go, the others keep their order.
LEMMA FewerNice ==
  ASSUME NEW rows, NEW S, Nice(rows, S), NEW x \in DOMAIN rows, NEW t \in Seq(Nat),
         NEW f \in [1 .. Len(t) -> 1 .. Len(rows[x].items)], Len(t) <= Len(rows[x].items),
         \A i \in 1 .. Len(t) : t[i] = rows[x].items[f[i]],
         \A i, j \in 1 .. Len(t) : f[i] = f[j] => i = j,
         NEW after, after = [rows EXCEPT ![x].items = t]
  PROVE  Changed(rows, x, t, after, S)
<1>1. PICK r : r = rows[x].items
  OBVIOUS
<1>2. r \in Seq(Nat) /\ Len(r) \in Nat /\ Len(r) <= Cap /\ Injective(r) /\ (rows[x].gap # NoToken => r = <<>>)
  BY <1>1, ItemsOnce
<1>3. Len(t) <= Cap
  BY <1>1, <1>2, CapAssumption
<1>4. rows[x].gap # NoToken => t = <<>>
  BY <1>1, <1>2
<1>5. Injective(t)
  <2>1. SUFFICES ASSUME NEW i \in 1 .. Len(t), NEW j \in 1 .. Len(t), t[i] = t[j] PROVE i = j
    BY DEF Injective
  <2>2. f[i] \in 1 .. Len(r) /\ f[j] \in 1 .. Len(r) /\ r[f[i]] = r[f[j]]
    BY <1>1, <2>1
  <2>3. f[i] = f[j]
    BY <1>2, <2>2 DEF Injective
  <2>. QED BY <2>3
<1>6. \A id \in DOMAIN rows : id # x =>
         \A i \in 1 .. Len(t), j \in 1 .. Len(rows[id].items) : t[i] # rows[id].items[j]
  <2>1. SUFFICES ASSUME NEW id \in DOMAIN rows, id # x, NEW i \in 1 .. Len(t),
                        NEW j \in 1 .. Len(rows[id].items), t[i] = rows[id].items[j]
                 PROVE  FALSE
    OBVIOUS
  <2>2. PICK a : a = f[i]
    OBVIOUS
  <2>3. a \in 1 .. Len(rows[x].items) /\ rows[x].items[a] = rows[id].items[j]
    BY <2>1, <2>2
  <2>4. Once(rows)
    BY DEF Nice
  <2>. QED BY <2>1, <2>3, <2>4 DEF Once
<1>7. MayHold(rows, x, t)
  BY <1>3, <1>4, <1>5, <1>6 DEF MayHold
<1>. QED BY <1>7, ItemsNice

\* SubSeq, by its elements.
LEMMA SubSeqIs ==
  ASSUME NEW T, NEW s \in Seq(T), NEW a \in 1 .. Len(s) + 1, NEW b \in 0 .. Len(s), a <= b + 1
  PROVE  /\ SubSeq(s, a, b) \in Seq(T) /\ Len(SubSeq(s, a, b)) = b - a + 1
         /\ \A i \in 1 .. b - a + 1 : SubSeq(s, a, b)[i] = s[a + i - 1]
<1>1. \A i \in a .. b : s[i] \in T
  OBVIOUS
<1>2. a \in Int /\ b \in Int
  OBVIOUS
<1>3. /\ SubSeq(s, a, b) \in Seq(T)
      /\ Len(SubSeq(s, a, b)) = IF a <= b THEN b - a + 1 ELSE 0
      /\ \A i \in 1 .. b - a + 1 : SubSeq(s, a, b)[i] = s[a + i - 1]
  BY <1>1, <1>2, SubSeqProperties
<1>. QED BY <1>3

IsConcat(T, p, m, q, n, r) ==
  /\ r \in Seq(T) /\ Len(r) = m + n
  /\ \A i \in 1 .. m : r[i] = p[i]
  /\ \A i \in 1 .. n : r[m + i] = q[i]

\* A concatenation, by its elements.
LEMMA ConcatIs ==
  ASSUME NEW T, NEW p \in Seq(T), NEW q \in Seq(T)
  PROVE  IsConcat(T, p, Len(p), q, Len(q), p \o q)
<1>1. Len(p) \in Nat /\ Len(q) \in Nat
  OBVIOUS
<1>2. /\ p \o q \in Seq(T) /\ Len(p \o q) = Len(p) + Len(q)
      /\ \A i \in 1 .. Len(p) + Len(q) : (p \o q)[i] = IF i <= Len(p) THEN p[i] ELSE q[i - Len(p)]
  BY ConcatProperties
<1>3. \A i \in 1 .. Len(p) : (p \o q)[i] = p[i]
  BY <1>1, <1>2
<1>4. ASSUME NEW i \in 1 .. Len(q) PROVE (p \o q)[Len(p) + i] = q[i]
  <2>1. Len(p) + i \in 1 .. Len(p) + Len(q) /\ ~ (Len(p) + i <= Len(p)) /\ (Len(p) + i) - Len(p) = i
    BY <1>1
  <2>. QED BY <1>2, <2>1
<1>. QED BY <1>2, <1>3, <1>4 DEF IsConcat

\* RemoveAt, by its elements.
LEMMA RemoveAtIs ==
  ASSUME NEW T, NEW s \in Seq(T), NEW k \in 1 .. Len(s)
  PROVE  /\ RemoveAt(s, k) \in Seq(T) /\ Len(RemoveAt(s, k)) = Len(s) - 1
         /\ \A i \in 1 .. Len(s) - 1 : RemoveAt(s, k)[i] = IF i < k THEN s[i] ELSE s[i + 1]
<1>1. PICK p, q : p = SubSeq(s, 1, k - 1) /\ q = SubSeq(s, k + 1, Len(s))
  OBVIOUS
<1>2. PICK n \in Nat : n = Len(s)
  OBVIOUS
<1>3. /\ p \in Seq(T) /\ Len(p) = k - 1 /\ \A i \in 1 .. k - 1 : p[i] = s[i]
  <2>1. k - 1 \in 0 .. n /\ 1 \in 1 .. n + 1 /\ 1 <= (k - 1) + 1 /\ k - 1 - 1 + 1 = k - 1
    BY <1>2
  <2>2. \A i \in 1 .. k - 1 : 1 + i - 1 = i
    OBVIOUS
  <2>. QED BY <1>1, <1>2, <2>1, <2>2, SubSeqIs
<1>4. /\ q \in Seq(T) /\ Len(q) = n - k /\ \A i \in 1 .. n - k : q[i] = s[k + i]
  <2>1. n \in 0 .. n /\ k + 1 \in 1 .. n + 1 /\ k + 1 <= n + 1
    BY <1>2
  <2>2. /\ q \in Seq(T) /\ Len(q) = n - (k + 1) + 1
        /\ \A i \in 1 .. n - (k + 1) + 1 : q[i] = s[(k + 1) + i - 1]
    BY <1>1, <1>2, <2>1, SubSeqIs
  <2>3. n - (k + 1) + 1 = n - k /\ \A i \in 1 .. n - k : (k + 1) + i - 1 = k + i
    BY <1>2
  <2>. QED BY <2>2, <2>3
<1>5. PICK r : r = p \o q
  OBVIOUS
<1>6. /\ r \in Seq(T) /\ Len(r) = (k - 1) + (n - k)
      /\ \A i \in 1 .. k - 1 : r[i] = p[i]
      /\ \A i \in 1 .. n - k : r[(k - 1) + i] = q[i]
  <2>1. IsConcat(T, p, Len(p), q, Len(q), p \o q)
    BY <1>3, <1>4, ConcatIs
  <2>2. IsConcat(T, p, k - 1, q, n - k, r)
    BY <1>3, <1>4, <1>5, <2>1
  <2>. QED BY <2>2 DEF IsConcat
<1>7. ASSUME NEW i \in 1 .. n - 1 PROVE r[i] = IF i < k THEN s[i] ELSE s[i + 1]
  <2>1. CASE i < k
    BY <1>3, <1>6, <2>1
  <2>2. CASE i >= k
    <3>1. PICK j \in 1 .. n - k : (k - 1) + j = i
      <4>1. i - k + 1 \in 1 .. n - k /\ (k - 1) + (i - k + 1) = i
        BY <1>2, <2>2
      <4>. QED BY <4>1
    <3>2. r[(k - 1) + j] = s[k + j]
      BY <1>4, <1>6
    <3>3. k + j = i + 1
      BY <1>2, <3>1
    <3>4. ~ (i < k)
      BY <2>2
    <3>. QED BY <3>1, <3>2, <3>4, <3>3
  <2>. QED BY <2>1, <2>2
<1>8. RemoveAt(s, k) = r
  BY <1>1, <1>5 DEF RemoveAt
<1>9. Len(r) = n - 1
  BY <1>2, <1>6
<1>. QED BY <1>2, <1>6, <1>7, <1>8, <1>9

IsInserted(T, s, k, x, r) ==
  /\ r \in Seq(T) /\ Len(r) = Len(s) + 1
  /\ \A i \in 1 .. Len(s) + 1 : r[i] = IF i < k THEN s[i] ELSE IF i = k THEN x ELSE s[i - 1]

\* InsertAt, by its elements.
LEMMA InsertAtIs ==
  ASSUME NEW T, NEW s \in Seq(T), NEW k \in 1 .. Len(s) + 1, NEW x \in T
  PROVE  IsInserted(T, s, k, x, InsertAt(s, k, x))
<1>1. PICK p, q, y : p = SubSeq(s, 1, k - 1) /\ q = SubSeq(s, k, Len(s)) /\ y = <<x>>
  OBVIOUS
<1>2. PICK n \in Nat : n = Len(s)
  OBVIOUS
<1>3. /\ p \in Seq(T) /\ Len(p) = k - 1 /\ \A i \in 1 .. k - 1 : p[i] = s[i]
  <2>1. k - 1 \in 0 .. n /\ 1 \in 1 .. n + 1 /\ 1 <= (k - 1) + 1 /\ k - 1 - 1 + 1 = k - 1
    BY <1>2
  <2>2. \A i \in 1 .. k - 1 : 1 + i - 1 = i
    OBVIOUS
  <2>. QED BY <1>1, <1>2, <2>1, <2>2, SubSeqIs
<1>4. /\ q \in Seq(T) /\ Len(q) = n - k + 1 /\ \A i \in 1 .. n - k + 1 : q[i] = s[k + i - 1]
  <2>1. n \in 0 .. n /\ k \in 1 .. n + 1 /\ k <= n + 1
    BY <1>2
  <2>. QED BY <1>1, <1>2, <2>1, SubSeqIs
<1>5. y \in Seq(T) /\ Len(y) = 1 /\ y[1] = x
  BY <1>1
<1>6. PICK w, r : w = p \o y /\ r = w \o q
  OBVIOUS
<1>7. /\ w \in Seq(T) /\ Len(w) = (k - 1) + 1
      /\ \A i \in 1 .. k - 1 : w[i] = p[i]
      /\ w[(k - 1) + 1] = x
  <2>1. /\ w \in Seq(T) /\ Len(w) = (k - 1) + 1
        /\ \A i \in 1 .. k - 1 : w[i] = p[i]
        /\ \A i \in 1 .. 1 : w[(k - 1) + i] = y[i]
    <3>1. IsConcat(T, p, Len(p), y, Len(y), p \o y)
      BY <1>3, <1>5, ConcatIs
    <3>2. IsConcat(T, p, k - 1, y, 1, w)
      BY <1>3, <1>5, <1>6, <3>1
    <3>. QED BY <3>2 DEF IsConcat
  <2>. QED BY <1>5, <2>1
<1>8. Len(w) = k /\ (k - 1) + 1 = k
  BY <1>7
<1>9. /\ r \in Seq(T) /\ Len(r) = k + (n - k + 1)
      /\ \A i \in 1 .. k : r[i] = w[i]
      /\ \A i \in 1 .. n - k + 1 : r[k + i] = q[i]
  <2>1. IsConcat(T, w, Len(w), q, Len(q), w \o q)
    BY <1>4, <1>7, ConcatIs
  <2>2. IsConcat(T, w, k, q, n - k + 1, r)
    BY <1>4, <1>6, <1>8, <2>1
  <2>. QED BY <2>2 DEF IsConcat
<1>10. ASSUME NEW i \in 1 .. n + 1 PROVE r[i] = IF i < k THEN s[i] ELSE IF i = k THEN x ELSE s[i - 1]
  <2>1. CASE i < k
    BY <1>3, <1>7, <1>8, <1>9, <2>1
  <2>2. CASE i = k
    BY <1>7, <1>8, <1>9, <2>2
  <2>3. CASE i > k
    <3>1. PICK j \in 1 .. n - k + 1 : k + j = i
      <4>1. i - k \in 1 .. n - k + 1 /\ k + (i - k) = i
        BY <1>2, <2>3
      <4>. QED BY <4>1
    <3>2. r[k + j] = s[k + j - 1]
      BY <1>4, <1>9
    <3>3. k + j - 1 = i - 1
      BY <1>2, <3>1
    <3>4. ~ (i < k) /\ i # k
      BY <2>3
    <3>. QED BY <3>1, <3>2, <3>4, <3>3
  <2>. QED BY <2>1, <2>2, <2>3
<1>11. InsertAt(s, k, x) = r
  BY <1>1, <1>6 DEF InsertAt
<1>12. Len(r) = n + 1
  BY <1>2, <1>9
<1>13. r \in Seq(T) /\ Len(r) = Len(s) + 1
  BY <1>2, <1>9, <1>12
<1>14. \A i \in 1 .. Len(s) + 1 : r[i] = IF i < k THEN s[i] ELSE IF i = k THEN x ELSE s[i - 1]
  BY <1>2, <1>10
<1>15. IsInserted(T, s, k, x, r)
  BY <1>13, <1>14 DEF IsInserted
<1>. QED BY <1>11, <1>15

\* Where the items of one chunk have changed, the events are the new ones and the others.
LEMMA EventsChanged ==
  ASSUME NEW rows, NEW S, Nice(rows, S), NEW x \in DOMAIN rows, NEW t, NEW after,
         Changed(rows, x, t, after, S)
  PROVE  \A e : e \in StoredEvents(after) <=>
            \/ \E i \in 1 .. Len(t) : t[i] = e
            \/ \E id \in DOMAIN rows : id # x /\ \E i \in 1 .. Len(rows[id].items) : rows[id].items[i] = e
<1>1. Typed(after)
  BY DEF Nice, Changed
<1>2. \A e : e \in StoredEvents(after) <=>
            \E id \in DOMAIN after : \E i \in 1 .. Len(after[id].items) : after[id].items[i] = e
  BY <1>1, Events
<1>. QED BY <1>2 DEF Changed

\* The last items of a chunk are detached.
LEMMA DetachNice ==
  ASSUME NEW rows, NEW S, Nice(rows, S), NEW x \in DOMAIN rows, NEW k \in 0 .. Len(rows[x].items)
  PROVE  LET after == ApplyUpdate(rows, DetachLastItems(Position(x, k)))
         IN  /\ Changed(rows, x, SubSeq(rows[x].items, 1, k), after, S)
             /\ \A e : e \in StoredEvents(after) =>
                  e \in StoredEvents(rows) /\ \A i \in k + 1 .. Len(rows[x].items) : rows[x].items[i] # e
<1> DEFINE after == ApplyUpdate(rows, DetachLastItems(Position(x, k)))
<1>1. PICK u : u = DetachLastItems(Position(x, k))
  OBVIOUS
<1>2. u.type = "DetachLastItems" /\ u.at.chunk = x /\ u.at.index = k
  BY <1>1 DEF DetachLastItems, Position
<1>3. rows # Refused
  BY NotRefused DEF Nice
<1>4. PICK r : r = rows[x].items
  OBVIOUS
<1>5. r \in Seq(Nat) /\ Len(r) \in Nat /\ Injective(r)
  BY <1>4, ItemsOnce
<1>6. PICK t : t = SubSeq(r, 1, k)
  OBVIOUS
<1>7. t \in Seq(Nat) /\ Len(t) = k /\ \A i \in 1 .. k : t[i] = r[i]
  <2>1. k \in 0 .. Len(r) /\ 1 \in 1 .. Len(r) + 1 /\ 1 <= k + 1 /\ k - 1 + 1 = k
    BY <1>4, <1>5
  <2>2. \A i \in 1 .. k : 1 + i - 1 = i
    OBVIOUS
  <2>. QED BY <1>5, <1>6, <2>1, <2>2, SubSeqIs
<1>8. after = [rows EXCEPT ![x].items = t]
  BY <1>1, <1>2, <1>3, <1>4, <1>6 DEF ApplyUpdate
<1>9. Changed(rows, x, t, after, S)
  <2>1. PICK f : f = [i \in 1 .. k |-> i]
    OBVIOUS
  <2>2. /\ f \in [1 .. Len(t) -> 1 .. Len(rows[x].items)] /\ Len(t) <= Len(rows[x].items)
        /\ \A i \in 1 .. Len(t) : t[i] = rows[x].items[f[i]]
        /\ \A i, j \in 1 .. Len(t) : f[i] = f[j] => i = j
    BY <1>4, <1>5, <1>7, <2>1
  <2>. QED BY <1>7, <1>8, <2>2, FewerNice
<1>10. ASSUME NEW e, e \in StoredEvents(after)
       PROVE  e \in StoredEvents(rows) /\ \A i \in k + 1 .. Len(r) : r[i] # e
  <2>1. \/ \E i \in 1 .. k : r[i] = e
        \/ \E id \in DOMAIN rows : id # x /\ \E i \in 1 .. Len(rows[id].items) : rows[id].items[i] = e
    BY <1>7, <1>9, <1>10, EventsChanged
  <2>2. \E id \in DOMAIN rows : \E i \in 1 .. Len(rows[id].items) : rows[id].items[i] = e
    BY <1>4, <1>5, <2>1
  <2>3. e \in StoredEvents(rows)
    BY <2>2, Events DEF Nice
  <2>4. ASSUME NEW i \in k + 1 .. Len(r), r[i] = e PROVE FALSE
    <3>1. i \in 1 .. Len(r)
      BY <1>5
    <3>2. CASE \E j \in 1 .. k : r[j] = e
      BY <1>4, <1>5, <2>4, <3>1, <3>2 DEF Injective
    <3>3. CASE \E id \in DOMAIN rows : id # x /\ \E j \in 1 .. Len(rows[id].items) : rows[id].items[j] = e
      BY <1>4, <2>4, <3>1, <3>3 DEF Nice, Once
    <3>. QED BY <2>1, <3>2, <3>3
  <2>. QED BY <2>3, <2>4
<1>. QED BY <1>4, <1>6, <1>9, <1>10

\* One item goes.
LEMMA RemoveNice ==
  ASSUME NEW rows, NEW S, Nice(rows, S), NEW x \in DOMAIN rows, NEW k \in 1 .. Len(rows[x].items)
  PROVE  LET after == ApplyUpdate(rows, RemoveItem(Position(x, k - 1)))
         IN  /\ Changed(rows, x, RemoveAt(rows[x].items, k), after, S)
             /\ after = [rows EXCEPT ![x].items = RemoveAt(rows[x].items, k)]
             /\ \A e : e \in StoredEvents(after) => e \in StoredEvents(rows) /\ e # rows[x].items[k]
<1> DEFINE after == ApplyUpdate(rows, RemoveItem(Position(x, k - 1)))
<1>1. PICK u : u = RemoveItem(Position(x, k - 1))
  OBVIOUS
<1>2. u.type = "RemoveItem" /\ u.at.chunk = x /\ u.at.index = k - 1
  BY <1>1 DEF RemoveItem, Position
<1>3. rows # Refused
  BY NotRefused DEF Nice
<1>4. PICK r : r = rows[x].items
  OBVIOUS
<1>5. r \in Seq(Nat) /\ Len(r) \in Nat /\ Injective(r) /\ k \in 1 .. Len(r)
  BY <1>4, ItemsOnce
<1>6. PICK t : t = RemoveAt(r, k)
  OBVIOUS
<1>7. t \in Seq(Nat) /\ Len(t) = Len(r) - 1 /\ \A i \in 1 .. Len(r) - 1 : t[i] = IF i < k THEN r[i] ELSE r[i + 1]
  BY <1>5, <1>6, RemoveAtIs
<1>8. after = [rows EXCEPT ![x].items = t]
  <2>1. HasPosition(rows, u.at) /\ u.at.index + 1 = k
    BY <1>2, <1>4, <1>5 DEF HasPosition
  <2>. QED BY <1>1, <1>2, <1>3, <1>4, <1>6, <2>1 DEF ApplyUpdate
<1>9. Changed(rows, x, t, after, S)
  <2>1. PICK f : f = [i \in 1 .. Len(r) - 1 |-> IF i < k THEN i ELSE i + 1]
    OBVIOUS
  <2>2. f \in [1 .. Len(t) -> 1 .. Len(rows[x].items)] /\ Len(t) <= Len(rows[x].items)
    <3>1. PICK n \in Nat : n = Len(r) /\ k \in 1 .. n
      BY <1>5
    <3>2. \A i \in 1 .. n - 1 : (IF i < k THEN i ELSE i + 1) \in 1 .. n
      BY <3>1
    <3>3. f \in [1 .. n - 1 -> 1 .. n] /\ n - 1 <= n
      BY <2>1, <3>1, <3>2
    <3>. QED BY <1>4, <1>7, <3>1, <3>3
  <2>3. \A i \in 1 .. Len(t) : t[i] = rows[x].items[f[i]]
    BY <1>4, <1>7, <2>1
  <2>4. \A i, j \in 1 .. Len(t) : f[i] = f[j] => i = j
    <3>1. ASSUME NEW i \in 1 .. Len(t), NEW j \in 1 .. Len(t), f[i] = f[j] PROVE i = j
      <4>1. f[i] = (IF i < k THEN i ELSE i + 1) /\ f[j] = (IF j < k THEN j ELSE j + 1)
        BY <1>7, <2>1
      <4>2. i \in Int /\ j \in Int /\ k \in Int
        OBVIOUS
      <4>3. \A a, b \in Int : (IF a < k THEN a ELSE a + 1) = (IF b < k THEN b ELSE b + 1) => a = b
        BY <4>2
      <4>4. (IF i < k THEN i ELSE i + 1) = (IF j < k THEN j ELSE j + 1)
        BY <3>1, <4>1
      <4>. QED BY <4>2, <4>3, <4>4
    <3>. QED BY <3>1
  <2>. QED BY <1>7, <1>8, <2>2, <2>3, <2>4, FewerNice
<1>10. ASSUME NEW e, e \in StoredEvents(after)
       PROVE  e \in StoredEvents(rows) /\ e # r[k]
  <2>1. ASSUME NEW i \in 1 .. Len(t) PROVE \E j \in 1 .. Len(r) : j # k /\ r[j] = t[i]
    <3>1. CASE i < k
      <4>1. i \in 1 .. Len(r) /\ i # k /\ t[i] = r[i]
        BY <1>5, <1>7, <3>1
      <4>. QED BY <4>1
    <3>2. CASE i >= k
      <4>1. i + 1 \in 1 .. Len(r) /\ i + 1 # k /\ t[i] = r[i + 1]
        BY <1>5, <1>7, <3>2
      <4>. QED BY <4>1
    <3>. QED BY <1>5, <1>7, <3>1, <3>2
  <2>2. \/ \E i \in 1 .. Len(r) : i # k /\ r[i] = e
        \/ \E id \in DOMAIN rows : id # x /\ \E i \in 1 .. Len(rows[id].items) : rows[id].items[i] = e
    <3>1. \/ \E i \in 1 .. Len(t) : t[i] = e
          \/ \E id \in DOMAIN rows : id # x /\ \E i \in 1 .. Len(rows[id].items) : rows[id].items[i] = e
      BY <1>9, <1>10, EventsChanged
    <3>. QED BY <2>1, <3>1
  <2>3. \E id \in DOMAIN rows : \E i \in 1 .. Len(rows[id].items) : rows[id].items[i] = e
    BY <1>4, <2>2
  <2>4. e \in StoredEvents(rows)
    BY <2>3, Events DEF Nice
  <2>5. ASSUME r[k] = e PROVE FALSE
    <3>1. CASE \E j \in 1 .. Len(r) : j # k /\ r[j] = e
      BY <1>5, <2>5, <3>1 DEF Injective
    <3>2. CASE \E id \in DOMAIN rows : id # x /\ \E j \in 1 .. Len(rows[id].items) : rows[id].items[j] = e
      BY <1>4, <1>5, <2>5, <3>2 DEF Nice, Once
    <3>. QED BY <2>2, <3>1, <3>2
  <2>. QED BY <2>4, <2>5
<1>. QED BY <1>4, <1>6, <1>8, <1>9, <1>10

\* An item that is replaced by itself.
LEMMA ReplaceSame ==
  ASSUME NEW rows, NEW S, Nice(rows, S), NEW x \in DOMAIN rows, NEW k \in 1 .. Len(rows[x].items)
  PROVE  ApplyUpdate(rows, ReplaceItem(Position(x, k - 1), rows[x].items[k])) = rows
<1>1. PICK u : u = ReplaceItem(Position(x, k - 1), rows[x].items[k])
  OBVIOUS
<1>2. u.type = "ReplaceItem" /\ u.at.chunk = x /\ u.at.index = k - 1 /\ u.item = rows[x].items[k]
  BY <1>1 DEF ReplaceItem, Position
<1>3. rows # Refused
  BY NotRefused DEF Nice
<1>4. PICK r : r = rows[x].items
  OBVIOUS
<1>5. r \in Seq(Nat) /\ Len(r) \in Nat /\ k \in 1 .. Len(r)
  BY <1>4, ItemsOnce
<1>6. HasPosition(rows, u.at) /\ u.at.index + 1 = k
  BY <1>2, <1>4, <1>5 DEF HasPosition
<1>7. ApplyUpdate(rows, u) = [rows EXCEPT ![x].items[k] = r[k]]
  BY <1>2, <1>3, <1>4, <1>6 DEF ApplyUpdate
<1>8. [r EXCEPT ![k] = r[k]] = r
  BY <1>5
<1>9. PICK q : q = rows[x]
  OBVIOUS
<1>10. q \in RowType
  BY <1>9 DEF Nice, Typed, IsRow
<1>11. [q EXCEPT !.items[k] = r[k]] = q
  <2>1. [q EXCEPT !.items[k] = r[k]] = [q EXCEPT !.items = [q.items EXCEPT ![k] = r[k]]]
    OBVIOUS
  <2>2. q.items = r
    BY <1>4, <1>9
  <2>3. [q EXCEPT !.items = r] = q
    BY <1>10, <2>2 DEF RowType
  <2>. QED BY <1>8, <2>1, <2>2, <2>3
<1>12. [rows EXCEPT ![x].items[k] = r[k]] = [rows EXCEPT ![x] = [q EXCEPT !.items[k] = r[k]]]
  BY <1>9
<1>13. [rows EXCEPT ![x] = q] = rows
  BY <1>9 DEF Nice, Typed
<1>. QED BY <1>1, <1>7, <1>11, <1>12, <1>13

\* What tells the vector that items are attached again says nothing to the store.
LEMMA MarksSay ==
  ASSUME NEW rows
  PROVE  ApplyUpdate(rows, StartReattachItems) = rows /\ ApplyUpdate(rows, EndReattachItems) = rows
<1>1. StartReattachItems.type = "StartReattachItems" /\ EndReattachItems.type = "EndReattachItems"
  BY DEF StartReattachItems, EndReattachItems
<1>. QED BY <1>1 DEF ApplyUpdate

-----------------------------------------------------------------------------
(* What the order tracker hears of an update.                              *)

Tracking == INSTANCE Folding WITH Op <- MapUpdate

LenType == [id : Nat, len : Nat]

\* The lengths of the chunks, in the order of S.
Lengths(rows, S) == [i \in 1 .. Len(S) |-> [id |-> S[i], len |-> Len(rows[S[i]].items)]]

\* The mapper of the order tracker knows them.
Follows(m, rows, S) ==
  /\ m = [chunks |-> m.chunks, vector |-> m.vector, reattaching |-> m.reattaching, detaching |-> m.detaching]
  /\ m.chunks = Lengths(rows, S)

\* The update tells it what the rows have become.
Told(rows, S, u, rows2, S2) ==
  \A m : Follows(m, rows, S) => Follows(MapUpdate(m, u), rows2, S2)

AreLengths(rows, S, L) ==
  /\ L \in Seq(LenType) /\ Len(L) = Len(S) /\ Len(S) \in Nat /\ DOMAIN L = 1 .. Len(S)
  /\ \A i \in 1 .. Len(S) :
       /\ L[i] = [id |-> S[i], len |-> Len(rows[S[i]].items)]
       /\ L[i].id = S[i] /\ L[i].len = Len(rows[S[i]].items)
       /\ S[i] \in DOMAIN rows /\ S[i] \in Nat /\ Len(rows[S[i]].items) \in Nat

\* The lengths of the chunks, by their index.
LEMMA LengthsAre ==
  ASSUME NEW rows, NEW S, Nice(rows, S)
  PROVE  AreLengths(rows, S, Lengths(rows, S))
<1>1. PICK L : L = Lengths(rows, S)
  OBVIOUS
<1>2. PICK n \in Nat : n = Len(S)
  BY DEF Nice, Linked
<1>3. ASSUME NEW i \in 1 .. n
      PROVE  S[i] \in DOMAIN rows /\ S[i] \in Nat /\ Len(rows[S[i]].items) \in Nat
  <2>1. S[i] \in DOMAIN rows /\ S[i] \in Nat
    BY <1>2 DEF Nice, Linked
  <2>. QED BY <2>1, ItemsOnce
<1>4. L = [i \in 1 .. n |-> [id |-> S[i], len |-> Len(rows[S[i]].items)]]
  BY <1>1, <1>2 DEF Lengths
<1>5. \A i \in 1 .. n : L[i] \in LenType
  BY <1>3, <1>4 DEF LenType
<1>. QED BY <1>1, <1>2, <1>3, <1>4, <1>5 DEF AreLengths

\* The index of a chunk that the tracker knows.
LEMMA AtIs ==
  ASSUME NEW rows, NEW S, Nice(rows, S), NEW m, Follows(m, rows, S)
  PROVE  /\ \A i \in 1 .. Len(S) : Knows(m, S[i]) /\ At(m, S[i]) = i
         /\ \A x : x \notin DOMAIN rows => ~Knows(m, x)
<1>1. PICK L : L = Lengths(rows, S)
  OBVIOUS
<1>2. L = m.chunks
  BY <1>1 DEF Follows
<1>3. AreLengths(rows, S, L)
  BY <1>1, LengthsAre
<1>4. /\ DOMAIN L = 1 .. Len(S)
      /\ \A i \in 1 .. Len(S) : L[i].id = S[i] /\ S[i] \in DOMAIN rows
  BY <1>3 DEF AreLengths
<1>5. \A i, j \in 1 .. Len(S) : S[i] = S[j] => i = j
  BY DEF Nice, Linked
<1>6. ASSUME NEW i \in 1 .. Len(S) PROVE Knows(m, S[i]) /\ At(m, S[i]) = i
  <2>1. \E j \in DOMAIN m.chunks : m.chunks[j].id = S[i]
    BY <1>2, <1>4
  <2>2. PICK a : a = At(m, S[i])
    OBVIOUS
  <2>3. a \in DOMAIN m.chunks /\ m.chunks[a].id = S[i]
    BY <2>1, <2>2 DEF At
  <2>4. a \in 1 .. Len(S) /\ S[a] = S[i]
    BY <1>2, <1>4, <2>3
  <2>. QED BY <1>5, <2>1, <2>2, <2>4 DEF Knows
<1>7. ASSUME NEW x, x \notin DOMAIN rows PROVE ~Knows(m, x)
  BY <1>2, <1>4, <1>7 DEF Knows
<1>. QED BY <1>6, <1>7

LenSet(L, j, l) == [L EXCEPT ![j].len = l]

\* A chunk has another length.
LEMMA LengthChanged ==
  ASSUME NEW rows, NEW S, Nice(rows, S), NEW j \in 1 .. Len(S), NEW t, NEW after, Changed(rows, S[j], t, after, S)
  PROVE  Lengths(after, S) = LenSet(Lengths(rows, S), j, Len(t))
<1>1. S \in Seq(Nat)
  BY DEF Nice, Linked
<1>2. PICK n \in Nat : n = Len(S)
  BY <1>1
<1>3. PICK L, A : L = Lengths(rows, S) /\ A = Lengths(after, S)
  OBVIOUS
<1>4. /\ L = [i \in 1 .. n |-> [id |-> S[i], len |-> Len(rows[S[i]].items)]]
      /\ A = [i \in 1 .. n |-> [id |-> S[i], len |-> Len(after[S[i]].items)]]
  BY <1>2, <1>3 DEF Lengths
<1>5. ASSUME NEW i \in 1 .. n, i # j PROVE A[i] = L[i]
  <2>1. S[i] \in DOMAIN rows /\ S[i] # S[j]
    BY <1>2, <1>5 DEF Nice, Linked
  <2>2. after[S[i]] = rows[S[i]]
    BY <2>1 DEF Changed
  <2>. QED BY <1>4, <2>2
<1>6. A[j] = [L[j] EXCEPT !.len = Len(t)]
  <2>1. after[S[j]].items = t
    BY DEF Changed
  <2>. QED BY <1>2, <1>4, <2>1
<1>7. A = [i \in 1 .. n |-> IF i = j THEN [L[j] EXCEPT !.len = Len(t)] ELSE L[i]]
  BY <1>4, <1>5, <1>6
<1>8. [L EXCEPT ![j].len = Len(t)] = [i \in 1 .. n |-> IF i = j THEN [L[j] EXCEPT !.len = Len(t)] ELSE L[i]]
  BY <1>4
<1>. QED BY <1>3, <1>7, <1>8 DEF LenSet

\* The update changes the length of the j-th chunk of the tracker.
LEMMA LenTold ==
  ASSUME NEW rows, NEW S, Nice(rows, S), NEW j \in 1 .. Len(S), NEW t, NEW after, Changed(rows, S[j], t, after, S),
         NEW m, Follows(m, rows, S), NEW m2, NEW vector, NEW a, NEW b,
         m2 = [chunks |-> [m.chunks EXCEPT ![j].len = Len(t)], vector |-> vector, reattaching |-> a, detaching |-> b]
  PROVE  Follows(m2, after, S)
<1>1. m.chunks = Lengths(rows, S)
  BY DEF Follows
<1>2. Lengths(after, S) = LenSet(Lengths(rows, S), j, Len(t))
  BY LengthChanged
<1>3. m2.chunks = Lengths(after, S)
  BY <1>1, <1>2 DEF LenSet
<1>4. m2 = [chunks |-> m2.chunks, vector |-> m2.vector, reattaching |-> m2.reattaching, detaching |-> m2.detaching]
  OBVIOUS
<1>. QED BY <1>3, <1>4 DEF Follows

\* PushItems.
LEMMA PushTold ==
  ASSUME NEW rows, NEW S, Nice(rows, S), NEW x \in DOMAIN rows, NEW s \in Seq(Nat), NEW k, NEW after,
         Changed(rows, x, rows[x].items \o s, after, S)
  PROVE  Told(rows, S, PushItems(Position(x, k), s), after, S)
<1>1. PICK j \in 1 .. Len(S) : S[j] = x
  BY DEF Nice, Linked
<1>2. SUFFICES ASSUME NEW m, Follows(m, rows, S) PROVE Follows(MapUpdate(m, PushItems(Position(x, k), s)), after, S)
  BY DEF Told
<1>3. PICK u : u = PushItems(Position(x, k), s)
  OBVIOUS
<1>4. u.type = "PushItems" /\ u.at.chunk = x /\ u.items = s
  BY <1>3 DEF PushItems, Position
<1>5. Knows(m, x) /\ At(m, x) = j
  BY <1>1, <1>2, AtIs
<1>6. MapUpdate(m, u) = MapPush(m, u)
  BY <1>4, <1>5 DEF MapUpdate
<1>7. PICK c, v, a, b : m = [chunks |-> c, vector |-> v, reattaching |-> a, detaching |-> b] /\ m.chunks = c
  BY <1>2 DEF Follows
<1>8. PICK L : L = Lengths(rows, S)
  OBVIOUS
<1>9. AreLengths(rows, S, L)
  BY <1>8, LengthsAre
<1>10. PICK t : t = rows[x].items \o s
  OBVIOUS
<1>11. rows[x].items \in Seq(Nat) /\ Len(t) = Len(rows[x].items) + Len(s)
  BY <1>10, ItemsOnce
<1>12. [c EXCEPT ![j].len = @ + Len(s)] = [c EXCEPT ![j].len = Len(t)]
  <2>1. c = L
    BY <1>2, <1>7, <1>8 DEF Follows
  <2>2. L[j].len = Len(rows[x].items)
    BY <1>1, <1>9 DEF AreLengths
  <2>. QED BY <1>11, <2>1, <2>2
<1>13. PICK grown : grown = [m EXCEPT !.chunks[j].len = @ + Len(s)]
  OBVIOUS
<1>14. grown = [chunks |-> [c EXCEPT ![j].len = Len(t)], vector |-> v, reattaching |-> a, detaching |-> b]
  <2>1. grown = [chunks |-> [c EXCEPT ![j].len = @ + Len(s)], vector |-> v, reattaching |-> a, detaching |-> b]
    BY <1>7, <1>13
  <2>. QED BY <1>12, <2>1
<1>15. \E w : MapPush(m, u) = [grown EXCEPT !.vector = w]
  <2>1. [grown EXCEPT !.vector = grown.vector] = grown
    BY <1>14
  <2>2. CASE m.reattaching
    BY <1>4, <1>5, <1>13, <2>1, <2>2 DEF MapPush
  <2>3. CASE ~m.reattaching
    <3>1. PICK back : back = (j = Len(m.chunks) /\ u.at.index >= m.chunks[j].len)
      OBVIOUS
    <3>2. CASE back /\ ~m.detaching
      BY <1>4, <1>5, <1>13, <2>3, <3>1, <3>2 DEF MapPush
    <3>3. CASE ~(back /\ ~m.detaching)
      BY <1>4, <1>5, <1>13, <2>3, <3>1, <3>3 DEF MapPush
    <3>. QED BY <3>2, <3>3
  <2>. QED BY <2>2, <2>3
<1>16. PICK w : MapPush(m, u) = [grown EXCEPT !.vector = w]
  BY <1>15
<1>17. MapUpdate(m, u) = [chunks |-> [m.chunks EXCEPT ![j].len = Len(t)], vector |-> w, reattaching |-> a, detaching |-> b]
  BY <1>6, <1>7, <1>14, <1>16
<1>18. Changed(rows, S[j], t, after, S)
  BY <1>1, <1>10
<1>19. Follows(MapUpdate(m, u), after, S)
  BY <1>2, <1>17, <1>18, LenTold
<1>. QED BY <1>3, <1>19

\* DetachLastItems.
LEMMA DetachTold ==
  ASSUME NEW rows, NEW S, Nice(rows, S), NEW x \in DOMAIN rows, NEW k, NEW t, NEW after,
         Changed(rows, x, t, after, S), Len(t) = k
  PROVE  Told(rows, S, DetachLastItems(Position(x, k)), after, S)
<1>1. PICK j \in 1 .. Len(S) : S[j] = x
  BY DEF Nice, Linked
<1>2. SUFFICES ASSUME NEW m, Follows(m, rows, S) PROVE Follows(MapUpdate(m, DetachLastItems(Position(x, k))), after, S)
  BY DEF Told
<1>3. PICK u : u = DetachLastItems(Position(x, k))
  OBVIOUS
<1>4. u.type = "DetachLastItems" /\ u.at.chunk = x /\ u.at.index = k
  BY <1>3 DEF DetachLastItems, Position
<1>5. Knows(m, x) /\ At(m, x) = j
  BY <1>1, <1>2, AtIs
<1>6. MapUpdate(m, u) = [m EXCEPT !.chunks[j].len = k, !.detaching = TRUE]
  BY <1>4, <1>5 DEF MapUpdate
<1>7. PICK c, v, a, b : m = [chunks |-> c, vector |-> v, reattaching |-> a, detaching |-> b] /\ m.chunks = c
  BY <1>2 DEF Follows
<1>8. MapUpdate(m, u) = [chunks |-> [m.chunks EXCEPT ![j].len = Len(t)], vector |-> v, reattaching |-> a, detaching |-> TRUE]
  BY <1>6, <1>7
<1>9. Changed(rows, S[j], t, after, S)
  BY <1>1
<1>10. Follows(MapUpdate(m, u), after, S)
  BY <1>2, <1>8, <1>9, LenTold
<1>. QED BY <1>3, <1>10

\* RemoveItem.
LEMMA RemoveTold ==
  ASSUME NEW rows, NEW S, Nice(rows, S), NEW x \in DOMAIN rows, NEW k, NEW t, NEW after,
         Changed(rows, x, t, after, S), Len(t) = Len(rows[x].items) - 1
  PROVE  Told(rows, S, RemoveItem(Position(x, k)), after, S)
<1>1. PICK j \in 1 .. Len(S) : S[j] = x
  BY DEF Nice, Linked
<1>2. SUFFICES ASSUME NEW m, Follows(m, rows, S) PROVE Follows(MapUpdate(m, RemoveItem(Position(x, k))), after, S)
  BY DEF Told
<1>3. PICK u : u = RemoveItem(Position(x, k))
  OBVIOUS
<1>4. u.type = "RemoveItem" /\ u.at.chunk = x /\ u.at.index = k
  BY <1>3 DEF RemoveItem, Position
<1>5. Knows(m, x) /\ At(m, x) = j
  BY <1>1, <1>2, AtIs
<1>6. MapUpdate(m, u) = MapRemoveItem(m, u.at)
  BY <1>4, <1>5 DEF MapUpdate
<1>7. PICK c, v, a, b : m = [chunks |-> c, vector |-> v, reattaching |-> a, detaching |-> b] /\ m.chunks = c
  BY <1>2 DEF Follows
<1>8. PICK L : L = Lengths(rows, S)
  OBVIOUS
<1>9. AreLengths(rows, S, L)
  BY <1>8, LengthsAre
<1>10. [c EXCEPT ![j].len = @ - 1] = [c EXCEPT ![j].len = Len(t)]
  <2>1. c = L
    BY <1>2, <1>7, <1>8 DEF Follows
  <2>2. L[j].len = Len(rows[x].items)
    BY <1>1, <1>9 DEF AreLengths
  <2>. QED BY <2>1, <2>2
<1>11. PICK short : short = [m EXCEPT !.chunks[j].len = @ - 1]
  OBVIOUS
<1>12. short = [chunks |-> [c EXCEPT ![j].len = Len(t)], vector |-> v, reattaching |-> a, detaching |-> b]
  <2>1. short = [chunks |-> [c EXCEPT ![j].len = @ - 1], vector |-> v, reattaching |-> a, detaching |-> b]
    BY <1>7, <1>11
  <2>. QED BY <1>10, <2>1
<1>13. \E w : MapRemoveItem(m, u.at) = [short EXCEPT !.vector = w]
  <2>1. [short EXCEPT !.vector = short.vector] = short
    BY <1>12
  <2>. QED BY <1>4, <1>5, <1>11, <2>1 DEF MapRemoveItem
<1>14. PICK w : MapRemoveItem(m, u.at) = [short EXCEPT !.vector = w]
  BY <1>13
<1>15. MapUpdate(m, u) = [chunks |-> [m.chunks EXCEPT ![j].len = Len(t)], vector |-> w, reattaching |-> a, detaching |-> b]
  BY <1>6, <1>7, <1>12, <1>14
<1>16. Changed(rows, S[j], t, after, S)
  BY <1>1
<1>17. Follows(MapUpdate(m, u), after, S)
  BY <1>2, <1>15, <1>16, LenTold
<1>. QED BY <1>3, <1>17

\* What does not change a length: the marks, and ReplaceItem.
LEMMA SameTold ==
  ASSUME NEW rows, NEW S
  PROVE  /\ Told(rows, S, StartReattachItems, rows, S)
         /\ Told(rows, S, EndReattachItems, rows, S)
         /\ \A at, e : Told(rows, S, ReplaceItem(at, e), rows, S)
<1>1. ASSUME NEW m, Follows(m, rows, S), NEW v, NEW a, NEW b
      PROVE  Follows([chunks |-> m.chunks, vector |-> v, reattaching |-> a, detaching |-> b], rows, S)
  BY <1>1 DEF Follows
<1>2. ASSUME NEW m, Follows(m, rows, S) PROVE Follows(MapUpdate(m, StartReattachItems), rows, S)
  <2>1. PICK u : u = StartReattachItems
    OBVIOUS
  <2>2. u.type = "StartReattachItems"
    BY <2>1 DEF StartReattachItems
  <2>3. MapUpdate(m, u) = [m EXCEPT !.reattaching = TRUE]
    BY <2>2 DEF MapUpdate
  <2>4. PICK c, v, a, b : m = [chunks |-> c, vector |-> v, reattaching |-> a, detaching |-> b] /\ m.chunks = c
    BY <1>2 DEF Follows
  <2>5. MapUpdate(m, u) = [chunks |-> m.chunks, vector |-> v, reattaching |-> TRUE, detaching |-> b]
    BY <2>3, <2>4
  <2>. QED BY <1>1, <1>2, <2>1, <2>5
<1>3. ASSUME NEW m, Follows(m, rows, S) PROVE Follows(MapUpdate(m, EndReattachItems), rows, S)
  <2>1. PICK u : u = EndReattachItems
    OBVIOUS
  <2>2. u.type = "EndReattachItems"
    BY <2>1 DEF EndReattachItems
  <2>3. MapUpdate(m, u) = [m EXCEPT !.reattaching = FALSE, !.detaching = FALSE]
    BY <2>2 DEF MapUpdate
  <2>4. PICK c, v, a, b : m = [chunks |-> c, vector |-> v, reattaching |-> a, detaching |-> b] /\ m.chunks = c
    BY <1>3 DEF Follows
  <2>5. MapUpdate(m, u) = [chunks |-> m.chunks, vector |-> v, reattaching |-> FALSE, detaching |-> FALSE]
    BY <2>3, <2>4
  <2>. QED BY <1>1, <1>3, <2>1, <2>5
<1>4. ASSUME NEW at, NEW e, NEW m, Follows(m, rows, S) PROVE Follows(MapUpdate(m, ReplaceItem(at, e)), rows, S)
  <2>1. PICK u : u = ReplaceItem(at, e)
    OBVIOUS
  <2>2. u.type = "ReplaceItem" /\ u.at = at /\ u.item = e
    BY <2>1 DEF ReplaceItem
  <2>3. CASE ~Knows(m, at.chunk)
    <3>1. MapUpdate(m, u) = m
      BY <2>2, <2>3 DEF MapUpdate
    <3>. QED BY <1>4, <2>1, <3>1
  <2>4. CASE Knows(m, at.chunk)
    <3>1. PICK o : o = Offset(m, at) + 1
      OBVIOUS
    <3>2. MapUpdate(m, u) = [m EXCEPT !.vector[o] = e]
      BY <2>2, <2>4, <3>1 DEF MapUpdate
    <3>3. PICK c, v, a, b : m = [chunks |-> c, vector |-> v, reattaching |-> a, detaching |-> b] /\ m.chunks = c
      BY <1>4 DEF Follows
    <3>4. MapUpdate(m, u) = [chunks |-> m.chunks, vector |-> [v EXCEPT ![o] = e], reattaching |-> a, detaching |-> b]
      BY <3>2, <3>3
    <3>. QED BY <1>1, <1>4, <2>1, <3>4
  <2>. QED BY <2>3, <2>4
<1>. QED BY <1>2, <1>3, <1>4 DEF Told

\* The lengths with a new chunk behind the k-th.
LEMMA LengthsInserted ==
  ASSUME NEW rows, NEW S, Nice(rows, S), NEW k \in 0 .. Len(S), NEW x \in Nat, NEW gap, NEW after,
         Added(rows, S, k, x, gap, after), NEW r,
         IsInserted(LenType, Lengths(rows, S), k + 1, [id |-> x, len |-> 0], r)
  PROVE  Lengths(after, Ins(S, k, x)) = r
<1>1. PICK n \in Nat : n = Len(S)
  <2>1. S \in Seq(Nat)
    BY DEF Nice, Linked
  <2>. QED BY <2>1
<1>2. PICK L : L = Lengths(rows, S)
  OBVIOUS
<1>3. AreLengths(rows, S, L)
  BY <1>2, LengthsAre
<1>4. Len(L) = n /\ \A i \in 1 .. n : S[i] \in DOMAIN rows /\ L[i] = [id |-> S[i], len |-> Len(rows[S[i]].items)]
  BY <1>1, <1>3 DEF AreLengths
<1>5. PICK new : new = [id |-> x, len |-> 0]
  OBVIOUS
<1>6. /\ r \in Seq(LenType) /\ Len(r) = n + 1
      /\ \A i \in 1 .. n + 1 : r[i] = IF i < k + 1 THEN L[i] ELSE IF i = k + 1 THEN new ELSE L[i - 1]
  <2>1. IsInserted(LenType, L, k + 1, new, r)
    BY <1>2, <1>5
  <2>. QED BY <1>4, <2>1 DEF IsInserted
<1>7. PICK Z : Z = Ins(S, k, x)
  OBVIOUS
<1>8. Z = [j \in 1 .. n + 1 |-> IF j <= k THEN S[j] ELSE IF j = k + 1 THEN x ELSE S[j - 1]]
  BY <1>1, <1>7 DEF Ins
<1>9. Len(Z) = n + 1
  BY <1>8
<1>10. /\ after[x].items = <<>>
       /\ \A id \in DOMAIN rows : after[id].items = rows[id].items
  BY DEF Added
<1>11. ASSUME NEW i \in 1 .. n + 1 PROVE r[i] = [id |-> Z[i], len |-> Len(after[Z[i]].items)]
  <2>1. k \in Nat /\ k <= n
    BY <1>1
  <2>2. CASE i <= k
    <3>1. i \in 1 .. n /\ i < k + 1
      BY <2>1, <2>2
    <3>2. Z[i] = S[i] /\ r[i] = L[i]
      BY <1>6, <1>8, <2>2, <3>1
    <3>. QED BY <1>4, <1>10, <3>1, <3>2
  <2>3. CASE i = k + 1
    <3>1. ~(i <= k) /\ ~(i < k + 1)
      BY <2>1, <2>3
    <3>2. Z[i] = x /\ r[i] = new
      BY <1>6, <1>8, <2>3, <3>1
    <3>3. Len(after[x].items) = 0
      BY <1>10
    <3>. QED BY <1>5, <3>2, <3>3
  <2>4. CASE i > k + 1
    <3>1. PICK j : j = i - 1
      OBVIOUS
    <3>2. j \in 1 .. n /\ ~(i <= k) /\ ~(i < k + 1) /\ i # k + 1
      BY <2>1, <2>4, <3>1
    <3>3. Z[i] = S[j] /\ r[i] = L[j]
      BY <1>6, <1>8, <3>1, <3>2
    <3>. QED BY <1>4, <1>10, <3>2, <3>3
  <2>. QED BY <2>1, <2>2, <2>3, <2>4
<1>12. r = [i \in 1 .. n + 1 |-> r[i]]
  BY <1>6
<1>13. Lengths(after, Z) = [i \in 1 .. n + 1 |-> [id |-> Z[i], len |-> Len(after[Z[i]].items)]]
  BY <1>9 DEF Lengths
<1>. QED BY <1>7, <1>11, <1>12, <1>13

\* Append and prepend are insertions at the ends.
LEMMA EndInsertions ==
  ASSUME NEW T, NEW L \in Seq(T), NEW new \in T
  PROVE  /\ IsInserted(T, L, Len(L) + 1, new, Append(L, new))
         /\ IsInserted(T, L, 1, new, <<new>> \o L)
<1>1. PICK n \in Nat : n = Len(L)
  OBVIOUS
<1>2. IsInserted(T, L, Len(L) + 1, new, Append(L, new))
  <2>1. PICK r : r = Append(L, new)
    OBVIOUS
  <2>2. r \in Seq(T) /\ Len(r) = n + 1 /\ \A i \in 1 .. n + 1 : r[i] = IF i = n + 1 THEN new ELSE L[i]
    BY <1>1, <2>1
  <2>3. \A i \in 1 .. n + 1 : r[i] = IF i < n + 1 THEN L[i] ELSE IF i = n + 1 THEN new ELSE L[i - 1]
    BY <1>1, <2>2
  <2>. QED BY <1>1, <2>1, <2>2, <2>3 DEF IsInserted
<1>3. IsInserted(T, L, 1, new, <<new>> \o L)
  <2>1. PICK y, r : y = <<new>> /\ r = y \o L
    OBVIOUS
  <2>2. y \in Seq(T) /\ Len(y) = 1 /\ y[1] = new
    BY <2>1
  <2>3. IsConcat(T, y, Len(y), L, Len(L), y \o L)
    BY <2>2, ConcatIs
  <2>4. IsConcat(T, y, 1, L, n, r)
    BY <1>1, <2>1, <2>2, <2>3
  <2>5. /\ r \in Seq(T) /\ Len(r) = 1 + n /\ r[1] = new
        /\ \A i \in 1 .. n : r[1 + i] = L[i]
    BY <2>2, <2>4 DEF IsConcat
  <2>6. ASSUME NEW i \in 1 .. n + 1 PROVE r[i] = IF i < 1 THEN L[i] ELSE IF i = 1 THEN new ELSE L[i - 1]
    <3>1. CASE i = 1
      BY <2>5, <3>1
    <3>2. CASE i # 1
      <4>1. PICK j \in 1 .. n : j = i - 1
        BY <1>1, <3>2
      <4>2. i = 1 + j /\ ~(i < 1)
        BY <1>1, <4>1
      <4>3. r[1 + j] = L[j]
        BY <2>5
      <4>. QED BY <3>2, <4>1, <4>2, <4>3
    <3>. QED BY <3>1, <3>2
  <2>7. Len(r) = n + 1
    BY <2>5
  <2>. QED BY <1>1, <2>1, <2>5, <2>6, <2>7 DEF IsInserted
<1>. QED BY <1>2, <1>3

\* NewChunk.
LEMMA NewTold ==
  ASSUME NEW rows, NEW S, Nice(rows, S), NEW k \in 0 .. Len(S), NEW x \in Nat, NEW gap, NEW after,
         Added(rows, S, k, x, gap, after)
  PROVE  Told(rows, S, NewChunk(Nth(S, k), x, Nth(S, k + 1), gap), after, Ins(S, k, x))
<1>1. SUFFICES ASSUME NEW m, Follows(m, rows, S)
               PROVE  Follows(MapUpdate(m, NewChunk(Nth(S, k), x, Nth(S, k + 1), gap)), after, Ins(S, k, x))
  BY DEF Told
<1>2. PICK u : u = NewChunk(Nth(S, k), x, Nth(S, k + 1), gap)
  OBVIOUS
<1>3. u.type = "NewChunk" /\ u.prev = Nth(S, k) /\ u.new = x /\ u.next = Nth(S, k + 1)
  BY <1>2 DEF NewChunk
<1>4. PICK n \in Nat : n = Len(S)
  <2>1. S \in Seq(Nat)
    BY DEF Nice, Linked
  <2>. QED BY <2>1
<1>5. PICK c, v, a, b : m = [chunks |-> c, vector |-> v, reattaching |-> a, detaching |-> b] /\ m.chunks = c
  BY <1>1 DEF Follows
<1>6. c = Lengths(rows, S)
  BY <1>1, <1>5 DEF Follows
<1>7. AreLengths(rows, S, c)
  BY <1>6, LengthsAre
<1>8. c \in Seq(LenType) /\ Len(c) = n /\ \A i \in 1 .. n : S[i] \in Nat
  BY <1>4, <1>7 DEF AreLengths
<1>9. PICK new : new = [id |-> x, len |-> 0]
  OBVIOUS
<1>10. new \in LenType
  BY <1>9 DEF LenType
<1>11. MapUpdate(m, u) = MapNewChunk(m, u)
  BY <1>3 DEF MapUpdate
<1>12. \E r : /\ IsInserted(LenType, c, k + 1, new, r)
              /\ MapUpdate(m, u) = [m EXCEPT !.chunks = r]
  <2>1. CASE k = n
    <3>1. u.next = NoChunk
      BY <1>3, <1>4, <2>1 DEF Nth
    <3>2. u.prev # NoChunk \/ c = <<>>
      <4>1. CASE n = 0
        BY <1>8, <4>1
      <4>2. CASE n # 0
        BY <1>3, <1>4, <1>8, <2>1, <4>2 DEF Nth, NoChunk
      <4>. QED BY <4>1, <4>2
    <3>3. MapNewChunk(m, u) = [m EXCEPT !.chunks = Append(c, new)]
      BY <1>3, <1>5, <1>9, <3>1, <3>2 DEF MapNewChunk
    <3>4. IsInserted(LenType, c, Len(c) + 1, new, Append(c, new))
      BY <1>8, <1>10, EndInsertions
    <3>. QED BY <1>8, <1>11, <2>1, <3>3, <3>4
  <2>2. CASE k # n /\ k = 0
    <3>1. u.next = S[1] /\ u.next # NoChunk /\ u.prev = NoChunk
      BY <1>3, <1>4, <1>8, <2>2 DEF Nth, NoChunk
    <3>2. MapNewChunk(m, u) = [m EXCEPT !.chunks = <<new>> \o c]
      BY <1>3, <1>5, <1>9, <3>1 DEF MapNewChunk
    <3>3. IsInserted(LenType, c, 1, new, <<new>> \o c)
      BY <1>8, <1>10, EndInsertions
    <3>4. k + 1 = 1
      BY <2>2
    <3>. QED BY <1>11, <3>2, <3>3, <3>4
  <2>3. CASE k # n /\ k # 0
    <3>1. k + 1 \in 1 .. Len(S) /\ k \in 1 .. Len(S)
      BY <1>4, <2>3
    <3>2. u.next = S[k + 1] /\ u.next # NoChunk /\ u.prev # NoChunk
      BY <1>3, <1>4, <1>8, <3>1 DEF Nth, NoChunk
    <3>3. Knows(m, u.next) /\ At(m, u.next) = k + 1
      BY <1>1, <3>1, <3>2, AtIs
    <3>4. MapNewChunk(m, u) = [m EXCEPT !.chunks = InsertAt(c, k + 1, new)]
      BY <1>3, <1>5, <1>9, <3>2, <3>3 DEF MapNewChunk
    <3>5. IsInserted(LenType, c, k + 1, new, InsertAt(c, k + 1, new))
      <4>1. k + 1 \in 1 .. Len(c) + 1
        BY <1>4, <1>8, <3>1
      <4>. QED BY <1>8, <1>10, <4>1, InsertAtIs
    <3>. QED BY <1>11, <3>4, <3>5
  <2>. QED BY <2>1, <2>2, <2>3
<1>13. PICK r : IsInserted(LenType, c, k + 1, new, r) /\ MapUpdate(m, u) = [m EXCEPT !.chunks = r]
  BY <1>12
<1>14. Lengths(after, Ins(S, k, x)) = r
  BY <1>6, <1>9, <1>13, LengthsInserted
<1>15. MapUpdate(m, u) = [chunks |-> r, vector |-> v, reattaching |-> a, detaching |-> b]
  BY <1>5, <1>13
<1>. QED BY <1>2, <1>14, <1>15 DEF Follows

\* RemoveChunk.
LEMMA DropTold ==
  ASSUME NEW rows, NEW S, Nice(rows, S), NEW k \in 1 .. Len(S), NEW after, Dropped(rows, S, k, S[k], after)
  PROVE  Told(rows, S, RemoveChunk(S[k]), after, Del(S, k))
<1>1. SUFFICES ASSUME NEW m, Follows(m, rows, S) PROVE Follows(MapUpdate(m, RemoveChunk(S[k])), after, Del(S, k))
  BY DEF Told
<1>2. PICK u : u = RemoveChunk(S[k])
  OBVIOUS
<1>3. u.type = "RemoveChunk" /\ u.id = S[k]
  BY <1>2 DEF RemoveChunk
<1>4. PICK n \in Nat : n = Len(S)
  <2>1. S \in Seq(Nat)
    BY DEF Nice, Linked
  <2>. QED BY <2>1
<1>5. PICK c, v, a, b : m = [chunks |-> c, vector |-> v, reattaching |-> a, detaching |-> b] /\ m.chunks = c
  BY <1>1 DEF Follows
<1>6. c = Lengths(rows, S)
  BY <1>1, <1>5 DEF Follows
<1>7. AreLengths(rows, S, c)
  BY <1>6, LengthsAre
<1>8. /\ c \in Seq(LenType) /\ Len(c) = n
      /\ \A i \in 1 .. n : S[i] \in DOMAIN rows /\ c[i] = [id |-> S[i], len |-> Len(rows[S[i]].items)]
  BY <1>4, <1>7 DEF AreLengths
<1>9. Knows(m, S[k]) /\ At(m, S[k]) = k
  BY <1>1, AtIs
<1>10. PICK r : r = RemoveAt(c, k)
  OBVIOUS
<1>11. /\ r \in Seq(LenType) /\ Len(r) = n - 1
       /\ \A i \in 1 .. n - 1 : r[i] = IF i < k THEN c[i] ELSE c[i + 1]
  <2>1. k \in 1 .. Len(c)
    BY <1>4, <1>8
  <2>. QED BY <1>8, <1>10, <2>1, RemoveAtIs
<1>12. MapUpdate(m, u) = MapRemoveChunk(m, S[k])
  BY <1>3, <1>9 DEF MapUpdate
<1>13. \E w : MapRemoveChunk(m, S[k]) = [m EXCEPT !.chunks = r, !.vector = w]
  BY <1>5, <1>9, <1>10 DEF MapRemoveChunk
<1>14. PICK w : MapRemoveChunk(m, S[k]) = [m EXCEPT !.chunks = r, !.vector = w]
  BY <1>13
<1>15. MapUpdate(m, u) = [chunks |-> r, vector |-> w, reattaching |-> a, detaching |-> b]
  BY <1>5, <1>12, <1>14
<1>16. PICK Z : Z = Del(S, k)
  OBVIOUS
<1>17. Z = [j \in 1 .. n - 1 |-> IF j < k THEN S[j] ELSE S[j + 1]]
  BY <1>4, <1>16 DEF Del
<1>18. n - 1 \in Nat /\ k \in 1 .. n
  BY <1>4
<1>19. Len(Z) = n - 1
  BY <1>17, <1>18
<1>20. \A i, j \in 1 .. n : S[i] = S[j] => i = j
  BY <1>4 DEF Nice, Linked
<1>21. DOMAIN after = DOMAIN rows \ {S[k]} /\ \A id \in DOMAIN after : after[id].items = rows[id].items
  BY DEF Dropped
<1>22. ASSUME NEW i \in 1 .. n - 1 PROVE r[i] = [id |-> Z[i], len |-> Len(after[Z[i]].items)]
  <2>1. PICK j : j = IF i < k THEN i ELSE i + 1
    OBVIOUS
  <2>2. j \in 1 .. n /\ j # k
    BY <1>18, <2>1
  <2>3. Z[i] = S[j] /\ r[i] = c[j]
    <3>1. CASE i < k
      BY <1>11, <1>17, <2>1, <3>1
    <3>2. CASE ~(i < k)
      BY <1>11, <1>17, <2>1, <3>2
    <3>. QED BY <3>1, <3>2
  <2>4. S[j] \in DOMAIN after
    BY <1>8, <1>18, <1>20, <1>21, <2>2
  <2>5. after[S[j]].items = rows[S[j]].items
    BY <1>21, <2>4
  <2>. QED BY <1>8, <2>2, <2>3, <2>5
<1>23. r = [i \in 1 .. n - 1 |-> r[i]]
  BY <1>11, <1>18
<1>24. Lengths(after, Z) = [i \in 1 .. n - 1 |-> [id |-> Z[i], len |-> Len(after[Z[i]].items)]]
  BY <1>19 DEF Lengths
<1>25. r = Lengths(after, Z)
  BY <1>22, <1>23, <1>24
<1>. QED BY <1>2, <1>15, <1>16, <1>25 DEF Follows

-----------------------------------------------------------------------------
(* The linked chunk and the updates that wait for a reader.                *)

IsLog(s) == \E T : s \in Seq(T)

Shape(lc) ==
  /\ lc = [chunks |-> lc.chunks, lazy |-> lc.lazy, gen |-> lc.gen, log |-> lc.log]
  /\ lc.log = [r \in Readers |-> lc.log[r]]
  /\ \A r \in Readers : IsLog(lc.log[r])

With(lc, chunks, lazy, gen) == [chunks |-> chunks, lazy |-> lazy, gen |-> gen, log |-> lc.log]

\* The rows once they have taken what is waiting for them.
Behind(rows, lc) == Apply(rows, lc.log["store"])

\* The store takes the updates one by one: a fold of ApplyUpdate.
LEMMA ApplyFold ==
  ASSUME NEW rows, NEW s
  PROVE  Apply(rows, s) = Applying!Fold(rows, s)
BY DEF Apply, Applying!Fold, Applying!FoldLeft, FoldLeft, Applying!MapThenFoldSet, MapThenFoldSet,
       Applying!Max, Max

\* Without updates the store stays as it is.
LEMMA ApplyNone ==
  ASSUME NEW rows
  PROVE  Apply(rows, <<>>) = rows
BY ApplyFold, Applying!FoldEmpty

\* One more update at the end of those that wait for a reader.
LEMMA LogMore ==
  ASSUME NEW s, IsLog(s), NEW u
  PROVE  IsLog(s \o <<u>>) /\ \E n \in Nat :
           /\ DOMAIN s = 1 .. n /\ DOMAIN (s \o <<u>>) = 1 .. n + 1
           /\ \A i \in 1 .. n : (s \o <<u>>)[i] = s[i]
           /\ (s \o <<u>>)[n + 1] = u
<1>1. PICK T : s \in Seq(T)
  BY DEF IsLog
<1>2. PICK V : V = T \cup {u}
  OBVIOUS
<1>3. s \in Seq(V) /\ <<u>> \in Seq(V) /\ Len(s) \in Nat /\ Len(<<u>>) = 1 /\ <<u>>[1] = u
  BY <1>1, <1>2
<1>4. PICK y : y = <<u>>
  OBVIOUS
<1>5. IsConcat(V, s, Len(s), y, Len(y), s \o y)
  BY <1>3, <1>4, ConcatIs
<1>6. /\ s \o y \in Seq(V) /\ Len(s \o y) = Len(s) + 1
      /\ \A i \in 1 .. Len(s) : (s \o y)[i] = s[i]
      /\ (s \o y)[Len(s) + 1] = u
  BY <1>3, <1>4, <1>5 DEF IsConcat
<1>7. DOMAIN s = 1 .. Len(s) /\ DOMAIN (s \o y) = 1 .. Len(s) + 1
  BY <1>3, <1>6
<1>. QED BY <1>3, <1>4, <1>6, <1>7 DEF IsLog

\* The store takes one more update after the others.
LEMMA ApplyMore ==
  ASSUME NEW rows, NEW s, IsLog(s), NEW u
  PROVE  Apply(rows, s \o <<u>>) = ApplyUpdate(Apply(rows, s), u)
<1>1. PICK r : r = s \o <<u>>
  OBVIOUS
<1>2. PICK n \in Nat : /\ DOMAIN s = 1 .. n /\ DOMAIN r = 1 .. n + 1
                       /\ \A i \in 1 .. n : r[i] = s[i]
                       /\ r[n + 1] = u
  <2>1. \E n \in Nat : /\ DOMAIN s = 1 .. n /\ DOMAIN (s \o <<u>>) = 1 .. n + 1
                       /\ \A i \in 1 .. n : (s \o <<u>>)[i] = s[i]
                       /\ (s \o <<u>>)[n + 1] = u
    BY LogMore
  <2>. QED BY <1>1, <2>1
<1>3. PICK F : Applying!IsRun(F, rows, r, n + 1) /\ F[n + 1] = Applying!Fold(rows, r)
  BY <1>2, Applying!FoldRuns
<1>4. F[n + 1] = ApplyUpdate(F[n], u)
  <2>1. n + 1 \in 1 .. n + 1 /\ (n + 1) - 1 = n
    OBVIOUS
  <2>. QED BY <1>2, <1>3, <2>1 DEF Applying!IsRun
<1>5. Applying!IsRun(F, rows, s, n)
  BY <1>2, <1>3 DEF Applying!IsRun
<1>6. Applying!Fold(rows, s) = F[n]
  BY <1>2, <1>5, Applying!FoldIs
<1>. QED BY <1>1, <1>3, <1>4, <1>6, ApplyFold

\* An operation changes the chunks and says so with one update.
LEMMA EmitIs ==
  ASSUME NEW lc, Shape(lc), NEW chunks, NEW lazy, NEW gen, NEW u
  PROVE  LET after == Emit(With(lc, chunks, lazy, gen), <<u>>)
         IN  /\ Shape(after)
             /\ after.chunks = chunks /\ after.lazy = lazy /\ after.gen = gen
             /\ \A r \in Readers : after.log[r] = lc.log[r] \o <<u>>
             /\ \A rows : Behind(rows, after) = ApplyUpdate(Behind(rows, lc), u)
<1> DEFINE after == Emit(With(lc, chunks, lazy, gen), <<u>>)
<1>1. PICK w : w = With(lc, chunks, lazy, gen)
  OBVIOUS
<1>2. w = [chunks |-> chunks, lazy |-> lazy, gen |-> gen, log |-> lc.log]
  BY <1>1 DEF With
<1>3. PICK g : g = [r \in Readers |-> lc.log[r] \o <<u>>]
  OBVIOUS
<1>4. after = [w EXCEPT !.log = g]
  BY <1>1, <1>2, <1>3 DEF Emit
<1>5. after = [chunks |-> chunks, lazy |-> lazy, gen |-> gen, log |-> g]
  BY <1>2, <1>4
<1>6. after.chunks = chunks /\ after.lazy = lazy /\ after.gen = gen /\ after.log = g
  BY <1>5
<1>7. \A r \in Readers : g[r] = lc.log[r] \o <<u>> /\ IsLog(g[r])
  BY <1>3, LogMore DEF Shape
<1>8. Shape(after)
  BY <1>3, <1>5, <1>6, <1>7 DEF Shape
<1>9. ASSUME NEW rows PROVE Behind(rows, after) = ApplyUpdate(Behind(rows, lc), u)
  <2>1. "store" \in Readers
    BY DEF Readers
  <2>2. IsLog(lc.log["store"]) /\ after.log["store"] = lc.log["store"] \o <<u>>
    BY <1>6, <1>7, <2>1 DEF Shape
  <2>3. PICK s : s = lc.log["store"]
    OBVIOUS
  <2>4. Apply(rows, s \o <<u>>) = ApplyUpdate(Apply(rows, s), u)
    BY <2>2, <2>3, ApplyMore
  <2>5. Behind(rows, after) = Apply(rows, s \o <<u>>) /\ Behind(rows, lc) = Apply(rows, s)
    BY <2>2, <2>3 DEF Behind
  <2>. QED BY <2>4, <2>5
<1>. QED BY <1>6, <1>7, <1>8, <1>9

-----------------------------------------------------------------------------
\* What the order tracker begins with, and what it makes of the updates that wait for it.
Blank(t) ==
  [chunks |-> t, vector |-> [i \in 1 .. FoldLeft(AddLen, 0, t) |-> 0], reattaching |-> FALSE, detaching |-> FALSE]
HeardOf(t, log) == FoldLeft(MapUpdate, Blank(t), log)
Heard(t, lc) == HeardOf(t, lc.log["tracker"])

\* The tracker takes the updates one by one: a fold of MapUpdate.
LEMMA HeardFold ==
  ASSUME NEW m, NEW s
  PROVE  FoldLeft(MapUpdate, m, s) = Tracking!Fold(m, s)
BY DEF Tracking!Fold, Tracking!FoldLeft, FoldLeft, Tracking!MapThenFoldSet, MapThenFoldSet,
       Tracking!Max, Max

\* Without updates the tracker has what it had.
LEMMA HeardNone ==
  ASSUME NEW t
  PROVE  HeardOf(t, <<>>) = Blank(t)
BY HeardFold, Tracking!FoldEmpty DEF HeardOf

\* The tracker takes one more update after the others.
LEMMA HeardMore ==
  ASSUME NEW t, NEW s, IsLog(s), NEW u
  PROVE  HeardOf(t, s \o <<u>>) = MapUpdate(HeardOf(t, s), u)
<1>1. PICK r : r = s \o <<u>>
  OBVIOUS
<1>2. PICK n \in Nat : /\ DOMAIN s = 1 .. n /\ DOMAIN r = 1 .. n + 1
                       /\ \A i \in 1 .. n : r[i] = s[i]
                       /\ r[n + 1] = u
  <2>1. \E n \in Nat : /\ DOMAIN s = 1 .. n /\ DOMAIN (s \o <<u>>) = 1 .. n + 1
                       /\ \A i \in 1 .. n : (s \o <<u>>)[i] = s[i]
                       /\ (s \o <<u>>)[n + 1] = u
    BY LogMore
  <2>. QED BY <1>1, <2>1
<1>3. PICK m : m = Blank(t)
  OBVIOUS
<1>4. PICK F : Tracking!IsRun(F, m, r, n + 1) /\ F[n + 1] = Tracking!Fold(m, r)
  BY <1>2, Tracking!FoldRuns
<1>5. F[n + 1] = MapUpdate(F[n], u)
  <2>1. n + 1 \in 1 .. n + 1 /\ (n + 1) - 1 = n
    OBVIOUS
  <2>. QED BY <1>2, <1>4, <2>1 DEF Tracking!IsRun
<1>6. Tracking!IsRun(F, m, s, n)
  BY <1>2, <1>4 DEF Tracking!IsRun
<1>7. Tracking!Fold(m, s) = F[n]
  BY <1>2, <1>6, Tracking!FoldIs
<1>8. HeardOf(t, r) = Tracking!Fold(m, r) /\ HeardOf(t, s) = Tracking!Fold(m, s)
  BY <1>3, HeardFold DEF HeardOf
<1>. QED BY <1>1, <1>4, <1>5, <1>7, <1>8

\* The tracker hears of an operation what the store hears.
LEMMA EmitHeard ==
  ASSUME NEW lc, Shape(lc), NEW chunks, NEW lazy, NEW gen, NEW u, NEW t
  PROVE  Heard(t, Emit(With(lc, chunks, lazy, gen), <<u>>)) = MapUpdate(Heard(t, lc), u)
<1>1. PICK after : after = Emit(With(lc, chunks, lazy, gen), <<u>>)
  OBVIOUS
<1>2. \A r \in Readers : after.log[r] = lc.log[r] \o <<u>>
  BY <1>1, EmitIs
<1>3. "tracker" \in Readers
  BY DEF Readers
<1>4. PICK s : s = lc.log["tracker"]
  OBVIOUS
<1>5. IsLog(s) /\ after.log["tracker"] = s \o <<u>>
  BY <1>2, <1>3, <1>4 DEF Shape
<1>6. HeardOf(t, s \o <<u>>) = MapUpdate(HeardOf(t, s), u)
  BY <1>5, HeardMore
<1>. QED BY <1>1, <1>4, <1>5, <1>6 DEF Heard

-----------------------------------------------------------------------------
ChunkType == [id : Nat, gap : Nat, items : Seq(Nat)]
Loaded(rows, S, n) ==
  [i \in 1 .. Len(S) - n |-> Chunk(S[n + i], rows[S[n + i]].gap, rows[S[n + i]].items)]

\* The chunks in memory are those of the rows after the first n.
SeesRows(rows, lc, S, n) ==
  /\ Shape(lc)
  /\ Nice(rows, S)
  /\ n \in 0 .. Len(S)
  /\ lc.chunks = Loaded(rows, S, n)
  /\ lc.lazy = Nth(S, n)
  /\ lc.gen \in Nat /\ \A i \in 1 .. Len(S) : S[i] <= lc.gen

\* And the order tracker, once it has taken the updates it has yet to see, knows their lengths.
Sees(c, lc, S, n) ==
  /\ SeesRows(Behind(c.rows, lc), lc, S, n)
  /\ Follows(Heard(c.tracked, lc), Behind(c.rows, lc), S)

\* What memory looks like then.
Memory(rows, lc, S, n) ==
  /\ Len(S) \in Nat /\ n \in Nat /\ n <= Len(S)
  /\ lc.chunks \in Seq(ChunkType) /\ Len(lc.chunks) = Len(S) - n
  /\ \A i \in 1 .. Len(lc.chunks) :
       /\ n + i \in 1 .. Len(S) /\ lc.chunks[i].id = S[n + i] /\ S[n + i] \in DOMAIN rows
       /\ S[n + i] \in Nat
       /\ lc.chunks[i] = Chunk(S[n + i], rows[S[n + i]].gap, rows[S[n + i]].items)
       /\ lc.chunks[i].gap = rows[S[n + i]].gap
       /\ lc.chunks[i].items = rows[S[n + i]].items
  /\ \A i, j \in 1 .. Len(lc.chunks) : lc.chunks[i].id = lc.chunks[j].id => i = j

\* The chunks after the first n of the list, by their index.
LEMMA LoadedIs ==
  ASSUME NEW rows, NEW S, Nice(rows, S), NEW n \in 0 .. Len(S), NEW chunks, chunks = Loaded(rows, S, n)
  PROVE  /\ Len(S) \in Nat /\ n \in Nat /\ n <= Len(S)
         /\ chunks \in Seq(ChunkType) /\ Len(chunks) = Len(S) - n
         /\ \A i \in 1 .. Len(S) - n :
              /\ n + i \in 1 .. Len(S) /\ S[n + i] \in DOMAIN rows /\ S[n + i] \in Nat
              /\ chunks[i] = Chunk(S[n + i], rows[S[n + i]].gap, rows[S[n + i]].items)
              /\ chunks[i] \in ChunkType
<1>1. S \in Seq(Nat) /\ Len(S) \in Nat
  BY DEF Nice, Linked
<1>2. Len(S) - n \in Nat /\ n \in Nat /\ n <= Len(S)
  BY <1>1
<1>3. ASSUME NEW i \in 1 .. Len(S) - n
      PROVE  /\ n + i \in 1 .. Len(S) /\ S[n + i] \in DOMAIN rows /\ S[n + i] \in Nat
             /\ chunks[i] = Chunk(S[n + i], rows[S[n + i]].gap, rows[S[n + i]].items)
             /\ chunks[i] \in ChunkType
  <2>1. n + i \in 1 .. Len(S)
    BY <1>1
  <2>2. S[n + i] \in DOMAIN rows /\ S[n + i] \in Nat
    BY <1>1, <2>1 DEF Nice, Linked
  <2>3. chunks[i] = Chunk(S[n + i], rows[S[n + i]].gap, rows[S[n + i]].items)
    BY DEF Loaded
  <2>4. rows[S[n + i]].gap \in Nat /\ rows[S[n + i]].items \in Seq(Nat)
    BY <2>2, ItemsOnce
  <2>5. chunks[i] \in ChunkType
    BY <2>2, <2>3, <2>4 DEF Chunk, ChunkType
  <2>. QED BY <2>1, <2>2, <2>3, <2>5
<1>4. chunks = [i \in 1 .. Len(S) - n |-> chunks[i]]
  BY DEF Loaded
<1>5. chunks \in Seq(ChunkType) /\ Len(chunks) = Len(S) - n
  <2>1. \A i \in 1 .. Len(S) - n : chunks[i] \in ChunkType
    BY <1>3
  <2>2. chunks \in [1 .. Len(S) - n -> ChunkType]
    BY <1>4, <2>1
  <2>. QED BY <1>2, <2>2
<1>. QED BY <1>1, <1>2, <1>3, <1>5

\* What a linked chunk that mirrors the store looks like.
LEMMA MemoryIs ==
  ASSUME NEW rows, NEW lc, NEW S, NEW n, SeesRows(rows, lc, S, n)
  PROVE  Memory(rows, lc, S, n)
<1>1. Nice(rows, S) /\ n \in 0 .. Len(S) /\ lc.chunks = Loaded(rows, S, n)
  BY DEF SeesRows
<1>2. /\ Len(S) \in Nat /\ n \in Nat /\ n <= Len(S)
      /\ lc.chunks \in Seq(ChunkType) /\ Len(lc.chunks) = Len(S) - n
      /\ \A i \in 1 .. Len(S) - n :
              /\ n + i \in 1 .. Len(S) /\ S[n + i] \in DOMAIN rows /\ S[n + i] \in Nat
              /\ lc.chunks[i] = Chunk(S[n + i], rows[S[n + i]].gap, rows[S[n + i]].items)
  BY <1>1, LoadedIs
<1>3. ASSUME NEW i \in 1 .. Len(S) - n
      PROVE  /\ lc.chunks[i].id = S[n + i]
             /\ lc.chunks[i].gap = rows[S[n + i]].gap
             /\ lc.chunks[i].items = rows[S[n + i]].items
  <2>1. PICK x, g, t : x = S[n + i] /\ g = rows[S[n + i]].gap /\ t = rows[S[n + i]].items
    OBVIOUS
  <2>2. lc.chunks[i] = Chunk(x, g, t)
    BY <1>2, <2>1
  <2>3. lc.chunks[i].id = x /\ lc.chunks[i].gap = g /\ lc.chunks[i].items = t
    BY <2>2 DEF Chunk
  <2>. QED BY <2>1, <2>3
<1>4. ASSUME NEW i \in 1 .. Len(S) - n, NEW j \in 1 .. Len(S) - n, lc.chunks[i].id = lc.chunks[j].id
      PROVE  i = j
  <2>1. S[n + i] = S[n + j] /\ n + i \in 1 .. Len(S) /\ n + j \in 1 .. Len(S)
    BY <1>2, <1>3, <1>4
  <2>2. n + i = n + j
    BY <1>1, <2>1 DEF Nice, Linked
  <2>. QED BY <1>2, <2>2
<1>. QED BY <1>2, <1>3, <1>4 DEF Memory

\* Rows with the same items have the same events.
LEMMA SameEvents ==
  ASSUME NEW rows, NEW after, Typed(rows), Typed(after),
         \A id \in DOMAIN rows : rows[id].items # <<>> => id \in DOMAIN after,
         \A id \in DOMAIN after : after[id].items # <<>> => id \in DOMAIN rows,
         \A id \in DOMAIN after : id \in DOMAIN rows => after[id].items = rows[id].items
  PROVE  StoredEvents(after) = StoredEvents(rows)
<1>1. \A e : e \in StoredEvents(rows) <=>
            \E id \in DOMAIN rows : \E i \in 1 .. Len(rows[id].items) : rows[id].items[i] = e
  BY Events
<1>2. \A e : e \in StoredEvents(after) <=>
            \E id \in DOMAIN after : \E i \in 1 .. Len(after[id].items) : after[id].items[i] = e
  BY Events
<1>3. \A id \in DOMAIN rows : \A i \in 1 .. Len(rows[id].items) : rows[id].items # <<>>
  OBVIOUS
<1>4. \A id \in DOMAIN after : \A i \in 1 .. Len(after[id].items) : after[id].items # <<>>
  OBVIOUS
<1>5. \A e : e \in StoredEvents(rows) => e \in StoredEvents(after)
  BY <1>1, <1>2, <1>3
<1>6. \A e : e \in StoredEvents(after) => e \in StoredEvents(rows)
  BY <1>1, <1>2, <1>4
<1>. QED BY <1>5, <1>6

\* The fields of a linked chunk that changes.
LEMMA WithChunks ==
  ASSUME NEW lc, Shape(lc), NEW chunks
  PROVE  [lc EXCEPT !.chunks = chunks] = With(lc, chunks, lc.lazy, lc.gen)
<1>1. PICK a, b, d, e : lc = [chunks |-> a, lazy |-> b, gen |-> d, log |-> e]
  BY DEF Shape
<1>2. [lc EXCEPT !.chunks = chunks] = [chunks |-> chunks, lazy |-> b, gen |-> d, log |-> e]
  BY <1>1
<1>3. lc.lazy = b /\ lc.gen = d /\ lc.log = e
  BY <1>1
<1>. QED BY <1>2, <1>3 DEF With

\* Identifiers by their index.
LEMMA IdIs ==
  ASSUME NEW rows, NEW lc, NEW S, NEW n, SeesRows(rows, lc, S, n)
  PROVE  /\ \A i \in Nat : i > 0 => IdOf(lc, i) = Nth(S, n + i)
         /\ \A i \in 1 .. Len(lc.chunks) : PreviousOf(lc, i) = Nth(S, n + i - 1)
<1>1. Memory(rows, lc, S, n)
  BY MemoryIs
<1>2. DOMAIN lc.chunks = 1 .. Len(lc.chunks)
  BY <1>1 DEF Memory
<1>3. ASSUME NEW i \in Nat, i > 0 PROVE IdOf(lc, i) = Nth(S, n + i)
  <2>1. CASE i \in 1 .. Len(lc.chunks)
    <3>1. n + i \in 1 .. Len(S) /\ lc.chunks[i].id = S[n + i]
      BY <1>1, <2>1 DEF Memory
    <3>. QED BY <1>2, <2>1, <3>1 DEF IdOf, Nth
  <2>2. CASE i \notin 1 .. Len(lc.chunks)
    <3>1. n + i \notin 1 .. Len(S)
      BY <1>1, <1>3, <2>2 DEF Memory
    <3>. QED BY <1>2, <2>2, <3>1 DEF IdOf, Nth
  <2>. QED BY <2>1, <2>2
<1>4. ASSUME NEW i \in 1 .. Len(lc.chunks) PROVE PreviousOf(lc, i) = Nth(S, n + i - 1)
  <2>1. CASE i = 1
    <3>1. n + i - 1 = n
      BY <1>1, <2>1 DEF Memory
    <3>. QED BY <2>1, <3>1 DEF PreviousOf, SeesRows
  <2>2. CASE i # 1
    <3>1. i - 1 \in Nat /\ i - 1 > 0 /\ n + (i - 1) = n + i - 1
      BY <1>1, <2>2 DEF Memory
    <3>. QED BY <1>3, <2>2, <3>1 DEF PreviousOf
  <2>. QED BY <2>1, <2>2
<1>. QED BY <1>3, <1>4

\* A new chunk behind the k-th, or before the first.
LEMMA InsertSees ==
  ASSUME NEW c, NEW lc, NEW S, NEW n, Sees(c, lc, S, n), NEW k \in 0 .. Len(lc.chunks), NEW gap \in Nat,
         NEW u, u = NewChunk(Nth(S, n + k), lc.gen + 1, Nth(S, n + k + 1), gap),
         NEW chunks, chunks = InsertAt(lc.chunks, k + 1, Chunk(lc.gen + 1, gap, <<>>)),
         NEW after, after = Emit(With(lc, chunks, lc.lazy, lc.gen + 1), <<u>>)
  PROVE  /\ Sees(c, after, Ins(S, n + k, lc.gen + 1), n)
         /\ after.chunks = chunks /\ after.gen = lc.gen + 1
         /\ StoredEvents(Behind(c.rows, after)) = StoredEvents(Behind(c.rows, lc))
<1>1. PICK rows, x : rows = Behind(c.rows, lc) /\ x = lc.gen + 1
  OBVIOUS
<1>2. SeesRows(rows, lc, S, n)
  BY <1>1 DEF Sees
<1>3. Memory(rows, lc, S, n)
  BY <1>2, MemoryIs
<1>4. /\ Shape(lc) /\ Nice(rows, S) /\ n \in 0 .. Len(S) /\ lc.chunks = Loaded(rows, S, n)
      /\ lc.lazy = Nth(S, n) /\ lc.gen \in Nat /\ \A i \in 1 .. Len(S) : S[i] <= lc.gen
  BY <1>2 DEF SeesRows
<1>5. S \in Seq(Nat) /\ DOMAIN rows = {S[i] : i \in 1 .. Len(S)}
  BY <1>4 DEF Nice, Linked
<1>6. x \in Nat /\ x \notin DOMAIN rows
  BY <1>1, <1>4, <1>5
<1>7. PICK m : m = n + k
  OBVIOUS
<1>8. m \in 0 .. Len(S)
  BY <1>3, <1>7 DEF Memory
<1>9. PICK rows2 : rows2 = ApplyUpdate(rows, u)
  OBVIOUS
<1>10. PICK S2 : S2 = Ins(S, m, x)
  OBVIOUS
<1>11. /\ Nice(rows2, S2) /\ DOMAIN rows2 = DOMAIN rows \cup {x}
       /\ rows2[x].gap = gap /\ rows2[x].items = <<>>
       /\ \A id \in DOMAIN rows : rows2[id].gap = rows[id].gap /\ rows2[id].items = rows[id].items
  <2>1. u = NewChunk(Nth(S, m), x, Nth(S, m + 1), gap)
    BY <1>1, <1>7
  <2>2. Added(rows, S, m, x, gap, ApplyUpdate(rows, NewChunk(Nth(S, m), x, Nth(S, m + 1), gap)))
    BY <1>4, <1>6, <1>8, InsertNice
  <2>. QED BY <1>9, <1>10, <2>1, <2>2 DEF Added
<1>12. /\ Shape(after) /\ after.chunks = chunks /\ after.lazy = lc.lazy /\ after.gen = x
       /\ Behind(c.rows, after) = rows2
  BY <1>1, <1>4, <1>9, EmitIs
<1>13. PICK l \in Nat : l = Len(S)
  BY <1>5
<1>14. S2 = [j \in 1 .. l + 1 |-> IF j <= m THEN S[j] ELSE IF j = m + 1 THEN x ELSE S[j - 1]]
  BY <1>10, <1>13 DEF Ins
<1>15. Len(S2) = l + 1
  BY <1>13, <1>14
<1>16. PICK new : new = Chunk(x, gap, <<>>)
  OBVIOUS
<1>17. new \in ChunkType
  <2>1. PICK e : e = <<>>
    OBVIOUS
  <2>2. e \in Seq(Nat) /\ new = Chunk(x, gap, e)
    BY <1>16, <2>1
  <2>. QED BY <1>6, <2>2 DEF Chunk, ChunkType
<1>18. /\ chunks \in Seq(ChunkType) /\ Len(chunks) = Len(lc.chunks) + 1
       /\ \A i \in 1 .. Len(lc.chunks) + 1 :
            chunks[i] = IF i < k + 1 THEN lc.chunks[i] ELSE IF i = k + 1 THEN new ELSE lc.chunks[i - 1]
  <2>1. lc.chunks \in Seq(ChunkType) /\ k + 1 \in 1 .. Len(lc.chunks) + 1
    BY <1>3 DEF Memory
  <2>2. chunks = InsertAt(lc.chunks, k + 1, new)
    BY <1>1, <1>16
  <2>3. IsInserted(ChunkType, lc.chunks, k + 1, new, InsertAt(lc.chunks, k + 1, new))
    BY <1>17, <2>1, InsertAtIs
  <2>. QED BY <2>2, <2>3 DEF IsInserted
<1>19. Len(lc.chunks) + 1 = Len(S2) - n /\ Len(lc.chunks) = l - n
  BY <1>3, <1>13, <1>15 DEF Memory
<1>20. ASSUME NEW i \in 1 .. l - n
       PROVE  S[n + i] \in DOMAIN rows /\ lc.chunks[i] = Chunk(S[n + i], rows[S[n + i]].gap, rows[S[n + i]].items)
  <2>1. i \in 1 .. Len(lc.chunks)
    BY <1>19
  <2>. QED BY <1>3, <2>1 DEF Memory
<1>21. ASSUME NEW i \in 1 .. Len(S2) - n
       PROVE  chunks[i] = Chunk(S2[n + i], rows2[S2[n + i]].gap, rows2[S2[n + i]].items)
  <2>1. n + i \in 1 .. l + 1 /\ i \in 1 .. Len(lc.chunks) + 1 /\ n \in Nat
    BY <1>3, <1>13, <1>15, <1>19 DEF Memory
  <2>2. CASE i < k + 1
    <3>1. n + i <= m /\ i \in 1 .. l - n
      BY <1>7, <1>19, <2>1, <2>2
    <3>2. S2[n + i] = S[n + i]
      BY <1>14, <2>1, <3>1
    <3>3. S[n + i] \in DOMAIN rows /\ lc.chunks[i] = Chunk(S[n + i], rows[S[n + i]].gap, rows[S[n + i]].items)
      BY <1>20, <3>1
    <3>4. chunks[i] = lc.chunks[i]
      BY <1>18, <2>1, <2>2
    <3>5. rows2[S[n + i]].gap = rows[S[n + i]].gap /\ rows2[S[n + i]].items = rows[S[n + i]].items
      BY <1>11, <3>3
    <3>. QED BY <3>2, <3>3, <3>4, <3>5
  <2>3. CASE i = k + 1
    <3>1. n + i = m + 1
      BY <1>7, <2>1, <2>3
    <3>2. S2[n + i] = x
      BY <1>8, <1>14, <2>1, <3>1
    <3>3. chunks[i] = new
      BY <1>18, <2>1, <2>3
    <3>. QED BY <1>11, <1>16, <3>2, <3>3
  <2>4. CASE i > k + 1
    <3>1. PICK j : j = i - 1
      OBVIOUS
    <3>2. n + i > m + 1 /\ j \in 1 .. l - n /\ (n + i) - 1 = n + j
      BY <1>7, <1>19, <2>1, <2>4, <3>1
    <3>3. S2[n + i] = S[n + j]
      <4>1. PICK t : t = n + i
        OBVIOUS
      <4>2. t \in 1 .. l + 1 /\ ~(t <= m) /\ t # m + 1 /\ t - 1 = n + j
        BY <1>8, <1>13, <2>1, <3>2, <4>1
      <4>3. S2[t] = S[t - 1]
        BY <1>14, <4>2
      <4>. QED BY <4>1, <4>2, <4>3
    <3>4. S[n + j] \in DOMAIN rows /\ lc.chunks[j] = Chunk(S[n + j], rows[S[n + j]].gap, rows[S[n + j]].items)
      BY <1>20, <3>2
    <3>5. chunks[i] = lc.chunks[j]
      <4>1. ~(i < k + 1) /\ i # k + 1 /\ i \in 1 .. Len(lc.chunks) + 1
        BY <2>1, <2>4
      <4>. QED BY <1>18, <3>1, <4>1
    <3>6. rows2[S[n + j]].gap = rows[S[n + j]].gap /\ rows2[S[n + j]].items = rows[S[n + j]].items
      BY <1>11, <3>4
    <3>. QED BY <3>3, <3>4, <3>5, <3>6
  <2>. QED BY <2>1, <2>2, <2>3, <2>4
<1>22. chunks = Loaded(rows2, S2, n)
  <2>1. PICK z : z = Len(S2) - n
    OBVIOUS
  <2>2. Len(chunks) = z
    BY <1>18, <1>19, <2>1
  <2>3. chunks = [i \in 1 .. z |-> chunks[i]]
    BY <1>18, <2>2
  <2>4. chunks = [i \in 1 .. Len(S2) - n |-> chunks[i]]
    BY <2>1, <2>3
  <2>. QED BY <1>21, <2>4 DEF Loaded
<1>23. Nth(S2, n) = Nth(S, n)
  BY <1>3, <1>7, <1>13, <1>14, <1>15 DEF Nth, Memory
<1>24. \A i \in 1 .. Len(S2) : S2[i] <= x
  <2>1. \A i \in 1 .. l : S[i] \in Nat /\ S[i] <= x
    <3>1. ASSUME NEW i \in 1 .. l PROVE S[i] \in Nat /\ S[i] <= x
      <4>1. i \in 1 .. Len(S)
        BY <1>13
      <4>2. S[i] \in Nat /\ S[i] <= lc.gen /\ lc.gen \in Nat
        BY <1>4, <1>5, <4>1
      <4>. QED BY <1>1, <4>2
    <3>. QED BY <3>1
  <2>. QED BY <1>6, <1>8, <1>13, <1>14, <1>15, <2>1
<1>25. SeesRows(rows2, after, S2, n)
  <2>1. n \in 0 .. Len(S2)
    BY <1>3, <1>13, <1>15 DEF Memory
  <2>2. after.chunks = Loaded(rows2, S2, n) /\ after.lazy = Nth(S2, n)
    BY <1>4, <1>12, <1>22, <1>23
  <2>3. after.gen \in Nat /\ \A i \in 1 .. Len(S2) : S2[i] <= after.gen
    BY <1>6, <1>12, <1>24
  <2>. QED BY <1>11, <1>12, <2>1, <2>2, <2>3 DEF SeesRows
<1>26. StoredEvents(rows2) = StoredEvents(rows)
  <2>1. Typed(rows) /\ Typed(rows2)
    BY <1>4, <1>11 DEF Nice
  <2>. QED BY <1>11, <2>1, SameEvents
<1>27. Follows(Heard(c.tracked, after), rows2, S2)
  <2>1. u = NewChunk(Nth(S, m), x, Nth(S, m + 1), gap)
    BY <1>1, <1>7
  <2>2. Added(rows, S, m, x, gap, ApplyUpdate(rows, NewChunk(Nth(S, m), x, Nth(S, m + 1), gap)))
    BY <1>4, <1>6, <1>8, InsertNice
  <2>3. Told(rows, S, u, rows2, S2)
    BY <1>4, <1>6, <1>8, <1>9, <1>10, <2>1, <2>2, NewTold
  <2>4. Follows(Heard(c.tracked, lc), rows, S)
    BY <1>1 DEF Sees
  <2>5. Heard(c.tracked, after) = MapUpdate(Heard(c.tracked, lc), u)
    BY <1>4, EmitHeard
  <2>. QED BY <2>3, <2>4, <2>5 DEF Told
<1>. QED BY <1>1, <1>7, <1>10, <1>12, <1>25, <1>26, <1>27 DEF Sees

-----------------------------------------------------------------------------
(* The steps that the operations of the linked chunk are made of.          *)

\* The store, once it has taken the updates it has yet to see, has the chunks of lc, n of
\* them not loaded.
Mirrored(c, lc, n) == \E S : Sees(c, lc, S, n)

\* The events of the room.
Ev(c, lc) == StoredEvents(Behind(c.rows, lc))

\* What a caller may know of the loaded chunks.
LEMMA ChunksAre ==
  ASSUME NEW c, NEW lc, NEW n, Mirrored(c, lc, n)
  PROVE  /\ n \in Nat /\ lc.gen \in Nat /\ Shape(lc)
         /\ lc.chunks \in Seq(ChunkType) /\ Len(lc.chunks) \in Nat /\ DOMAIN lc.chunks = 1 .. Len(lc.chunks)
         /\ \A i \in 1 .. Len(lc.chunks) :
              /\ lc.chunks[i].id \in Nat /\ lc.chunks[i].id <= lc.gen
              /\ lc.chunks[i].gap \in Nat /\ lc.chunks[i].items \in Seq(Nat)
              /\ Len(lc.chunks[i].items) <= Cap /\ Injective(lc.chunks[i].items)
              /\ lc.chunks[i].gap # NoToken => lc.chunks[i].items = <<>>
              /\ \A j \in 1 .. Len(lc.chunks[i].items) : lc.chunks[i].items[j] \in Ev(c, lc)
         /\ \A i, j \in 1 .. Len(lc.chunks) : lc.chunks[i].id = lc.chunks[j].id => i = j
<1>1. PICK S : Sees(c, lc, S, n)
  BY DEF Mirrored
<1>2. PICK rows : rows = Behind(c.rows, lc)
  OBVIOUS
<1>3. SeesRows(rows, lc, S, n)
  BY <1>1, <1>2 DEF Sees
<1>4. Memory(rows, lc, S, n)
  BY <1>3, MemoryIs
<1>5. Nice(rows, S) /\ Typed(rows) /\ lc.gen \in Nat /\ Shape(lc) /\ \A i \in 1 .. Len(S) : S[i] <= lc.gen
  BY <1>3 DEF SeesRows, Nice
<1>6. n \in Nat /\ lc.chunks \in Seq(ChunkType) /\ Len(lc.chunks) \in Nat /\ DOMAIN lc.chunks = 1 .. Len(lc.chunks)
  BY <1>4 DEF Memory
<1>7. ASSUME NEW i \in 1 .. Len(lc.chunks)
      PROVE  /\ lc.chunks[i].id \in Nat /\ lc.chunks[i].id <= lc.gen
             /\ lc.chunks[i].gap \in Nat /\ lc.chunks[i].items \in Seq(Nat)
             /\ Len(lc.chunks[i].items) <= Cap /\ Injective(lc.chunks[i].items)
             /\ lc.chunks[i].gap # NoToken => lc.chunks[i].items = <<>>
             /\ \A j \in 1 .. Len(lc.chunks[i].items) : lc.chunks[i].items[j] \in Ev(c, lc)
  <2>1. PICK x : x = S[n + i]
    OBVIOUS
  <2>2. /\ n + i \in 1 .. Len(S) /\ lc.chunks[i].id = x /\ x \in DOMAIN rows /\ x \in Nat
        /\ lc.chunks[i].gap = rows[x].gap /\ lc.chunks[i].items = rows[x].items
    BY <1>4, <2>1 DEF Memory
  <2>3. /\ rows[x].items \in Seq(Nat) /\ Len(rows[x].items) \in Nat /\ Len(rows[x].items) <= Cap
        /\ Injective(rows[x].items)
        /\ rows[x].gap \in Nat /\ (rows[x].gap # NoToken => rows[x].items = <<>>)
    BY <1>5, <2>2, ItemsOnce
  <2>4. x <= lc.gen
    BY <1>5, <2>1, <2>2
  <2>5. \A j \in 1 .. Len(rows[x].items) : rows[x].items[j] \in StoredEvents(rows)
    BY <1>5, <2>2, Events
  <2>. QED BY <1>2, <2>2, <2>3, <2>4, <2>5 DEF Ev
<1>8. \A i, j \in 1 .. Len(lc.chunks) : lc.chunks[i].id = lc.chunks[j].id => i = j
  BY <1>4 DEF Memory
<1>. QED BY <1>5, <1>6, <1>7, <1>8

\* There is a new chunk behind the k-th.
NewAt(c, lc, n, k, gap, after) ==
  /\ Mirrored(c, after, n)
  /\ Len(after.chunks) = Len(lc.chunks) + 1
  /\ \A j \in 1 .. k : after.chunks[j] = lc.chunks[j]
  /\ after.chunks[k + 1] = Chunk(lc.gen + 1, gap, <<>>)
  /\ \A j \in k + 1 .. Len(lc.chunks) : after.chunks[j + 1] = lc.chunks[j]
  /\ after.gen = lc.gen + 1
  /\ Ev(c, after) = Ev(c, lc)

\* A new chunk behind the k-th, as insert_next and insert_before write it.
LEMMA NewSees ==
  ASSUME NEW c, NEW lc, NEW S, NEW n, Sees(c, lc, S, n), NEW k \in 0 .. Len(lc.chunks), NEW gap \in Nat
  PROVE  NewAt(c, lc, n, k, gap,
           Emit([lc EXCEPT !.chunks = InsertAt(lc.chunks, k + 1, Chunk(lc.gen + 1, gap, <<>>)), !.gen = lc.gen + 1],
                <<NewChunk(Nth(S, n + k), lc.gen + 1, Nth(S, n + k + 1), gap)>>))
<1>1. Mirrored(c, lc, n)
  BY DEF Mirrored
<1>2. lc.chunks \in Seq(ChunkType) /\ Len(lc.chunks) \in Nat /\ Shape(lc) /\ lc.gen \in Nat
  BY <1>1, ChunksAre
<1>3. PICK new : new = Chunk(lc.gen + 1, gap, <<>>)
  OBVIOUS
<1>4. PICK u : u = NewChunk(Nth(S, n + k), lc.gen + 1, Nth(S, n + k + 1), gap)
  OBVIOUS
<1>5. PICK chunks : chunks = InsertAt(lc.chunks, k + 1, new)
  OBVIOUS
<1>6. PICK after : after = Emit(With(lc, chunks, lc.lazy, lc.gen + 1), <<u>>)
  OBVIOUS
<1>7. /\ Sees(c, after, Ins(S, n + k, lc.gen + 1), n)
      /\ after.chunks = chunks /\ after.gen = lc.gen + 1
      /\ StoredEvents(Behind(c.rows, after)) = StoredEvents(Behind(c.rows, lc))
  BY <1>3, <1>4, <1>5, <1>6, InsertSees
<1>8. new \in ChunkType
  <2>1. PICK e : e = <<>>
    OBVIOUS
  <2>2. e \in Seq(Nat) /\ new = Chunk(lc.gen + 1, gap, e)
    BY <1>3, <2>1
  <2>. QED BY <1>2, <2>2 DEF Chunk, ChunkType
<1>9. IsInserted(ChunkType, lc.chunks, k + 1, new, chunks)
  BY <1>2, <1>5, <1>8, InsertAtIs
<1>10. /\ Len(chunks) = Len(lc.chunks) + 1
       /\ \A j \in 1 .. k : chunks[j] = lc.chunks[j]
       /\ chunks[k + 1] = new
       /\ \A j \in k + 1 .. Len(lc.chunks) : chunks[j + 1] = lc.chunks[j]
  <2>1. \A i \in 1 .. Len(lc.chunks) + 1 :
          chunks[i] = IF i < k + 1 THEN lc.chunks[i] ELSE IF i = k + 1 THEN new ELSE lc.chunks[i - 1]
    BY <1>9 DEF IsInserted
  <2>2. Len(chunks) = Len(lc.chunks) + 1
    BY <1>9 DEF IsInserted
  <2>3. ASSUME NEW j \in 1 .. k PROVE chunks[j] = lc.chunks[j]
    BY <1>2, <2>1
  <2>4. chunks[k + 1] = new
    BY <1>2, <2>1
  <2>5. ASSUME NEW j \in k + 1 .. Len(lc.chunks) PROVE chunks[j + 1] = lc.chunks[j]
    <3>1. PICK i : i = j + 1
      OBVIOUS
    <3>2. i \in 1 .. Len(lc.chunks) + 1 /\ ~(i < k + 1) /\ i # k + 1 /\ i - 1 = j
      BY <1>2, <3>1
    <3>. QED BY <2>1, <3>1, <3>2
  <2>. QED BY <2>2, <2>3, <2>4, <2>5
<1>11. NewAt(c, lc, n, k, gap, after)
  BY <1>3, <1>7, <1>10 DEF NewAt, Mirrored, Ev
<1>12. [lc EXCEPT !.chunks = chunks, !.gen = lc.gen + 1] = With(lc, chunks, lc.lazy, lc.gen + 1)
  <2>1. PICK g : g = lc.gen + 1
    OBVIOUS
  <2>2. PICK one : one = [lc EXCEPT !.chunks = chunks]
    OBVIOUS
  <2>3. one = [chunks |-> chunks, lazy |-> lc.lazy, gen |-> lc.gen, log |-> lc.log]
    BY <1>2, <2>2, WithChunks DEF With
  <2>4. [one EXCEPT !.gen = g] = [chunks |-> chunks, lazy |-> lc.lazy, gen |-> g, log |-> lc.log]
    BY <2>3
  <2>5. [lc EXCEPT !.chunks = chunks, !.gen = g] = [one EXCEPT !.gen = g]
    BY <2>2
  <2>. QED BY <2>1, <2>4, <2>5 DEF With
<1>. QED BY <1>3, <1>4, <1>5, <1>6, <1>11, <1>12

\* insert_next and insert_before.
LEMMA InsertNextIs ==
  ASSUME NEW c, NEW lc, NEW n, Mirrored(c, lc, n), NEW i \in 1 .. Len(lc.chunks), NEW gap \in Nat
  PROVE  NewAt(c, lc, n, i, gap, InsertNext(lc, i, gap))
<1>1. PICK S : Sees(c, lc, S, n)
  BY DEF Mirrored
<1>2. Len(lc.chunks) \in Nat /\ n \in Nat
  BY ChunksAre
<1>3. IdOf(lc, i) = Nth(S, n + i) /\ IdOf(lc, i + 1) = Nth(S, n + i + 1)
  <2>1. SeesRows(Behind(c.rows, lc), lc, S, n)
    BY <1>1 DEF Sees
  <2>2. \A j \in Nat : j > 0 => IdOf(lc, j) = Nth(S, n + j)
    BY <2>1, IdIs
  <2>3. i \in Nat /\ i > 0 /\ i + 1 \in Nat /\ i + 1 > 0 /\ n + (i + 1) = n + i + 1
    BY <1>2
  <2>. QED BY <2>2, <2>3
<1>4. i \in 0 .. Len(lc.chunks)
  BY <1>2
<1>. QED BY <1>1, <1>3, <1>4, NewSees DEF InsertNext

\* insert_before.
LEMMA InsertBeforeIs ==
  ASSUME NEW c, NEW lc, NEW n, Mirrored(c, lc, n), NEW i \in 1 .. Len(lc.chunks), NEW gap \in Nat
  PROVE  NewAt(c, lc, n, i - 1, gap, InsertBefore(lc, i, gap))
<1>1. PICK S : Sees(c, lc, S, n)
  BY DEF Mirrored
<1>2. Len(lc.chunks) \in Nat /\ n \in Nat
  BY ChunksAre
<1>3. PICK k \in 0 .. Len(lc.chunks) : k = i - 1 /\ k + 1 = i
  BY <1>2
<1>4. PreviousOf(lc, i) = Nth(S, n + k) /\ IdOf(lc, i) = Nth(S, n + k + 1)
  <2>1. SeesRows(Behind(c.rows, lc), lc, S, n)
    BY <1>1 DEF Sees
  <2>2. IdOf(lc, i) = Nth(S, n + i) /\ PreviousOf(lc, i) = Nth(S, n + i - 1)
    <3>1. i \in Nat /\ i > 0
      BY <1>2
    <3>2. /\ \A j \in Nat : j > 0 => IdOf(lc, j) = Nth(S, n + j)
          /\ \A j \in 1 .. Len(lc.chunks) : PreviousOf(lc, j) = Nth(S, n + j - 1)
      BY <2>1, IdIs
    <3>. QED BY <3>1, <3>2
  <2>3. n + i = n + k + 1 /\ n + i - 1 = n + k
    BY <1>2, <1>3
  <2>. QED BY <2>2, <2>3
<1>5. NewAt(c, lc, n, k, gap,
           Emit([lc EXCEPT !.chunks = InsertAt(lc.chunks, k + 1, Chunk(lc.gen + 1, gap, <<>>)), !.gen = lc.gen + 1],
                <<NewChunk(Nth(S, n + k), lc.gen + 1, Nth(S, n + k + 1), gap)>>))
  BY <1>1, NewSees
<1>6. NewAt(c, lc, n, k, gap, InsertBefore(lc, i, gap))
  BY <1>3, <1>4, <1>5 DEF InsertBefore
<1>. QED BY <1>3, <1>6

\* The i-th loaded chunk is gone.
Gone(c, lc, n, i, after) ==
  /\ Mirrored(c, after, n)
  /\ Len(after.chunks) = Len(lc.chunks) - 1
  /\ \A j \in 1 .. i - 1 : after.chunks[j] = lc.chunks[j]
  /\ \A j \in i + 1 .. Len(lc.chunks) : after.chunks[j - 1] = lc.chunks[j]
  /\ after.gen = lc.gen
  /\ Ev(c, after) = Ev(c, lc)

\* remove_chunk: a chunk without items goes, and the store forgets it.
LEMMA UnlinkIs ==
  ASSUME NEW c, NEW lc, NEW n, Mirrored(c, lc, n), NEW i \in 1 .. Len(lc.chunks), lc.chunks[i].items = <<>>
  PROVE  Gone(c, lc, n, i, Unlink(lc, i))
<1>1. PICK S : Sees(c, lc, S, n)
  BY DEF Mirrored
<1>2. PICK rows : rows = Behind(c.rows, lc)
  OBVIOUS
<1>3. SeesRows(rows, lc, S, n)
  BY <1>1, <1>2 DEF Sees
<1>4. Memory(rows, lc, S, n)
  BY <1>3, MemoryIs
<1>5. /\ Shape(lc) /\ Nice(rows, S) /\ n \in 0 .. Len(S) /\ lc.lazy = Nth(S, n)
      /\ lc.gen \in Nat /\ \A j \in 1 .. Len(S) : S[j] <= lc.gen
  BY <1>3 DEF SeesRows
<1>6. PICK m : m = n + i
  OBVIOUS
<1>7. /\ m \in 1 .. Len(S) /\ lc.chunks[i].id = S[m] /\ S[m] \in DOMAIN rows /\ lc.chunks[i].items = rows[S[m]].items
  BY <1>4, <1>6 DEF Memory
<1>8. PICK x, u : x = S[m] /\ u = RemoveChunk(x)
  OBVIOUS
<1>9. PICK rows2, S2 : rows2 = ApplyUpdate(rows, u) /\ S2 = Del(S, m)
  OBVIOUS
<1>10. Dropped(rows, S, m, x, rows2)
  BY <1>5, <1>7, <1>8, <1>9, DeleteNice
<1>11. /\ Nice(rows2, S2) /\ DOMAIN rows2 = DOMAIN rows \ {x}
       /\ \A id \in DOMAIN rows2 : rows2[id].gap = rows[id].gap /\ rows2[id].items = rows[id].items
  BY <1>9, <1>10 DEF Dropped
<1>12. PICK chunks : chunks = RemoveAt(lc.chunks, i)
  OBVIOUS
<1>13. PICK after : after = Emit(With(lc, chunks, lc.lazy, lc.gen), <<u>>)
  OBVIOUS
<1>14. /\ Shape(after) /\ after.chunks = chunks /\ after.lazy = lc.lazy /\ after.gen = lc.gen
       /\ Behind(c.rows, after) = rows2
  BY <1>2, <1>5, <1>9, <1>13, EmitIs
<1>15. after = Unlink(lc, i)
  <2>1. [lc EXCEPT !.chunks = chunks] = With(lc, chunks, lc.lazy, lc.gen)
    BY <1>5, WithChunks
  <2>2. IdOf(lc, i) = x
    BY <1>4, <1>7, <1>8 DEF IdOf, Memory
  <2>. QED BY <1>8, <1>12, <1>13, <2>1, <2>2 DEF Unlink
<1>16. PICK l \in Nat : l = Len(S)
  BY <1>4 DEF Memory
<1>17. S2 = [j \in 1 .. l - 1 |-> IF j < m THEN S[j] ELSE S[j + 1]] /\ Len(S2) = l - 1
  <2>1. S2 = [j \in 1 .. l - 1 |-> IF j < m THEN S[j] ELSE S[j + 1]]
    BY <1>9, <1>16 DEF Del
  <2>. QED BY <1>7, <1>16, <2>1
<1>18. /\ chunks \in Seq(ChunkType) /\ Len(chunks) = Len(lc.chunks) - 1
       /\ \A j \in 1 .. Len(lc.chunks) - 1 : chunks[j] = IF j < i THEN lc.chunks[j] ELSE lc.chunks[j + 1]
  <2>1. lc.chunks \in Seq(ChunkType)
    BY <1>4 DEF Memory
  <2>. QED BY <1>12, <2>1, RemoveAtIs
<1>19. Len(lc.chunks) = l - n /\ Len(chunks) = Len(S2) - n /\ n \in Nat
  BY <1>4, <1>16, <1>17, <1>18 DEF Memory
<1>20. ASSUME NEW j \in 1 .. l - n
       PROVE  S[n + j] \in DOMAIN rows /\ lc.chunks[j] = Chunk(S[n + j], rows[S[n + j]].gap, rows[S[n + j]].items)
  BY <1>4, <1>19 DEF Memory
<1>21. \A a, b \in 1 .. l : S[a] = S[b] => a = b
  BY <1>5, <1>16 DEF Nice, Linked
<1>22. ASSUME NEW j \in 1 .. Len(S2) - n
       PROVE  chunks[j] = Chunk(S2[n + j], rows2[S2[n + j]].gap, rows2[S2[n + j]].items)
  <2>1. PICK t : t = n + j
    OBVIOUS
  <2>2. t \in 1 .. l - 1 /\ j \in 1 .. Len(lc.chunks) - 1
    BY <1>17, <1>19, <2>1
  <2>3. PICK k : k = IF j < i THEN j ELSE j + 1
    OBVIOUS
  <2>4. k \in 1 .. l - n /\ n + k \in 1 .. l /\ n + k # m
    BY <1>6, <1>19, <2>2, <2>3
  <2>5. S2[t] = S[n + k]
    <3>1. CASE j < i
      <4>1. t < m /\ n + k = t
        BY <1>6, <1>19, <2>1, <2>3, <3>1
      <4>. QED BY <1>17, <2>2, <4>1
    <3>2. CASE ~(j < i)
      <4>1. ~(t < m) /\ n + k = t + 1
        BY <1>6, <1>19, <2>1, <2>3, <3>2
      <4>. QED BY <1>17, <2>2, <4>1
    <3>. QED BY <3>1, <3>2
  <2>6. chunks[j] = lc.chunks[k]
    BY <1>18, <2>2, <2>3
  <2>7. S[n + k] \in DOMAIN rows2
    BY <1>7, <1>8, <1>11, <1>16, <1>20, <1>21, <2>4
  <2>. QED BY <1>11, <1>20, <2>1, <2>4, <2>5, <2>6, <2>7
<1>23. chunks = Loaded(rows2, S2, n)
  <2>1. PICK z : z = Len(S2) - n
    OBVIOUS
  <2>2. chunks = [j \in 1 .. z |-> chunks[j]]
    BY <1>18, <1>19, <2>1
  <2>3. chunks = [j \in 1 .. Len(S2) - n |-> chunks[j]]
    BY <2>1, <2>2
  <2>. QED BY <1>22, <2>3 DEF Loaded
<1>24. Nth(S2, n) = Nth(S, n)
  BY <1>6, <1>16, <1>17, <1>19 DEF Nth
<1>25. \A j \in 1 .. Len(S2) : S2[j] <= lc.gen
  BY <1>5, <1>7, <1>16, <1>17
<1>26. SeesRows(rows2, after, S2, n)
  <2>1. n \in 0 .. Len(S2)
    BY <1>6, <1>7, <1>16, <1>17, <1>19
  <2>2. after.chunks = Loaded(rows2, S2, n) /\ after.lazy = Nth(S2, n)
    BY <1>5, <1>14, <1>23, <1>24
  <2>. QED BY <1>5, <1>11, <1>14, <1>25, <2>1, <2>2 DEF SeesRows
<1>27. StoredEvents(rows2) = StoredEvents(rows)
  <2>1. Typed(rows) /\ Typed(rows2)
    BY <1>5, <1>11 DEF Nice
  <2>2. rows[x].items = <<>>
    BY <1>7, <1>8
  <2>. QED BY <1>11, <2>1, <2>2, SameEvents
<1>28. Follows(Heard(c.tracked, after), rows2, S2)
  <2>1. Told(rows, S, RemoveChunk(S[m]), rows2, Del(S, m))
    BY <1>5, <1>7, <1>8, <1>10, DropTold
  <2>2. Told(rows, S, u, rows2, S2)
    BY <1>8, <1>9, <2>1
  <2>3. Follows(Heard(c.tracked, lc), rows, S)
    BY <1>1, <1>2 DEF Sees
  <2>4. Heard(c.tracked, after) = MapUpdate(Heard(c.tracked, lc), u)
    BY <1>5, <1>13, EmitHeard
  <2>. QED BY <2>2, <2>3, <2>4 DEF Told
<1>29. Mirrored(c, after, n) /\ Ev(c, after) = Ev(c, lc)
  BY <1>2, <1>14, <1>26, <1>27, <1>28 DEF Mirrored, Sees, Ev
<1>30. /\ \A j \in 1 .. i - 1 : chunks[j] = lc.chunks[j]
       /\ \A j \in i + 1 .. Len(lc.chunks) : chunks[j - 1] = lc.chunks[j]
  <2>1. ASSUME NEW j \in 1 .. i - 1 PROVE chunks[j] = lc.chunks[j]
    BY <1>16, <1>18, <1>19
  <2>2. ASSUME NEW j \in i + 1 .. Len(lc.chunks) PROVE chunks[j - 1] = lc.chunks[j]
    <3>1. PICK k : k = j - 1
      OBVIOUS
    <3>2. k \in 1 .. Len(lc.chunks) - 1 /\ ~(k < i) /\ k + 1 = j
      BY <1>16, <1>19, <3>1
    <3>. QED BY <1>18, <3>1, <3>2
  <2>. QED BY <2>1, <2>2
<1>. QED BY <1>14, <1>15, <1>18, <1>29, <1>30 DEF Gone

\* The i-th chunk has other items.
Holds(c, lc, n, i, t, after) ==
  /\ Mirrored(c, after, n)
  /\ Len(after.chunks) = Len(lc.chunks)
  /\ after.chunks[i] = Chunk(lc.chunks[i].id, lc.chunks[i].gap, t)
  /\ \A j \in 1 .. Len(lc.chunks) : j # i => after.chunks[j] = lc.chunks[j]
  /\ after.gen = lc.gen

\* The items of the i-th chunk change in memory and, by the update u, in the store.
LEMMA ItemsSees ==
  ASSUME NEW c, NEW lc, NEW S, NEW n, Sees(c, lc, S, n), NEW i \in 1 .. Len(lc.chunks), NEW t, NEW u,
         NEW rows, rows = Behind(c.rows, lc),
         NEW rows2, rows2 = ApplyUpdate(rows, u), Changed(rows, lc.chunks[i].id, t, rows2, S), Told(rows, S, u, rows2, S)
  PROVE  LET after == Emit([lc EXCEPT !.chunks[i].items = t], <<u>>)
         IN  Holds(c, lc, n, i, t, after) /\ Behind(c.rows, after) = rows2
<1>1. SeesRows(rows, lc, S, n)
  BY DEF Sees
<1>2. Memory(rows, lc, S, n)
  BY <1>1, MemoryIs
<1>3. /\ Shape(lc) /\ Nice(rows, S) /\ n \in 0 .. Len(S) /\ lc.lazy = Nth(S, n)
      /\ lc.gen \in Nat /\ \A j \in 1 .. Len(S) : S[j] <= lc.gen
  BY <1>1 DEF SeesRows
<1>4. PICK x : x = S[n + i]
  OBVIOUS
<1>5. /\ n + i \in 1 .. Len(S) /\ lc.chunks[i].id = x /\ x \in DOMAIN rows
      /\ lc.chunks[i] = Chunk(x, rows[x].gap, rows[x].items)
  BY <1>2, <1>4 DEF Memory
<1>6. PICK chunks : chunks = [lc.chunks EXCEPT ![i].items = t]
  OBVIOUS
<1>7. PICK after : after = Emit(With(lc, chunks, lc.lazy, lc.gen), <<u>>)
  OBVIOUS
<1>8. /\ Shape(after) /\ after.chunks = chunks /\ after.lazy = lc.lazy /\ after.gen = lc.gen
      /\ Behind(c.rows, after) = rows2
  BY <1>3, <1>7, EmitIs
<1>9. after = Emit([lc EXCEPT !.chunks[i].items = t], <<u>>)
  <2>1. [lc EXCEPT !.chunks = chunks] = With(lc, chunks, lc.lazy, lc.gen)
    BY <1>3, WithChunks
  <2>2. [lc EXCEPT !.chunks[i].items = t] = [lc EXCEPT !.chunks = chunks]
    BY <1>6
  <2>. QED BY <1>7, <2>1, <2>2
<1>10. /\ Nice(rows2, S) /\ DOMAIN rows2 = DOMAIN rows /\ rows2[x].items = t
       /\ \A id \in DOMAIN rows : rows2[id].gap = rows[id].gap /\ (id # x => rows2[id] = rows[id])
  BY <1>5 DEF Changed
<1>11. PICK l \in Nat : l = Len(lc.chunks)
  <2>1. Len(lc.chunks) \in Nat
    BY <1>2 DEF Memory
  <2>. QED BY <2>1
<1>12. l = Len(S) - n /\ n \in Nat /\ Len(S) \in Nat /\ lc.chunks \in Seq(ChunkType)
  BY <1>2, <1>11 DEF Memory
<1>13. chunks = [j \in 1 .. l |-> IF j = i THEN [lc.chunks[i] EXCEPT !.items = t] ELSE lc.chunks[j]]
  <2>1. PICK d : d = lc.chunks
    OBVIOUS
  <2>2. d \in Seq(ChunkType) /\ Len(d) = l
    BY <1>11, <1>12, <2>1
  <2>3. d = [j \in 1 .. l |-> d[j]]
    BY <2>2
  <2>4. PICK h : h = [d[i] EXCEPT !.items = t]
    OBVIOUS
  <2>5. chunks = [d EXCEPT ![i] = h]
    BY <1>6, <2>1, <2>4
  <2>6. chunks = [j \in 1 .. l |-> IF j = i THEN h ELSE d[j]]
    BY <1>11, <2>3, <2>5
  <2>. QED BY <2>1, <2>4, <2>6
<1>14. [lc.chunks[i] EXCEPT !.items = t] = Chunk(x, rows[x].gap, t)
  <2>1. PICK g, h : g = rows[x].gap /\ h = rows[x].items
    OBVIOUS
  <2>2. lc.chunks[i] = [id |-> x, gap |-> g, items |-> h]
    BY <1>5, <2>1 DEF Chunk
  <2>3. [lc.chunks[i] EXCEPT !.items = t] = [id |-> x, gap |-> g, items |-> t]
    BY <2>2
  <2>. QED BY <2>1, <2>3 DEF Chunk
<1>15. \A j \in 1 .. l : chunks[j] = IF j = i THEN Chunk(x, rows[x].gap, t) ELSE lc.chunks[j]
  BY <1>13, <1>14
<1>16. ASSUME NEW j \in 1 .. l
       PROVE  /\ S[n + j] \in DOMAIN rows /\ lc.chunks[j] = Chunk(S[n + j], rows[S[n + j]].gap, rows[S[n + j]].items)
              /\ lc.chunks[j].id = S[n + j] /\ n + j \in 1 .. Len(S)
  BY <1>2, <1>11 DEF Memory
<1>17. \A a, b \in 1 .. Len(S) : S[a] = S[b] => a = b
  BY <1>3 DEF Nice, Linked
<1>18. ASSUME NEW j \in 1 .. l
       PROVE  chunks[j] = Chunk(S[n + j], rows2[S[n + j]].gap, rows2[S[n + j]].items)
  <2>1. CASE j = i
    BY <1>4, <1>5, <1>10, <1>15, <2>1
  <2>2. CASE j # i
    <3>1. S[n + j] # x
      <4>1. n + j # n + i
        BY <1>11, <1>12, <2>2
      <4>. QED BY <1>4, <1>5, <1>16, <1>17, <4>1
    <3>2. rows2[S[n + j]] = rows[S[n + j]]
      BY <1>10, <1>16, <3>1
    <3>. QED BY <1>15, <1>16, <2>2, <3>2
  <2>. QED BY <2>1, <2>2
<1>19. chunks = Loaded(rows2, S, n)
  <2>1. chunks = [j \in 1 .. l |-> chunks[j]]
    BY <1>13
  <2>2. chunks = [j \in 1 .. l |-> Chunk(S[n + j], rows2[S[n + j]].gap, rows2[S[n + j]].items)]
    BY <1>18, <2>1
  <2>. QED BY <1>12, <2>2 DEF Loaded
<1>20. SeesRows(rows2, after, S, n)
  BY <1>3, <1>8, <1>10, <1>19 DEF SeesRows
<1>21. Follows(Heard(c.tracked, after), rows2, S)
  <2>1. Follows(Heard(c.tracked, lc), rows, S)
    BY DEF Sees
  <2>2. Heard(c.tracked, after) = MapUpdate(Heard(c.tracked, lc), u)
    BY <1>3, <1>7, EmitHeard
  <2>. QED BY <2>1, <2>2 DEF Told
<1>22. Mirrored(c, after, n)
  BY <1>8, <1>20, <1>21 DEF Mirrored, Sees
<1>23. Len(chunks) = l
  BY <1>11, <1>13
<1>24. lc.chunks[i].gap = rows[x].gap
  BY <1>5 DEF Chunk
<1>25. Holds(c, lc, n, i, t, after)
  BY <1>5, <1>8, <1>11, <1>15, <1>22, <1>23, <1>24 DEF Holds
<1>. QED BY <1>8, <1>9, <1>25

\* An update that changes nothing in the store.
Unmoved(c, lc, n, after) ==
  /\ Mirrored(c, after, n)
  /\ after.chunks = lc.chunks /\ after.gen = lc.gen
  /\ Ev(c, after) = Ev(c, lc)

\* An update that does not change the store leaves it a mirror of memory.
LEMMA SameSees ==
  ASSUME NEW c, NEW lc, NEW n, Mirrored(c, lc, n), NEW u,
         ApplyUpdate(Behind(c.rows, lc), u) = Behind(c.rows, lc), \A rows, S : Told(rows, S, u, rows, S)
  PROVE  Unmoved(c, lc, n, Emit(lc, <<u>>))
<1>1. PICK S : Sees(c, lc, S, n)
  BY DEF Mirrored
<1>2. PICK rows : rows = Behind(c.rows, lc)
  OBVIOUS
<1>3. SeesRows(rows, lc, S, n)
  BY <1>1, <1>2 DEF Sees
<1>4. Shape(lc)
  BY <1>3 DEF SeesRows
<1>5. lc = With(lc, lc.chunks, lc.lazy, lc.gen)
  BY <1>4 DEF Shape, With
<1>6. PICK chunks, lazy, gen : chunks = lc.chunks /\ lazy = lc.lazy /\ gen = lc.gen
  OBVIOUS
<1>7. PICK after : after = Emit(With(lc, chunks, lazy, gen), <<u>>)
  OBVIOUS
<1>8. after = Emit(lc, <<u>>)
  BY <1>5, <1>6, <1>7
<1>9. /\ Shape(after) /\ after.chunks = chunks /\ after.lazy = lazy /\ after.gen = gen
      /\ Behind(c.rows, after) = rows
  BY <1>2, <1>4, <1>7, EmitIs
<1>10. SeesRows(rows, after, S, n)
  BY <1>3, <1>6, <1>9 DEF SeesRows
<1>11. Follows(Heard(c.tracked, after), rows, S)
  <2>1. Follows(Heard(c.tracked, lc), rows, S)
    BY <1>1, <1>2 DEF Sees
  <2>2. Heard(c.tracked, after) = MapUpdate(Heard(c.tracked, lc), u)
    BY <1>4, <1>7, EmitHeard
  <2>. QED BY <2>1, <2>2 DEF Told
<1>. QED BY <1>2, <1>6, <1>8, <1>9, <1>10, <1>11 DEF Unmoved, Mirrored, Sees, Ev

\* The two marks around items that are attached again change nothing in the store.
LEMMA MarkIs ==
  ASSUME NEW c, NEW lc, NEW n, Mirrored(c, lc, n)
  PROVE  /\ Unmoved(c, lc, n, Emit(lc, <<StartReattachItems>>))
         /\ Unmoved(c, lc, n, Emit(lc, <<EndReattachItems>>))
BY MarksSay, SameTold, SameSees

\* What is known of the rows of a loaded chunk.
LEMMA RowOf ==
  ASSUME NEW c, NEW lc, NEW S, NEW n, Sees(c, lc, S, n), NEW i \in 1 .. Len(lc.chunks),
         NEW rows, rows = Behind(c.rows, lc), NEW x, x = lc.chunks[i].id
  PROVE  /\ Nice(rows, S) /\ x \in DOMAIN rows /\ rows[x].gap = lc.chunks[i].gap
         /\ rows[x].items = lc.chunks[i].items /\ IdOf(lc, i) = x
<1>1. SeesRows(rows, lc, S, n)
  BY DEF Sees
<1>2. Memory(rows, lc, S, n)
  BY <1>1, MemoryIs
<1>3. Nice(rows, S)
  BY <1>1 DEF SeesRows
<1>4. IdOf(lc, i) = x
  BY <1>2 DEF IdOf, Memory
<1>5. /\ lc.chunks[i].id = S[n + i] /\ S[n + i] \in DOMAIN rows
      /\ lc.chunks[i].gap = rows[S[n + i]].gap /\ lc.chunks[i].items = rows[S[n + i]].items
  BY <1>2 DEF Memory
<1>. QED BY <1>3, <1>4, <1>5

\* Events, each of them once, that the room does not have.
Unknown(c, lc, s) ==
  /\ s \in Seq(Nat) /\ Injective(s)
  /\ \A j \in 1 .. Len(s) : s[j] \notin Ev(c, lc)

\* push_items of what fits.
LEMMA PushOntoIs ==
  ASSUME NEW c, NEW lc, NEW n, Mirrored(c, lc, n), NEW i \in 1 .. Len(lc.chunks), NEW s, s # <<>>,
         lc.chunks[i].gap = NoToken, Len(lc.chunks[i].items) + Len(s) <= Cap, Unknown(c, lc, s)
  PROVE  /\ Holds(c, lc, n, i, lc.chunks[i].items \o s, PushOnto(lc, i, s))
         /\ \A e : e \in Ev(c, PushOnto(lc, i, s)) <=> e \in Ev(c, lc) \/ \E j \in 1 .. Len(s) : s[j] = e
<1>1. PICK S : Sees(c, lc, S, n)
  BY DEF Mirrored
<1>2. PICK rows, x : rows = Behind(c.rows, lc) /\ x = lc.chunks[i].id
  OBVIOUS
<1>3. /\ Nice(rows, S) /\ x \in DOMAIN rows /\ rows[x].gap = lc.chunks[i].gap
      /\ rows[x].items = lc.chunks[i].items /\ IdOf(lc, i) = x
  BY <1>1, <1>2, RowOf
<1>4. PICK u : u = PushItems(Position(x, Len(rows[x].items)), s)
  OBVIOUS
<1>5. PICK rows2 : rows2 = ApplyUpdate(rows, u)
  OBVIOUS
<1>6. /\ Changed(rows, x, rows[x].items \o s, rows2, S)
      /\ \A e : e \in StoredEvents(rows2) <=> e \in StoredEvents(rows) \/ \E j \in 1 .. Len(s) : s[j] = e
  <2>1. rows[x].gap = NoToken /\ Len(rows[x].items) + Len(s) <= Cap
    BY <1>3
  <2>2. s \in Seq(Nat) /\ Injective(s) /\ \A j \in 1 .. Len(s) : s[j] \notin StoredEvents(rows)
    BY <1>2 DEF Ev, Unknown
  <2>3. LET after == ApplyUpdate(rows, PushItems(Position(x, Len(rows[x].items)), s))
        IN  /\ Changed(rows, x, rows[x].items \o s, after, S)
            /\ \A e : e \in StoredEvents(after) <=> e \in StoredEvents(rows) \/ \E j \in 1 .. Len(s) : s[j] = e
    BY <1>3, <2>1, <2>2, AppendNice
  <2>. QED BY <1>4, <1>5, <2>3
<1>7. PICK t : t = rows[x].items \o s
  OBVIOUS
<1>8. PICK after : after = Emit([lc EXCEPT !.chunks[i].items = t], <<u>>)
  OBVIOUS
<1>9. Holds(c, lc, n, i, t, after) /\ Behind(c.rows, after) = rows2
  <2>1. Changed(rows, lc.chunks[i].id, t, rows2, S)
    BY <1>2, <1>6, <1>7
  <2>2. Told(rows, S, u, rows2, S)
    <3>1. s \in Seq(Nat)
      BY DEF Unknown
    <3>. QED BY <1>3, <1>4, <1>6, <3>1, PushTold
  <2>3. /\ Holds(c, lc, n, i, t, Emit([lc EXCEPT !.chunks[i].items = t], <<u>>))
        /\ Behind(c.rows, Emit([lc EXCEPT !.chunks[i].items = t], <<u>>)) = rows2
    BY <1>1, <1>2, <1>5, <2>1, <2>2, ItemsSees
  <2>. QED BY <1>8, <2>3
<1>10. PushOnto(lc, i, s) = after
  BY <1>3, <1>4, <1>7, <1>8 DEF PushOnto
<1>. QED BY <1>2, <1>3, <1>6, <1>7, <1>9, <1>10 DEF Ev

\* detach_last_items.
LEMMA DetachIs ==
  ASSUME NEW c, NEW lc, NEW n, Mirrored(c, lc, n), NEW i \in 1 .. Len(lc.chunks),
         NEW k \in 0 .. Len(lc.chunks[i].items)
  PROVE  /\ Holds(c, lc, n, i, SubSeq(lc.chunks[i].items, 1, k), Detach(lc, i, k))
         /\ \A e : e \in Ev(c, Detach(lc, i, k)) =>
              e \in Ev(c, lc) /\ \A j \in k + 1 .. Len(lc.chunks[i].items) : lc.chunks[i].items[j] # e
<1>1. PICK S : Sees(c, lc, S, n)
  BY DEF Mirrored
<1>2. PICK rows, x : rows = Behind(c.rows, lc) /\ x = lc.chunks[i].id
  OBVIOUS
<1>3. /\ Nice(rows, S) /\ x \in DOMAIN rows /\ rows[x].gap = lc.chunks[i].gap
      /\ rows[x].items = lc.chunks[i].items /\ IdOf(lc, i) = x
  BY <1>1, <1>2, RowOf
<1>4. PICK u : u = DetachLastItems(Position(x, k))
  OBVIOUS
<1>5. PICK rows2 : rows2 = ApplyUpdate(rows, u)
  OBVIOUS
<1>6. /\ Changed(rows, x, SubSeq(rows[x].items, 1, k), rows2, S)
      /\ \A e : e \in StoredEvents(rows2) =>
           e \in StoredEvents(rows) /\ \A j \in k + 1 .. Len(rows[x].items) : rows[x].items[j] # e
  BY <1>3, <1>4, <1>5, DetachNice
<1>7. PICK t : t = SubSeq(rows[x].items, 1, k)
  OBVIOUS
<1>8. PICK after : after = Emit([lc EXCEPT !.chunks[i].items = t], <<u>>)
  OBVIOUS
<1>9. Holds(c, lc, n, i, t, after) /\ Behind(c.rows, after) = rows2
  <2>1. Changed(rows, lc.chunks[i].id, t, rows2, S)
    BY <1>2, <1>6, <1>7
  <2>2. Told(rows, S, u, rows2, S)
    <3>1. rows[x].items \in Seq(Nat) /\ k \in 0 .. Len(rows[x].items)
      BY <1>3, ItemsOnce
    <3>2. Len(t) = k
      BY <1>7, <3>1
    <3>. QED BY <1>3, <1>4, <1>6, <1>7, <3>2, DetachTold
  <2>3. /\ Holds(c, lc, n, i, t, Emit([lc EXCEPT !.chunks[i].items = t], <<u>>))
        /\ Behind(c.rows, Emit([lc EXCEPT !.chunks[i].items = t], <<u>>)) = rows2
    BY <1>1, <1>2, <1>5, <2>1, <2>2, ItemsSees
  <2>. QED BY <1>8, <2>3
<1>10. Detach(lc, i, k) = after
  BY <1>3, <1>4, <1>7, <1>8 DEF Detach
<1>. QED BY <1>2, <1>3, <1>6, <1>7, <1>9, <1>10 DEF Ev

\* The first half of remove_item_at.
LEMMA RemoveIs ==
  ASSUME NEW c, NEW lc, NEW n, Mirrored(c, lc, n), NEW i \in 1 .. Len(lc.chunks),
         NEW k \in 1 .. Len(lc.chunks[i].items)
  PROVE  LET after == Emit([lc EXCEPT !.chunks[i].items = RemoveAt(lc.chunks[i].items, k)],
                           <<RemoveItem(Position(lc.chunks[i].id, k - 1))>>)
         IN  /\ Holds(c, lc, n, i, RemoveAt(lc.chunks[i].items, k), after)
             /\ \A e : e \in Ev(c, after) => e \in Ev(c, lc) /\ e # lc.chunks[i].items[k]
<1>1. PICK S : Sees(c, lc, S, n)
  BY DEF Mirrored
<1>2. PICK rows, x : rows = Behind(c.rows, lc) /\ x = lc.chunks[i].id
  OBVIOUS
<1>3. /\ Nice(rows, S) /\ x \in DOMAIN rows /\ rows[x].gap = lc.chunks[i].gap
      /\ rows[x].items = lc.chunks[i].items /\ IdOf(lc, i) = x
  BY <1>1, <1>2, RowOf
<1>4. PICK u : u = RemoveItem(Position(x, k - 1))
  OBVIOUS
<1>5. PICK rows2 : rows2 = ApplyUpdate(rows, u)
  OBVIOUS
<1>6. /\ Changed(rows, x, RemoveAt(rows[x].items, k), rows2, S)
      /\ \A e : e \in StoredEvents(rows2) => e \in StoredEvents(rows) /\ e # rows[x].items[k]
  <2>1. Nice(rows, S) /\ x \in DOMAIN rows /\ k \in 1 .. Len(rows[x].items)
    BY <1>3
  <2>2. rows2 = ApplyUpdate(rows, RemoveItem(Position(x, k - 1)))
    BY <1>4, <1>5
  <2>. QED BY <2>1, <2>2, RemoveNice
<1>7. PICK t : t = RemoveAt(rows[x].items, k)
  OBVIOUS
<1>8. PICK after : after = Emit([lc EXCEPT !.chunks[i].items = t], <<u>>)
  OBVIOUS
<1>9. Holds(c, lc, n, i, t, after) /\ Behind(c.rows, after) = rows2
  <2>1. Changed(rows, lc.chunks[i].id, t, rows2, S)
    BY <1>2, <1>6, <1>7
  <2>2. Told(rows, S, u, rows2, S)
    <3>1. rows[x].items \in Seq(Nat) /\ k \in 1 .. Len(rows[x].items)
      BY <1>3, ItemsOnce
    <3>2. Len(t) = Len(rows[x].items) - 1
      BY <1>7, <3>1, RemoveAtIs
    <3>. QED BY <1>3, <1>4, <1>6, <1>7, <3>2, RemoveTold
  <2>3. /\ Holds(c, lc, n, i, t, Emit([lc EXCEPT !.chunks[i].items = t], <<u>>))
        /\ Behind(c.rows, Emit([lc EXCEPT !.chunks[i].items = t], <<u>>)) = rows2
    BY <1>1, <1>2, <1>5, <2>1, <2>2, ItemsSees
  <2>. QED BY <1>8, <2>3
<1>. QED BY <1>2, <1>3, <1>4, <1>6, <1>7, <1>8, <1>9 DEF Ev

-----------------------------------------------------------------------------
(* push_items, whose recursion is a fold here.                             *)

Calls == INSTANCE Folding WITH Op <- PushStep

\* A part of what is not known.
LEMMA PartUnknown ==
  ASSUME NEW c, NEW lc, NEW s, Unknown(c, lc, s), NEW a \in 1 .. Len(s) + 1, NEW b \in 0 .. Len(s), a <= b + 1
  PROVE  /\ Unknown(c, lc, SubSeq(s, a, b)) /\ Len(SubSeq(s, a, b)) = b - a + 1
         /\ \A i \in 1 .. b - a + 1 : a + i - 1 \in 1 .. Len(s) /\ SubSeq(s, a, b)[i] = s[a + i - 1]
<1>1. s \in Seq(Nat) /\ Injective(s) /\ \A j \in 1 .. Len(s) : s[j] \notin Ev(c, lc)
  BY DEF Unknown
<1>2. PICK t : t = SubSeq(s, a, b)
  OBVIOUS
<1>3. PICK l \in Nat : l = Len(s)
  BY <1>1
<1>4. t \in Seq(Nat) /\ Len(t) = b - a + 1 /\ \A i \in 1 .. b - a + 1 : t[i] = s[a + i - 1]
  BY <1>1, <1>2, SubSeqIs
<1>5. ASSUME NEW i \in 1 .. b - a + 1 PROVE a + i - 1 \in 1 .. l /\ t[i] = s[a + i - 1]
  BY <1>3, <1>4
<1>6. ASSUME NEW i \in 1 .. Len(t), NEW j \in 1 .. Len(t), t[i] = t[j] PROVE i = j
  <2>1. a + i - 1 \in 1 .. l /\ a + j - 1 \in 1 .. l /\ s[a + i - 1] = s[a + j - 1]
    BY <1>4, <1>5, <1>6
  <2>2. a + i - 1 = a + j - 1
    BY <1>1, <1>3, <2>1 DEF Injective
  <2>. QED BY <1>3, <1>4, <2>2
<1>7. \A j \in 1 .. Len(t) : t[j] \notin Ev(c, lc)
  BY <1>1, <1>3, <1>4, <1>5
<1>. QED BY <1>2, <1>3, <1>4, <1>5, <1>6, <1>7 DEF Unknown, Injective

\* What is true while push_items of s at the i-th chunk of lc goes on.
Pushing(c, lc, n, i, s, x) ==
  /\ Mirrored(c, x.lc, n)
  /\ x.at \in i .. Len(x.lc.chunks)
  /\ Unknown(c, x.lc, x.rest)
  /\ Len(x.rest) <= Len(s)
  /\ \A j \in 1 .. Len(x.rest) : \E k \in 1 .. Len(s) : x.rest[j] = s[k]
  /\ \A e \in Ev(c, x.lc) : e \in Ev(c, lc) \/ \E k \in 1 .. Len(s) : s[k] = e
  /\ \A j \in 1 .. i - 1 : x.lc.chunks[j] = lc.chunks[j]
  /\ x.lc.chunks[i].id = lc.chunks[i].id /\ x.lc.chunks[i].gap = lc.chunks[i].gap
  /\ Len(x.rest) = Len(s) \/ \E j \in 1 .. x.at : x.lc.chunks[j].items # <<>>

\* The chunk that is next is new.
Spacious(x) == x.lc.chunks[x.at].gap = NoToken /\ x.lc.chunks[x.at].items = <<>>

\* What fits has been pushed.
Fitted(c, lc, n, i, rest, fits, onto) ==
  /\ Mirrored(c, onto, n)
  /\ Len(onto.chunks) = Len(lc.chunks)
  /\ \A j \in 1 .. Len(lc.chunks) : j # i => onto.chunks[j] = lc.chunks[j]
  /\ onto.chunks[i].id = lc.chunks[i].id /\ onto.chunks[i].gap = lc.chunks[i].gap
  /\ \A e : e \in Ev(c, onto) <=> e \in Ev(c, lc) \/ \E j \in 1 .. fits : rest[j] = e
  /\ fits > 0 => onto.chunks[i].items # <<>>
  /\ fits = 0 => onto.chunks[i].items = lc.chunks[i].items

\* What fits into the free space of a chunk goes into it; a new chunk takes at least one.
LEMMA PushFits ==
  ASSUME NEW c, NEW lc, NEW n, Mirrored(c, lc, n), NEW i \in 1 .. Len(lc.chunks), NEW rest, Unknown(c, lc, rest),
         NEW free, free = FreeSpace(lc.chunks[i]), NEW fits, fits = IF Len(rest) < free THEN Len(rest) ELSE free
  PROVE  /\ Fitted(c, lc, n, i, rest, fits, PushOnto(lc, i, SubSeq(rest, 1, fits)))
         /\ fits \in 0 .. Len(rest)
         /\ lc.chunks[i].gap = NoToken /\ lc.chunks[i].items = <<>> => fits > 0 \/ Len(rest) = 0
<1>1. PICK l : l = Len(lc.chunks[i].items)
  OBVIOUS
<1>2. /\ lc.chunks[i].items \in Seq(Nat) /\ l \in Nat /\ l <= Cap /\ Cap \in Nat /\ Cap > 0
      /\ lc.chunks[i].gap \in Nat
  <2>1. lc.chunks[i].items \in Seq(Nat) /\ Len(lc.chunks[i].items) <= Cap /\ lc.chunks[i].gap \in Nat
    BY ChunksAre
  <2>2. Len(lc.chunks[i].items) \in Nat
    BY <2>1
  <2>3. Cap \in Nat /\ Cap > 0
    BY CapAssumption
  <2>. QED BY <1>1, <2>1, <2>2, <2>3
<1>3. rest \in Seq(Nat) /\ Len(rest) \in Nat
  BY DEF Unknown
<1>4. free = IF lc.chunks[i].gap # NoToken THEN 0 ELSE Cap - l
  BY <1>1, <1>2 DEF FreeSpace, IsGap
<1>5. fits \in 0 .. Len(rest) /\ fits <= free
  BY <1>2, <1>3, <1>4
<1>6. lc.chunks[i].gap = NoToken /\ lc.chunks[i].items = <<>> => fits > 0 \/ Len(rest) = 0
  BY <1>1, <1>2, <1>3, <1>4
<1>7. PICK a : a = SubSeq(rest, 1, fits)
  OBVIOUS
<1>8. Unknown(c, lc, a) /\ Len(a) = fits /\ \A j \in 1 .. fits : a[j] = rest[j]
  <2>1. 1 \in 1 .. Len(rest) + 1 /\ 1 <= fits + 1 /\ fits - 1 + 1 = fits /\ \A j \in 1 .. fits : 1 + j - 1 = j
    BY <1>3, <1>5
  <2>2. /\ Unknown(c, lc, SubSeq(rest, 1, fits)) /\ Len(SubSeq(rest, 1, fits)) = fits - 1 + 1
        /\ \A j \in 1 .. fits - 1 + 1 : SubSeq(rest, 1, fits)[j] = rest[1 + j - 1]
    BY <1>5, <2>1, PartUnknown
  <2>. QED BY <1>7, <2>1, <2>2
<1>9. PICK onto : onto = PushOnto(lc, i, a)
  OBVIOUS
<1>10. CASE fits = 0
  <2>1. a = <<>>
    BY <1>8, <1>10 DEF Unknown
  <2>2. onto = lc
    BY <1>9, <2>1 DEF PushOnto
  <2>3. Fitted(c, lc, n, i, rest, fits, onto)
    BY <1>10, <2>2 DEF Fitted
  <2>. QED BY <1>5, <1>6, <1>7, <1>9, <2>3
<1>11. CASE fits > 0
  <2>1. a # <<>>
    BY <1>8, <1>11
  <2>2. lc.chunks[i].gap = NoToken /\ l + Len(a) <= Cap
    <3>1. CASE lc.chunks[i].gap # NoToken
      BY <1>4, <1>5, <1>11, <3>1
    <3>2. CASE lc.chunks[i].gap = NoToken
      <4>1. fits <= Cap - l
        BY <1>4, <1>5, <3>2
      <4>. QED BY <1>2, <1>5, <1>8, <3>2, <4>1
    <3>. QED BY <3>1, <3>2
  <2>3. /\ Holds(c, lc, n, i, lc.chunks[i].items \o a, onto)
        /\ \A e : e \in Ev(c, onto) <=> e \in Ev(c, lc) \/ \E j \in 1 .. Len(a) : a[j] = e
    <3>1. Len(lc.chunks[i].items) + Len(a) <= Cap
      BY <1>1, <2>2
    <3>2. /\ Holds(c, lc, n, i, lc.chunks[i].items \o a, PushOnto(lc, i, a))
          /\ \A e : e \in Ev(c, PushOnto(lc, i, a)) <=> e \in Ev(c, lc) \/ \E j \in 1 .. Len(a) : a[j] = e
      <4>1. Unknown(c, lc, a)
        BY <1>8
      <4>2. lc.chunks[i].gap = NoToken
        BY <2>2
      <4>. QED BY <2>1, <3>1, <4>1, <4>2, PushOntoIs
    <3>. QED BY <1>9, <3>2
  <2>4. PICK t : t = lc.chunks[i].items \o a
    OBVIOUS
  <2>5. t # <<>>
    <3>1. a \in Seq(Nat)
      BY <1>8 DEF Unknown
    <3>2. Len(t) = l + Len(a)
      BY <1>1, <1>2, <2>4, <3>1
    <3>. QED BY <1>2, <1>8, <1>11, <3>2
  <2>6. /\ onto.chunks[i].id = lc.chunks[i].id /\ onto.chunks[i].gap = lc.chunks[i].gap
        /\ onto.chunks[i].items = t
    BY <2>3, <2>4 DEF Holds, Chunk
  <2>7. \A e : e \in Ev(c, onto) <=> e \in Ev(c, lc) \/ \E j \in 1 .. fits : rest[j] = e
    BY <1>8, <2>3
  <2>8. Fitted(c, lc, n, i, rest, fits, onto)
    BY <1>11, <2>3, <2>5, <2>6, <2>7 DEF Fitted, Holds
  <2>. QED BY <1>5, <1>6, <1>7, <1>9, <2>8
<1>. QED BY <1>3, <1>5, <1>10, <1>11

\* One call of push_items.
LEMMA PushStepIs ==
  ASSUME NEW c, NEW lc, NEW n, NEW i \in Nat, i > 0, NEW s \in Seq(Nat), NEW x, Pushing(c, lc, n, i, s, x), NEW call
  PROVE  LET y == PushStep(x, call)
         IN  /\ Pushing(c, lc, n, i, s, y)
             /\ y.rest = <<>> \/ (Spacious(y) /\ Len(y.rest) <= Len(x.rest) /\ (Spacious(x) => Len(y.rest) < Len(x.rest)))
<1>1. PICK at, rest, one, free : at = x.at /\ rest = x.rest /\ one = x.lc /\ free = FreeSpace(one.chunks[at])
  OBVIOUS
<1>2. PICK fits : fits = IF Len(rest) < free THEN Len(rest) ELSE free
  OBVIOUS
<1>3. PICK onto, left : onto = PushOnto(one, at, SubSeq(rest, 1, fits)) /\ left = SubSeq(rest, fits + 1, Len(rest))
  OBVIOUS
<1>4. PICK y : y = PushStep(x, call)
  OBVIOUS
<1>5. y = IF left = <<>> THEN [lc |-> onto, at |-> at, rest |-> left]
          ELSE [lc |-> InsertNext(onto, at, NoToken), at |-> at + 1, rest |-> left]
  BY <1>1, <1>2, <1>3, <1>4 DEF PushStep
<1>6. /\ Mirrored(c, one, n) /\ at \in i .. Len(one.chunks) /\ Unknown(c, one, rest) /\ Len(rest) <= Len(s)
      /\ \A j \in 1 .. Len(rest) : \E k \in 1 .. Len(s) : rest[j] = s[k]
      /\ \A e \in Ev(c, one) : e \in Ev(c, lc) \/ \E k \in 1 .. Len(s) : s[k] = e
      /\ \A j \in 1 .. i - 1 : one.chunks[j] = lc.chunks[j]
      /\ one.chunks[i].id = lc.chunks[i].id /\ one.chunks[i].gap = lc.chunks[i].gap
      /\ Len(rest) = Len(s) \/ \E j \in 1 .. at : one.chunks[j].items # <<>>
  BY <1>1 DEF Pushing
<1>7. Len(one.chunks) \in Nat /\ at \in 1 .. Len(one.chunks) /\ at \in Nat /\ Len(s) \in Nat
  <2>1. Len(one.chunks) \in Nat
    BY <1>6, ChunksAre
  <2>. QED BY <1>6, <2>1
<1>8. rest \in Seq(Nat) /\ Len(rest) \in Nat
  BY <1>6 DEF Unknown
<1>9. /\ Fitted(c, one, n, at, rest, fits, onto) /\ fits \in 0 .. Len(rest)
      /\ one.chunks[at].gap = NoToken /\ one.chunks[at].items = <<>> => fits > 0 \/ Len(rest) = 0
  <2>1. /\ Fitted(c, one, n, at, rest, fits, PushOnto(one, at, SubSeq(rest, 1, fits))) /\ fits \in 0 .. Len(rest)
        /\ one.chunks[at].gap = NoToken /\ one.chunks[at].items = <<>> => fits > 0 \/ Len(rest) = 0
    <3>1. Mirrored(c, one, n) /\ Unknown(c, one, rest)
      BY <1>6
    <3>2. at \in 1 .. Len(one.chunks)
      BY <1>7
    <3>3. free = FreeSpace(one.chunks[at])
      BY <1>1
    <3>. QED BY <1>2, <3>1, <3>2, <3>3, PushFits
  <2>. QED BY <1>3, <2>1
<1>10. PICK m : m = Len(rest) - fits
  OBVIOUS
<1>11. m \in Nat /\ m <= Len(rest) /\ (fits > 0 => m < Len(rest)) /\ (fits = 0 => m = Len(rest))
  BY <1>8, <1>9, <1>10
<1>12. /\ Len(left) = m /\ Unknown(c, one, left)
       /\ \A j \in 1 .. m : fits + j \in 1 .. Len(rest) /\ left[j] = rest[fits + j]
  <2>1. PICK a : a = fits + 1
    OBVIOUS
  <2>2. a \in 1 .. Len(rest) + 1 /\ Len(rest) \in 0 .. Len(rest) /\ a <= Len(rest) + 1
    BY <1>8, <1>9, <2>1
  <2>3. PICK b : b = Len(rest)
    OBVIOUS
  <2>4. /\ Unknown(c, one, SubSeq(rest, a, b)) /\ Len(SubSeq(rest, a, b)) = b - a + 1
        /\ \A j \in 1 .. b - a + 1 : a + j - 1 \in 1 .. Len(rest) /\ SubSeq(rest, a, b)[j] = rest[a + j - 1]
    BY <1>6, <2>2, <2>3, PartUnknown
  <2>5. b - a + 1 = m /\ left = SubSeq(rest, a, b)
    BY <1>3, <1>8, <1>9, <1>10, <2>1, <2>3
  <2>6. \A j \in 1 .. m : a + j - 1 = fits + j
    BY <1>9, <1>11, <2>1
  <2>. QED BY <2>4, <2>5, <2>6
<1>13. left \in Seq(Nat) /\ (left = <<>> <=> m = 0)
  <2>1. left \in Seq(Nat)
    BY <1>12 DEF Unknown
  <2>. QED BY <1>12, <2>1
<1>14. /\ Mirrored(c, onto, n) /\ Len(onto.chunks) = Len(one.chunks)
       /\ \A j \in 1 .. Len(one.chunks) : j # at => onto.chunks[j] = one.chunks[j]
       /\ onto.chunks[at].id = one.chunks[at].id /\ onto.chunks[at].gap = one.chunks[at].gap
       /\ \A e : e \in Ev(c, onto) <=> e \in Ev(c, one) \/ \E j \in 1 .. fits : rest[j] = e
       /\ fits > 0 => onto.chunks[at].items # <<>>
       /\ fits = 0 => onto.chunks[at].items = one.chunks[at].items
  BY <1>9 DEF Fitted
<1>15. \A j \in 1 .. Len(left) : left[j] \notin Ev(c, onto)
  <2>1. ASSUME NEW j \in 1 .. m, NEW k \in 1 .. fits, rest[k] = left[j] PROVE FALSE
    <3>1. fits + j \in 1 .. Len(rest) /\ k \in 1 .. Len(rest) /\ rest[k] = rest[fits + j]
      BY <1>8, <1>9, <1>12, <2>1
    <3>2. k = fits + j
      BY <1>6, <3>1 DEF Unknown, Injective
    <3>. QED BY <1>9, <1>11, <3>2
  <2>2. \A j \in 1 .. m : left[j] \notin Ev(c, one)
    BY <1>12 DEF Unknown
  <2>3. ASSUME NEW j \in 1 .. m, left[j] \in Ev(c, onto) PROVE FALSE
    <3>1. \E k \in 1 .. fits : rest[k] = left[j]
      BY <1>14, <2>2, <2>3
    <3>. QED BY <2>1, <3>1
  <2>. QED BY <1>12, <2>3
<1>16. /\ \A j \in 1 .. Len(left) : \E k \in 1 .. Len(s) : left[j] = s[k]
       /\ \A e \in Ev(c, onto) : e \in Ev(c, lc) \/ \E k \in 1 .. Len(s) : s[k] = e
  <2>1. \A j \in 1 .. fits : j \in 1 .. Len(rest)
    BY <1>8, <1>9
  <2>2. ASSUME NEW j \in 1 .. Len(left) PROVE \E k \in 1 .. Len(s) : left[j] = s[k]
    <3>1. fits + j \in 1 .. Len(rest) /\ left[j] = rest[fits + j]
      BY <1>12
    <3>. QED BY <1>6, <3>1
  <2>3. ASSUME NEW e \in Ev(c, onto) PROVE e \in Ev(c, lc) \/ \E k \in 1 .. Len(s) : s[k] = e
    <3>1. e \in Ev(c, one) \/ \E j \in 1 .. fits : rest[j] = e
      BY <1>14, <2>3
    <3>2. CASE e \in Ev(c, one)
      BY <1>6, <3>2
    <3>3. CASE \E j \in 1 .. fits : rest[j] = e
      <4>1. PICK j \in 1 .. fits : rest[j] = e
        BY <3>3
      <4>2. j \in 1 .. Len(rest)
        BY <2>1
      <4>. QED BY <1>6, <4>1, <4>2
    <3>. QED BY <3>1, <3>2, <3>3
  <2>. QED BY <2>2, <2>3
<1>17. /\ \A j \in 1 .. i - 1 : onto.chunks[j] = lc.chunks[j]
       /\ onto.chunks[i].id = lc.chunks[i].id /\ onto.chunks[i].gap = lc.chunks[i].gap
  <2>1. ASSUME NEW j \in 1 .. i - 1 PROVE onto.chunks[j] = lc.chunks[j]
    <3>1. j \in 1 .. Len(one.chunks) /\ j # at
      BY <1>6, <1>7
    <3>. QED BY <1>6, <1>14, <3>1
  <2>2. i \in 1 .. Len(one.chunks)
    BY <1>6, <1>7
  <2>. QED BY <1>6, <1>14, <2>1, <2>2
<1>18. Len(left) = Len(s) \/ \E j \in 1 .. at : onto.chunks[j].items # <<>>
  <2>1. CASE fits > 0
    BY <1>7, <1>14, <2>1
  <2>2. CASE fits = 0
    <3>1. \A j \in 1 .. at : onto.chunks[j].items = one.chunks[j].items
      <4>1. ASSUME NEW j \in 1 .. at PROVE onto.chunks[j].items = one.chunks[j].items
        <5>1. j \in 1 .. Len(one.chunks)
          BY <1>7
        <5>. QED BY <1>14, <2>2, <5>1
      <4>. QED BY <4>1
    <3>. QED BY <1>6, <1>11, <1>12, <2>2, <3>1
  <2>. QED BY <1>9, <2>1, <2>2
<1>19. CASE left = <<>>
  <2>1. y.lc = onto /\ y.at = at /\ y.rest = left
    BY <1>5, <1>19
  <2>2. Pushing(c, lc, n, i, s, y)
    <3>1. Unknown(c, onto, left)
      BY <1>12, <1>15 DEF Unknown
    <3>2. Len(left) <= Len(s)
      BY <1>6, <1>7, <1>8, <1>11, <1>12
    <3>3. at \in i .. Len(onto.chunks)
      BY <1>6, <1>14
    <3>. QED BY <1>14, <1>16, <1>17, <1>18, <2>1, <3>1, <3>2, <3>3 DEF Pushing
  <2>. QED BY <1>4, <1>19, <2>1, <2>2
<1>20. CASE left # <<>>
  <2>1. PICK next : next = InsertNext(onto, at, NoToken)
    OBVIOUS
  <2>2. y.lc = next /\ y.at = at + 1 /\ y.rest = left
    BY <1>5, <1>20, <2>1
  <2>3. NewAt(c, onto, n, at, NoToken, next)
    <3>1. at \in 1 .. Len(onto.chunks) /\ NoToken \in Nat
      BY <1>7, <1>14 DEF NoToken
    <3>. QED BY <1>14, <2>1, <3>1, InsertNextIs
  <2>4. /\ Mirrored(c, next, n) /\ Len(next.chunks) = Len(onto.chunks) + 1
        /\ \A j \in 1 .. at : next.chunks[j] = onto.chunks[j]
        /\ next.chunks[at + 1] = Chunk(onto.gen + 1, NoToken, <<>>)
        /\ Ev(c, next) = Ev(c, onto)
    BY <2>3 DEF NewAt
  <2>5. Pushing(c, lc, n, i, s, y)
    <3>1. Unknown(c, next, left)
      BY <1>12, <1>15, <2>4 DEF Unknown
    <3>2. Len(left) <= Len(s)
      BY <1>6, <1>7, <1>8, <1>11, <1>12
    <3>3. at + 1 \in i .. Len(next.chunks)
      BY <1>6, <1>7, <1>14, <2>4
    <3>4. /\ \A j \in 1 .. i - 1 : next.chunks[j] = lc.chunks[j]
          /\ next.chunks[i].id = lc.chunks[i].id /\ next.chunks[i].gap = lc.chunks[i].gap
      BY <1>6, <1>7, <1>17, <2>4
    <3>5. Len(left) = Len(s) \/ \E j \in 1 .. at + 1 : next.chunks[j].items # <<>>
      <4>1. \A j \in 1 .. at : j \in 1 .. at + 1
        BY <1>7
      <4>. QED BY <1>18, <2>4, <4>1
    <3>6. \A e \in Ev(c, next) : e \in Ev(c, lc) \/ \E k \in 1 .. Len(s) : s[k] = e
      BY <1>16, <2>4
    <3>. QED BY <1>16, <2>2, <2>4, <3>1, <3>2, <3>3, <3>4, <3>5, <3>6 DEF Pushing
  <2>6. Spacious(y)
    BY <2>2, <2>4 DEF Spacious, Chunk
  <2>7. Len(left) <= Len(rest) /\ (Spacious(x) => Len(left) < Len(rest))
    <3>1. Len(rest) # 0
      BY <1>8, <1>11, <1>13, <1>20
    <3>. QED BY <1>1, <1>9, <1>11, <1>12, <3>1 DEF Spacious
  <2>. QED BY <1>1, <1>4, <2>2, <2>5, <2>6, <2>7
<1>. QED BY <1>19, <1>20

\* Pushed is a fold of PushStep.
LEMMA PushedFold ==
  ASSUME NEW lc, NEW i, NEW s
  PROVE  Pushed(lc, i, s) = Calls!Fold([lc |-> lc, at |-> i, rest |-> s], [call \in 1 .. Len(s) + 1 |-> call])
BY DEF Pushed, Calls!Fold, Calls!FoldLeft, FoldLeft, Calls!MapThenFoldSet, MapThenFoldSet,
       Calls!Max, Max

\* How far push_items has come after k calls.
Far(c, lc, n, i, s, x, k) ==
  /\ Pushing(c, lc, n, i, s, x)
  /\ k = 0 \/ x.rest = <<>> \/ (Spacious(x) /\ Len(x.rest) <= Len(s) + 1 - k)

\* push_items: all the items are in the list, behind what the i-th chunk had.
LEMMA PushedIs ==
  ASSUME NEW c, NEW lc, NEW n, Mirrored(c, lc, n), NEW i \in 1 .. Len(lc.chunks), NEW s, Unknown(c, lc, s)
  PROVE  Pushing(c, lc, n, i, s, Pushed(lc, i, s)) /\ Pushed(lc, i, s).rest = <<>>
<1>1. s \in Seq(Nat) /\ Len(s) \in Nat /\ Len(lc.chunks) \in Nat
  BY ChunksAre DEF Unknown
<1>2. PICK m : m = Len(s) + 1
  OBVIOUS
<1>3. PICK b, calls : b = [lc |-> lc, at |-> i, rest |-> s] /\ calls = [call \in 1 .. m |-> call]
  OBVIOUS
<1>4. m \in Nat /\ DOMAIN calls = 1 .. m
  BY <1>1, <1>2, <1>3
<1>5. PICK F : Calls!IsRun(F, b, calls, m) /\ F[m] = Calls!Fold(b, calls)
  BY <1>4, Calls!FoldRuns
<1>6. F[0] = b /\ \A k \in 1 .. m : F[k] = PushStep(F[k - 1], calls[k])
  BY <1>5 DEF Calls!IsRun
<1>7. Pushing(c, lc, n, i, s, b)
  <2>1. b.lc = lc /\ b.at = i /\ b.rest = s
    BY <1>3
  <2>2. i \in i .. Len(lc.chunks)
    BY <1>1
  <2>. QED BY <1>1, <2>1, <2>2 DEF Pushing
<1>8. PICK K : K = {k \in Nat : k <= m => Far(c, lc, n, i, s, F[k], k)}
  OBVIOUS
<1>9. 0 \in K
  BY <1>6, <1>7, <1>8 DEF Far
<1>10. ASSUME NEW k \in Nat, k \in K PROVE k + 1 \in K
  <2>1. SUFFICES ASSUME k + 1 <= m PROVE Far(c, lc, n, i, s, F[k + 1], k + 1)
    BY <1>8
  <2>2. Far(c, lc, n, i, s, F[k], k)
    BY <1>4, <1>8, <1>10, <2>1
  <2>3. k + 1 \in 1 .. m /\ (k + 1) - 1 = k
    BY <1>4, <2>1
  <2>4. PICK x, y : x = F[k] /\ y = F[k + 1]
    OBVIOUS
  <2>5. y = PushStep(x, calls[k + 1])
    BY <1>6, <2>3, <2>4
  <2>6. Pushing(c, lc, n, i, s, x) /\ (k = 0 \/ x.rest = <<>> \/ (Spacious(x) /\ Len(x.rest) <= Len(s) + 1 - k))
    BY <2>2, <2>4 DEF Far
  <2>7. i \in Nat /\ i > 0
    BY <1>1
  <2>8. /\ Pushing(c, lc, n, i, s, y)
        /\ y.rest = <<>> \/ (Spacious(y) /\ Len(y.rest) <= Len(x.rest) /\ (Spacious(x) => Len(y.rest) < Len(x.rest)))
    BY <1>1, <2>5, <2>6, <2>7, PushStepIs
  <2>9. /\ x.rest \in Seq(Nat) /\ Len(x.rest) \in Nat /\ Len(x.rest) <= Len(s)
        /\ y.rest \in Seq(Nat) /\ Len(y.rest) \in Nat
    BY <2>6, <2>8 DEF Pushing, Unknown
  <2>10. y.rest = <<>> \/ (Spacious(y) /\ Len(y.rest) <= Len(s) + 1 - (k + 1))
    <3>1. CASE k = 0
      BY <1>1, <2>8, <2>9, <3>1
    <3>2. CASE x.rest = <<>>
      <4>1. Len(x.rest) = 0
        BY <3>2
      <4>2. y.rest # <<>> => Len(y.rest) = 0
        BY <2>8, <2>9, <4>1
      <4>. QED BY <2>9, <4>2
    <3>3. CASE Spacious(x) /\ Len(x.rest) <= Len(s) + 1 - k
      BY <1>1, <2>8, <2>9, <3>3
    <3>. QED BY <2>6, <3>1, <3>2, <3>3
  <2>. QED BY <2>4, <2>8, <2>10 DEF Far
<1>11. \A k \in Nat : k \in K
  BY <1>9, <1>10, Calls!NatInd
<1>12. Far(c, lc, n, i, s, F[m], m)
  BY <1>4, <1>8, <1>11
<1>13. F[m] = Pushed(lc, i, s)
  BY <1>2, <1>3, <1>5, PushedFold
<1>14. PICK z : z = F[m]
  OBVIOUS
<1>15. Pushing(c, lc, n, i, s, z) /\ (m = 0 \/ z.rest = <<>> \/ (Spacious(z) /\ Len(z.rest) <= Len(s) + 1 - m))
  BY <1>12, <1>14 DEF Far
<1>16. z.rest \in Seq(Nat) /\ Len(z.rest) \in Nat
  BY <1>15 DEF Pushing, Unknown
<1>17. z.rest = <<>>
  <2>1. CASE Len(z.rest) <= Len(s) + 1 - m
    <3>1. Len(z.rest) = 0
      BY <1>1, <1>2, <1>16, <2>1
    <3>. QED BY <1>16, <3>1
  <2>2. m # 0
    BY <1>1, <1>2
  <2>. QED BY <1>15, <2>1, <2>2
<1>. QED BY <1>13, <1>14, <1>15, <1>17

-----------------------------------------------------------------------------
(* The operations of the linked chunk.                                     *)

\* s has been pushed onto the i-th chunk and chunks behind it.
Grew(c, lc, n, i, s, after) ==
  /\ Mirrored(c, after, n)
  /\ i \in 1 .. Len(after.chunks)
  /\ \A j \in 1 .. i - 1 : after.chunks[j] = lc.chunks[j]
  /\ after.chunks[i].id = lc.chunks[i].id /\ after.chunks[i].gap = lc.chunks[i].gap
  /\ \A e \in Ev(c, after) : e \in Ev(c, lc) \/ \E k \in 1 .. Len(s) : s[k] = e
  /\ s # <<>> => \E j \in 1 .. Len(after.chunks) : after.chunks[j].items # <<>>

\* push_items_back and its recursion over new chunks, for every capacity: no chunk gets too
\* full, no chunk before the one pushed onto is touched, the updates tell the store what memory
\* has, and the room has no events afterwards but those it had and the new ones.
THEOREM PushIs ==
  ASSUME NEW c, NEW lc, NEW n, Mirrored(c, lc, n), NEW i \in 1 .. Len(lc.chunks), NEW s, Unknown(c, lc, s)
  PROVE  Grew(c, lc, n, i, s, Push(lc, i, s))
<1>1. PICK x : x = Pushed(lc, i, s)
  OBVIOUS
<1>2. Pushing(c, lc, n, i, s, x) /\ x.rest = <<>>
  BY <1>1, PushedIs
<1>3. Push(lc, i, s) = x.lc
  BY <1>1 DEF Push
<1>4. /\ Mirrored(c, x.lc, n) /\ x.at \in i .. Len(x.lc.chunks)
      /\ \A e \in Ev(c, x.lc) : e \in Ev(c, lc) \/ \E k \in 1 .. Len(s) : s[k] = e
      /\ \A j \in 1 .. i - 1 : x.lc.chunks[j] = lc.chunks[j]
      /\ x.lc.chunks[i].id = lc.chunks[i].id /\ x.lc.chunks[i].gap = lc.chunks[i].gap
      /\ Len(x.rest) = Len(s) \/ \E j \in 1 .. x.at : x.lc.chunks[j].items # <<>>
  BY <1>2 DEF Pushing
<1>5. Len(x.lc.chunks) \in Nat /\ Len(lc.chunks) \in Nat
  BY <1>4, ChunksAre
<1>6. i \in 1 .. Len(x.lc.chunks) /\ \A j \in 1 .. x.at : j \in 1 .. Len(x.lc.chunks)
  BY <1>4, <1>5
<1>7. s # <<>> => \E j \in 1 .. Len(x.lc.chunks) : x.lc.chunks[j].items # <<>>
  <2>1. SUFFICES ASSUME s # <<>> PROVE \E j \in 1 .. Len(x.lc.chunks) : x.lc.chunks[j].items # <<>>
    OBVIOUS
  <2>2. Len(x.rest) # Len(s)
    <3>1. s \in Seq(Nat) /\ Len(x.rest) = 0
      BY <1>2 DEF Unknown
    <3>. QED BY <2>1, <3>1
  <2>. QED BY <1>4, <1>6, <2>2
<1>. QED BY <1>3, <1>4, <1>6, <1>7 DEF Grew

\* A chunk is found by its identifier.
LEMMA IndexIs ==
  ASSUME NEW c, NEW lc, NEW n, Mirrored(c, lc, n), NEW i \in 1 .. Len(lc.chunks), NEW id, id = lc.chunks[i].id
  PROVE  IndexOf(lc, id) = i
<1>1. DOMAIN lc.chunks = 1 .. Len(lc.chunks) /\ \A a, b \in 1 .. Len(lc.chunks) : lc.chunks[a].id = lc.chunks[b].id => a = b
  BY ChunksAre
<1>2. \E j \in DOMAIN lc.chunks : lc.chunks[j].id = id
  BY <1>1
<1>3. IndexOf(lc, id) \in DOMAIN lc.chunks /\ lc.chunks[IndexOf(lc, id)].id = id
  BY <1>2, Zenon DEF IndexOf
<1>. QED BY <1>1, <1>3

\* The identifiers of the loaded chunks.
LEMMA IdsAre ==
  ASSUME NEW c, NEW lc, NEW n, Mirrored(c, lc, n), NEW id
  PROVE  id \in Ids(lc) <=> \E i \in 1 .. Len(lc.chunks) : lc.chunks[i].id = id
<1>1. DOMAIN lc.chunks = 1 .. Len(lc.chunks)
  BY ChunksAre
<1>. QED BY <1>1 DEF Ids

\* replace_gap_at: items take the place of a gap, in memory and in the store, and the first of
\* the chunks they are in has the identifier that the caller uses as the place for the next gap.
THEOREM ReplaceGapIs ==
  ASSUME NEW c, NEW lc, NEW n, Mirrored(c, lc, n), NEW i \in 1 .. Len(lc.chunks), lc.chunks[i].items = <<>>,
         NEW id, id = lc.chunks[i].id, NEW s, Unknown(c, lc, s)
  PROVE  LET after == ReplaceGapAt(lc, id, s)
         IN  /\ Mirrored(c, after, n) /\ i \in 1 .. Len(after.chunks)
             /\ after.chunks[i].id = lc.gen + 1 /\ after.chunks[i].gap = NoToken
<1>1. IndexOf(lc, id) = i
  BY IndexIs
<1>2. PICK one, two, after : one = InsertNext(lc, i, NoToken) /\ two = Push(one, i + 1, s) /\ after = Unlink(two, i)
  OBVIOUS
<1>3. after = ReplaceGapAt(lc, id, s)
  BY <1>1, <1>2 DEF ReplaceGapAt
<1>4. Len(lc.chunks) \in Nat
  BY ChunksAre
<1>5. NewAt(c, lc, n, i, NoToken, one)
  BY <1>2, InsertNextIs DEF NoToken
<1>6. /\ Mirrored(c, one, n) /\ Len(one.chunks) = Len(lc.chunks) + 1 /\ one.chunks[i] = lc.chunks[i]
      /\ one.chunks[i + 1] = Chunk(lc.gen + 1, NoToken, <<>>) /\ Ev(c, one) = Ev(c, lc)
  BY <1>4, <1>5 DEF NewAt
<1>7. PICK k : k = i + 1
  OBVIOUS
<1>8. k \in 1 .. Len(one.chunks) /\ i \in 1 .. k - 1
  BY <1>4, <1>6, <1>7
<1>9. Unknown(c, one, s)
  BY <1>6 DEF Unknown
<1>10. Grew(c, one, n, k, s, two)
  BY <1>2, <1>6, <1>7, <1>8, <1>9, PushIs
<1>11. /\ Mirrored(c, two, n) /\ k \in 1 .. Len(two.chunks) /\ two.chunks[i] = one.chunks[i]
       /\ two.chunks[k].id = lc.gen + 1 /\ two.chunks[k].gap = NoToken
  BY <1>6, <1>7, <1>8, <1>10 DEF Grew, Chunk
<1>12. Len(two.chunks) \in Nat
  BY <1>11, ChunksAre
<1>13. i \in 1 .. Len(two.chunks) /\ two.chunks[i].items = <<>>
  BY <1>4, <1>6, <1>7, <1>11, <1>12
<1>14. Gone(c, two, n, i, after)
  BY <1>2, <1>11, <1>13, UnlinkIs
<1>15. k \in i + 1 .. Len(two.chunks) /\ k - 1 = i /\ i \in 1 .. Len(two.chunks) - 1
  BY <1>4, <1>7, <1>11, <1>12
<1>16. /\ Mirrored(c, after, n) /\ Len(after.chunks) = Len(two.chunks) - 1 /\ after.chunks[k - 1] = two.chunks[k]
  BY <1>14, <1>15 DEF Gone
<1>. QED BY <1>3, <1>11, <1>15, <1>16

\* insert_items_at the first item of the i-th chunk.
LEMMA InsertItemsIs ==
  ASSUME NEW c, NEW lc, NEW n, Mirrored(c, lc, n), NEW i \in 1 .. Len(lc.chunks), lc.chunks[i].items # <<>>,
         NEW id, id = lc.chunks[i].id, NEW s, Unknown(c, lc, s)
  PROVE  LET after == InsertItemsAt(lc, Position(id, 0), s)
         IN  /\ Mirrored(c, after, n) /\ i \in 1 .. Len(after.chunks)
             /\ after.chunks[i].id = lc.chunks[i].id /\ after.chunks[i].gap = lc.chunks[i].gap
<1>1. IndexOf(lc, id) = i
  BY IndexIs
<1>2. PICK items : items = lc.chunks[i].items
  OBVIOUS
<1>3. /\ items \in Seq(Nat) /\ Len(items) \in Nat /\ Len(lc.chunks) \in Nat /\ Injective(items)
      /\ \A j \in 1 .. Len(items) : items[j] \in Ev(c, lc)
  BY <1>2, ChunksAre
<1>4. 0 # Len(items) /\ 0 \in 0 .. Len(items)
  BY <1>2, <1>3
<1>5. PICK one, x, mark, two : /\ one = Detach(lc, i, 0) /\ x = Pushed(one, i, s)
                              /\ mark = Emit(x.lc, <<StartReattachItems>>)
                              /\ two = Push(mark, x.at, Detached(lc, i, 0))
  OBVIOUS
<1>6. PICK after : after = Emit(two, <<EndReattachItems>>)
  OBVIOUS
<1>7. after = InsertItemsAt(lc, Position(id, 0), s)
  <2>1. Position(id, 0).chunk = id /\ Position(id, 0).index = 0
    BY DEF Position
  <2>. QED BY <1>1, <1>2, <1>4, <1>5, <1>6, <2>1 DEF InsertItemsAt, Reattach
<1>8. PICK d : d = Detached(lc, i, 0)
  OBVIOUS
<1>9. d \in Seq(Nat) /\ Len(d) = Len(items) /\ \A j \in 1 .. Len(items) : d[j] = items[j]
  <2>1. d = SubSeq(items, 1, Len(items))
    BY <1>2, <1>8 DEF Detached
  <2>. QED BY <1>3, <2>1
<1>10. /\ Holds(c, lc, n, i, SubSeq(items, 1, 0), one)
       /\ \A e : e \in Ev(c, one) => e \in Ev(c, lc) /\ \A j \in 0 + 1 .. Len(items) : items[j] # e
  BY <1>2, <1>4, <1>5, DetachIs
<1>11. /\ Mirrored(c, one, n) /\ Len(one.chunks) = Len(lc.chunks)
       /\ one.chunks[i].id = lc.chunks[i].id /\ one.chunks[i].gap = lc.chunks[i].gap
  BY <1>10 DEF Holds, Chunk
<1>12. Unknown(c, one, s)
  BY <1>10 DEF Unknown
<1>13. i \in 1 .. Len(one.chunks)
  BY <1>11
<1>14. Pushing(c, one, n, i, s, x)
  BY <1>5, <1>11, <1>12, <1>13, PushedIs
<1>15. /\ Mirrored(c, x.lc, n) /\ x.at \in i .. Len(x.lc.chunks)
       /\ \A e \in Ev(c, x.lc) : e \in Ev(c, one) \/ \E k \in 1 .. Len(s) : s[k] = e
       /\ x.lc.chunks[i].id = lc.chunks[i].id /\ x.lc.chunks[i].gap = lc.chunks[i].gap
  BY <1>11, <1>14 DEF Pushing
<1>16. Unmoved(c, x.lc, n, mark)
  BY <1>5, <1>15, MarkIs
<1>17. Mirrored(c, mark, n) /\ mark.chunks = x.lc.chunks /\ Ev(c, mark) = Ev(c, x.lc)
  BY <1>16 DEF Unmoved
<1>18. Unknown(c, mark, d)
  <2>1. ASSUME NEW j \in 1 .. Len(items), items[j] \in Ev(c, mark) PROVE FALSE
    <3>1. items[j] \notin Ev(c, one)
      <4>1. j \in 0 + 1 .. Len(items)
        BY <1>3
      <4>. QED BY <1>10, <4>1
    <3>2. PICK k \in 1 .. Len(s) : s[k] = items[j]
      BY <1>15, <1>17, <2>1, <3>1
    <3>3. items[j] \in Ev(c, lc)
      BY <1>3
    <3>. QED BY <3>2, <3>3 DEF Unknown
  <2>2. Injective(d)
    BY <1>3, <1>9 DEF Injective
  <2>. QED BY <1>9, <2>1, <2>2 DEF Unknown
<1>19. Len(mark.chunks) \in Nat
  BY <1>17, ChunksAre
<1>20. PICK a : a = x.at
  OBVIOUS
<1>21. a \in 1 .. Len(mark.chunks) /\ i <= a
  BY <1>3, <1>15, <1>17, <1>19, <1>20
<1>22. Grew(c, mark, n, a, d, two)
  BY <1>5, <1>8, <1>17, <1>18, <1>20, <1>21, PushIs
<1>23. /\ Mirrored(c, two, n) /\ i \in 1 .. Len(two.chunks)
       /\ two.chunks[i].id = lc.chunks[i].id /\ two.chunks[i].gap = lc.chunks[i].gap
  <2>1. /\ Mirrored(c, two, n) /\ a \in 1 .. Len(two.chunks)
        /\ \A j \in 1 .. a - 1 : two.chunks[j] = mark.chunks[j]
        /\ two.chunks[a].id = mark.chunks[a].id /\ two.chunks[a].gap = mark.chunks[a].gap
    BY <1>22 DEF Grew
  <2>2. Len(two.chunks) \in Nat
    BY <2>1, ChunksAre
  <2>3. CASE i = a
    BY <1>15, <1>17, <2>1, <2>3
  <2>4. CASE i # a
    <3>1. i \in 1 .. a - 1 /\ i \in 1 .. Len(two.chunks)
      BY <1>3, <1>19, <1>21, <2>1, <2>2, <2>4
    <3>. QED BY <1>15, <1>17, <2>1, <3>1
  <2>. QED BY <2>3, <2>4
<1>24. Unmoved(c, two, n, after)
  BY <1>6, <1>23, MarkIs
<1>. QED BY <1>7, <1>23, <1>24 DEF Unmoved

-----------------------------------------------------------------------------
(* A finite set can be listed in an order.                                 *)

\* R orders the elements of D.
Orders(R, D) ==
  /\ \A a, b \in D : a = b \/ <<a, b>> \in R \/ <<b, a>> \in R
  /\ \A a \in D : <<a, a>> \notin R
  /\ \A a, b, d \in D : <<a, b>> \in R /\ <<b, d>> \in R => <<a, d>> \in R

InTheOrder(R, n, s) == \A i, j \in 1 .. n : i < j => <<s[i], s[j]>> \in R

\* A finite set that is ordered has a last element.
LEMMA LastOne ==
  ASSUME NEW R, NEW D, IsFiniteSet(D), D # {}, Orders(R, D)
  PROVE  \E m \in D : \A d \in D : d = m \/ <<d, m>> \in R
<1> DEFINE Good(n) == \A E : IsFiniteSet(E) /\ Cardinality(E) = n + 1 /\ Orders(R, E)
                             => \E m \in E : \A d \in E : d = m \/ <<d, m>> \in R
<1>1. PICK S : S = {n \in Nat : Good(n)}
  OBVIOUS
<1>2. Good(0)
  <2>1. SUFFICES ASSUME NEW E, IsFiniteSet(E), Cardinality(E) = 0 + 1
                 PROVE  \E m \in E : \A d \in E : d = m \/ <<d, m>> \in R
    OBVIOUS
  <2>2. PICK x : E = {x}
    BY <2>1, FS_Singleton
  <2>. QED BY <2>2
<1>3. ASSUME NEW n \in Nat, Good(n) PROVE Good(n + 1)
  <2>1. SUFFICES ASSUME NEW E, IsFiniteSet(E), Cardinality(E) = n + 1 + 1, Orders(R, E)
                 PROVE  \E m \in E : \A d \in E : d = m \/ <<d, m>> \in R
    OBVIOUS
  <2>2. PICK x \in E : TRUE
    BY <2>1, FS_EmptySet
  <2>3. IsFiniteSet(E \ {x}) /\ Cardinality(E \ {x}) = n + 1
    BY <2>1, FS_RemoveElement
  <2>4. Orders(R, E \ {x})
    BY <2>1 DEF Orders
  <2>5. PICK m \in E \ {x} : \A d \in E \ {x} : d = m \/ <<d, m>> \in R
    BY <1>3, <2>3, <2>4
  <2>6. CASE <<x, m>> \in R
    BY <2>5, <2>6
  <2>7. CASE <<m, x>> \in R
    <3>1. \A d \in E : d = x \/ <<d, x>> \in R
      BY <2>1, <2>5, <2>7 DEF Orders
    <3>. QED BY <3>1
  <2>. QED BY <2>1, <2>5, <2>6, <2>7 DEF Orders
<1>4. \A n \in Nat : n \in S
  <2>1. 0 \in S
    BY <1>1, <1>2
  <2>2. \A n \in Nat : n \in S => n + 1 \in S
    BY <1>1, <1>3
  <2>. QED BY <2>1, <2>2, Applying!NatInd
<1>5. Cardinality(D) \in Nat /\ Cardinality(D) # 0
  BY FS_CardinalityType, FS_EmptySet
<1>6. PICK n \in Nat : Cardinality(D) = n + 1
  <2>1. Cardinality(D) - 1 \in Nat /\ Cardinality(D) = (Cardinality(D) - 1) + 1
    BY <1>5
  <2>. QED BY <2>1
<1>7. Good(n)
  BY <1>1, <1>4
<1>. QED BY <1>6, <1>7

\* A finite set that is ordered can be listed in its order.
LEMMA Listed ==
  ASSUME NEW R, NEW D, IsFiniteSet(D), Orders(R, D)
  PROVE  \E s \in [1 .. Cardinality(D) -> D] : InTheOrder(R, Cardinality(D), s)
<1> DEFINE Good(n) == \A E : IsFiniteSet(E) /\ Cardinality(E) = n /\ Orders(R, E)
                             => \E s \in [1 .. n -> E] : InTheOrder(R, n, s)
<1>1. PICK S : S = {n \in Nat : Good(n)}
  OBVIOUS
<1>2. Good(0)
  <2>1. ASSUME NEW E PROVE \E s \in [1 .. 0 -> E] : InTheOrder(R, 0, s)
    <3>1. [i \in 1 .. 0 |-> i] \in [1 .. 0 -> E] /\ InTheOrder(R, 0, [i \in 1 .. 0 |-> i])
      BY DEF InTheOrder
    <3>. QED BY <3>1
  <2>. QED BY <2>1
<1>3. ASSUME NEW n \in Nat, Good(n) PROVE Good(n + 1)
  <2>1. SUFFICES ASSUME NEW E, IsFiniteSet(E), Cardinality(E) = n + 1, Orders(R, E)
                 PROVE  \E s \in [1 .. n + 1 -> E] : InTheOrder(R, n + 1, s)
    OBVIOUS
  <2>2. E # {}
    BY <2>1, FS_EmptySet
  <2>3. PICK m \in E : \A d \in E : d = m \/ <<d, m>> \in R
    BY <2>1, <2>2, LastOne
  <2>4. IsFiniteSet(E \ {m}) /\ Cardinality(E \ {m}) = n
    <3>1. IsFiniteSet(E \ {m}) /\ Cardinality(E \ {m}) = Cardinality(E) - 1
      BY <2>1, <2>3, FS_RemoveElement
    <3>. QED BY <2>1, <3>1
  <2>5. Orders(R, E \ {m})
    BY <2>1 DEF Orders
  <2>6. PICK s \in [1 .. n -> E \ {m}] : InTheOrder(R, n, s)
    BY <1>3, <2>4, <2>5
  <2>7. PICK t : t = [i \in 1 .. n + 1 |-> IF i = n + 1 THEN m ELSE s[i]]
    OBVIOUS
  <2>8. t \in [1 .. n + 1 -> E]
    BY <2>6, <2>7
  <2>9. ASSUME NEW i \in 1 .. n + 1, NEW j \in 1 .. n + 1, i < j PROVE <<t[i], t[j]>> \in R
    <3>1. i \in 1 .. n /\ t[i] = s[i] /\ s[i] \in E \ {m}
      BY <2>6, <2>7, <2>9
    <3>2. CASE j = n + 1
      <4>1. t[j] = m
        BY <2>7, <3>2
      <4>. QED BY <2>3, <3>1, <4>1
    <3>3. CASE j # n + 1
      <4>1. j \in 1 .. n /\ t[j] = s[j]
        BY <2>7, <3>3
      <4>. QED BY <2>6, <2>9, <3>1, <4>1 DEF InTheOrder
    <3>. QED BY <3>2, <3>3
  <2>10. InTheOrder(R, n + 1, t)
    BY <2>9 DEF InTheOrder
  <2>. QED BY <2>8, <2>10
<1>4. \A n \in Nat : n \in S
  <2>1. 0 \in S
    BY <1>1, <1>2
  <2>2. \A n \in Nat : n \in S => n + 1 \in S
    BY <1>1, <1>3
  <2>. QED BY <2>1, <2>2, Applying!NatInd
<1>5. Cardinality(D) \in Nat
  BY FS_CardinalityType
<1>6. Good(Cardinality(D))
  BY <1>1, <1>4, <1>5
<1>. QED BY <1>6

\* Such a list has every element.
LEMMA ListedAll ==
  ASSUME NEW R, NEW D, IsFiniteSet(D), Orders(R, D), NEW n, n = Cardinality(D),
         NEW s \in [1 .. n -> D], InTheOrder(R, n, s)
  PROVE  /\ n \in Nat /\ \A i, j \in 1 .. n : s[i] = s[j] => i = j
         /\ \A d \in D : \E i \in 1 .. n : s[i] = d
<1>1. n \in Nat
  BY FS_CardinalityType
<1>2. ASSUME NEW i \in 1 .. n, NEW j \in 1 .. n, s[i] = s[j] PROVE i = j
  <2>1. s[i] \in D /\ <<s[i], s[i]>> \notin R
    BY DEF Orders
  <2>2. ~(i < j)
    BY <1>2, <2>1 DEF InTheOrder
  <2>3. ~(j < i)
    BY <1>2, <2>1 DEF InTheOrder
  <2>. QED BY <1>1, <2>2, <2>3
<1>3. IsFiniteSet(1 .. n) /\ Cardinality(1 .. n) = n
  BY <1>1, FS_Interval
<1>4. s \in Injection(1 .. n, D)
  BY <1>2 DEF Injection, IsInjective
<1>5. s \in Surjection(1 .. n, D)
  BY <1>3, <1>4, FS_Injection
<1>. QED BY <1>1, <1>2, <1>5 DEF Surjection

-----------------------------------------------------------------------------
(* Removing an item.                                                       *)

\* The event f is at the position.
Held(lc, at, f) ==
  \E i \in 1 .. Len(lc.chunks) : \E k \in 1 .. Len(lc.chunks[i].items) :
     at = Position(lc.chunks[i].id, k - 1) /\ lc.chunks[i].items[k] = f

\* Every gap is still there.
GapsKept(lc, after) ==
  \A i \in 1 .. Len(lc.chunks) : lc.chunks[i].gap # NoToken =>
     \E j \in 1 .. Len(after.chunks) : after.chunks[j] = lc.chunks[i]

\* The event f at the position is gone; what is in other chunks or before it stays in its place.
Removed(c, lc, n, at, f, after) ==
  /\ Mirrored(c, after, n)
  /\ Len(after.chunks) > 0
  /\ \A e \in Ev(c, after) : e \in Ev(c, lc) /\ e # f
  /\ \A p, g : Held(lc, p, g) /\ (p.chunk # at.chunk \/ p.index < at.index) => Held(after, p, g)
  /\ GapsKept(lc, after)

\* remove_item_at, with the chunk that goes when it is empty afterwards: the event is gone from
\* memory and from the store, every position before it stays what it was, and every gap stays.
THEOREM RemoveItemIs ==
  ASSUME NEW c, NEW lc, NEW n, Mirrored(c, lc, n), NEW at, NEW f, Held(lc, at, f)
  PROVE  Removed(c, lc, n, at, f, RemoveItemAt(lc, at))
<1>1. PICK i \in 1 .. Len(lc.chunks) : \E k \in 1 .. Len(lc.chunks[i].items) :
        at = Position(lc.chunks[i].id, k - 1) /\ lc.chunks[i].items[k] = f
  BY DEF Held
<1>2. PICK k \in 1 .. Len(lc.chunks[i].items) : at = Position(lc.chunks[i].id, k - 1) /\ lc.chunks[i].items[k] = f
  BY <1>1
<1>3. PICK id, items : id = lc.chunks[i].id /\ items = lc.chunks[i].items
  OBVIOUS
<1>4. /\ Len(lc.chunks) \in Nat /\ items \in Seq(Nat) /\ Len(items) \in Nat /\ id \in Nat
      /\ lc.chunks[i].gap # NoToken => items = <<>>
  <2>1. /\ Len(lc.chunks) \in Nat /\ lc.chunks[i].items \in Seq(Nat) /\ lc.chunks[i].id \in Nat
        /\ lc.chunks[i].gap # NoToken => lc.chunks[i].items = <<>>
    BY ChunksAre
  <2>2. Len(lc.chunks[i].items) \in Nat
    BY <2>1
  <2>. QED BY <1>3, <2>1, <2>2
<1>5. \A a, b \in 1 .. Len(lc.chunks) : lc.chunks[a].id = lc.chunks[b].id => a = b
  BY ChunksAre
<1>6. at.chunk = id /\ at.index = k - 1 /\ at.index + 1 = k
  BY <1>2, <1>3, <1>4 DEF Position
<1>7. IndexOf(lc, at.chunk) = i
  BY <1>3, <1>6, IndexIs
<1>8. PICK t : t = RemoveAt(items, k)
  OBVIOUS
<1>9. PICK one : one = Emit([lc EXCEPT !.chunks[i].items = t], <<RemoveItem(at)>>)
  OBVIOUS
<1>10. RemoveItemAt(lc, at) = IF one.chunks[i].items = <<>> /\ i # 1 THEN Unlink(one, i) ELSE one
  BY <1>3, <1>6, <1>7, <1>8, <1>9 DEF RemoveItemAt
<1>11. /\ Holds(c, lc, n, i, t, one)
       /\ \A e : e \in Ev(c, one) => e \in Ev(c, lc) /\ e # f
  <2>1. LET after == Emit([lc EXCEPT !.chunks[i].items = RemoveAt(lc.chunks[i].items, k)],
                           <<RemoveItem(Position(lc.chunks[i].id, k - 1))>>)
         IN  /\ Holds(c, lc, n, i, RemoveAt(lc.chunks[i].items, k), after)
             /\ \A e : e \in Ev(c, after) => e \in Ev(c, lc) /\ e # lc.chunks[i].items[k]
    BY <1>2, RemoveIs
  <2>. QED BY <1>2, <1>3, <1>8, <1>9, <2>1
<1>12. /\ Mirrored(c, one, n) /\ Len(one.chunks) = Len(lc.chunks)
       /\ one.chunks[i].id = id /\ one.chunks[i].items = t
       /\ \A j \in 1 .. Len(lc.chunks) : j # i => one.chunks[j] = lc.chunks[j]
  BY <1>3, <1>11 DEF Holds, Chunk
<1>13. k \in 1 .. Len(items)
  BY <1>3
<1>14. t \in Seq(Nat) /\ Len(t) = Len(items) - 1 /\ \A j \in 1 .. Len(items) - 1 : t[j] = IF j < k THEN items[j] ELSE items[j + 1]
  BY <1>4, <1>8, <1>13, RemoveAtIs
<1>15. lc.chunks[i].gap = NoToken
  BY <1>4, <1>13
<1>16. GapsKept(lc, one)
  BY <1>12, <1>15 DEF GapsKept
<1>17. ASSUME NEW p, NEW g, Held(lc, p, g), p.chunk # at.chunk \/ p.index < at.index PROVE Held(one, p, g)
  <2>1. PICK j \in 1 .. Len(lc.chunks) : \E q \in 1 .. Len(lc.chunks[j].items) :
          p = Position(lc.chunks[j].id, q - 1) /\ lc.chunks[j].items[q] = g
    BY <1>17 DEF Held
  <2>2. PICK q \in 1 .. Len(lc.chunks[j].items) : p = Position(lc.chunks[j].id, q - 1) /\ lc.chunks[j].items[q] = g
    BY <2>1
  <2>3. p.chunk = lc.chunks[j].id /\ p.index = q - 1
    BY <2>2 DEF Position
  <2>4. CASE j = i
    <3>1. q \in 1 .. Len(items) /\ p = Position(id, q - 1) /\ items[q] = g /\ q - 1 < k - 1
      BY <1>3, <1>6, <1>17, <2>2, <2>3, <2>4
    <3>2. q \in 1 .. Len(t) /\ t[q] = g
      <4>1. q < k /\ q \in 1 .. Len(items) - 1
        BY <1>4, <1>13, <3>1
      <4>. QED BY <1>14, <3>1, <4>1
    <3>3. i \in 1 .. Len(one.chunks) /\ q \in 1 .. Len(one.chunks[i].items) /\ p = Position(one.chunks[i].id, q - 1)
          /\ one.chunks[i].items[q] = g
      BY <1>12, <3>1, <3>2
    <3>. QED BY <3>3 DEF Held
  <2>5. CASE j # i
    <3>1. one.chunks[j] = lc.chunks[j] /\ j \in 1 .. Len(one.chunks)
      BY <1>12, <2>5
    <3>. QED BY <2>2, <3>1 DEF Held
  <2>. QED BY <2>4, <2>5
<1>18. CASE ~(one.chunks[i].items = <<>> /\ i # 1)
  <2>1. RemoveItemAt(lc, at) = one
    BY <1>10, <1>18
  <2>2. Len(one.chunks) > 0
    BY <1>4, <1>12
  <2>. QED BY <1>11, <1>12, <1>16, <1>17, <2>1, <2>2 DEF Removed
<1>19. CASE one.chunks[i].items = <<>> /\ i # 1
  <2>1. PICK after : after = Unlink(one, i)
    OBVIOUS
  <2>2. RemoveItemAt(lc, at) = after
    BY <1>10, <1>19, <2>1
  <2>3. i \in 1 .. Len(one.chunks) /\ one.chunks[i].items = <<>>
    BY <1>12, <1>19
  <2>4. Gone(c, one, n, i, after)
    BY <1>12, <2>1, <2>3, UnlinkIs
  <2>5. /\ Mirrored(c, after, n) /\ Len(after.chunks) = Len(one.chunks) - 1 /\ Ev(c, after) = Ev(c, one)
        /\ \A j \in 1 .. i - 1 : after.chunks[j] = one.chunks[j]
        /\ \A j \in i + 1 .. Len(one.chunks) : after.chunks[j - 1] = one.chunks[j]
    BY <2>4 DEF Gone
  <2>6. ASSUME NEW j \in 1 .. Len(one.chunks), j # i PROVE \E m \in 1 .. Len(after.chunks) : after.chunks[m] = one.chunks[j]
    <3>1. CASE j < i
      <4>1. j \in 1 .. i - 1 /\ j \in 1 .. Len(after.chunks)
        BY <1>4, <1>12, <2>5, <3>1
      <4>. QED BY <2>5, <4>1
    <3>2. CASE j > i
      <4>1. j \in i + 1 .. Len(one.chunks) /\ j - 1 \in 1 .. Len(after.chunks)
        BY <1>4, <1>12, <2>5, <3>2
      <4>. QED BY <2>5, <4>1
    <3>. QED BY <1>4, <1>12, <2>6, <3>1, <3>2
  <2>7. ASSUME NEW p, NEW g, Held(one, p, g) PROVE Held(after, p, g)
    <3>1. PICK j \in 1 .. Len(one.chunks) : \E q \in 1 .. Len(one.chunks[j].items) :
            p = Position(one.chunks[j].id, q - 1) /\ one.chunks[j].items[q] = g
      BY <2>7 DEF Held
    <3>2. j # i
      BY <2>3, <3>1
    <3>3. PICK m \in 1 .. Len(after.chunks) : after.chunks[m] = one.chunks[j]
      BY <2>6, <3>2
    <3>. QED BY <3>1, <3>3 DEF Held
  <2>8. GapsKept(lc, after)
    <3>1. ASSUME NEW j \in 1 .. Len(lc.chunks), lc.chunks[j].gap # NoToken
          PROVE  \E m \in 1 .. Len(after.chunks) : after.chunks[m] = lc.chunks[j]
      <4>1. j # i
        BY <1>15, <3>1
      <4>2. one.chunks[j] = lc.chunks[j] /\ j \in 1 .. Len(one.chunks)
        BY <1>12, <4>1
      <4>. QED BY <2>6, <4>1, <4>2
    <3>. QED BY <3>1 DEF GapsKept
  <2>9. Len(after.chunks) > 0
    BY <1>4, <1>12, <1>19, <2>5
  <2>. QED BY <1>11, <1>17, <2>2, <2>5, <2>7, <2>8, <2>9 DEF Removed
<1>. QED BY <1>18, <1>19

-----------------------------------------------------------------------------
(* Updates that wait for the store commute with a change of another chunk. *)

\* An update that has nothing to do with the items of x.
Mild(u, x) ==
  \/ \E id \in Int : id # x /\ u = RemoveChunk(id)
  \/ \E id \in Int, k \in Nat, e \in Nat : id # x /\ u = ReplaceItem(Position(id, k), e)

\* The items of x, if it is there, are t.
Put(rows, x, t) == [rows EXCEPT ![x].items = t]

PutIs(rows, x, t, after) ==
  /\ DOMAIN after = DOMAIN rows /\ Plain(after)
  /\ \A id \in DOMAIN rows :
       /\ after[id].prev = rows[id].prev /\ after[id].next = rows[id].next /\ after[id].gap = rows[id].gap
       /\ after[id].items = IF id = x THEN t ELSE rows[id].items

\* Put, by its fields.
LEMMA PutFields ==
  ASSUME NEW rows, Plain(rows), NEW x, NEW t \in Seq(Nat)
  PROVE  PutIs(rows, x, t, Put(rows, x, t))
<1>1. PICK after : after = Put(rows, x, t)
  OBVIOUS
<1>2. /\ DOMAIN after = DOMAIN rows
      /\ \A id \in DOMAIN rows : after[id] = IF id = x THEN [rows[id] EXCEPT !.items = t] ELSE rows[id]
      /\ after = [id \in DOMAIN after |-> after[id]]
  BY <1>1 DEF Put, Plain
<1>3. ASSUME NEW id \in DOMAIN rows
      PROVE  /\ after[id] \in RowType
             /\ after[id].prev = rows[id].prev /\ after[id].next = rows[id].next /\ after[id].gap = rows[id].gap
             /\ after[id].items = IF id = x THEN t ELSE rows[id].items
  <2>1. PICK r : r = rows[id]
    OBVIOUS
  <2>2. r \in RowType
    BY <2>1 DEF Plain
  <2>3. CASE id = x
    <3>1. after[id] = [r EXCEPT !.items = t]
      BY <1>2, <2>1, <2>3
    <3>. QED BY <2>1, <2>2, <2>3, <3>1 DEF RowType
  <2>4. CASE id # x
    <3>1. after[id] = r
      BY <1>2, <2>1, <2>4
    <3>. QED BY <2>1, <2>2, <2>4, <3>1
  <2>. QED BY <2>3, <2>4
<1>. QED BY <1>1, <1>2, <1>3 DEF PutIs, Plain

\* Rows with the same fields are the same.
LEMMA SameRows ==
  ASSUME NEW a, NEW b, Plain(a), Plain(b), DOMAIN a = DOMAIN b,
         \A id \in DOMAIN a : /\ a[id].prev = b[id].prev /\ a[id].next = b[id].next
                              /\ a[id].gap = b[id].gap /\ a[id].items = b[id].items
  PROVE  a = b
<1>1. ASSUME NEW id \in DOMAIN a PROVE a[id] = b[id]
  <2>1. PICK p, q : p = a[id] /\ q = b[id]
    OBVIOUS
  <2>2. p \in RowType /\ q \in RowType /\ p.prev = q.prev /\ p.next = q.next /\ p.gap = q.gap /\ p.items = q.items
    BY <2>1 DEF Plain
  <2>3. p = q
    BY <2>2 DEF RowType
  <2>. QED BY <2>1, <2>3
<1>. QED BY <1>1 DEF Plain

Deleted(rows, id, after) ==
  /\ Plain(after)
  /\ DOMAIN after = DOMAIN rows \ {id}
  /\ \A y \in DOMAIN after :
       /\ after[y].gap = rows[y].gap /\ after[y].items = rows[y].items
       /\ after[y].prev = (IF y = rows[id].next THEN rows[id].prev ELSE rows[y].prev)
       /\ after[y].next = (IF y = rows[id].prev THEN rows[id].next ELSE rows[y].next)

\* DeleteChunk of any rows.
LEMMA DeleteIs ==
  ASSUME NEW rows, Plain(rows), NEW id \in DOMAIN rows
  PROVE  Deleted(rows, id, DeleteChunk(rows, id))
<1>1. PICK p, q : p = rows[id].prev /\ q = rows[id].next
  OBVIOUS
<1>2. p \in Int /\ q \in Int
  <2>1. rows[id] \in RowType
    BY DEF Plain
  <2>. QED BY <1>1, <2>1 DEF RowType
<1>3. PICK two : two = SetPrev(SetNext(rows, p, q), q, p)
  OBVIOUS
<1>4. LinksSet(rows, p, q, q, p, two)
  BY <1>2, <1>3, SetLinks
<1>5. PICK after : after = DeleteChunk(rows, id)
  OBVIOUS
<1>6. after = [x \in DOMAIN rows \ {id} |-> two[x]]
  BY <1>1, <1>3, <1>5 DEF DeleteChunk
<1>7. DOMAIN after = DOMAIN rows \ {id} /\ after = [x \in DOMAIN after |-> after[x]]
  BY <1>6
<1>8. \A y \in DOMAIN after : y \in DOMAIN rows /\ after[y] = two[y]
  BY <1>6
<1>. QED BY <1>1, <1>4, <1>5, <1>7, <1>8 DEF Deleted, Plain, LinksSet

\* An error stays one whatever a chunk holds.
LEMMA PutRefused ==
  ASSUME NEW x \in Nat, NEW t \in Seq(Nat)
  PROVE  /\ Plain(Refused) /\ Put(Refused, x, t) = Refused
         /\ \A rows : Plain(rows) /\ Put(rows, x, t) = Refused => rows = Refused
<1>1. DOMAIN Refused = {NoChunk} /\ Refused[NoChunk] = Row(NoChunk, NoChunk, NoToken, <<>>)
  BY DEF Refused
<1>2. Row(NoChunk, NoChunk, NoToken, <<>>) \in RowType
  BY DEF Row, RowType, NoChunk, NoToken
<1>3. Plain(Refused)
  <2>1. Refused = [id \in DOMAIN Refused |-> Refused[id]]
    BY DEF Refused
  <2>. QED BY <1>1, <1>2, <2>1 DEF Plain
<1>4. x # NoChunk
  BY DEF NoChunk
<1>5. Put(Refused, x, t) = Refused
  <2>1. PICK r : r = Refused
    OBVIOUS
  <2>2. x \notin DOMAIN r /\ r = [id \in DOMAIN r |-> r[id]]
    BY <1>1, <1>3, <1>4, <2>1 DEF Plain
  <2>3. [r EXCEPT ![x].items = t] = r
    BY <2>2
  <2>. QED BY <2>1, <2>3 DEF Put
<1>6. ASSUME NEW rows, Plain(rows), Put(rows, x, t) = Refused PROVE rows = Refused
  <2>1. DOMAIN rows = {NoChunk}
    <3>1. PutIs(rows, x, t, Put(rows, x, t))
      BY <1>6, PutFields
    <3>. QED BY <1>1, <1>6, <3>1 DEF PutIs
  <2>2. x \notin DOMAIN rows
    BY <1>4, <2>1
  <2>3. [rows EXCEPT ![x].items = t] = rows
    BY <1>6, <2>2 DEF Plain
  <2>. QED BY <1>6, <2>3 DEF Put
<1>. QED BY <1>3, <1>5, <1>6

\* RemoveChunk of another chunk.
LEMMA MildRemove ==
  ASSUME NEW rows, Plain(rows), NEW x \in Nat, NEW t \in Seq(Nat), NEW id \in Int, id # x
  PROVE  Plain(DeleteChunk(rows, id)) /\ DeleteChunk(Put(rows, x, t), id) = Put(DeleteChunk(rows, id), x, t)
<1>1. PICK mod : mod = Put(rows, x, t)
  OBVIOUS
<1>2. /\ DOMAIN mod = DOMAIN rows /\ Plain(mod)
      /\ \A y \in DOMAIN rows :
           /\ mod[y].prev = rows[y].prev /\ mod[y].next = rows[y].next /\ mod[y].gap = rows[y].gap
           /\ mod[y].items = IF y = x THEN t ELSE rows[y].items
  <2>1. PutIs(rows, x, t, mod)
    BY <1>1, PutFields
  <2>. QED BY <2>1 DEF PutIs
<1>3. CASE id \notin DOMAIN rows
  <2>1. DeleteChunk(rows, id) = Refused /\ DeleteChunk(mod, id) = Refused
    BY <1>2, <1>3 DEF DeleteChunk
  <2>. QED BY <1>1, <2>1, PutRefused
<1>4. CASE id \in DOMAIN rows
  <2>1. PICK a, b : a = DeleteChunk(rows, id) /\ b = DeleteChunk(mod, id)
    OBVIOUS
  <2>2. Deleted(rows, id, a)
    BY <1>4, <2>1, DeleteIs
  <2>3. Deleted(mod, id, b)
    BY <1>2, <1>4, <2>1, DeleteIs
  <2>4. PICK d : d = Put(a, x, t)
    OBVIOUS
  <2>5. PutIs(a, x, t, d)
    <3>1. Plain(a)
      BY <2>2 DEF Deleted
    <3>. QED BY <2>4, <3>1, PutFields
  <2>6. Plain(a) /\ Plain(b) /\ Plain(d) /\ DOMAIN b = DOMAIN d /\ DOMAIN a = DOMAIN b /\ DOMAIN a = DOMAIN rows \ {id}
    BY <1>2, <2>2, <2>3, <2>5 DEF Deleted, PutIs
  <2>7. mod[id].prev = rows[id].prev /\ mod[id].next = rows[id].next
    BY <1>2, <1>4
  <2>8. ASSUME NEW y \in DOMAIN b
        PROVE  b[y].prev = d[y].prev /\ b[y].next = d[y].next /\ b[y].gap = d[y].gap /\ b[y].items = d[y].items
    <3>1. y \in DOMAIN rows /\ y \in DOMAIN a
      BY <2>6
    <3>2. /\ b[y].gap = mod[y].gap /\ b[y].items = mod[y].items
          /\ b[y].prev = (IF y = rows[id].next THEN rows[id].prev ELSE mod[y].prev)
          /\ b[y].next = (IF y = rows[id].prev THEN rows[id].next ELSE mod[y].next)
      BY <2>3, <2>7 DEF Deleted
    <3>3. /\ a[y].gap = rows[y].gap /\ a[y].items = rows[y].items
          /\ a[y].prev = (IF y = rows[id].next THEN rows[id].prev ELSE rows[y].prev)
          /\ a[y].next = (IF y = rows[id].prev THEN rows[id].next ELSE rows[y].next)
      BY <2>2, <3>1 DEF Deleted
    <3>4. /\ d[y].prev = a[y].prev /\ d[y].next = a[y].next /\ d[y].gap = a[y].gap
          /\ d[y].items = IF y = x THEN t ELSE a[y].items
      BY <2>5, <3>1 DEF PutIs
    <3>5. /\ mod[y].prev = rows[y].prev /\ mod[y].next = rows[y].next /\ mod[y].gap = rows[y].gap
          /\ mod[y].items = IF y = x THEN t ELSE rows[y].items
      BY <1>2, <3>1
    <3>. QED BY <3>2, <3>3, <3>4, <3>5
  <2>9. b = d
    BY <2>6, <2>8, SameRows
  <2>. QED BY <1>1, <2>1, <2>4, <2>6, <2>9
<1>. QED BY <1>3, <1>4

ReplaceCommutes(rows, x, t, id, k, e) ==
  /\ Plain([rows EXCEPT ![id].items[k + 1] = e])
  /\ [Put(rows, x, t) EXCEPT ![id].items[k + 1] = e] = Put([rows EXCEPT ![id].items[k + 1] = e], x, t)

\* ReplaceItem in another chunk.
LEMMA MildReplace ==
  ASSUME NEW rows, Plain(rows), NEW x \in Nat, NEW t \in Seq(Nat), NEW id \in DOMAIN rows, id # x,
         NEW k \in Nat, k < Len(rows[id].items), NEW e \in Nat
  PROVE  ReplaceCommutes(rows, x, t, id, k, e)
<1>1. PICK s : s = [rows[id].items EXCEPT ![k + 1] = e]
  OBVIOUS
<1>2. rows[id].items \in Seq(Nat)
  <2>1. rows[id] \in RowType
    BY DEF Plain
  <2>. QED BY <2>1 DEF RowType
<1>3. s \in Seq(Nat)
  BY <1>1, <1>2
<1>4. [rows EXCEPT ![id].items[k + 1] = e] = Put(rows, id, s)
  BY <1>1 DEF Put
<1>5. PICK mod : mod = Put(rows, x, t)
  OBVIOUS
<1>6. PutIs(rows, x, t, mod)
  BY <1>5, PutFields
<1>7. [mod EXCEPT ![id].items[k + 1] = e] = Put(mod, id, s)
  <2>1. mod[id].items = rows[id].items
    BY <1>6 DEF PutIs
  <2>2. [mod EXCEPT ![id].items[k + 1] = e] = [mod EXCEPT ![id].items = [mod[id].items EXCEPT ![k + 1] = e]]
    OBVIOUS
  <2>. QED BY <1>1, <2>1, <2>2 DEF Put
<1>8. PICK a, b, d : a = Put(rows, id, s) /\ b = Put(mod, id, s) /\ d = Put(a, x, t)
  OBVIOUS
<1>9. PutIs(rows, id, s, a)
  BY <1>3, <1>8, PutFields
<1>10. Plain(mod) /\ Plain(a)
  BY <1>6, <1>9 DEF PutIs
<1>11. PutIs(mod, id, s, b) /\ PutIs(a, x, t, d)
  BY <1>3, <1>8, <1>10, PutFields
<1>12. DOMAIN b = DOMAIN d /\ DOMAIN b = DOMAIN rows /\ DOMAIN mod = DOMAIN rows /\ DOMAIN a = DOMAIN rows /\ Plain(b) /\ Plain(d)
  BY <1>6, <1>9, <1>11 DEF PutIs
<1>13. ASSUME NEW y \in DOMAIN b
       PROVE  b[y].prev = d[y].prev /\ b[y].next = d[y].next /\ b[y].gap = d[y].gap /\ b[y].items = d[y].items
  <2>1. y \in DOMAIN rows /\ y \in DOMAIN mod /\ y \in DOMAIN a
    BY <1>12
  <2>2. /\ b[y].prev = mod[y].prev /\ b[y].next = mod[y].next /\ b[y].gap = mod[y].gap
        /\ b[y].items = IF y = id THEN s ELSE mod[y].items
    BY <1>11, <2>1 DEF PutIs
  <2>3. /\ d[y].prev = a[y].prev /\ d[y].next = a[y].next /\ d[y].gap = a[y].gap
        /\ d[y].items = IF y = x THEN t ELSE a[y].items
    BY <1>11, <2>1 DEF PutIs
  <2>4. /\ a[y].prev = rows[y].prev /\ a[y].next = rows[y].next /\ a[y].gap = rows[y].gap
        /\ a[y].items = IF y = id THEN s ELSE rows[y].items
    BY <1>9, <2>1 DEF PutIs
  <2>5. /\ mod[y].prev = rows[y].prev /\ mod[y].next = rows[y].next /\ mod[y].gap = rows[y].gap
        /\ mod[y].items = IF y = x THEN t ELSE rows[y].items
    BY <1>6, <2>1 DEF PutIs
  <2>. QED BY <2>2, <2>3, <2>4, <2>5
<1>14. b = d
  BY <1>12, <1>13, SameRows
<1>. QED BY <1>4, <1>5, <1>7, <1>8, <1>10, <1>14 DEF ReplaceCommutes

\* One update that has nothing to do with the items of x commutes with a change of them.
LEMMA MildStep ==
  ASSUME NEW rows, Plain(rows), NEW x \in Nat, NEW t \in Seq(Nat), NEW u, Mild(u, x)
  PROVE  Plain(ApplyUpdate(rows, u)) /\ ApplyUpdate(Put(rows, x, t), u) = Put(ApplyUpdate(rows, u), x, t)
<1>1. PICK mod : mod = Put(rows, x, t)
  OBVIOUS
<1>2. PutIs(rows, x, t, mod)
  BY <1>1, PutFields
<1>3. CASE rows = Refused
  <2>1. mod = Refused
    BY <1>1, <1>3, PutRefused
  <2>2. ApplyUpdate(rows, u) = Refused /\ ApplyUpdate(mod, u) = Refused
    BY <1>3, <2>1 DEF ApplyUpdate
  <2>. QED BY <1>1, <2>2, PutRefused
<1>4. CASE rows # Refused
  <2>1. mod # Refused
    BY <1>1, <1>4, PutRefused
  <2>2. CASE \E id \in Int : id # x /\ u = RemoveChunk(id)
    <3>1. PICK id \in Int : id # x /\ u = RemoveChunk(id)
      BY <2>2
    <3>2. u.type = "RemoveChunk" /\ u.id = id
      BY <3>1 DEF RemoveChunk
    <3>3. ApplyUpdate(rows, u) = DeleteChunk(rows, id) /\ ApplyUpdate(mod, u) = DeleteChunk(mod, id)
      BY <1>4, <2>1, <3>2 DEF ApplyUpdate
    <3>. QED BY <1>1, <3>1, <3>3, MildRemove
  <2>3. CASE \E id \in Int, k \in Nat, e \in Nat : id # x /\ u = ReplaceItem(Position(id, k), e)
    <3>1. PICK id \in Int, k \in Nat, e \in Nat : id # x /\ u = ReplaceItem(Position(id, k), e)
      BY <2>3
    <3>2. u.type = "ReplaceItem" /\ u.at.chunk = id /\ u.at.index = k /\ u.item = e
      BY <3>1 DEF ReplaceItem, Position
    <3>3. HasPosition(mod, u.at) <=> HasPosition(rows, u.at)
      BY <1>2, <3>1, <3>2 DEF HasPosition, PutIs
    <3>4. CASE ~HasPosition(rows, u.at)
      <4>1. ApplyUpdate(rows, u) = Refused /\ ApplyUpdate(mod, u) = Refused
        BY <1>4, <2>1, <3>2, <3>3, <3>4 DEF ApplyUpdate
      <4>. QED BY <1>1, <4>1, PutRefused
    <3>5. CASE HasPosition(rows, u.at)
      <4>1. ApplyUpdate(rows, u) = [rows EXCEPT ![id].items[k + 1] = e]
        BY <1>4, <3>2, <3>5 DEF ApplyUpdate
      <4>2. ApplyUpdate(mod, u) = [mod EXCEPT ![id].items[k + 1] = e]
        BY <2>1, <3>2, <3>3, <3>5 DEF ApplyUpdate
      <4>3. id \in DOMAIN rows /\ k < Len(rows[id].items)
        BY <3>2, <3>5 DEF HasPosition
      <4>4. id # x
        BY <3>1
      <4>5. ReplaceCommutes(rows, x, t, id, k, e)
        BY <4>3, <4>4, MildReplace
      <4>. QED BY <1>1, <4>1, <4>2, <4>5 DEF ReplaceCommutes
    <3>. QED BY <3>4, <3>5
  <2>. QED BY <2>2, <2>3 DEF Mild
<1>. QED BY <1>3, <1>4

\* What is waiting for the store commutes with a change of the items of a chunk that it
\* has nothing to do with.
LEMMA Commutes ==
  ASSUME NEW rows, Plain(rows), NEW x \in Nat, NEW t \in Seq(Nat), NEW s, IsLog(s),
         \A i \in 1 .. Len(s) : Mild(s[i], x)
  PROVE  Apply(Put(rows, x, t), s) = Put(Apply(rows, s), x, t)
<1>1. PICK T : s \in Seq(T)
  BY DEF IsLog
<1>2. PICK m : m = Len(s)
  OBVIOUS
<1>3. m \in Nat /\ DOMAIN s = 1 .. m
  BY <1>1, <1>2
<1>4. PICK F : Applying!IsRun(F, rows, s, m) /\ F[m] = Applying!Fold(rows, s)
  BY <1>3, Applying!FoldRuns
<1>5. F[0] = rows /\ \A k \in 1 .. m : F[k] = ApplyUpdate(F[k - 1], s[k])
  BY <1>4 DEF Applying!IsRun
<1>6. PICK K : K = {k \in Nat : k <= m => Plain(F[k])}
  OBVIOUS
<1>7. 0 \in K
  BY <1>5, <1>6
<1>8. ASSUME NEW k \in Nat, k \in K PROVE k + 1 \in K
  <2>1. SUFFICES ASSUME k + 1 <= m PROVE Plain(F[k + 1])
    BY <1>6
  <2>2. k + 1 \in 1 .. m /\ (k + 1) - 1 = k /\ Plain(F[k])
    BY <1>3, <1>6, <1>8, <2>1
  <2>3. F[k + 1] = ApplyUpdate(F[k], s[k + 1]) /\ Mild(s[k + 1], x)
    BY <1>2, <1>5, <2>2
  <2>4. Plain(ApplyUpdate(F[k], s[k + 1]))
    BY <2>2, <2>3, MildStep
  <2>. QED BY <2>3, <2>4
<1>9. \A k \in Nat : k \in K
  BY <1>7, <1>8, Applying!NatInd
<1>10. PICK G : G = [k \in 0 .. m |-> Put(F[k], x, t)]
  OBVIOUS
<1>11. \A k \in 0 .. m : G[k] = Put(F[k], x, t)
  BY <1>10
<1>12. G[0] = Put(rows, x, t) /\ G[m] = Put(F[m], x, t)
  BY <1>3, <1>5, <1>11
<1>13. ASSUME NEW k \in 1 .. m PROVE G[k] = ApplyUpdate(G[k - 1], s[k])
  <2>1. k - 1 \in Nat /\ k - 1 <= m /\ k - 1 \in 0 .. m /\ k \in 0 .. m
    BY <1>3
  <2>2. Plain(F[k - 1]) /\ F[k] = ApplyUpdate(F[k - 1], s[k]) /\ Mild(s[k], x)
    BY <1>2, <1>5, <1>6, <1>9, <2>1
  <2>3. ApplyUpdate(Put(F[k - 1], x, t), s[k]) = Put(ApplyUpdate(F[k - 1], s[k]), x, t)
    BY <2>2, MildStep
  <2>. QED BY <1>11, <2>1, <2>2, <2>3
<1>14. Applying!IsRun(G, Put(rows, x, t), s, m)
  BY <1>12, <1>13 DEF Applying!IsRun
<1>15. Applying!Fold(Put(rows, x, t), s) = G[m]
  BY <1>3, <1>14, Applying!FoldIs
<1>. QED BY <1>4, <1>12, <1>15, ApplyFold

\* What may wait for the store at rest: a gap that is gone from memory, or a replacement
\* in a loaded chunk.
Small(u, rows, lc) ==
  \/ \E id \in DOMAIN rows : rows[id].gap # NoToken /\ u = RemoveChunk(id)
  \/ \E i \in 1 .. Len(lc.chunks), k \in Nat, e \in Nat :
       lc.chunks[i].gap = NoToken /\ u = ReplaceItem(Position(lc.chunks[i].id, k), e)

\* The rows, and what they will be, have the same chunks of items.
Agree(rows, late) ==
  /\ \A id \in DOMAIN late : id \in DOMAIN rows /\ late[id].gap = rows[id].gap /\ late[id].items = rows[id].items
  /\ \A id \in DOMAIN rows : rows[id].gap = NoToken => id \in DOMAIN late

Lagging(rows, lc, n) ==
  /\ \E S : Nice(rows, S)
  /\ \E S : SeesRows(Behind(rows, lc), lc, S, n)
  /\ Agree(rows, Behind(rows, lc))
  /\ \A i \in 1 .. Len(lc.log["store"]) : Small(lc.log["store"][i], rows, lc)

\* The event f is at the position in the store.
HeldRow(rows, at, f) ==
  \E x \in DOMAIN rows : \E k \in 1 .. Len(rows[x].items) : at = Position(x, k - 1) /\ rows[x].items[k] = f

Unloaded(lc, x) == \A i \in 1 .. Len(lc.chunks) : lc.chunks[i].id # x

StoreRemoved(rows, lc, n, at, f, after) ==
  /\ Lagging(after, lc, n)
  /\ Behind(after, lc) = ApplyUpdate(Behind(rows, lc), RemoveItem(at))
  /\ \A e \in StoredEvents(Behind(after, lc)) : e \in StoredEvents(Behind(rows, lc)) /\ e # f
  /\ \A p, g : HeldRow(rows, p, g) /\ (p.chunk # at.chunk \/ p.index < at.index) => HeldRow(after, p, g)

\* Memory does not see that the items of a chunk that is not loaded change.
LEMMA UnloadedSees ==
  ASSUME NEW rows, NEW lc, NEW S, NEW n, SeesRows(rows, lc, S, n), NEW x \in DOMAIN rows, Unloaded(lc, x),
         NEW t, NEW after, Changed(rows, x, t, after, S)
  PROVE  SeesRows(after, lc, S, n)
<1>1. Memory(rows, lc, S, n)
  BY MemoryIs
<1>2. /\ Len(S) \in Nat /\ n \in Nat /\ Len(lc.chunks) = Len(S) - n
      /\ \A i \in 1 .. Len(lc.chunks) : lc.chunks[i].id = S[n + i] /\ S[n + i] \in DOMAIN rows
  BY <1>1 DEF Memory
<1>3. ASSUME NEW i \in 1 .. Len(S) - n PROVE after[S[n + i]] = rows[S[n + i]]
  <2>1. S[n + i] # x /\ S[n + i] \in DOMAIN rows
    BY <1>2 DEF Unloaded
  <2>. QED BY <2>1 DEF Changed
<1>4. Loaded(after, S, n) = Loaded(rows, S, n)
  BY <1>3 DEF Loaded
<1>. QED BY <1>4 DEF SeesRows, Changed

\* What waits has nothing to do with a chunk of items that is not loaded.
LEMMA SmallMild ==
  ASSUME NEW rows, NEW Z, Nice(rows, Z), NEW lc, NEW late, NEW S, NEW n, SeesRows(late, lc, S, n),
         NEW x \in Nat, rows[x].gap = NoToken, Unloaded(lc, x), NEW u, Small(u, rows, lc)
  PROVE  Mild(u, x)
<1>1. CASE \E id \in DOMAIN rows : rows[id].gap # NoToken /\ u = RemoveChunk(id)
  <2>1. PICK id \in DOMAIN rows : rows[id].gap # NoToken /\ u = RemoveChunk(id)
    BY <1>1
  <2>2. id # x /\ id \in Int
    <3>1. id \in Nat
      BY ItemsOnce
    <3>. QED BY <2>1, <3>1
  <2>. QED BY <2>1, <2>2 DEF Mild
<1>2. CASE \E j \in 1 .. Len(lc.chunks), q \in Nat, e \in Nat : u = ReplaceItem(Position(lc.chunks[j].id, q), e)
  <2>1. PICK j \in 1 .. Len(lc.chunks), q \in Nat, e \in Nat : u = ReplaceItem(Position(lc.chunks[j].id, q), e)
    BY <1>2
  <2>2. PICK id : id = lc.chunks[j].id
    OBVIOUS
  <2>3. id # x /\ id \in Int
    <3>1. Memory(late, lc, S, n)
      BY MemoryIs
    <3>. QED BY <2>2, <3>1 DEF Memory, Unloaded
  <2>4. u = ReplaceItem(Position(id, q), e)
    BY <2>1, <2>2
  <2>. QED BY <2>3, <2>4 DEF Mild
<1>. QED BY <1>1, <1>2 DEF Small

\* remove_events of a chunk that is not loaded, which only the store sees.
LEMMA StoreRemoveIs ==
  ASSUME NEW rows, NEW lc, NEW n, Lagging(rows, lc, n), NEW at, NEW f, HeldRow(rows, at, f), Unloaded(lc, at.chunk)
  PROVE  StoreRemoved(rows, lc, n, at, f, ApplyUpdate(rows, RemoveItem(at)))
<1>1. PICK x \in DOMAIN rows : \E k \in 1 .. Len(rows[x].items) : at = Position(x, k - 1) /\ rows[x].items[k] = f
  BY DEF HeldRow
<1>2. PICK k \in 1 .. Len(rows[x].items) : at = Position(x, k - 1) /\ rows[x].items[k] = f
  BY <1>1
<1>3. PICK S0 : Nice(rows, S0)
  BY DEF Lagging
<1>4. PICK S : SeesRows(Behind(rows, lc), lc, S, n)
  BY DEF Lagging
<1>5. PICK late : late = Behind(rows, lc)
  OBVIOUS
<1>6. Nice(late, S) /\ Agree(rows, late)
  BY <1>4, <1>5 DEF SeesRows, Lagging
<1>7. PICK items : items = rows[x].items
  OBVIOUS
<1>8. items \in Seq(Nat) /\ Len(items) \in Nat /\ k \in 1 .. Len(items) /\ x \in Nat /\ rows[x].gap = NoToken
  <2>1. /\ rows[x].items \in Seq(Nat) /\ x \in Nat /\ (rows[x].gap # NoToken => rows[x].items = <<>>)
        /\ Len(rows[x].items) \in Nat
    BY <1>3, ItemsOnce
  <2>. QED BY <1>7, <2>1
<1>9. x \in DOMAIN late /\ late[x].items = items
  BY <1>6, <1>7, <1>8 DEF Agree
<1>10. PICK t : t = RemoveAt(items, k)
  OBVIOUS
<1>11. t \in Seq(Nat) /\ Len(t) = Len(items) - 1 /\ \A i \in 1 .. Len(items) - 1 : t[i] = IF i < k THEN items[i] ELSE items[i + 1]
  BY <1>8, <1>10, RemoveAtIs
<1>12. PICK after : after = ApplyUpdate(rows, RemoveItem(Position(x, k - 1)))
  OBVIOUS
<1>13. Changed(rows, x, t, after, S0) /\ after = Put(rows, x, t)
  BY <1>3, <1>7, <1>10, <1>12, RemoveNice DEF Put
<1>14. PICK late2 : late2 = ApplyUpdate(late, RemoveItem(Position(x, k - 1)))
  OBVIOUS
<1>15. k \in 1 .. Len(late[x].items)
  BY <1>8, <1>9
<1>16. /\ Changed(late, x, t, late2, S) /\ late2 = Put(late, x, t)
       /\ \A e : e \in StoredEvents(late2) => e \in StoredEvents(late) /\ e # f
  BY <1>2, <1>6, <1>7, <1>9, <1>10, <1>14, <1>15, RemoveNice DEF Put
<1>17. PICK log : log = lc.log["store"]
  OBVIOUS
<1>18. IsLog(log)
  BY <1>4, <1>17 DEF SeesRows, Shape, Readers
<1>19. at.chunk = x /\ at.index = k - 1
  BY <1>2 DEF Position
<1>20. ASSUME NEW i \in 1 .. Len(log) PROVE Mild(log[i], x)
  <2>1. Small(log[i], rows, lc)
    BY <1>17 DEF Lagging
  <2>2. SeesRows(late, lc, S, n) /\ Unloaded(lc, x)
    BY <1>4, <1>5, <1>19
  <2>. QED BY <1>3, <1>8, <2>1, <2>2, SmallMild
<1>21. Behind(after, lc) = late2
  <2>1. Plain(rows)
    BY <1>3 DEF Nice, Typed, IsRow, Plain
  <2>2. Apply(Put(rows, x, t), log) = Put(Apply(rows, log), x, t)
    BY <1>8, <1>11, <1>18, <1>20, <2>1, Commutes
  <2>. QED BY <1>5, <1>13, <1>16, <1>17, <2>2 DEF Behind
<1>22. SeesRows(late2, lc, S, n)
  <2>1. SeesRows(late, lc, S, n) /\ Unloaded(lc, x)
    BY <1>4, <1>5, <1>19
  <2>. QED BY <1>9, <1>16, <2>1, UnloadedSees
<1>23. Agree(after, late2)
  <2>1. /\ DOMAIN after = DOMAIN rows /\ after[x].items = t
        /\ \A id \in DOMAIN rows : after[id].gap = rows[id].gap /\ (id # x => after[id] = rows[id])
    BY <1>13 DEF Changed
  <2>2. /\ DOMAIN late2 = DOMAIN late /\ late2[x].items = t
        /\ \A id \in DOMAIN late : late2[id].gap = late[id].gap /\ (id # x => late2[id] = late[id])
    BY <1>16 DEF Changed
  <2>. QED BY <1>6, <2>1, <2>2 DEF Agree
<1>24. ASSUME NEW i \in 1 .. Len(log) PROVE Small(log[i], after, lc)
  <2>1. Small(log[i], rows, lc)
    BY <1>17 DEF Lagging
  <2>2. /\ DOMAIN after = DOMAIN rows
        /\ \A id \in DOMAIN rows : after[id].gap = rows[id].gap
    BY <1>13 DEF Changed
  <2>. QED BY <2>1, <2>2 DEF Small
<1>25. Lagging(after, lc, n)
  <2>1. \E Z : Nice(after, Z)
    BY <1>13 DEF Changed
  <2>2. \E Z : SeesRows(Behind(after, lc), lc, Z, n)
    BY <1>21, <1>22
  <2>. QED BY <1>17, <1>21, <1>23, <1>24, <2>1, <2>2 DEF Lagging
<1>26. ASSUME NEW p, NEW g, HeldRow(rows, p, g), p.chunk # at.chunk \/ p.index < at.index PROVE HeldRow(after, p, g)
  <2>1. PICK y \in DOMAIN rows : \E q \in 1 .. Len(rows[y].items) : p = Position(y, q - 1) /\ rows[y].items[q] = g
    BY <1>26 DEF HeldRow
  <2>2. PICK q \in 1 .. Len(rows[y].items) : p = Position(y, q - 1) /\ rows[y].items[q] = g
    BY <2>1
  <2>3. p.chunk = y /\ p.index = q - 1
    BY <2>2 DEF Position
  <2>4. DOMAIN after = DOMAIN rows /\ after[x].items = t /\ \A id \in DOMAIN rows : id # x => after[id] = rows[id]
    BY <1>13 DEF Changed
  <2>5. CASE y = x
    <3>1. q \in 1 .. Len(items) /\ items[q] = g /\ q - 1 < k - 1
      BY <1>7, <1>19, <1>26, <2>2, <2>3, <2>5
    <3>2. q \in 1 .. Len(t) /\ t[q] = g
      <4>1. q < k /\ q \in 1 .. Len(items) - 1
        BY <1>8, <3>1
      <4>. QED BY <1>11, <3>1, <4>1
    <3>3. q \in 1 .. Len(after[y].items) /\ after[y].items[q] = g
      BY <2>4, <2>5, <3>2
    <3>. QED BY <2>2, <2>4, <3>3 DEF HeldRow
  <2>6. CASE y # x
    <3>1. after[y] = rows[y] /\ y \in DOMAIN after
      BY <2>4, <2>6
    <3>. QED BY <2>2, <3>1 DEF HeldRow
  <2>. QED BY <2>5, <2>6
<1>27. StoreRemoved(rows, lc, n, at, f, after)
  BY <1>2, <1>5, <1>14, <1>16, <1>21, <1>25, <1>26 DEF StoreRemoved
<1>. QED BY <1>2, <1>12, <1>27

-----------------------------------------------------------------------------
(* An event that only the store loses, told to the tracker ahead of what waits for it.*)

LenInt == [id : Nat, len : Int]

IsMapper(m) ==
  m = [chunks |-> m.chunks, vector |-> m.vector, reattaching |-> m.reattaching, detaching |-> m.detaching]

\* No chunk is tracked twice.
Distinct(t) == t \in Seq(LenInt) /\ \A i, j \in 1 .. Len(t) : t[i].id = t[j].id => i = j

\* The chunk x, if it is tracked, has one item less.
Shorter(t, x, w) ==
  /\ w \in Seq(LenInt) /\ Len(w) = Len(t)
  /\ \A i \in 1 .. Len(t) : w[i].id = t[i].id /\ w[i].len = IF t[i].id = x THEN t[i].len - 1 ELSE t[i].len

\* A tracked chunk is an identifier and a length.
LEMMA LenIntIs ==
  ASSUME NEW r \in LenInt, NEW q \in LenInt, r.id = q.id, r.len = q.len
  PROVE  r = q
BY DEF LenInt

\* There is one way to be shorter.
LEMMA ShorterOnce ==
  ASSUME NEW t, Distinct(t), NEW x, NEW v, NEW w, Shorter(t, x, v), Shorter(t, x, w)
  PROVE  v = w
<1>1. PICK n \in Nat : n = Len(t)
  BY DEF Distinct
<1>2. v \in Seq(LenInt) /\ w \in Seq(LenInt) /\ Len(v) = n /\ Len(w) = n
  BY <1>1 DEF Shorter
<1>3. ASSUME NEW i \in 1 .. n PROVE v[i] = w[i]
  <2>1. v[i] \in LenInt /\ w[i] \in LenInt
    BY <1>2
  <2>2. v[i].id = w[i].id /\ v[i].len = w[i].len
    BY <1>1 DEF Shorter
  <2>. QED BY <2>1, <2>2, LenIntIs
<1>. QED BY <1>2, <1>3

\* What is shorter has the same chunks.
LEMMA ShorterDistinct ==
  ASSUME NEW t, Distinct(t), NEW x, NEW w, Shorter(t, x, w)
  PROVE  Distinct(w)
<1>1. PICK n \in Nat : n = Len(t)
  BY DEF Distinct
<1>. QED BY <1>1 DEF Distinct, Shorter

\* The lengths of the chunks of the room.
LEMMA LengthsDistinct ==
  ASSUME NEW rows, NEW S, Nice(rows, S)
  PROVE  Distinct(Lengths(rows, S))
<1>1. PICK L : L = Lengths(rows, S)
  OBVIOUS
<1>2. AreLengths(rows, S, L)
  BY <1>1, LengthsAre
<1>3. L \in Seq(LenType) /\ Len(L) = Len(S) /\ \A i \in 1 .. Len(S) : L[i].id = S[i]
  BY <1>2 DEF AreLengths
<1>4. L \in Seq(LenInt)
  <2>1. \A r \in LenType : r \in LenInt
    BY DEF LenType, LenInt
  <2>. QED BY <1>3, <2>1
<1>5. \A i, j \in 1 .. Len(S) : S[i] = S[j] => i = j
  BY DEF Nice, Linked
<1>. QED BY <1>1, <1>3, <1>4, <1>5 DEF Distinct

\* The index of a tracked chunk.
LEMMA AtOnce ==
  ASSUME NEW m, Distinct(m.chunks), NEW i \in 1 .. Len(m.chunks), NEW x, m.chunks[i].id = x
  PROVE  Knows(m, x) /\ At(m, x) = i
<1>1. PICK t : t = m.chunks
  OBVIOUS
<1>2. DOMAIN t = 1 .. Len(t)
  BY <1>1 DEF Distinct
<1>3. \E j \in DOMAIN t : t[j].id = x
  BY <1>1, <1>2
<1>4. PICK a : a = At(m, x)
  OBVIOUS
<1>5. a \in DOMAIN t /\ t[a].id = x
  BY <1>1, <1>3, <1>4 DEF At
<1>6. a = i
  BY <1>1, <1>2, <1>5 DEF Distinct
<1>. QED BY <1>1, <1>3, <1>4, <1>6 DEF Knows

\* RemoveItem makes a chunk shorter by one.
LEMMA RemoveShortens ==
  ASSUME NEW m, IsMapper(m), Distinct(m.chunks), NEW at
  PROVE  IsMapper(MapUpdate(m, RemoveItem(at))) /\ Shorter(m.chunks, at.chunk, MapUpdate(m, RemoveItem(at)).chunks)
<1>1. PICK u, x, t : u = RemoveItem(at) /\ x = at.chunk /\ t = m.chunks
  OBVIOUS
<1>2. u.type = "RemoveItem" /\ u.at = at
  BY <1>1 DEF RemoveItem
<1>3. PICK n \in Nat : n = Len(t)
  BY <1>1 DEF Distinct
<1>4. t \in Seq(LenInt) /\ DOMAIN t = 1 .. n
  BY <1>1, <1>3 DEF Distinct
<1>5. PICK v, a, b : m = [chunks |-> t, vector |-> v, reattaching |-> a, detaching |-> b]
  BY <1>1 DEF IsMapper
<1>6. CASE Knows(m, x)
  <2>1. PICK j \in 1 .. n : t[j].id = x
    BY <1>1, <1>4, <1>6 DEF Knows
  <2>2. At(m, x) = j
    BY <1>1, <1>3, <2>1, AtOnce
  <2>3. MapUpdate(m, u) = MapRemoveItem(m, at)
    BY <1>1, <1>2, <1>6 DEF MapUpdate
  <2>4. PICK w : w = [t EXCEPT ![j].len = @ - 1]
    OBVIOUS
  <2>5. PICK short : short = [m EXCEPT !.chunks[j].len = @ - 1]
    OBVIOUS
  <2>6. short = [chunks |-> w, vector |-> v, reattaching |-> a, detaching |-> b]
    BY <1>5, <2>4, <2>5
  <2>7. \E q : MapRemoveItem(m, at) = [short EXCEPT !.vector = q]
    <3>1. [short EXCEPT !.vector = short.vector] = short
      BY <2>6
    <3>. QED BY <1>1, <2>2, <2>5, <3>1 DEF MapRemoveItem
  <2>8. PICK q : MapRemoveItem(m, at) = [short EXCEPT !.vector = q]
    BY <2>7
  <2>9. MapUpdate(m, u) = [chunks |-> w, vector |-> q, reattaching |-> a, detaching |-> b]
    BY <2>3, <2>6, <2>8
  <2>10. Shorter(t, x, w)
    <3>1. t[j] \in LenInt
      BY <1>3, <1>4
    <3>2. PICK new : new = [t[j] EXCEPT !.len = @ - 1]
      OBVIOUS
    <3>3. new \in LenInt /\ new.id = t[j].id /\ new.len = t[j].len - 1
      BY <3>1, <3>2 DEF LenInt
    <3>4. w = [t EXCEPT ![j] = new]
      BY <2>4, <3>2
    <3>5. w \in Seq(LenInt) /\ Len(w) = n /\ \A i \in 1 .. n : w[i] = IF i = j THEN new ELSE t[i]
      BY <1>3, <1>4, <3>3, <3>4
    <3>6. \A i \in 1 .. n : t[i].id = x => i = j
      BY <1>1, <1>3, <2>1 DEF Distinct
    <3>. QED BY <1>3, <2>1, <3>3, <3>5, <3>6 DEF Shorter
  <2>. QED BY <1>1, <2>9, <2>10 DEF IsMapper
<1>7. CASE ~Knows(m, x)
  <2>1. MapUpdate(m, u) = m
    BY <1>1, <1>2, <1>7 DEF MapUpdate
  <2>2. \A i \in 1 .. n : t[i].id # x
    BY <1>1, <1>4, <1>7 DEF Knows
  <2>3. Shorter(t, x, t)
    BY <1>3, <1>4, <2>2 DEF Shorter
  <2>. QED BY <1>1, <2>1, <2>3
<1>. QED BY <1>6, <1>7
-----------------------------------------------------------------------------
\* Two trackers that differ by the one item of x.
Beside(m, w, x) == IsMapper(m) /\ Distinct(m.chunks) /\ IsMapper(w) /\ Shorter(m.chunks, x, w.chunks)

\* RemoveChunk takes the chunk out.
LEMMA RemovesOne ==
  ASSUME NEW m, IsMapper(m), Distinct(m.chunks), NEW i \in 1 .. Len(m.chunks), NEW id, m.chunks[i].id = id
  PROVE  IsMapper(MapUpdate(m, RemoveChunk(id))) /\ MapUpdate(m, RemoveChunk(id)).chunks = RemoveAt(m.chunks, i)
<1>1. PICK u : u = RemoveChunk(id)
  OBVIOUS
<1>2. u.type = "RemoveChunk" /\ u.id = id
  BY <1>1 DEF RemoveChunk
<1>3. Knows(m, id) /\ At(m, id) = i
  BY AtOnce
<1>4. MapUpdate(m, u) = MapRemoveChunk(m, id)
  BY <1>2, <1>3 DEF MapUpdate
<1>5. PICK c, v, a, b : m = [chunks |-> c, vector |-> v, reattaching |-> a, detaching |-> b] /\ m.chunks = c
  BY DEF IsMapper
<1>6. PICK q : MapRemoveChunk(m, id) = [m EXCEPT !.chunks = RemoveAt(@, i), !.vector = q]
  BY <1>3, <1>5 DEF MapRemoveChunk
<1>7. PICK r : r = RemoveAt(c, i)
  OBVIOUS
<1>8. MapUpdate(m, u) = [chunks |-> r, vector |-> q, reattaching |-> a, detaching |-> b]
  BY <1>4, <1>5, <1>6, <1>7
<1>9. PICK z : z = MapUpdate(m, u)
  OBVIOUS
<1>10. IsMapper(z) /\ z.chunks = r
  BY <1>8, <1>9 DEF IsMapper
<1>. QED BY <1>1, <1>5, <1>7, <1>9, <1>10

\* ReplaceItem leaves the chunks as they are.
LEMMA ReplaceKeeps ==
  ASSUME NEW m, IsMapper(m), NEW at, NEW e
  PROVE  IsMapper(MapUpdate(m, ReplaceItem(at, e))) /\ MapUpdate(m, ReplaceItem(at, e)).chunks = m.chunks
<1>1. PICK u : u = ReplaceItem(at, e)
  OBVIOUS
<1>2. u.type = "ReplaceItem" /\ u.at = at /\ u.item = e
  BY <1>1 DEF ReplaceItem
<1>3. CASE ~Knows(m, at.chunk)
  <2>1. MapUpdate(m, u) = m
    BY <1>2, <1>3 DEF MapUpdate
  <2>. QED BY <1>1, <2>1
<1>4. CASE Knows(m, at.chunk)
  <2>1. PICK o : o = Offset(m, at) + 1
    OBVIOUS
  <2>2. MapUpdate(m, u) = [m EXCEPT !.vector[o] = e]
    BY <1>2, <1>4, <2>1 DEF MapUpdate
  <2>3. PICK c, v, a, b : m = [chunks |-> c, vector |-> v, reattaching |-> a, detaching |-> b] /\ m.chunks = c
    BY DEF IsMapper
  <2>4. PICK z : z = MapUpdate(m, u)
    OBVIOUS
  <2>5. z = [chunks |-> c, vector |-> [v EXCEPT ![o] = e], reattaching |-> a, detaching |-> b]
    BY <2>2, <2>3, <2>4
  <2>6. IsMapper(z) /\ z.chunks = c
    BY <2>5 DEF IsMapper
  <2>. QED BY <1>1, <2>3, <2>4, <2>6
<1>. QED BY <1>3, <1>4

\* A chunk other than x is taken out of both.
LEMMA ShorterRemoved ==
  ASSUME NEW t, Distinct(t), NEW x, NEW w, Shorter(t, x, w), NEW i \in 1 .. Len(t)
  PROVE  Distinct(RemoveAt(t, i)) /\ Shorter(RemoveAt(t, i), x, RemoveAt(w, i))
<1>1. PICK n \in Nat : n = Len(t)
  BY DEF Distinct
<1>2. t \in Seq(LenInt) /\ w \in Seq(LenInt) /\ Len(w) = n /\ i \in 1 .. Len(w)
  BY <1>1 DEF Distinct, Shorter
<1>3. PICK p, q : p = RemoveAt(t, i) /\ q = RemoveAt(w, i)
  OBVIOUS
<1>4. p \in Seq(LenInt) /\ Len(p) = n - 1 /\ \A j \in 1 .. n - 1 : p[j] = IF j < i THEN t[j] ELSE t[j + 1]
  BY <1>1, <1>2, <1>3, RemoveAtIs
<1>5. q \in Seq(LenInt) /\ Len(q) = n - 1 /\ \A j \in 1 .. n - 1 : q[j] = IF j < i THEN w[j] ELSE w[j + 1]
  BY <1>1, <1>2, <1>3, RemoveAtIs
<1>6. ASSUME NEW j \in 1 .. n - 1
      PROVE  q[j].id = p[j].id /\ q[j].len = IF p[j].id = x THEN p[j].len - 1 ELSE p[j].len
  <2>1. PICK k \in 1 .. n : p[j] = t[k] /\ q[j] = w[k]
    <3>1. CASE j < i
      <4>1. j \in 1 .. n /\ p[j] = t[j] /\ q[j] = w[j]
        BY <1>4, <1>5, <3>1
      <4>. QED BY <4>1
    <3>2. CASE ~(j < i)
      <4>1. j + 1 \in 1 .. n /\ p[j] = t[j + 1] /\ q[j] = w[j + 1]
        BY <1>4, <1>5, <3>2
      <4>. QED BY <4>1
    <3>. QED BY <3>1, <3>2
  <2>2. w[k].id = t[k].id /\ w[k].len = IF t[k].id = x THEN t[k].len - 1 ELSE t[k].len
    BY <1>1 DEF Shorter
  <2>. QED BY <2>1, <2>2
<1>7. ASSUME NEW j \in 1 .. n - 1, NEW l \in 1 .. n - 1, p[j].id = p[l].id PROVE j = l
  <2>1. PICK k \in 1 .. n : p[j] = t[k] /\ k = IF j < i THEN j ELSE j + 1
    BY <1>4
  <2>2. PICK h \in 1 .. n : p[l] = t[h] /\ h = IF l < i THEN l ELSE l + 1
    BY <1>4
  <2>3. k = h
    BY <1>1, <1>7, <2>1, <2>2 DEF Distinct
  <2>. QED BY <1>1, <2>1, <2>2, <2>3
<1>8. Len(p) = n - 1 /\ Len(q) = Len(p)
  BY <1>4, <1>5
<1>. QED BY <1>3, <1>4, <1>5, <1>6, <1>7, <1>8 DEF Distinct, Shorter

\* An update that has nothing to do with x leaves them beside each other.
LEMMA MildBeside ==
  ASSUME NEW m, NEW w, NEW x, Beside(m, w, x), NEW u, Mild(u, x)
  PROVE  Beside(MapUpdate(m, u), MapUpdate(w, u), x)
<1>1. IsMapper(m) /\ IsMapper(w) /\ Distinct(m.chunks) /\ Shorter(m.chunks, x, w.chunks) /\ Distinct(w.chunks)
  BY ShorterDistinct DEF Beside
<1>2. CASE \E id \in Int : u = RemoveChunk(id)
  <2>1. PICK id \in Int : u = RemoveChunk(id)
    BY <1>2
  <2>2. CASE \E i \in 1 .. Len(m.chunks) : m.chunks[i].id = id
    <3>1. PICK i \in 1 .. Len(m.chunks) : m.chunks[i].id = id
      BY <2>2
    <3>2. i \in 1 .. Len(w.chunks) /\ w.chunks[i].id = id
      BY <1>1, <3>1 DEF Shorter
    <3>3. IsMapper(MapUpdate(m, u)) /\ MapUpdate(m, u).chunks = RemoveAt(m.chunks, i)
      BY <1>1, <2>1, <3>1, RemovesOne
    <3>4. IsMapper(MapUpdate(w, u)) /\ MapUpdate(w, u).chunks = RemoveAt(w.chunks, i)
      BY <1>1, <2>1, <3>2, RemovesOne
    <3>5. Distinct(RemoveAt(m.chunks, i)) /\ Shorter(RemoveAt(m.chunks, i), x, RemoveAt(w.chunks, i))
      BY <1>1, ShorterRemoved
    <3>. QED BY <3>3, <3>4, <3>5 DEF Beside
  <2>3. CASE ~\E i \in 1 .. Len(m.chunks) : m.chunks[i].id = id
    <3>1. DOMAIN m.chunks = 1 .. Len(m.chunks) /\ DOMAIN w.chunks = 1 .. Len(w.chunks)
      BY <1>1 DEF Distinct
    <3>2. ~Knows(m, id) /\ ~Knows(w, id)
      BY <1>1, <2>3, <3>1 DEF Knows, Shorter
    <3>3. u.type = "RemoveChunk" /\ u.id = id
      BY <2>1 DEF RemoveChunk
    <3>4. MapUpdate(m, u) = m /\ MapUpdate(w, u) = w
      BY <3>2, <3>3 DEF MapUpdate
    <3>. QED BY <3>4
  <2>. QED BY <2>2, <2>3
<1>3. CASE \E at, e : u = ReplaceItem(at, e)
  <2>1. PICK at, e : u = ReplaceItem(at, e)
    BY <1>3
  <2>2. /\ IsMapper(MapUpdate(m, u)) /\ MapUpdate(m, u).chunks = m.chunks
        /\ IsMapper(MapUpdate(w, u)) /\ MapUpdate(w, u).chunks = w.chunks
    BY <1>1, <2>1, ReplaceKeeps
  <2>. QED BY <1>1, <2>2 DEF Beside
<1>. QED BY <1>2, <1>3 DEF Mild

\* So do all the updates that wait.
LEMMA HeardBeside ==
  ASSUME NEW t, Distinct(t), NEW x, NEW w, Shorter(t, x, w), NEW log, IsLog(log),
         \A i \in 1 .. Len(log) : Mild(log[i], x)
  PROVE  Beside(HeardOf(t, log), HeardOf(w, log), x)
<1>1. PICK n \in Nat : n = Len(log) /\ DOMAIN log = 1 .. n
  BY DEF IsLog
<1>2. PICK b, d : b = Blank(t) /\ d = Blank(w)
  OBVIOUS
<1>3. Beside(b, d, x)
  <2>1. IsMapper(b) /\ b.chunks = t /\ IsMapper(d) /\ d.chunks = w
    BY <1>2 DEF Blank, IsMapper
  <2>. QED BY <2>1 DEF Beside
<1>4. PICK F : Tracking!IsRun(F, b, log, n) /\ F[n] = Tracking!Fold(b, log)
  BY <1>1, Tracking!FoldRuns
<1>5. PICK G : Tracking!IsRun(G, d, log, n) /\ G[n] = Tracking!Fold(d, log)
  BY <1>1, Tracking!FoldRuns
<1>6. PICK T : T = {k \in Nat : k <= n => Beside(F[k], G[k], x)}
  OBVIOUS
<1>7. 0 \in T
  BY <1>3, <1>4, <1>5, <1>6 DEF Tracking!IsRun
<1>8. ASSUME NEW k \in Nat, k \in T PROVE k + 1 \in T
  <2>1. SUFFICES ASSUME k + 1 <= n PROVE Beside(F[k + 1], G[k + 1], x)
    BY <1>6
  <2>2. k + 1 \in 1 .. n /\ (k + 1) - 1 = k /\ Beside(F[k], G[k], x)
    BY <1>6, <1>8, <2>1
  <2>3. F[k + 1] = MapUpdate(F[k], log[k + 1]) /\ G[k + 1] = MapUpdate(G[k], log[k + 1])
    BY <1>4, <1>5, <2>2 DEF Tracking!IsRun
  <2>4. Mild(log[k + 1], x)
    BY <1>1, <2>2
  <2>5. Beside(MapUpdate(F[k], log[k + 1]), MapUpdate(G[k], log[k + 1]), x)
    BY <2>2, <2>4, MildBeside
  <2>. QED BY <2>3, <2>5
<1>9. n \in T
  BY <1>7, <1>8, Tracking!NatInd
<1>10. Beside(F[n], G[n], x)
  BY <1>6, <1>9
<1>11. HeardOf(t, log) = Tracking!Fold(b, log) /\ HeardOf(w, log) = Tracking!Fold(d, log)
  BY <1>2, HeardFold DEF HeardOf
<1>. QED BY <1>4, <1>5, <1>10, <1>11
-----------------------------------------------------------------------------
\* The tracker t, once it has heard what waits for it, has the lengths that the store will have;
\* and what waits is small.
Tracks(t, rows, lc, n) ==
  /\ Distinct(t)
  /\ \A i \in 1 .. Len(lc.log["tracker"]) : Small(lc.log["tracker"][i], rows, lc)
  /\ \E S : /\ SeesRows(Behind(rows, lc), lc, S, n)
            /\ Follows(HeardOf(t, lc.log["tracker"]), Behind(rows, lc), S)

\* A removal that only the store sees is told to the tracker at once, before what waits for it.
LEMMA StoreTracks ==
  ASSUME NEW rows, NEW lc, NEW n, Lagging(rows, lc, n), NEW at, NEW f, HeldRow(rows, at, f), Unloaded(lc, at.chunk),
         NEW t, Tracks(t, rows, lc, n), NEW w, Shorter(t, at.chunk, w)
  PROVE  Tracks(w, ApplyUpdate(rows, RemoveItem(at)), lc, n)
<1>1. PICK x \in DOMAIN rows : \E k \in 1 .. Len(rows[x].items) : at = Position(x, k - 1) /\ rows[x].items[k] = f
  BY DEF HeldRow
<1>2. PICK k \in 1 .. Len(rows[x].items) : at = Position(x, k - 1) /\ rows[x].items[k] = f
  BY <1>1
<1>3. PICK Z : Nice(rows, Z)
  BY DEF Lagging
<1>4. PICK log, late : log = lc.log["tracker"] /\ late = Behind(rows, lc)
  OBVIOUS
<1>5. PICK S : SeesRows(late, lc, S, n) /\ Follows(HeardOf(t, log), late, S)
  BY <1>4 DEF Tracks
<1>6. Nice(late, S) /\ Agree(rows, late)
  BY <1>4, <1>5 DEF SeesRows, Lagging
<1>7. /\ rows[x].items \in Seq(Nat) /\ x \in Nat /\ Len(rows[x].items) \in Nat /\ rows[x].gap = NoToken
  <2>1. /\ rows[x].items \in Seq(Nat) /\ x \in Nat /\ (rows[x].gap # NoToken => rows[x].items = <<>>)
        /\ Len(rows[x].items) \in Nat
    BY <1>3, ItemsOnce
  <2>. QED BY <2>1
<1>8. x \in DOMAIN late /\ late[x].items = rows[x].items /\ k \in 1 .. Len(late[x].items)
  BY <1>6, <1>7 DEF Agree
<1>9. PICK r, items : items = late[x].items /\ r = RemoveAt(items, k)
  OBVIOUS
<1>10. Len(r) = Len(items) - 1
  BY <1>7, <1>8, <1>9, RemoveAtIs
<1>11. at.chunk = x
  BY <1>2 DEF Position
<1>12. PICK late2, after : late2 = ApplyUpdate(late, RemoveItem(at)) /\ after = ApplyUpdate(rows, RemoveItem(at))
  OBVIOUS
<1>13. Changed(late, x, r, late2, S)
  BY <1>2, <1>6, <1>8, <1>9, <1>12, RemoveNice
<1>14. StoreRemoved(rows, lc, n, at, f, after)
  BY <1>12, StoreRemoveIs
<1>15. Behind(after, lc) = late2
  BY <1>4, <1>12, <1>14 DEF StoreRemoved
<1>16. SeesRows(late2, lc, S, n)
  BY <1>5, <1>8, <1>11, <1>13, UnloadedSees
<1>17. IsLog(log) /\ \A i \in 1 .. Len(log) : Mild(log[i], x)
  <2>1. IsLog(log)
    BY <1>4, <1>5 DEF SeesRows, Shape, Readers
  <2>2. ASSUME NEW i \in 1 .. Len(log) PROVE Mild(log[i], x)
    <3>1. Small(log[i], rows, lc)
      BY <1>4 DEF Tracks
    <3>. QED BY <1>3, <1>5, <1>7, <1>11, <3>1, SmallMild
  <2>. QED BY <2>1, <2>2
<1>18. Distinct(t) /\ Shorter(t, x, w)
  BY <1>11 DEF Tracks
<1>19. PICK h, g : h = HeardOf(t, log) /\ g = HeardOf(w, log)
  OBVIOUS
<1>20. Beside(h, g, x)
  BY <1>17, <1>18, <1>19, HeardBeside
<1>21. IsMapper(h) /\ Distinct(h.chunks) /\ IsMapper(g) /\ Shorter(h.chunks, x, g.chunks)
  BY <1>20 DEF Beside
<1>22. PICK z : z = MapUpdate(h, RemoveItem(at))
  OBVIOUS
<1>23. Shorter(h.chunks, x, z.chunks)
  BY <1>11, <1>21, <1>22, RemoveShortens
<1>24. Follows(z, late2, S)
  <2>1. Told(late, S, RemoveItem(at), late2, S)
    BY <1>2, <1>6, <1>8, <1>9, <1>10, <1>13, RemoveTold
  <2>. QED BY <1>5, <1>19, <1>22, <2>1 DEF Told
<1>25. g.chunks = z.chunks
  BY <1>21, <1>23, ShorterOnce
<1>26. Follows(g, late2, S)
  BY <1>21, <1>24, <1>25 DEF Follows, IsMapper
<1>27. Distinct(w)
  BY <1>18, ShorterDistinct
<1>28. ASSUME NEW i \in 1 .. Len(log) PROVE Small(log[i], after, lc)
  <2>1. Small(log[i], rows, lc)
    BY <1>4 DEF Tracks
  <2>2. /\ DOMAIN after = DOMAIN rows
        /\ \A id \in DOMAIN rows : after[id].gap = rows[id].gap
    <3>1. Changed(rows, x, RemoveAt(rows[x].items, k), after, Z)
      BY <1>2, <1>3, <1>12, RemoveNice
    <3>. QED BY <3>1 DEF Changed
  <2>. QED BY <2>1, <2>2 DEF Small
<1>29. Tracks(w, after, lc, n)
  BY <1>4, <1>15, <1>16, <1>19, <1>26, <1>27, <1>28 DEF Tracks
<1>. QED BY <1>12, <1>29

-----------------------------------------------------------------------------
(* Flattened sequences: the items and their positions.                     *)

IsFlat(g, seqs, n) == g = [i \in 1 .. n |-> IF i = 1 THEN seqs[i] ELSE g[i - 1] \o seqs[i]]
Flat(seqs, n) == CHOOSE g : IsFlat(g, seqs, n)

\* There is a function that appends the sequences one by one.
LEMMA FlatExists ==
  ASSUME NEW seqs, NEW n \in Nat
  PROVE  IsFlat(Flat(seqs, n), seqs, n)
<1>1. PICK K : K = {k \in Nat : \E g : IsFlat(g, seqs, k)}
  OBVIOUS
<1>2. 0 \in K
  <2>1. PICK g : g = [i \in 1 .. 0 |-> seqs[i]]
    OBVIOUS
  <2>2. IsFlat(g, seqs, 0)
    BY <2>1 DEF IsFlat
  <2>. QED BY <1>1, <2>2
<1>3. ASSUME NEW k \in Nat, k \in K PROVE k + 1 \in K
  <2>1. PICK g : IsFlat(g, seqs, k)
    BY <1>1, <1>3
  <2>2. \A i \in 1 .. k : g[i] = IF i = 1 THEN seqs[i] ELSE g[i - 1] \o seqs[i]
    BY <2>1 DEF IsFlat
  <2>3. PICK h : h = [i \in 1 .. k + 1 |-> IF i = 1 THEN seqs[i] ELSE g[i - 1] \o seqs[i]]
    OBVIOUS
  <2>4. \A i \in 1 .. k : h[i] = g[i]
    BY <2>2, <2>3
  <2>5. ASSUME NEW i \in 1 .. k + 1 PROVE h[i] = IF i = 1 THEN seqs[i] ELSE h[i - 1] \o seqs[i]
    <3>1. CASE i = 1
      BY <2>3, <3>1
    <3>2. CASE i # 1
      <4>1. i - 1 \in 1 .. k
        BY <3>2
      <4>. QED BY <2>3, <2>4, <3>2, <4>1
    <3>. QED BY <3>1, <3>2
  <2>6. IsFlat(h, seqs, k + 1)
    BY <2>3, <2>5 DEF IsFlat
  <2>. QED BY <1>1, <2>6
<1>4. n \in K
  BY <1>2, <1>3, Applying!NatInd
<1>5. \E g : IsFlat(g, seqs, n)
  BY <1>1, <1>4
<1>. QED BY <1>5, Zenon DEF Flat

\* FlattenSeq, step by step.
LEMMA FlattenIs ==
  ASSUME NEW seqs, NEW n \in Nat, Len(seqs) = n, n # 0
  PROVE  \E g : /\ FlattenSeq(seqs) = g[n] /\ g[1] = seqs[1]
                /\ \A i \in 2 .. n : g[i] = g[i - 1] \o seqs[i]
<1>1. PICK g : g = Flat(seqs, n)
  OBVIOUS
<1>2. IsFlat(g, seqs, n)
  BY <1>1, FlatExists
<1>3. FlattenSeq(seqs) = g[n]
  BY <1>1 DEF FlattenSeq, Flat, IsFlat
<1>4. \A i \in 1 .. n : g[i] = IF i = 1 THEN seqs[i] ELSE g[i - 1] \o seqs[i]
  BY <1>2 DEF IsFlat
<1>5. g[1] = seqs[1]
  BY <1>4
<1>6. \A i \in 2 .. n : g[i] = g[i - 1] \o seqs[i]
  <2>1. ASSUME NEW i \in 2 .. n PROVE g[i] = g[i - 1] \o seqs[i]
    <3>1. i \in 1 .. n /\ i # 1
      OBVIOUS
    <3>. QED BY <1>4, <3>1
  <2>. QED BY <2>1
<1>. QED BY <1>3, <1>5, <1>6

\* The two sequences have the elements of the first m of two lists of sequences, in the
\* same places.
Parallel(T, U, a, b, m, p, q) ==
  /\ p \in Seq(T) /\ q \in Seq(U) /\ Len(p) = Len(q)
  /\ \A k \in 1 .. Len(p) : \E i \in 1 .. m : \E j \in 1 .. Len(a[i]) :
       p[k] = a[i][j] /\ q[k] = b[i][j] /\ (k = 1 => j = 1)
  /\ \A i \in 1 .. m : a[i] # <<>> => p # <<>>

\* One more sequence is appended to both.
LEMMA ParallelMore ==
  ASSUME NEW T, NEW U, NEW a, NEW b, NEW m \in Nat, NEW p, NEW q, Parallel(T, U, a, b, m, p, q),
         a[m + 1] \in Seq(T), b[m + 1] \in Seq(U), Len(a[m + 1]) = Len(b[m + 1])
  PROVE  Parallel(T, U, a, b, m + 1, p \o a[m + 1], q \o b[m + 1])
<1>1. PICK x, y : x = a[m + 1] /\ y = b[m + 1]
  OBVIOUS
<1>2. x \in Seq(T) /\ y \in Seq(U) /\ Len(x) = Len(y) /\ Len(x) \in Nat
  BY <1>1
<1>3. p \in Seq(T) /\ q \in Seq(U) /\ Len(p) = Len(q) /\ Len(p) \in Nat
  BY DEF Parallel
<1>4. PICK r, s : r = p \o x /\ s = q \o y
  OBVIOUS
<1>5. IsConcat(T, p, Len(p), x, Len(x), r) /\ IsConcat(U, q, Len(q), y, Len(y), s)
  BY <1>2, <1>3, <1>4, ConcatIs
<1>6. /\ r \in Seq(T) /\ s \in Seq(U) /\ Len(r) = Len(p) + Len(x) /\ Len(s) = Len(p) + Len(x)
      /\ \A k \in 1 .. Len(p) : r[k] = p[k] /\ s[k] = q[k]
      /\ \A k \in 1 .. Len(x) : r[Len(p) + k] = x[k] /\ s[Len(p) + k] = y[k]
  BY <1>2, <1>3, <1>5 DEF IsConcat
<1>7. ASSUME NEW k \in 1 .. Len(r)
      PROVE  \E i \in 1 .. m + 1 : \E j \in 1 .. Len(a[i]) : r[k] = a[i][j] /\ s[k] = b[i][j] /\ (k = 1 => j = 1)
  <2>1. CASE k <= Len(p)
    <3>1. k \in 1 .. Len(p)
      BY <1>3, <1>6, <2>1
    <3>2. PICK i \in 1 .. m : \E j \in 1 .. Len(a[i]) : p[k] = a[i][j] /\ q[k] = b[i][j] /\ (k = 1 => j = 1)
      BY <3>1 DEF Parallel
    <3>3. i \in 1 .. m + 1
      OBVIOUS
    <3>. QED BY <1>6, <3>1, <3>2, <3>3
  <2>2. CASE k > Len(p)
    <3>1. PICK j : j = k - Len(p)
      OBVIOUS
    <3>2. j \in 1 .. Len(x) /\ k = Len(p) + j /\ (k = 1 => j = 1)
      BY <1>2, <1>3, <1>6, <2>2, <3>1
    <3>3. m + 1 \in 1 .. m + 1 /\ r[k] = a[m + 1][j] /\ s[k] = b[m + 1][j] /\ j \in 1 .. Len(a[m + 1])
      BY <1>1, <1>6, <3>2
    <3>. QED BY <3>2, <3>3
  <2>. QED BY <1>2, <1>3, <1>6, <2>1, <2>2
<1>8. ASSUME NEW i \in 1 .. m + 1, a[i] # <<>> PROVE r # <<>>
  <2>1. CASE i = m + 1
    <3>1. Len(x) > 0
      BY <1>1, <1>2, <1>8, <2>1
    <3>. QED BY <1>2, <1>3, <1>6, <3>1
  <2>2. CASE i # m + 1
    <3>1. i \in 1 .. m
      BY <2>2
    <3>2. p # <<>>
      BY <1>8, <3>1 DEF Parallel
    <3>3. Len(p) > 0
      BY <1>3, <3>2
    <3>. QED BY <1>2, <1>3, <1>6, <3>3
  <2>. QED BY <2>1, <2>2
<1>9. Len(r) = Len(s)
  BY <1>6
<1>10. Parallel(T, U, a, b, m + 1, r, s)
  BY <1>6, <1>7, <1>8, <1>9 DEF Parallel
<1>. QED BY <1>1, <1>4, <1>10

\* Two flattened lists of sequences with the same lengths have the elements in the same places.
LEMMA FlattenParallel ==
  ASSUME NEW T, NEW U, NEW a, NEW b, NEW n \in Nat, Len(a) = n, Len(b) = n,
         n = 0 => a = <<>> /\ b = <<>>,
         \A i \in 1 .. n : a[i] \in Seq(T) /\ b[i] \in Seq(U) /\ Len(a[i]) = Len(b[i])
  PROVE  Parallel(T, U, a, b, n, FlattenSeq(a), FlattenSeq(b))
<1>1. CASE n = 0
  <2>1. FlattenSeq(a) = <<>> /\ FlattenSeq(b) = <<>>
    BY <1>1 DEF FlattenSeq
  <2>. QED BY <1>1, <2>1 DEF Parallel
<1>2. CASE n # 0
  <2>1. PICK g : /\ FlattenSeq(a) = g[n] /\ g[1] = a[1]
                 /\ \A i \in 2 .. n : g[i] = g[i - 1] \o a[i]
    BY <1>2, FlattenIs
  <2>2. PICK h : /\ FlattenSeq(b) = h[n] /\ h[1] = b[1]
                 /\ \A i \in 2 .. n : h[i] = h[i - 1] \o b[i]
    BY <1>2, FlattenIs
  <2>3. PICK K : K = {k \in Nat : k < n => Parallel(T, U, a, b, k + 1, g[k + 1], h[k + 1])}
    OBVIOUS
  <2>4. 0 \in K
    <3>1. 1 \in 1 .. n /\ a[1] \in Seq(T) /\ b[1] \in Seq(U) /\ Len(a[1]) = Len(b[1])
      BY <1>2
    <3>2. Parallel(T, U, a, b, 1, a[1], b[1])
      <4>1. \A k \in 1 .. Len(a[1]) : \E i \in 1 .. 1 : \E j \in 1 .. Len(a[i]) :
              a[1][k] = a[i][j] /\ b[1][k] = b[i][j] /\ (k = 1 => j = 1)
        OBVIOUS
      <4>. QED BY <3>1, <4>1 DEF Parallel
    <3>. QED BY <2>1, <2>2, <2>3, <3>2
  <2>5. ASSUME NEW k \in Nat, k \in K PROVE k + 1 \in K
    <3>1. SUFFICES ASSUME k + 1 < n PROVE Parallel(T, U, a, b, k + 1 + 1, g[k + 1 + 1], h[k + 1 + 1])
      BY <2>3
    <3>2. PICK m : m = k + 1
      OBVIOUS
    <3>3. m \in Nat /\ m + 1 \in 2 .. n /\ m + 1 \in 1 .. n /\ (m + 1) - 1 = m
      BY <3>1, <3>2
    <3>4. Parallel(T, U, a, b, m, g[m], h[m])
      BY <2>3, <2>5, <3>1, <3>2
    <3>5. g[m + 1] = g[m] \o a[m + 1] /\ h[m + 1] = h[m] \o b[m + 1]
      BY <2>1, <2>2, <3>3
    <3>6. a[m + 1] \in Seq(T) /\ b[m + 1] \in Seq(U) /\ Len(a[m + 1]) = Len(b[m + 1])
      BY <3>3
    <3>7. Parallel(T, U, a, b, m + 1, g[m] \o a[m + 1], h[m] \o b[m + 1])
      BY <3>3, <3>4, <3>6, ParallelMore
    <3>. QED BY <3>2, <3>5, <3>7
  <2>6. n - 1 \in Nat /\ n - 1 < n /\ (n - 1) + 1 = n
    BY <1>2
  <2>7. n - 1 \in K
    BY <2>4, <2>5, <2>6, Applying!NatInd
  <2>. QED BY <2>1, <2>2, <2>3, <2>6, <2>7
<1>. QED BY <1>1, <1>2

ArePlaces(lc, items, at) ==
  /\ items \in Seq(Nat) /\ Len(items) \in Nat /\ Len(at) = Len(items) /\ IsLog(at)
  /\ \A k \in 1 .. Len(items) : Held(lc, at[k], items[k])
  /\ at # <<>> => \E i \in 1 .. Len(lc.chunks) : lc.chunks[i].items # <<>> /\ at[1] = Position(lc.chunks[i].id, 0)
  /\ \A i \in 1 .. Len(lc.chunks) : lc.chunks[i].items # <<>> => at # <<>> /\ items # <<>>

\* The positions of the items, in the order of the items.
LEMMA PositionsAre ==
  ASSUME NEW c, NEW lc, NEW n, Mirrored(c, lc, n)
  PROVE  ArePlaces(lc, ItemsOf(lc.chunks), Positions(lc))
<1>1. PICK m, chunks : m = Len(lc.chunks) /\ chunks = lc.chunks
  OBVIOUS
<1>2. /\ m \in Nat /\ chunks \in Seq(ChunkType) /\ DOMAIN chunks = 1 .. m
      /\ \A i \in 1 .. m : chunks[i].items \in Seq(Nat)
  BY <1>1, ChunksAre
<1>3. PICK U : U = {Position(chunks[q[1]].id, q[2]) : q \in (1 .. m) \X Nat}
  OBVIOUS
<1>4. PICK a : a = [i \in DOMAIN chunks |-> chunks[i].items]
  OBVIOUS
<1>5. PICK b : b = [i \in DOMAIN chunks |-> [j \in DOMAIN chunks[i].items |-> Position(chunks[i].id, j - 1)]]
  OBVIOUS
<1>6. \A i \in 1 .. m : a[i] = chunks[i].items
  BY <1>2, <1>4
<1>7. ASSUME NEW i \in 1 .. m
      PROVE  /\ a[i] \in Seq(Nat) /\ b[i] \in Seq(U) /\ Len(a[i]) = Len(b[i]) /\ Len(a[i]) \in Nat
             /\ \A j \in 1 .. Len(a[i]) : b[i][j] = Position(chunks[i].id, j - 1)
  <2>1. PICK w : w = chunks[i].items
    OBVIOUS
  <2>2. w \in Seq(Nat) /\ Len(w) \in Nat /\ DOMAIN w = 1 .. Len(w)
    BY <1>2, <2>1
  <2>3. b[i] = [j \in 1 .. Len(w) |-> Position(chunks[i].id, j - 1)]
    BY <1>2, <1>5, <2>1, <2>2
  <2>4. \A j \in 1 .. Len(w) : Position(chunks[i].id, j - 1) \in U
    <3>1. ASSUME NEW j \in 1 .. Len(w) PROVE Position(chunks[i].id, j - 1) \in U
      <4>1. <<i, j - 1>> \in (1 .. m) \X Nat
        BY <2>2
      <4>. QED BY <1>3, <4>1
    <3>. QED BY <3>1
  <2>5. b[i] \in Seq(U) /\ Len(b[i]) = Len(w)
    BY <2>2, <2>3, <2>4
  <2>. QED BY <1>6, <2>1, <2>2, <2>3, <2>5
<1>8. a \in Seq(Seq(Nat)) /\ b \in Seq(Seq(U)) /\ Len(a) = m /\ Len(b) = m
  <2>1. a = [i \in 1 .. m |-> a[i]] /\ b = [i \in 1 .. m |-> b[i]]
    BY <1>2, <1>4, <1>5
  <2>2. a \in [1 .. m -> Seq(Nat)]
    BY <1>7, <2>1
  <2>3. b \in [1 .. m -> Seq(U)]
    BY <1>7, <2>1
  <2>4. a \in Seq(Seq(Nat)) /\ Len(a) = m
    BY <1>2, <2>2
  <2>5. b \in Seq(Seq(U)) /\ Len(b) = m
    BY <1>2, <2>3
  <2>. QED BY <2>4, <2>5
<1>9. m = 0 => a = <<>> /\ b = <<>>
  BY <1>8
<1>10. PICK p, q : p = FlattenSeq(a) /\ q = FlattenSeq(b)
  OBVIOUS
<1>11. Parallel(Nat, U, a, b, m, p, q)
  BY <1>2, <1>7, <1>8, <1>9, <1>10, FlattenParallel
<1>12. p = ItemsOf(lc.chunks) /\ q = Positions(lc)
  BY <1>1, <1>4, <1>5, <1>10 DEF ItemsOf, Positions
<1>13. p \in Seq(Nat) /\ Len(p) \in Nat /\ Len(q) = Len(p) /\ q \in Seq(U) /\ IsLog(q)
  BY <1>11 DEF Parallel, IsLog
<1>14. ASSUME NEW k \in 1 .. Len(p)
       PROVE  \E i \in 1 .. m : \E j \in 1 .. Len(chunks[i].items) :
                p[k] = chunks[i].items[j] /\ q[k] = Position(chunks[i].id, j - 1) /\ (k = 1 => j = 1)
  <2>1. PICK i \in 1 .. m : \E j \in 1 .. Len(a[i]) : p[k] = a[i][j] /\ q[k] = b[i][j] /\ (k = 1 => j = 1)
    BY <1>11 DEF Parallel
  <2>. QED BY <1>6, <1>7, <2>1
<1>15. ASSUME NEW k \in 1 .. Len(p) PROVE Held(lc, q[k], p[k])
  BY <1>1, <1>14 DEF Held
<1>16. ASSUME q # <<>> PROVE \E i \in 1 .. m : chunks[i].items # <<>> /\ q[1] = Position(chunks[i].id, 0)
  <2>1. 1 \in 1 .. Len(p)
    BY <1>13, <1>16
  <2>2. PICK i \in 1 .. m : \E j \in 1 .. Len(chunks[i].items) :
                q[1] = Position(chunks[i].id, j - 1) /\ j = 1
    BY <1>14, <2>1
  <2>3. 1 \in 1 .. Len(chunks[i].items) /\ q[1] = Position(chunks[i].id, 0)
    BY <2>2
  <2>4. chunks[i].items # <<>>
    BY <2>3
  <2>. QED BY <2>3, <2>4
<1>17. ASSUME NEW i \in 1 .. m, chunks[i].items # <<>> PROVE p # <<>> /\ q # <<>>
  <2>1. p # <<>>
    BY <1>6, <1>11, <1>17 DEF Parallel
  <2>. QED BY <1>13, <2>1
<1>18. ArePlaces(lc, p, q)
  BY <1>1, <1>13, <1>15, <1>16, <1>17 DEF ArePlaces
<1>. QED BY <1>12, <1>18

\* A position has one event.
LEMMA HeldOnce ==
  ASSUME NEW c, NEW lc, NEW n, Mirrored(c, lc, n), NEW at, NEW f, NEW g, Held(lc, at, f), Held(lc, at, g)
  PROVE  f = g
<1>1. PICK i \in 1 .. Len(lc.chunks) : \E k \in 1 .. Len(lc.chunks[i].items) :
        at = Position(lc.chunks[i].id, k - 1) /\ lc.chunks[i].items[k] = f
  BY DEF Held
<1>2. PICK k \in 1 .. Len(lc.chunks[i].items) : at = Position(lc.chunks[i].id, k - 1) /\ lc.chunks[i].items[k] = f
  BY <1>1
<1>3. PICK j \in 1 .. Len(lc.chunks) : \E q \in 1 .. Len(lc.chunks[j].items) :
        at = Position(lc.chunks[j].id, q - 1) /\ lc.chunks[j].items[q] = g
  BY DEF Held
<1>4. PICK q \in 1 .. Len(lc.chunks[j].items) : at = Position(lc.chunks[j].id, q - 1) /\ lc.chunks[j].items[q] = g
  BY <1>3
<1>5. /\ at.chunk = lc.chunks[i].id /\ at.index = k - 1
      /\ at.chunk = lc.chunks[j].id /\ at.index = q - 1
  BY <1>2, <1>4 DEF Position
<1>6. i = j
  BY <1>5, ChunksAre
<1>7. k = q
  BY <1>5
<1>. QED BY <1>2, <1>4, <1>6, <1>7

\* What memory holds is an event of the room.
LEMMA HeldIsKnown ==
  ASSUME NEW c, NEW lc, NEW n, Mirrored(c, lc, n), NEW at, NEW f, Held(lc, at, f)
  PROVE  f \in Ev(c, lc)
<1>1. PICK i \in 1 .. Len(lc.chunks) : \E k \in 1 .. Len(lc.chunks[i].items) : lc.chunks[i].items[k] = f
  BY DEF Held
<1>2. \A k \in 1 .. Len(lc.chunks[i].items) : lc.chunks[i].items[k] \in Ev(c, lc)
  BY ChunksAre
<1>. QED BY <1>1, <1>2

-----------------------------------------------------------------------------
(* Following the links of the store.                                       *)

\* The rows of an empty list are none.
LEMMA NoneIsNoRows ==
  ASSUME NEW rows, NEW S, Nice(rows, S)
  PROVE  Len(S) \in Nat /\ (rows = NoRows <=> Len(S) = 0)
<1>1. Len(S) \in Nat /\ DOMAIN rows = {S[i] : i \in 1 .. Len(S)} /\ rows = [id \in DOMAIN rows |-> rows[id]]
  BY DEF Nice, Linked, Typed
<1>2. ASSUME Len(S) = 0 PROVE rows = NoRows
  <2>1. DOMAIN rows = {}
    BY <1>1, <1>2
  <2>. QED BY <1>1, <2>1 DEF NoRows
<1>3. ASSUME rows = NoRows PROVE Len(S) = 0
  <2>1. DOMAIN rows = {}
    BY <1>3 DEF NoRows
  <2>2. Len(S) > 0 => S[1] \in DOMAIN rows
    BY <1>1
  <2>3. Len(S) \in Nat
    BY <1>1
  <2>. QED BY <2>1, <2>2, <2>3
<1>. QED BY <1>1, <1>2, <1>3

\* As many rows as identifiers.
LEMMA CountRows ==
  ASSUME NEW rows, NEW S, Nice(rows, S)
  PROVE  IsFiniteSet(DOMAIN rows) /\ Cardinality(DOMAIN rows) = Len(S)
<1>1. PICK N, D : N = Len(S) /\ D = DOMAIN rows
  OBVIOUS
<1>2. N \in Nat /\ D = {S[i] : i \in 1 .. N} /\ \A i, j \in 1 .. N : S[i] = S[j] => i = j
  BY <1>1 DEF Nice, Linked
<1>3. PICK f : f = [i \in 1 .. N |-> S[i]]
  OBVIOUS
<1>4. f \in Bijection(1 .. N, D)
  <2>1. f \in [1 .. N -> D]
    BY <1>2, <1>3
  <2>2. f \in Injection(1 .. N, D)
    BY <1>2, <1>3, <2>1 DEF Injection, IsInjective
  <2>3. f \in Surjection(1 .. N, D)
    BY <1>2, <1>3, <2>1 DEF Surjection
  <2>. QED BY <2>2, <2>3 DEF Bijection
<1>5. ExistsBijection(1 .. N, D)
  BY <1>4 DEF ExistsBijection
<1>6. Cardinality(D) = N /\ IsFiniteSet(D)
  BY <1>2, <1>5, FS_CountingElements, FS_NatBijection
<1>. QED BY <1>1, <1>6

\* The one last chunk, and the largest identifier.
LEMMA LastIs ==
  ASSUME NEW rows, NEW S, Nice(rows, S), Len(S) > 0
  PROVE  /\ LastIds(rows) = {S[Len(S)]} /\ LastId(rows) = S[Len(S)]
         /\ MaxId(rows) \in DOMAIN rows /\ \A id \in DOMAIN rows : id <= MaxId(rows)
<1>1. PICK N, D : N = Len(S) /\ D = DOMAIN rows
  OBVIOUS
<1>2. /\ N \in Nat /\ N > 0 /\ D = {S[i] : i \in 1 .. N} /\ \A i, j \in 1 .. N : S[i] = S[j] => i = j
      /\ \A i \in 1 .. N : S[i] \in Nat
  BY <1>1 DEF Nice, Linked
<1>3. \A i \in 1 .. N : rows[S[i]].next = IF i = N THEN NoChunk ELSE S[i + 1]
  <2>1. \A i \in 1 .. N : rows[S[i]].next = Nth(S, i + 1)
    BY <1>1 DEF Nice, Linked
  <2>. QED BY <1>1, <1>2, <2>1 DEF Nth
<1>4. \A i \in 1 .. N : rows[S[i]].next = NoChunk <=> i = N
  <2>1. \A i \in 1 .. N : i # N => i + 1 \in 1 .. N
    BY <1>2
  <2>. QED BY <1>2, <1>3, <2>1 DEF NoChunk
<1>5. LastIds(rows) = {S[N]}
  <2>1. N \in 1 .. N
    BY <1>2
  <2>2. ASSUME NEW x PROVE x \in LastIds(rows) <=> x = S[N]
    BY <1>1, <1>2, <1>4, <2>1 DEF LastIds
  <2>. QED BY <2>2
<1>6. LastId(rows) = S[N]
  BY <1>5 DEF LastId
<1>7. PICK R : R = {p \in D \X D : p[1] < p[2]}
  OBVIOUS
<1>8. \A a, b \in D : <<a, b>> \in R <=> a < b
  BY <1>7
<1>9. Orders(R, D)
  <2>1. \A a \in D : a \in Nat
    BY <1>2
  <2>. QED BY <1>8, <2>1 DEF Orders
<1>10. D # {} /\ IsFiniteSet(D)
  <2>1. S[1] \in D
    BY <1>2
  <2>2. IsFiniteSet(D)
    BY <1>1, CountRows
  <2>. QED BY <2>1, <2>2
<1>11. PICK m \in D : \A d \in D : d = m \/ <<d, m>> \in R
  BY <1>9, <1>10, LastOne
<1>12. \A d \in D : m >= d
  <2>1. \A a \in D : a \in Nat
    BY <1>2
  <2>2. ASSUME NEW d \in D PROVE m >= d
    <3>1. d \in Nat /\ m \in Nat /\ (d = m \/ <<d, m>> \in R)
      BY <1>11, <2>1
    <3>2. <<d, m>> \in R => d < m
      BY <1>8
    <3>. QED BY <3>1, <3>2
  <2>. QED BY <2>2
<1>13. Max(D) \in D /\ \A d \in D : Max(D) >= d
  BY <1>12, Zenon DEF Max
<1>14. PICK x : x = Max(D)
  OBVIOUS
<1>15. x \in D /\ \A d \in D : d <= x
  <2>1. \A a \in D : a \in Nat
    BY <1>2
  <2>. QED BY <1>13, <1>14, <2>1
<1>. QED BY <1>1, <1>5, <1>6, <1>14, <1>15 DEF MaxId

IsBack(g, rows, N) ==
  g = [n \in 1 .. N |-> IF n = 1 THEN LastId(rows)
                        ELSE IF g[n - 1] \in DOMAIN rows THEN rows[g[n - 1]].prev ELSE NoChunk]

\* The function that follows the links is the list, backwards.
LEMMA BackIs ==
  ASSUME NEW rows, NEW S, Nice(rows, S), Len(S) > 0, NEW N, N = Len(S), NEW h
  PROVE  IsBack(h, rows, N) <=> h = [n \in 1 .. N |-> S[N - n + 1]]
<1>1. /\ N \in Nat /\ N > 0 /\ DOMAIN rows = {S[i] : i \in 1 .. N}
      /\ \A i \in 1 .. N : rows[S[i]].prev = Nth(S, i - 1)
  BY DEF Nice, Linked
<1>2. LastId(rows) = S[N]
  BY LastIs
<1>3. \A i \in 2 .. N : rows[S[i]].prev = S[i - 1]
  <2>1. \A i \in 2 .. N : i \in 1 .. N /\ i - 1 \in 1 .. N
    BY <1>1
  <2>. QED BY <1>1, <2>1 DEF Nth
<1>4. ASSUME h = [n \in 1 .. N |-> S[N - n + 1]] PROVE IsBack(h, rows, N)
  <2>1. ASSUME NEW n \in 1 .. N
        PROVE  h[n] = IF n = 1 THEN LastId(rows)
                      ELSE IF h[n - 1] \in DOMAIN rows THEN rows[h[n - 1]].prev ELSE NoChunk
    <3>1. CASE n = 1
      BY <1>1, <1>2, <1>4, <3>1
    <3>2. CASE n # 1
      <4>1. n - 1 \in 1 .. N /\ N - (n - 1) + 1 \in 2 .. N /\ N - (n - 1) + 1 \in 1 .. N
        BY <1>1, <3>2
      <4>2. PICK i : i = N - (n - 1) + 1
        OBVIOUS
      <4>3. h[n - 1] = S[i] /\ S[i] \in DOMAIN rows /\ i - 1 = N - n + 1
        BY <1>1, <1>4, <4>1, <4>2
      <4>4. rows[S[i]].prev = S[i - 1]
        BY <1>3, <4>1, <4>2
      <4>. QED BY <1>4, <3>2, <4>3, <4>4
    <3>. QED BY <3>1, <3>2
  <2>. QED BY <1>4, <2>1 DEF IsBack
<1>5. ASSUME IsBack(h, rows, N) PROVE h = [n \in 1 .. N |-> S[N - n + 1]]
  <2>1. \A n \in 1 .. N : h[n] = IF n = 1 THEN LastId(rows)
                      ELSE IF h[n - 1] \in DOMAIN rows THEN rows[h[n - 1]].prev ELSE NoChunk
    BY <1>5 DEF IsBack
  <2>2. PICK K : K = {k \in Nat : k + 1 \in 1 .. N => h[k + 1] = S[N - k]}
    OBVIOUS
  <2>3. 0 \in K
    BY <1>1, <1>2, <2>1, <2>2
  <2>4. ASSUME NEW k \in Nat, k \in K PROVE k + 1 \in K
    <3>1. CASE k + 2 \notin 1 .. N
      BY <2>2, <3>1
    <3>2. CASE k + 2 \in 1 .. N
      <4>1. k + 1 \in 1 .. N /\ h[k + 1] = S[N - k] /\ N - k \in 2 .. N /\ N - k \in 1 .. N
        BY <1>1, <2>2, <2>4, <3>2
      <4>2. PICK i, j : i = N - k /\ j = k + 2
        OBVIOUS
      <4>3. j \in 1 .. N /\ j # 1 /\ j - 1 = k + 1 /\ h[j - 1] = S[i] /\ S[i] \in DOMAIN rows
        BY <1>1, <3>2, <4>1, <4>2
      <4>4. rows[S[i]].prev = S[i - 1]
        BY <1>3, <4>1, <4>2
      <4>5. h[j] = S[i - 1]
        BY <2>1, <4>3, <4>4
      <4>6. (k + 1) + 1 = j /\ N - (k + 1) = i - 1
        BY <1>1, <4>2
      <4>. QED BY <2>2, <4>5, <4>6
    <3>. QED BY <3>1, <3>2
  <2>5. \A k \in Nat : k \in K
    BY <2>3, <2>4, Applying!NatInd
  <2>6. ASSUME NEW n \in 1 .. N PROVE h[n] = S[N - n + 1]
    <3>1. n - 1 \in Nat /\ (n - 1) + 1 = n /\ N - (n - 1) = N - n + 1
      BY <1>1
    <3>. QED BY <2>2, <2>5, <3>1
  <2>7. h = [n \in 1 .. N |-> h[n]]
    BY <1>5 DEF IsBack
  <2>. QED BY <2>6, <2>7
<1>. QED BY <1>4, <1>5

\* The rows by their links, backwards.
LEMMA BackwardsIs ==
  ASSUME NEW rows, NEW S, Nice(rows, S), Len(S) > 0
  PROVE  Backwards(rows) = [n \in 1 .. Len(S) |-> S[Len(S) - n + 1]]
<1>1. PICK N : N = Len(S)
  OBVIOUS
<1>2. Cardinality(DOMAIN rows) = N
  BY <1>1, CountRows
<1>3. Backwards(rows) = CHOOSE g : IsBack(g, rows, N)
  BY <1>2 DEF Backwards, IsBack
<1>4. PICK t : t = [n \in 1 .. N |-> S[N - n + 1]]
  OBVIOUS
<1>5. \A h : IsBack(h, rows, N) <=> h = t
  BY <1>1, <1>4, BackIs
<1>6. (CHOOSE g : IsBack(g, rows, N)) = t
  <2>1. IsBack(CHOOSE g : IsBack(g, rows, N), rows, N)
    BY <1>5, Zenon
  <2>. QED BY <1>5, <2>1
<1>. QED BY <1>1, <1>3, <1>4, <1>6

\* Rows that are linked in the order of a list are what load_linked_chunk_metadata accepts, and
\* the chunks that lazy loading finds one by one are those of the list.
THEOREM NiceWellFormed ==
  ASSUME NEW rows, NEW S, Nice(rows, S)
  PROVE  WellFormed(rows) /\ Chain(rows) = Loaded(rows, S, 0)
<1>1. PICK N : N = Len(S)
  OBVIOUS
<1>2. N \in Nat /\ (rows = NoRows <=> N = 0)
  BY <1>1, NoneIsNoRows
<1>3. CASE N = 0
  <2>1. rows = NoRows
    BY <1>2, <1>3
  <2>2. Loaded(rows, S, 0) = <<>>
    BY <1>1, <1>3 DEF Loaded
  <2>. QED BY <2>1, <2>2 DEF WellFormed, Chain
<1>4. CASE N > 0
  <2>1. PICK back : back = Backwards(rows)
    OBVIOUS
  <2>2. back = [n \in 1 .. N |-> S[N - n + 1]]
    BY <1>1, <1>4, <2>1, BackwardsIs
  <2>3. Cardinality(DOMAIN rows) = N /\ LastIds(rows) = {S[N]}
    BY <1>1, <1>4, CountRows, LastIs
  <2>4. /\ DOMAIN rows = {S[i] : i \in 1 .. N}
        /\ \A i \in 1 .. N : rows[S[i]].prev = Nth(S, i - 1) /\ rows[S[i]].next = Nth(S, i + 1)
    BY <1>1 DEF Nice, Linked
  <2>5. \A n \in 1 .. N : back[n] = S[N - n + 1] /\ N - n + 1 \in 1 .. N /\ N - (N - n + 1) + 1 = n
    BY <1>2, <2>2
  <2>6. {back[n] : n \in DOMAIN back} = DOMAIN rows
    <3>1. ASSUME NEW x \in DOMAIN rows PROVE \E n \in 1 .. N : back[n] = x
      <4>1. PICK i \in 1 .. N : x = S[i]
        BY <2>4
      <4>2. N - i + 1 \in 1 .. N /\ back[N - i + 1] = S[i]
        <5>1. PICK k : k = N - i + 1
          OBVIOUS
        <5>2. k \in 1 .. N /\ N - k + 1 = i
          BY <1>2, <5>1
        <5>. QED BY <2>5, <5>1, <5>2
      <4>. QED BY <4>1, <4>2
    <3>2. \A n \in 1 .. N : back[n] \in DOMAIN rows
      BY <2>4, <2>5
    <3>3. DOMAIN back = 1 .. N
      BY <2>2
    <3>. QED BY <3>1, <3>2, <3>3
  <2>7. rows[back[N]].prev = NoChunk
    <3>1. back[N] = S[1] /\ 1 \in 1 .. N
      BY <1>2, <1>4, <2>5
    <3>2. rows[S[1]].prev = Nth(S, 0)
      BY <2>4, <3>1
    <3>. QED BY <3>1, <3>2 DEF Nth
  <2>8. \A n \in DOMAIN back : n > 1 => rows[back[n]].next = back[n - 1]
    <3>1. ASSUME NEW n \in 1 .. N, n > 1 PROVE rows[back[n]].next = back[n - 1]
      <4>1. PICK i : i = N - n + 1
        OBVIOUS
      <4>2. i \in 1 .. N /\ i + 1 \in 1 .. N /\ back[n] = S[i] /\ n - 1 \in 1 .. N /\ N - (n - 1) + 1 = i + 1
        BY <1>2, <2>5, <3>1, <4>1
      <4>3. back[n - 1] = S[i + 1]
        BY <2>5, <4>2
      <4>4. rows[S[i]].next = S[i + 1]
        BY <1>1, <2>4, <4>2 DEF Nth
      <4>. QED BY <4>2, <4>3, <4>4
    <3>2. DOMAIN back = 1 .. N
      BY <2>2
    <3>. QED BY <3>1, <3>2
  <2>9. Cardinality(LastIds(rows)) = 1
    BY <2>3, FS_Singleton
  <2>10. WellFormed(rows)
    BY <2>1, <2>3, <2>6, <2>7, <2>8, <2>9 DEF WellFormed
  <2>11. Chain(rows) = Loaded(rows, S, 0)
    <3>1. rows # NoRows
      BY <1>2, <1>4
    <3>2. DOMAIN back = 1 .. N
      BY <2>2
    <3>3. Chain(rows) = [n \in 1 .. N |-> Chunk(back[N - n + 1], rows[back[N - n + 1]].gap, rows[back[N - n + 1]].items)]
      BY <2>1, <2>3, <3>1, <3>2 DEF Chain
    <3>4. \A n \in 1 .. N : back[N - n + 1] = S[n]
      <4>1. ASSUME NEW n \in 1 .. N PROVE back[N - n + 1] = S[n]
        <5>1. PICK k : k = N - n + 1
          OBVIOUS
        <5>2. k \in 1 .. N /\ N - k + 1 = n
          BY <1>2, <5>1
        <5>. QED BY <2>5, <5>1, <5>2
      <4>. QED BY <4>1
    <3>5. Loaded(rows, S, 0) = [n \in 1 .. N |-> Chunk(S[n], rows[S[n]].gap, rows[S[n]].items)]
      <4>1. N - 0 = N /\ \A n \in 1 .. N : 0 + n = n
        BY <1>2
      <4>. QED BY <1>1, <4>1 DEF Loaded
    <3>. QED BY <3>3, <3>4, <3>5
  <2>. QED BY <2>10, <2>11
<1>. QED BY <1>2, <1>3, <1>4
=============================================================================
