------------------------ MODULE RoomEventCacheProofs ------------------------
(***************************************************************************)
(* The store mirrors memory, and the order tracker knows the whole room:   *)
(* the proof, for every value of the constants.                            *)
(*                                                                         *)
(* Between two operations the cache is at rest (AtRest): either the room   *)
(* is new and the store has yet to see its first chunk (Fresh), or what    *)
(* the store has yet to see only takes out gaps and replaces events by     *)
(* themselves (Lagging), so that a position read from the store is valid   *)
(* in memory as well. That some updates may wait is needed: a panic in     *)
(* push_backwards_pagination_events leaves the removal of a gap behind,    *)
(* and nothing propagates it before the next operation does. The order     *)
(* tracker lags by as little (Tracks): it is told of an event that only    *)
(* the store loses at once, ahead of the updates that wait for it, which   *)
(* is exact only because those are small. Inside an operation it may lag   *)
(* by more (Stable), until updates_as_vector_diffs.                        *)
(***************************************************************************)
EXTENDS RoomEventCache, LinkedChunkProofs

-----------------------------------------------------------------------------
(* remove_events, in memory and in the store.                              *)

Removing == INSTANCE Folding WITH Op <- RemoveItemAt

\* The positions are in the order in which they can be removed one by one.
Sorted(P, m, s) ==
  /\ m \in Nat /\ s \in [1 .. m -> P]
  /\ \A i, j \in 1 .. m : i < j => Above(s[i], s[j])
  /\ \A p \in P : \E i \in 1 .. m : s[i] = p

ArePositions(P) == \A p \in P : p.chunk \in Nat /\ p.index \in Nat /\ p = Position(p.chunk, p.index)

\* Position::cmp orders what is to be removed, so that there is an order to remove it in.
LEMMA SortedIs ==
  ASSUME NEW P, IsFiniteSet(P), ArePositions(P)
  PROVE  Sorted(P, Cardinality(P), SortDescending(P))
<1>1. PICK m : m = Cardinality(P)
  OBVIOUS
<1>2. PICK R : R = {q \in P \X P : Above(q[1], q[2])}
  OBVIOUS
<1>3. \A a, b \in P : <<a, b>> \in R <=> Above(a, b)
  BY <1>2
<1>4. Orders(R, P)
  <2>1. ASSUME NEW a \in P, NEW b \in P, a # b PROVE Above(a, b) \/ Above(b, a)
    <3>1. a.chunk \in Nat /\ a.index \in Nat /\ b.chunk \in Nat /\ b.index \in Nat
      BY DEF ArePositions
    <3>2. a.chunk # b.chunk \/ a.index # b.index
      BY <2>1 DEF ArePositions
    <3>. QED BY <3>1, <3>2 DEF Above
  <2>2. ASSUME NEW a \in P PROVE ~Above(a, a)
    BY DEF Above, ArePositions
  <2>3. ASSUME NEW a \in P, NEW b \in P, NEW d \in P, Above(a, b), Above(b, d) PROVE Above(a, d)
    <3>1. /\ a.chunk \in Nat /\ a.index \in Nat /\ b.chunk \in Nat /\ b.index \in Nat
          /\ d.chunk \in Nat /\ d.index \in Nat
      BY DEF ArePositions
    <3>. QED BY <2>3, <3>1 DEF Above
  <2>. QED BY <1>3, <2>1, <2>2, <2>3 DEF Orders
<1>5. \E s \in [1 .. m -> P] : InTheOrder(R, m, s)
  BY <1>1, <1>4, Listed
<1>6. \E s \in [1 .. m -> P] : \A i, j \in DOMAIN s : i < j => Above(s[i], s[j])
  <2>1. PICK s \in [1 .. m -> P] : InTheOrder(R, m, s)
    BY <1>5
  <2>2. \A i, j \in DOMAIN s : i < j => Above(s[i], s[j])
    BY <1>3, <2>1 DEF InTheOrder
  <2>. QED BY <2>2
<1>7. PICK t : t = SortDescending(P)
  OBVIOUS
<1>8. t \in [1 .. m -> P] /\ \A i, j \in DOMAIN t : i < j => Above(t[i], t[j])
  BY <1>1, <1>6, <1>7, Zenon DEF SortDescending
<1>9. InTheOrder(R, m, t)
  BY <1>3, <1>8 DEF InTheOrder
<1>10. m \in Nat /\ \A d \in P : \E i \in 1 .. m : t[i] = d
  BY <1>1, <1>4, <1>8, <1>9, ListedAll
<1>. QED BY <1>1, <1>7, <1>8, <1>10 DEF Sorted

\* Everything at these positions is gone.
RemovedAll(c, lc, n, P, after) ==
  /\ Mirrored(c, after, n)
  /\ Len(after.chunks) > 0
  /\ \A e \in Ev(c, after) : e \in Ev(c, lc) /\ \A p \in P : ~Held(lc, p, e)
  /\ GapsKept(lc, after)

\* What is true after k of the removals.
Removing1(c, lc, n, s, m, k, x) ==
  /\ Mirrored(c, x, n)
  /\ Len(x.chunks) > 0
  /\ \A e \in Ev(c, x) : e \in Ev(c, lc) /\ \A j \in 1 .. k : ~Held(lc, s[j], e)
  /\ \A j \in k + 1 .. m : \A f : Held(lc, s[j], f) => Held(x, s[j], f)
  /\ GapsKept(lc, x)

\* remove_events in memory: no position is stale when its turn comes.
LEMMA RemoveAllIs ==
  ASSUME NEW c, NEW lc, NEW n, Mirrored(c, lc, n), Len(lc.chunks) > 0, NEW P, IsFiniteSet(P), ArePositions(P),
         \A p \in P : \E f : Held(lc, p, f)
  PROVE  RemovedAll(c, lc, n, P, FoldLeft(RemoveItemAt, lc, SortDescending(P)))
<1>1. PICK m, s : m = Cardinality(P) /\ s = SortDescending(P)
  OBVIOUS
<1>2. Sorted(P, m, s)
  BY <1>1, SortedIs
<1>3. m \in Nat /\ s \in [1 .. m -> P] /\ DOMAIN s = 1 .. m
  BY <1>2 DEF Sorted
<1>4. FoldLeft(RemoveItemAt, lc, s) = Removing!Fold(lc, s)
  BY DEF Removing!Fold, Removing!FoldLeft, FoldLeft, Removing!MapThenFoldSet, MapThenFoldSet, Removing!Max, Max
<1>5. PICK F : Removing!IsRun(F, lc, s, m) /\ F[m] = Removing!Fold(lc, s)
  BY <1>3, Removing!FoldRuns
<1>6. F[0] = lc /\ \A k \in 1 .. m : F[k] = RemoveItemAt(F[k - 1], s[k])
  BY <1>5 DEF Removing!IsRun
<1>7. PICK K : K = {k \in Nat : k <= m => Removing1(c, lc, n, s, m, k, F[k])}
  OBVIOUS
<1>8. 0 \in K
  <2>1. GapsKept(lc, lc)
    BY DEF GapsKept
  <2>. QED BY <1>6, <1>7, <2>1 DEF Removing1
<1>9. ASSUME NEW k \in Nat, k \in K PROVE k + 1 \in K
  <2>1. SUFFICES ASSUME k + 1 <= m PROVE Removing1(c, lc, n, s, m, k + 1, F[k + 1])
    BY <1>7
  <2>2. PICK x, y, at : x = F[k] /\ y = F[k + 1] /\ at = s[k + 1]
    OBVIOUS
  <2>3. k + 1 \in 1 .. m /\ (k + 1) - 1 = k /\ k <= m /\ k + 1 \in k + 1 .. m
    BY <1>3, <2>1
  <2>4. y = RemoveItemAt(x, at)
    BY <1>6, <2>2, <2>3
  <2>5. Removing1(c, lc, n, s, m, k, x)
    BY <1>7, <1>9, <2>2, <2>3
  <2>6. /\ Mirrored(c, x, n) /\ GapsKept(lc, x)
        /\ \A e \in Ev(c, x) : e \in Ev(c, lc) /\ \A j \in 1 .. k : ~Held(lc, s[j], e)
        /\ \A j \in k + 1 .. m : \A f : Held(lc, s[j], f) => Held(x, s[j], f)
    BY <2>5 DEF Removing1
  <2>7. at \in P
    BY <1>3, <2>2, <2>3
  <2>8. PICK f : Held(lc, at, f)
    BY <2>7
  <2>9. \A g : Held(lc, at, g) => Removed(c, x, n, at, g, y)
    <3>1. ASSUME NEW g, Held(lc, at, g) PROVE Removed(c, x, n, at, g, y)
      <4>1. Held(x, at, g)
        BY <2>2, <2>3, <2>6, <3>1
      <4>. QED BY <2>4, <2>6, <4>1, RemoveItemIs
    <3>. QED BY <3>1
  <2>10. /\ Mirrored(c, y, n) /\ Len(y.chunks) > 0 /\ GapsKept(x, y)
         /\ \A e \in Ev(c, y) : e \in Ev(c, x)
         /\ \A p, g : Held(x, p, g) /\ (p.chunk # at.chunk \/ p.index < at.index) => Held(y, p, g)
    BY <2>8, <2>9 DEF Removed
  <2>11. ASSUME NEW e \in Ev(c, y) PROVE e \in Ev(c, lc) /\ \A j \in 1 .. k + 1 : ~Held(lc, s[j], e)
    <3>1. e \in Ev(c, lc) /\ \A j \in 1 .. k : ~Held(lc, s[j], e)
      BY <2>6, <2>10
    <3>2. ~Held(lc, at, e)
      BY <2>9 DEF Removed
    <3>3. \A j \in 1 .. k + 1 : j \in 1 .. k \/ j = k + 1
      OBVIOUS
    <3>. QED BY <2>2, <3>1, <3>2, <3>3
  <2>12. ASSUME NEW j \in k + 1 + 1 .. m, NEW g, Held(lc, s[j], g) PROVE Held(y, s[j], g)
    <3>1. j \in k + 1 .. m /\ j \in 1 .. m /\ k + 1 < j
      BY <1>3, <2>3
    <3>2. Above(at, s[j])
      BY <1>2, <2>2, <2>3, <3>1 DEF Sorted
    <3>3. PICK p : p = s[j]
      OBVIOUS
    <3>4. p \in P
      BY <1>3, <3>1, <3>3
    <3>5. p.chunk # at.chunk \/ p.index < at.index
      BY <2>7, <3>2, <3>3, <3>4 DEF Above, ArePositions
    <3>6. Held(x, p, g)
      BY <2>6, <2>12, <3>1, <3>3
    <3>. QED BY <2>10, <3>3, <3>5, <3>6
  <2>13. GapsKept(lc, y)
    <3>1. ASSUME NEW i \in 1 .. Len(lc.chunks), lc.chunks[i].gap # NoToken
          PROVE  \E j \in 1 .. Len(y.chunks) : y.chunks[j] = lc.chunks[i]
      <4>1. PICK j \in 1 .. Len(x.chunks) : x.chunks[j] = lc.chunks[i]
        BY <2>6, <3>1 DEF GapsKept
      <4>. QED BY <2>10, <3>1, <4>1 DEF GapsKept
    <3>. QED BY <3>1 DEF GapsKept
  <2>. QED BY <2>2, <2>10, <2>11, <2>12, <2>13 DEF Removing1
<1>10. \A k \in Nat : k \in K
  BY <1>8, <1>9, Removing!NatInd
<1>11. Removing1(c, lc, n, s, m, m, F[m])
  BY <1>3, <1>7, <1>10
<1>12. PICK z : z = F[m]
  OBVIOUS
<1>13. /\ Mirrored(c, z, n) /\ Len(z.chunks) > 0 /\ GapsKept(lc, z)
       /\ \A e \in Ev(c, z) : e \in Ev(c, lc) /\ \A j \in 1 .. m : ~Held(lc, s[j], e)
  BY <1>11, <1>12 DEF Removing1
<1>14. \A p \in P : \E i \in 1 .. m : s[i] = p
  BY <1>2 DEF Sorted
<1>15. RemovedAll(c, lc, n, P, z)
  BY <1>13, <1>14 DEF RemovedAll
<1>. QED BY <1>1, <1>4, <1>5, <1>12, <1>15

StoreRemovedAll(rows, lc, n, P, after, w) ==
  /\ Lagging(after, lc, n)
  /\ Tracks(w, after, lc, n)
  /\ \A e \in StoredEvents(Behind(after, lc)) : e \in StoredEvents(Behind(rows, lc)) /\ \A p \in P : ~HeldRow(rows, p, e)

\* What is true after k of the removals.
StoreRemoving(rows, lc, n, s, m, k, x, g) ==
  /\ Lagging(x, lc, n)
  /\ IsMapper(g) /\ Tracks(g.chunks, x, lc, n)
  /\ \A e \in StoredEvents(Behind(x, lc)) : e \in StoredEvents(Behind(rows, lc)) /\ \A j \in 1 .. k : ~HeldRow(rows, s[j], e)
  /\ \A j \in k + 1 .. m : \A f : HeldRow(rows, s[j], f) => HeldRow(x, s[j], f)

\* The tracker keeps the chunks that the updates make it know.
LEMMA TrackIs ==
  ASSUME NEW t, NEW log, IsMapper(HeardOf(t, log))
  PROVE  TrackUpdates(t, log) = HeardOf(t, log).chunks
<1>1. PICK h : h = HeardOf(t, log)
  OBVIOUS
<1>2. TrackUpdates(t, log) = [h EXCEPT !.reattaching = FALSE, !.detaching = FALSE].chunks
  BY <1>1 DEF TrackUpdates, MapUpdates, HeardOf, Blank
<1>3. PICK c, v, a, b : h = [chunks |-> c, vector |-> v, reattaching |-> a, detaching |-> b]
  BY <1>1 DEF IsMapper
<1>4. [h EXCEPT !.reattaching = FALSE, !.detaching = FALSE].chunks = h.chunks
  BY <1>3
<1>. QED BY <1>1, <1>2, <1>4

\* remove_events in the store: no position is stale when its turn comes, and what waits for
\* the store is not disturbed.
LEMMA StoreRemoveAllIs ==
  ASSUME NEW rows, NEW lc, NEW n, Lagging(rows, lc, n), NEW t, Tracks(t, rows, lc, n),
         NEW P, IsFiniteSet(P), ArePositions(P),
         \A p \in P : \E f : HeldRow(rows, p, f), \A p \in P : Unloaded(lc, p.chunk),
         NEW s, s = SortDescending(P), NEW ops, ops = [i \in DOMAIN s |-> RemoveItem(s[i])]
  PROVE  StoreRemovedAll(rows, lc, n, P, Apply(rows, ops), TrackUpdates(t, ops))
<1>1. PICK m : m = Cardinality(P)
  OBVIOUS
<1>2. Sorted(P, m, s)
  BY <1>1, SortedIs
<1>3. m \in Nat /\ s \in [1 .. m -> P] /\ DOMAIN s = 1 .. m
  BY <1>2 DEF Sorted
<1>4. DOMAIN ops = 1 .. m /\ \A k \in 1 .. m : ops[k] = RemoveItem(s[k])
  BY <1>3
<1>5. PICK F : Applying!IsRun(F, rows, ops, m) /\ F[m] = Applying!Fold(rows, ops)
  BY <1>3, <1>4, Applying!FoldRuns
<1>6. F[0] = rows /\ \A k \in 1 .. m : F[k] = ApplyUpdate(F[k - 1], RemoveItem(s[k]))
  BY <1>4, <1>5 DEF Applying!IsRun
<1>7. PICK b : b = Blank(t)
  OBVIOUS
<1>8. PICK G : Tracking!IsRun(G, b, ops, m) /\ G[m] = Tracking!Fold(b, ops)
  BY <1>3, <1>4, Tracking!FoldRuns
<1>9. G[0] = b /\ \A k \in 1 .. m : G[k] = MapUpdate(G[k - 1], RemoveItem(s[k]))
  BY <1>4, <1>8 DEF Tracking!IsRun
<1>10. PICK K : K = {k \in Nat : k <= m => StoreRemoving(rows, lc, n, s, m, k, F[k], G[k])}
  OBVIOUS
<1>11. 0 \in K
  <2>1. IsMapper(b) /\ b.chunks = t
    BY <1>7 DEF Blank, IsMapper
  <2>. QED BY <1>6, <1>10, <1>9, <2>1 DEF StoreRemoving
<1>12. ASSUME NEW k \in Nat, k \in K PROVE k + 1 \in K
  <2>1. SUFFICES ASSUME k + 1 <= m PROVE StoreRemoving(rows, lc, n, s, m, k + 1, F[k + 1], G[k + 1])
    BY <1>10
  <2>2. PICK x, y, at, g, h : x = F[k] /\ y = F[k + 1] /\ at = s[k + 1] /\ g = G[k] /\ h = G[k + 1]
    OBVIOUS
  <2>3. k + 1 \in 1 .. m /\ (k + 1) - 1 = k /\ k <= m /\ k + 1 \in k + 1 .. m
    BY <1>3, <2>1
  <2>4. y = ApplyUpdate(x, RemoveItem(at)) /\ h = MapUpdate(g, RemoveItem(at))
    BY <1>6, <1>9, <2>2, <2>3
  <2>5. StoreRemoving(rows, lc, n, s, m, k, x, g)
    BY <1>10, <1>12, <2>2, <2>3
  <2>6. /\ Lagging(x, lc, n) /\ IsMapper(g) /\ Tracks(g.chunks, x, lc, n)
        /\ \A e \in StoredEvents(Behind(x, lc)) : e \in StoredEvents(Behind(rows, lc)) /\ \A j \in 1 .. k : ~HeldRow(rows, s[j], e)
        /\ \A j \in k + 1 .. m : \A f : HeldRow(rows, s[j], f) => HeldRow(x, s[j], f)
    BY <2>5 DEF StoreRemoving
  <2>7. at \in P
    BY <1>3, <2>2, <2>3
  <2>8. PICK f : HeldRow(rows, at, f)
    BY <2>7
  <2>9. \A e : HeldRow(rows, at, e) => StoreRemoved(x, lc, n, at, e, y)
    <3>1. ASSUME NEW e, HeldRow(rows, at, e) PROVE StoreRemoved(x, lc, n, at, e, y)
      <4>1. HeldRow(x, at, e)
        BY <2>2, <2>3, <2>6, <3>1
      <4>2. Unloaded(lc, at.chunk)
        BY <2>7
      <4>. QED BY <2>4, <2>6, <4>1, <4>2, StoreRemoveIs
    <3>. QED BY <3>1
  <2>10. /\ Lagging(y, lc, n)
         /\ \A e \in StoredEvents(Behind(y, lc)) : e \in StoredEvents(Behind(x, lc))
         /\ \A p, e : HeldRow(x, p, e) /\ (p.chunk # at.chunk \/ p.index < at.index) => HeldRow(y, p, e)
    BY <2>8, <2>9 DEF StoreRemoved
  <2>11. ASSUME NEW e \in StoredEvents(Behind(y, lc))
         PROVE  e \in StoredEvents(Behind(rows, lc)) /\ \A j \in 1 .. k + 1 : ~HeldRow(rows, s[j], e)
    <3>1. e \in StoredEvents(Behind(rows, lc)) /\ \A j \in 1 .. k : ~HeldRow(rows, s[j], e)
      BY <2>6, <2>10
    <3>2. ~HeldRow(rows, at, e)
      BY <2>9 DEF StoreRemoved
    <3>3. \A j \in 1 .. k + 1 : j \in 1 .. k \/ j = k + 1
      OBVIOUS
    <3>. QED BY <2>2, <3>1, <3>2, <3>3
  <2>12. ASSUME NEW j \in k + 1 + 1 .. m, NEW e, HeldRow(rows, s[j], e) PROVE HeldRow(y, s[j], e)
    <3>1. j \in k + 1 .. m /\ j \in 1 .. m /\ k + 1 < j
      BY <1>3, <2>3
    <3>2. Above(at, s[j])
      BY <1>2, <2>2, <2>3, <3>1 DEF Sorted
    <3>3. PICK p : p = s[j]
      OBVIOUS
    <3>4. p \in P
      BY <1>3, <3>1, <3>3
    <3>5. p.chunk # at.chunk \/ p.index < at.index
      BY <2>7, <3>2, <3>3, <3>4 DEF Above, ArePositions
    <3>6. HeldRow(x, p, e)
      BY <2>6, <2>12, <3>1, <3>3
    <3>. QED BY <2>10, <3>3, <3>5, <3>6
  <2>13. IsMapper(h) /\ Tracks(h.chunks, y, lc, n)
    <3>1. Distinct(g.chunks)
      BY <2>6 DEF Tracks
    <3>2. IsMapper(h) /\ Shorter(g.chunks, at.chunk, h.chunks)
      BY <2>4, <2>6, <3>1, RemoveShortens
    <3>3. HeldRow(x, at, f) /\ Unloaded(lc, at.chunk)
      BY <2>2, <2>3, <2>6, <2>7, <2>8
    <3>. QED BY <2>4, <2>6, <3>2, <3>3, StoreTracks
  <2>. QED BY <2>2, <2>10, <2>11, <2>12, <2>13 DEF StoreRemoving
<1>13. \A k \in Nat : k \in K
  BY <1>11, <1>12, Applying!NatInd
<1>14. StoreRemoving(rows, lc, n, s, m, m, F[m], G[m])
  BY <1>3, <1>10, <1>13
<1>15. PICK z, w : z = F[m] /\ w = G[m]
  OBVIOUS
<1>16. /\ Lagging(z, lc, n) /\ IsMapper(w) /\ Tracks(w.chunks, z, lc, n)
       /\ \A e \in StoredEvents(Behind(z, lc)) : e \in StoredEvents(Behind(rows, lc)) /\ \A j \in 1 .. m : ~HeldRow(rows, s[j], e)
  BY <1>14, <1>15 DEF StoreRemoving
<1>17. \A p \in P : \E i \in 1 .. m : s[i] = p
  BY <1>2 DEF Sorted
<1>18. StoreRemovedAll(rows, lc, n, P, z, w.chunks)
  BY <1>16, <1>17 DEF StoreRemovedAll
<1>19. HeardOf(t, ops) = w
  BY <1>15, <1>7, <1>8, HeardFold DEF HeardOf
<1>20. TrackUpdates(t, ops) = w.chunks
  BY <1>16, <1>19, TrackIs
<1>. QED BY <1>5, <1>15, <1>18, <1>20, ApplyFold

\* The rows have finitely many positions with an event.
LEMMA FinitePositions ==
  ASSUME NEW rows, NEW S, Nice(rows, S), NEW P, \A p \in P : \E f : HeldRow(rows, p, f)
  PROVE  IsFiniteSet(P) /\ ArePositions(P)
<1>1. S \in Seq(Nat) /\ DOMAIN rows = {S[i] : i \in 1 .. Len(S)} /\ Len(S) \in Nat
  BY DEF Nice, Linked
<1>2. PICK D : D = (1 .. Len(S)) \X (0 .. Cap)
  OBVIOUS
<1>3. IsFiniteSet(1 .. Len(S)) /\ IsFiniteSet(0 .. Cap)
  BY <1>1, FS_Interval, CapAssumption
<1>4. IsFiniteSet(D)
  BY <1>2, <1>3, FS_Product
<1>5. PICK f : f = [q \in D |-> Position(S[q[1]], q[2])]
  OBVIOUS
<1>6. PICK T : T = {f[q] : q \in D}
  OBVIOUS
<1>7. f \in Surjection(D, T)
  BY <1>5, <1>6 DEF Surjection
<1>8. IsFiniteSet(T)
  BY <1>4, <1>7, FS_Surjection
<1>9. ASSUME NEW p \in P PROVE p \in T /\ p.chunk \in Nat /\ p.index \in Nat /\ p = Position(p.chunk, p.index)
  <2>1. PICK x \in DOMAIN rows : \E k \in 1 .. Len(rows[x].items) : p = Position(x, k - 1)
    BY DEF HeldRow
  <2>2. PICK k \in 1 .. Len(rows[x].items) : p = Position(x, k - 1)
    BY <2>1
  <2>3. x \in Nat /\ Len(rows[x].items) \in Nat /\ Len(rows[x].items) <= Cap
    BY ItemsOnce
  <2>4. PICK i \in 1 .. Len(S) : S[i] = x
    BY <1>1, <2>1
  <2>5. k - 1 \in 0 .. Cap /\ k - 1 \in Nat
    BY <2>2, <2>3, CapAssumption
  <2>6. <<i, k - 1>> \in D
    BY <1>2, <2>4, <2>5
  <2>7. f[<<i, k - 1>>] = p
    BY <1>5, <2>2, <2>4, <2>6
  <2>8. p.chunk = x /\ p.index = k - 1
    BY <2>2 DEF Position
  <2>. QED BY <1>6, <2>2, <2>3, <2>5, <2>6, <2>7, <2>8
<1>10. P \in SUBSET T
  BY <1>9
<1>. QED BY <1>8, <1>9, <1>10, FS_Subset DEF ArePositions

\* filter_duplicated_events finds the events that are stored, where they are.
LEMMA DuplicatesAre ==
  ASSUME NEW rows, NEW S, Nice(rows, S), NEW E
  PROVE  /\ \A d \in Duplicates(rows, E) : HeldRow(rows, d.at, d.event) /\ d.event \in E
         /\ \A at, e : HeldRow(rows, at, e) /\ e \in E =>
              \E d \in Duplicates(rows, E) : d.event = e /\ d.at = at
<1>1. \A id \in DOMAIN rows : DOMAIN rows[id].items = 1 .. Len(rows[id].items)
  <2>1. ASSUME NEW id \in DOMAIN rows PROVE DOMAIN rows[id].items = 1 .. Len(rows[id].items)
    <3>1. rows[id].items \in Seq(Nat)
      BY ItemsOnce
    <3>. QED BY <3>1
  <2>. QED BY <2>1
<1>2. ASSUME NEW d \in Duplicates(rows, E) PROVE HeldRow(rows, d.at, d.event) /\ d.event \in E
  <2>1. PICK id \in DOMAIN rows : \E j \in DOMAIN rows[id].items :
          rows[id].items[j] \in E /\ d = [event |-> rows[id].items[j], at |-> Position(id, j - 1)]
    BY DEF Duplicates
  <2>2. PICK j \in 1 .. Len(rows[id].items) : rows[id].items[j] \in E /\ d = [event |-> rows[id].items[j], at |-> Position(id, j - 1)]
    BY <1>1, <2>1
  <2>3. d.event = rows[id].items[j] /\ d.at = Position(id, j - 1)
    BY <2>2
  <2>. QED BY <2>2, <2>3 DEF HeldRow
<1>3. ASSUME NEW at, NEW e, HeldRow(rows, at, e), e \in E
      PROVE  \E d \in Duplicates(rows, E) : d.event = e /\ d.at = at
  <2>1. PICK id \in DOMAIN rows : \E j \in 1 .. Len(rows[id].items) : at = Position(id, j - 1) /\ rows[id].items[j] = e
    BY <1>3 DEF HeldRow
  <2>2. PICK j \in DOMAIN rows[id].items : at = Position(id, j - 1) /\ rows[id].items[j] = e
    BY <1>1, <2>1
  <2>3. PICK d : d = [event |-> rows[id].items[j], at |-> Position(id, j - 1)]
    OBVIOUS
  <2>4. d.event = e /\ d.at = at
    BY <2>2, <2>3
  <2>5. j \in {k \in DOMAIN rows[id].items : rows[id].items[k] \in E}
    BY <1>3, <2>2
  <2>6. d \in Duplicates(rows, E)
    BY <2>3, <2>5 DEF Duplicates
  <2>. QED BY <2>4, <2>6
<1>. QED BY <1>2, <1>3

\* An event that the store says is in a loaded chunk is there in memory.
LEMMA HeldInMemory ==
  ASSUME NEW rows, NEW lc, NEW n, Lagging(rows, lc, n), NEW at, NEW f, HeldRow(rows, at, f),
         NEW i \in 1 .. Len(lc.chunks), lc.chunks[i].id = at.chunk
  PROVE  Held(lc, at, f)
<1>1. PICK x \in DOMAIN rows : \E k \in 1 .. Len(rows[x].items) : at = Position(x, k - 1) /\ rows[x].items[k] = f
  BY DEF HeldRow
<1>2. PICK k \in 1 .. Len(rows[x].items) : at = Position(x, k - 1) /\ rows[x].items[k] = f
  BY <1>1
<1>3. PICK late, S : late = Behind(rows, lc) /\ SeesRows(late, lc, S, n)
  BY DEF Lagging
<1>4. Memory(late, lc, S, n)
  BY <1>3, MemoryIs
<1>5. at.chunk = x
  BY <1>2 DEF Position
<1>6. x \in DOMAIN late /\ lc.chunks[i].id = x /\ lc.chunks[i].items = late[x].items
  <2>1. lc.chunks[i].id = S[n + i] /\ S[n + i] \in DOMAIN late /\ lc.chunks[i].items = late[S[n + i]].items
    BY <1>4 DEF Memory
  <2>. QED BY <1>5, <2>1
<1>7. late[x].items = rows[x].items
  BY <1>3, <1>6 DEF Lagging, Agree
<1>. QED BY <1>2, <1>6, <1>7 DEF Held

\* An event of the room is in the store.
LEMMA EventIsHeld ==
  ASSUME NEW rows, NEW lc, NEW n, Lagging(rows, lc, n), NEW e \in StoredEvents(Behind(rows, lc))
  PROVE  \E at : HeldRow(rows, at, e)
<1>1. PICK late, S : late = Behind(rows, lc) /\ SeesRows(late, lc, S, n)
  BY DEF Lagging
<1>2. Typed(late)
  BY <1>1 DEF SeesRows, Nice
<1>3. PICK id \in DOMAIN late : \E i \in 1 .. Len(late[id].items) : late[id].items[i] = e
  BY <1>1, <1>2, Events
<1>4. PICK i \in 1 .. Len(late[id].items) : late[id].items[i] = e
  BY <1>3
<1>5. id \in DOMAIN rows /\ late[id].items = rows[id].items
  BY <1>1, <1>3 DEF Lagging, Agree
<1>6. HeldRow(rows, Position(id, i - 1), e)
  BY <1>4, <1>5 DEF HeldRow
<1>. QED BY <1>6

-----------------------------------------------------------------------------
(* propagate_changes.                                                      *)

Fields == {"lc", "rows", "vector", "panicked", "tracked"}
IsC(c) == DOMAIN c = Fields /\ c = [f \in Fields |-> c[f]]

\* Another state of the same linked chunk, for all that the store has to do with it.
SameForStore(lc, after) ==
  /\ Shape(after)
  /\ after.chunks = lc.chunks /\ after.lazy = lc.lazy /\ after.gen = lc.gen
  /\ after.log["store"] = lc.log["store"]

\* Taking what waits for one reader.
LEMMA TakeIs ==
  ASSUME NEW lc, Shape(lc), NEW r \in Readers
  PROVE  LET after == Take(lc, r)
         IN  /\ Shape(after)
             /\ after.chunks = lc.chunks /\ after.lazy = lc.lazy /\ after.gen = lc.gen
             /\ after.log[r] = <<>>
             /\ \A q \in Readers : q # r => after.log[q] = lc.log[q]
<1>1. PICK g : g = [lc.log EXCEPT ![r] = <<>>]
  OBVIOUS
<1>2. PICK after : after = Take(lc, r)
  OBVIOUS
<1>3. after = [lc EXCEPT !.log = g]
  BY <1>1, <1>2 DEF Take
<1>4. lc = [chunks |-> lc.chunks, lazy |-> lc.lazy, gen |-> lc.gen, log |-> lc.log]
  BY DEF Shape
<1>5. after = [chunks |-> lc.chunks, lazy |-> lc.lazy, gen |-> lc.gen, log |-> g]
  BY <1>3, <1>4
<1>6. after.chunks = lc.chunks /\ after.lazy = lc.lazy /\ after.gen = lc.gen /\ after.log = g
  BY <1>5
<1>7. lc.log = [q \in Readers |-> lc.log[q]]
  BY DEF Shape
<1>8. g = [q \in Readers |-> g[q]] /\ g[r] = <<>> /\ \A q \in Readers : q # r => g[q] = lc.log[q]
  BY <1>1, <1>7
<1>9. \A q \in Readers : IsLog(g[q])
  <2>1. IsLog(<<>>)
    <3>1. <<>> \in Seq({})
      OBVIOUS
    <3>. QED BY <3>1 DEF IsLog
  <2>. QED BY <1>8, <2>1 DEF Shape
<1>10. Shape(after)
  BY <1>5, <1>6, <1>8, <1>9 DEF Shape
<1>. QED BY <1>2, <1>6, <1>8, <1>10

\* What the readers other than the store take does not concern the store.
LEMMA SameForStoreSees ==
  ASSUME NEW lc, NEW after, SameForStore(lc, after), NEW rows
  PROVE  /\ Behind(rows, after) = Behind(rows, lc)
         /\ \A table, S, n : SeesRows(table, lc, S, n) => SeesRows(table, after, S, n)
         /\ \A n : Lagging(rows, lc, n) => Lagging(rows, after, n)
<1>1. Behind(rows, after) = Behind(rows, lc)
  BY DEF SameForStore, Behind
<1>2. ASSUME NEW table, NEW S, NEW n, SeesRows(table, lc, S, n) PROVE SeesRows(table, after, S, n)
  BY <1>2 DEF SameForStore, SeesRows
<1>3. ASSUME NEW n, Lagging(rows, lc, n) PROVE Lagging(rows, after, n)
  <2>1. \E S : SeesRows(Behind(rows, after), after, S, n)
    BY <1>1, <1>2, <1>3 DEF Lagging
  <2>2. ASSUME NEW i \in 1 .. Len(lc.log["store"]) PROVE Small(lc.log["store"][i], rows, after)
    <3>1. Small(lc.log["store"][i], rows, lc)
      BY <1>3 DEF Lagging
    <3>. QED BY <3>1 DEF SameForStore, Small
  <2>. QED BY <1>1, <1>3, <2>1, <2>2 DEF Lagging, SameForStore
<1>. QED BY <1>1, <1>2, <1>3

\* propagate_changes: nothing waits for the store any more, and it mirrors memory.
Propagated(c, n, after) ==
  /\ IsC(after) /\ after.panicked = c.panicked
  /\ after.lc.chunks = c.lc.chunks /\ after.lc.gen = c.lc.gen
  /\ after.lc.log["store"] = <<>> /\ after.lc.log["tracker"] = c.lc.log["tracker"]
  /\ after.tracked = c.tracked
  /\ Lagging(after.rows, after.lc, n) /\ Mirrored(after, after.lc, n)
  /\ Ev(after, after.lc) = Ev(c, c.lc)

\* A cache whose store has taken every update lags by nothing.
LEMMA SettledLags ==
  ASSUME NEW rows, NEW lc, NEW S, NEW n, SeesRows(rows, lc, S, n), lc.log["store"] = <<>>
  PROVE  Lagging(rows, lc, n)
<1>1. Behind(rows, lc) = rows
  BY ApplyNone DEF Behind
<1>2. Agree(rows, rows)
  BY DEF Agree
<1>3. \E Z : Nice(rows, Z)
  BY DEF SeesRows
<1>4. Len(lc.log["store"]) = 0
  OBVIOUS
<1>. QED BY <1>1, <1>2, <1>3, <1>4 DEF Lagging

\* propagate_changes: the store takes what it has not seen, and then has what memory has.
LEMMA PropagateIs ==
  ASSUME NEW c, IsC(c), NEW n, Mirrored(c, c.lc, n)
  PROVE  Propagated(c, n, Propagate(c))
<1>1. PICK r, l : r = Apply(c.rows, c.lc.log["store"]) /\ l = Take(c.lc, "store")
  OBVIOUS
<1>2. PICK after : after = Propagate(c)
  OBVIOUS
<1>3. after = [c EXCEPT !.rows = r, !.lc = l]
  BY <1>1, <1>2 DEF Propagate
<1>4. IsC(after) /\ after.rows = r /\ after.lc = l /\ after.panicked = c.panicked /\ after.tracked = c.tracked
  BY <1>3 DEF IsC, Fields
<1>5. PICK S : Sees(c, c.lc, S, n)
  BY DEF Mirrored
<1>6. SeesRows(r, c.lc, S, n) /\ Behind(c.rows, c.lc) = r
  BY <1>1, <1>5 DEF Sees, Behind
<1>7. /\ Shape(l) /\ l.chunks = c.lc.chunks /\ l.lazy = c.lc.lazy /\ l.gen = c.lc.gen /\ l.log["store"] = <<>>
      /\ l.log["tracker"] = c.lc.log["tracker"]
  <2>1. Shape(c.lc) /\ "store" \in Readers /\ "tracker" \in Readers
    BY <1>6 DEF SeesRows, Readers
  <2>. QED BY <1>1, <2>1, TakeIs
<1>8. SeesRows(r, l, S, n)
  BY <1>6, <1>7 DEF SeesRows
<1>9. Lagging(r, l, n)
  BY <1>7, <1>8, SettledLags
<1>10. Behind(r, l) = r
  BY <1>7, ApplyNone DEF Behind
<1>11. Ev(after, l) = Ev(c, c.lc)
  BY <1>4, <1>6, <1>10 DEF Ev
<1>12. Mirrored(after, l, n)
  <2>1. Follows(Heard(c.tracked, c.lc), r, S)
    BY <1>5, <1>6 DEF Sees
  <2>2. Heard(c.tracked, c.lc) = Heard(after.tracked, l)
    BY <1>4, <1>7 DEF Heard
  <2>3. Sees(after, l, S, n)
    BY <1>4, <1>8, <1>10, <2>1, <2>2 DEF Sees
  <2>. QED BY <2>3 DEF Mirrored
<1>. QED BY <1>2, <1>4, <1>7, <1>9, <1>11, <1>12 DEF Propagated

\* updates_as_vector_diffs leaves alone what the store has to do with.
LEMMA DiffsAre ==
  ASSUME NEW c, IsC(c), Shape(c.lc)
  PROVE  LET after == UpdatesAsVectorDiffs(c)
         IN  /\ IsC(after) /\ after.panicked = c.panicked /\ after.rows = c.rows
             /\ SameForStore(c.lc, after.lc)
             /\ after.tracked = TrackUpdates(c.tracked, c.lc.log["tracker"]) /\ after.lc.log["tracker"] = <<>>
<1>1. PICK v, t, l : /\ v = MapUpdates(c.vector, c.lc.log["vector"]) /\ t = TrackUpdates(c.tracked, c.lc.log["tracker"])
                     /\ l = Take(Take(c.lc, "vector"), "tracker")
  OBVIOUS
<1>2. PICK after : after = UpdatesAsVectorDiffs(c)
  OBVIOUS
<1>3. after = [c EXCEPT !.vector = v, !.tracked = t, !.lc = l]
  BY <1>1, <1>2 DEF UpdatesAsVectorDiffs
<1>4. IsC(after) /\ after.rows = c.rows /\ after.lc = l /\ after.panicked = c.panicked /\ after.tracked = t
  BY <1>3 DEF IsC, Fields
<1>5. PICK one : one = Take(c.lc, "vector")
  OBVIOUS
<1>6. /\ Shape(one) /\ one.chunks = c.lc.chunks /\ one.lazy = c.lc.lazy /\ one.gen = c.lc.gen
      /\ \A q \in Readers : q # "vector" => one.log[q] = c.lc.log[q]
  BY <1>5, TakeIs DEF Readers
<1>7. /\ Shape(l) /\ l.chunks = one.chunks /\ l.lazy = one.lazy /\ l.gen = one.gen /\ l.log["tracker"] = <<>>
      /\ \A q \in Readers : q # "tracker" => l.log[q] = one.log[q]
  BY <1>1, <1>5, <1>6, TakeIs DEF Readers
<1>8. l.log["store"] = c.lc.log["store"]
  BY <1>6, <1>7 DEF Readers
<1>. QED BY <1>1, <1>2, <1>4, <1>6, <1>7, <1>8 DEF SameForStore

MemoryRemoved(c, n, P, r) ==
  /\ IsC(r) /\ r.panicked = c.panicked /\ Len(r.lc.chunks) > 0
  /\ Lagging(r.rows, r.lc, n) /\ Mirrored(r, r.lc, n)
  /\ r.lc = c.lc \/ r.lc.log["store"] = <<>>
  /\ GapsKept(c.lc, r.lc)
  /\ \A e \in Ev(r, r.lc) : e \in Ev(c, c.lc) /\ \A p \in P : ~Held(c.lc, p, e)

\* What the tracker tracks is mirrored.
LEMMA TracksMirrors ==
  ASSUME NEW c, NEW n, Tracks(c.tracked, c.rows, c.lc, n)
  PROVE  Mirrored(c, c.lc, n)
BY DEF Tracks, Mirrored, Sees, Heard

\* What is mirrored is a linked chunk.
LEMMA MirroredShape ==
  ASSUME NEW c, NEW lc, NEW n, Mirrored(c, lc, n)
  PROVE  Shape(lc)
BY DEF Mirrored, Sees, SeesRows

\* remove_events of the loaded chunks: every position is one of an item.
LEMMA RemoveFromMemoryIs ==
  ASSUME NEW c, IsC(c), NEW n, Lagging(c.rows, c.lc, n), Mirrored(c, c.lc, n), Len(c.lc.chunks) > 0,
         NEW P, IsFiniteSet(P), ArePositions(P), \A p \in P : \E f : Held(c.lc, p, f)
  PROVE  MemoryRemoved(c, n, P, RemoveFromMemory(c, P))
<1>1. Mirrored(c, c.lc, n) /\ Shape(c.lc)
  BY MirroredShape
<1>2. CASE P = {}
  <2>1. RemoveFromMemory(c, P) = c
    BY <1>2 DEF RemoveFromMemory
  <2>2. GapsKept(c.lc, c.lc)
    BY DEF GapsKept
  <2>. QED BY <1>1, <1>2, <2>1, <2>2 DEF MemoryRemoved
<1>3. CASE P # {}
  <2>1. ASSUME NEW at \in P PROVE IsItem(c.lc, at)
    <3>1. PICK f : Held(c.lc, at, f)
      OBVIOUS
    <3>2. PICK i \in 1 .. Len(c.lc.chunks) : \E k \in 1 .. Len(c.lc.chunks[i].items) : at = Position(c.lc.chunks[i].id, k - 1)
      BY <3>1 DEF Held
    <3>3. PICK k \in 1 .. Len(c.lc.chunks[i].items) : at = Position(c.lc.chunks[i].id, k - 1)
      BY <3>2
    <3>4. Len(c.lc.chunks[i].items) \in Nat /\ DOMAIN c.lc.chunks = 1 .. Len(c.lc.chunks)
      <4>1. c.lc.chunks[i].items \in Seq(Nat) /\ DOMAIN c.lc.chunks = 1 .. Len(c.lc.chunks)
        BY <1>1, ChunksAre
      <4>. QED BY <4>1
    <3>5. at.chunk = c.lc.chunks[i].id /\ at.index = k - 1 /\ k - 1 < Len(c.lc.chunks[i].items)
      BY <3>3, <3>4 DEF Position
    <3>. QED BY <3>4, <3>5 DEF IsItem
  <2>2. PICK l : l = FoldLeft(RemoveItemAt, c.lc, SortDescending(P))
    OBVIOUS
  <2>3. PICK d : d = [c EXCEPT !.lc = l]
    OBVIOUS
  <2>4. RemoveFromMemory(c, P) = Propagate(d)
    BY <1>3, <2>1, <2>2, <2>3 DEF RemoveFromMemory
  <2>5. IsC(d) /\ d.lc = l /\ d.rows = c.rows /\ d.panicked = c.panicked /\ d.tracked = c.tracked
    BY <2>3 DEF IsC, Fields
  <2>6. RemovedAll(c, c.lc, n, P, l)
    BY <1>1, <2>2, RemoveAllIs
  <2>7. /\ Mirrored(c, l, n) /\ Len(l.chunks) > 0 /\ GapsKept(c.lc, l)
        /\ \A e \in Ev(c, l) : e \in Ev(c, c.lc) /\ \A p \in P : ~Held(c.lc, p, e)
    BY <2>6 DEF RemovedAll
  <2>8. Mirrored(d, d.lc, n) /\ Ev(d, d.lc) = Ev(c, l)
    BY <2>5, <2>7 DEF Mirrored, Sees, Ev
  <2>9. PICK r : r = Propagate(d)
    OBVIOUS
  <2>10. Propagated(d, n, r)
    BY <2>5, <2>8, <2>9, PropagateIs
  <2>11. /\ IsC(r) /\ r.panicked = c.panicked /\ r.lc.chunks = l.chunks /\ r.lc.log["store"] = <<>>
         /\ Lagging(r.rows, r.lc, n) /\ Mirrored(r, r.lc, n) /\ Ev(r, r.lc) = Ev(c, l)
    BY <2>5, <2>8, <2>10 DEF Propagated
  <2>12. GapsKept(c.lc, r.lc)
    BY <2>7, <2>11 DEF GapsKept
  <2>. QED BY <2>4, <2>7, <2>9, <2>11, <2>12 DEF MemoryRemoved
<1>. QED BY <1>2, <1>3

\* Some of what filter_duplicated_events found, in loaded chunks and in others.
Found(c, M, T) ==
  /\ \A d \in M : HeldRow(c.rows, d.at, d.event) /\ d.at.chunk \in Ids(c.lc)
  /\ \A d \in T : HeldRow(c.rows, d.at, d.event) /\ d.at.chunk \notin Ids(c.lc)

EventsRemoved(c, n, M, T, r) ==
  /\ IsC(r) /\ r.panicked = c.panicked /\ Len(r.lc.chunks) > 0
  /\ Lagging(r.rows, r.lc, n) /\ Mirrored(r, r.lc, n)
  /\ r.lc = c.lc \/ r.lc.log["store"] = <<>>
  /\ GapsKept(c.lc, r.lc)
  /\ \A e \in Ev(r, r.lc) : e \in Ev(c, c.lc) /\ \A d \in M \cup T : d.event # e

\* remove_events: what was found is gone, and the store mirrors memory as before.
LEMMA RemoveEventsIs ==
  ASSUME NEW c, IsC(c), NEW n, Lagging(c.rows, c.lc, n), Tracks(c.tracked, c.rows, c.lc, n),
         Len(c.lc.chunks) > 0, NEW M, NEW T, Found(c, M, T)
  PROVE  EventsRemoved(c, n, M, T, RemoveEvents(c, M, T))
<1>1. Mirrored(c, c.lc, n) /\ Shape(c.lc)
  BY TracksMirrors, MirroredShape
<1>2. PICK S : Nice(c.rows, S)
  BY DEF Lagging
<1>3. PICK P, Q : P = {d.at : d \in M} /\ Q = {d.at : d \in T}
  OBVIOUS
<1>4. (\A p \in P : \E f : HeldRow(c.rows, p, f)) /\ (\A p \in Q : \E f : HeldRow(c.rows, p, f))
  BY <1>3 DEF Found
<1>5. IsFiniteSet(P) /\ ArePositions(P) /\ IsFiniteSet(Q) /\ ArePositions(Q)
  BY <1>2, <1>4, FinitePositions
<1>6. ASSUME NEW p \in Q PROVE Unloaded(c.lc, p.chunk)
  <2>1. p.chunk \notin Ids(c.lc)
    BY <1>3 DEF Found
  <2>. QED BY <1>1, <2>1, IdsAre DEF Unloaded
<1>7. ASSUME NEW p \in P, NEW f, HeldRow(c.rows, p, f) PROVE Held(c.lc, p, f)
  <2>1. p.chunk \in Ids(c.lc)
    BY <1>3 DEF Found
  <2>2. PICK i \in 1 .. Len(c.lc.chunks) : c.lc.chunks[i].id = p.chunk
    BY <1>1, <2>1, IdsAre
  <2>. QED BY <1>7, <2>2, HeldInMemory
<1>8. PICK s, ops : s = SortDescending(Q) /\ ops = [i \in DOMAIN s |-> RemoveItem(s[i])]
  OBVIOUS
<1>9. PICK one : one = IF T = {} THEN c ELSE RemoveFromStore(c, ops)
  OBVIOUS
<1>10. RemoveEvents(c, M, T) = RemoveFromMemory(one, P)
  BY <1>3, <1>8, <1>9 DEF RemoveEvents
<1>11. /\ IsC(one) /\ one.panicked = c.panicked /\ one.lc = c.lc
       /\ Lagging(one.rows, c.lc, n) /\ Tracks(one.tracked, one.rows, c.lc, n)
       /\ \A e \in Ev(one, c.lc) : e \in Ev(c, c.lc) /\ \A p \in Q : ~HeldRow(c.rows, p, e)
  <2>1. CASE T = {}
    BY <1>3, <1>9, <2>1
  <2>2. CASE T # {}
    <3>1. PICK t, rows : t = TrackUpdates(c.tracked, ops) /\ rows = Apply(c.rows, ops)
      OBVIOUS
    <3>2. one = [c EXCEPT !.tracked = t, !.rows = rows]
      BY <1>9, <2>2, <3>1 DEF RemoveFromStore
    <3>3. IsC(one) /\ one.panicked = c.panicked /\ one.lc = c.lc /\ one.rows = rows /\ one.tracked = t
      BY <3>2 DEF IsC, Fields
    <3>4. StoreRemovedAll(c.rows, c.lc, n, Q, Apply(c.rows, ops), TrackUpdates(c.tracked, ops))
      BY <1>4, <1>5, <1>6, <1>8, StoreRemoveAllIs
    <3>. QED BY <3>1, <3>3, <3>4 DEF StoreRemovedAll, Ev
  <2>. QED BY <2>1, <2>2
<1>12. PICK r : r = RemoveFromMemory(one, P)
  OBVIOUS
<1>13. MemoryRemoved(one, n, P, r)
  <2>1. \A p \in P : \E f : Held(one.lc, p, f)
    BY <1>4, <1>7, <1>11
  <2>2. Lagging(one.rows, one.lc, n) /\ Mirrored(one, one.lc, n) /\ Len(one.lc.chunks) > 0
    BY <1>11, TracksMirrors
  <2>. QED BY <1>5, <1>11, <1>12, <2>1, <2>2, RemoveFromMemoryIs
<1>14. /\ IsC(r) /\ r.panicked = c.panicked /\ Len(r.lc.chunks) > 0
       /\ Lagging(r.rows, r.lc, n) /\ Mirrored(r, r.lc, n)
       /\ r.lc = c.lc \/ r.lc.log["store"] = <<>>
       /\ GapsKept(c.lc, r.lc)
       /\ \A e \in Ev(r, r.lc) : e \in Ev(one, c.lc) /\ \A p \in P : ~Held(c.lc, p, e)
  BY <1>11, <1>13 DEF MemoryRemoved
<1>15. ASSUME NEW e \in Ev(r, r.lc), NEW d \in M \cup T PROVE d.event # e
  <2>1. CASE d \in M
    <3>1. d.at \in P /\ HeldRow(c.rows, d.at, d.event)
      BY <1>3, <2>1 DEF Found
    <3>2. Held(c.lc, d.at, d.event)
      BY <1>7, <3>1
    <3>. QED BY <1>14, <3>1, <3>2
  <2>2. CASE d \in T
    <3>1. d.at \in Q /\ HeldRow(c.rows, d.at, d.event)
      BY <1>3, <2>2 DEF Found
    <3>. QED BY <1>11, <1>14, <3>1
  <2>. QED BY <2>1, <2>2
<1>. QED BY <1>10, <1>11, <1>12, <1>14, <1>15 DEF EventsRemoved

\* Without duplicates nothing is removed.
LEMMA RemoveNothing ==
  ASSUME NEW c
  PROVE  RemoveEvents(c, {}, {}) = c
BY DEF RemoveEvents, RemoveFromMemory

-----------------------------------------------------------------------------
(* push_gap, push_live_events, and the tail that is replaced in place.     *)

\* push_gap, with the empty chunk that goes.
LEMMA PushGapIs ==
  ASSUME NEW c, NEW lc, NEW n, Mirrored(c, lc, n), Len(lc.chunks) > 0, NEW token \in Nat
  PROVE  LET after == PushGap(lc, token)
         IN  Mirrored(c, after, n) /\ Len(after.chunks) > 0 /\ Ev(c, after) = Ev(c, lc)
<1>1. PICK m : m = Len(lc.chunks)
  OBVIOUS
<1>2. lc.chunks \in Seq(ChunkType) /\ m \in Nat /\ m \in 1 .. Len(lc.chunks)
  BY <1>1, ChunksAre
<1>3. FirstChunk(lc) = lc
  BY <1>2 DEF FirstChunk
<1>4. PICK pushed : pushed = PushGapBack(lc, token)
  OBVIOUS
<1>5. pushed = InsertNext(lc, m, token)
  BY <1>1, <1>3, <1>4 DEF PushGapBack
<1>6. NewAt(c, lc, n, m, token, pushed)
  BY <1>2, <1>5, InsertNextIs
<1>7. Mirrored(c, pushed, n) /\ Len(pushed.chunks) = m + 1 /\ pushed.chunks[m] = lc.chunks[m] /\ Ev(c, pushed) = Ev(c, lc)
  BY <1>1, <1>2, <1>6 DEF NewAt
<1>8. CASE ~IsGap(lc.chunks[m]) /\ lc.chunks[m].items = <<>>
  <2>1. PushGap(lc, token) = RemoveEmptyChunkAt(pushed, lc.chunks[m].id)
    BY <1>1, <1>4, <1>8 DEF PushGap
  <2>2. m \in 1 .. Len(pushed.chunks) /\ pushed.chunks[m].items = <<>> /\ pushed.chunks[m].id = lc.chunks[m].id
    BY <1>2, <1>7, <1>8
  <2>3. IndexOf(pushed, lc.chunks[m].id) = m
    BY <1>7, <2>2, IndexIs
  <2>4. PICK after : after = Unlink(pushed, m)
    OBVIOUS
  <2>5. Gone(c, pushed, n, m, after)
    BY <1>7, <2>2, <2>4, UnlinkIs
  <2>6. Mirrored(c, after, n) /\ Len(after.chunks) > 0 /\ Ev(c, after) = Ev(c, lc)
    BY <1>2, <1>7, <2>5 DEF Gone
  <2>. QED BY <2>1, <2>3, <2>4, <2>6 DEF RemoveEmptyChunkAt
<1>9. CASE ~(~IsGap(lc.chunks[m]) /\ lc.chunks[m].items = <<>>)
  <2>1. PushGap(lc, token) = pushed
    BY <1>1, <1>4, <1>9 DEF PushGap
  <2>. QED BY <1>2, <1>7, <2>1
<1>. QED BY <1>8, <1>9

\* push_live_events.
LEMMA PushItemsBackIs ==
  ASSUME NEW c, NEW lc, NEW n, Mirrored(c, lc, n), Len(lc.chunks) > 0, NEW s, Unknown(c, lc, s)
  PROVE  Grew(c, lc, n, Len(lc.chunks), s, PushItemsBack(lc, s))
<1>1. lc.chunks \in Seq(ChunkType) /\ Len(lc.chunks) \in 1 .. Len(lc.chunks)
  BY ChunksAre
<1>2. FirstChunk(lc) = lc
  BY <1>1 DEF FirstChunk
<1>3. PushItemsBack(lc, s) = Push(lc, Len(lc.chunks), s)
  BY <1>2 DEF PushItemsBack
<1>. QED BY <1>1, <1>3, PushIs

\* push_live_events: the gap, if any, and then the events.
LEMMA PushLiveIs ==
  ASSUME NEW c, NEW lc, NEW n, Mirrored(c, lc, n), Len(lc.chunks) > 0, NEW token \in Nat, NEW s, Unknown(c, lc, s)
  PROVE  LET after == PushLiveEvents(lc, token, s)
         IN  Mirrored(c, after, n) /\ Len(after.chunks) > 0
<1>1. PICK one : one = IF token = NoToken THEN lc ELSE PushGap(lc, token)
  OBVIOUS
<1>2. Mirrored(c, one, n) /\ Len(one.chunks) > 0 /\ Ev(c, one) = Ev(c, lc)
  BY <1>1, PushGapIs
<1>3. Unknown(c, one, s)
  BY <1>2 DEF Unknown
<1>4. PICK after : after = PushItemsBack(one, s)
  OBVIOUS
<1>5. PushLiveEvents(lc, token, s) = after
  BY <1>1, <1>4 DEF PushLiveEvents
<1>6. Grew(c, one, n, Len(one.chunks), s, after)
  BY <1>2, <1>3, <1>4, PushItemsBackIs
<1>7. Len(after.chunks) \in Nat /\ Len(one.chunks) \in Nat
  <2>1. Mirrored(c, after, n)
    BY <1>6 DEF Grew
  <2>. QED BY <1>2, <2>1, ChunksAre
<1>8. Mirrored(c, after, n) /\ Len(after.chunks) > 0
  BY <1>2, <1>6, <1>7 DEF Grew
<1>. QED BY <1>5, <1>8

Replacing == INSTANCE Folding WITH Op <- ReplaceOne

StillLags(rows, t, lc, n, after) ==
  /\ Lagging(rows, after, n) /\ Tracks(t, rows, after, n)
  /\ after.chunks = lc.chunks
  /\ Behind(rows, after) = Behind(rows, lc)

\* One more update for the store to see.
LEMMA SmallMore ==
  ASSUME NEW log, IsLog(log), NEW u, NEW rows, NEW after, Small(u, rows, after),
         \A j \in 1 .. Len(log) : Small(log[j], rows, after)
  PROVE  \A j \in 1 .. Len(log \o <<u>>) : Small((log \o <<u>>)[j], rows, after)
<1>1. PICK m \in Nat : /\ DOMAIN log = 1 .. m /\ DOMAIN (log \o <<u>>) = 1 .. m + 1
         /\ \A q \in 1 .. m : (log \o <<u>>)[q] = log[q]
         /\ (log \o <<u>>)[m + 1] = u
  BY LogMore
<1>2. m = Len(log) /\ Len(log \o <<u>>) = m + 1
  <2>1. IsLog(log \o <<u>>)
    BY LogMore
  <2>2. PICK T : log \in Seq(T)
    BY DEF IsLog
  <2>3. PICK V : log \o <<u>> \in Seq(V)
    BY <2>1 DEF IsLog
  <2>4. PICK a : a = log \o <<u>>
    OBVIOUS
  <2>5. Len(log) \in Nat /\ DOMAIN log = 1 .. Len(log) /\ Len(a) \in Nat /\ DOMAIN a = 1 .. Len(a)
    BY <2>2, <2>3, <2>4
  <2>6. 1 .. Len(log) = 1 .. m /\ 1 .. Len(a) = 1 .. m + 1
    BY <1>1, <2>4, <2>5
  <2>7. \A a1, a2 \in Nat : 1 .. a1 = 1 .. a2 => a1 = a2
    OBVIOUS
  <2>. QED BY <1>1, <2>4, <2>5, <2>6, <2>7
<1>3. ASSUME NEW j \in 1 .. Len(log \o <<u>>) PROVE Small((log \o <<u>>)[j], rows, after)
  <2>1. CASE j = m + 1
    BY <1>1, <2>1
  <2>2. CASE j # m + 1
    <3>1. j \in 1 .. m
      BY <1>2, <2>2
    <3>. QED BY <1>1, <1>2, <3>1
  <2>. QED BY <2>1, <2>2
<1>. QED BY <1>3

\* replace_item_at with an event that is there already, as a sync that overlaps does.
LEMMA ReplaceOneIs ==
  ASSUME NEW rows, NEW lc, NEW n, Lagging(rows, lc, n), NEW t, Tracks(t, rows, lc, n),
         NEW known, Held(lc, known.at, known.event)
  PROVE  StillLags(rows, t, lc, n, ReplaceOne(lc, known))
<1>1. PICK c : c = [rows |-> rows, tracked |-> t]
  OBVIOUS
<1>2. PICK S : SeesRows(Behind(rows, lc), lc, S, n) /\ Follows(HeardOf(t, lc.log["tracker"]), Behind(rows, lc), S)
  BY DEF Tracks
<1>3. c.rows = rows /\ c.tracked = t
  BY <1>1
<1>4. Sees(c, lc, S, n) /\ Mirrored(c, lc, n)
  BY <1>2, <1>3 DEF Sees, Mirrored, Heard
<1>5. PICK at, e : at = known.at /\ e = known.event
  OBVIOUS
<1>6. PICK i \in 1 .. Len(lc.chunks) : \E k \in 1 .. Len(lc.chunks[i].items) :
        at = Position(lc.chunks[i].id, k - 1) /\ lc.chunks[i].items[k] = e
  BY <1>5 DEF Held
<1>7. PICK k \in 1 .. Len(lc.chunks[i].items) : at = Position(lc.chunks[i].id, k - 1) /\ lc.chunks[i].items[k] = e
  BY <1>6
<1>8. PICK x, items : x = lc.chunks[i].id /\ items = lc.chunks[i].items
  OBVIOUS
<1>9. /\ items \in Seq(Nat) /\ Len(items) \in Nat /\ k \in 1 .. Len(items) /\ items[k] = e /\ x \in Nat
      /\ lc.chunks \in Seq(ChunkType) /\ DOMAIN lc.chunks = 1 .. Len(lc.chunks) /\ Shape(lc)
  <2>1. /\ lc.chunks[i].items \in Seq(Nat) /\ lc.chunks[i].id \in Nat
        /\ lc.chunks \in Seq(ChunkType) /\ DOMAIN lc.chunks = 1 .. Len(lc.chunks) /\ Shape(lc)
    BY <1>4, ChunksAre
  <2>. QED BY <1>7, <1>8, <2>1
<1>10. at.chunk = x /\ at.index + 1 = k /\ at.index = k - 1
  BY <1>7, <1>8, <1>9 DEF Position
<1>11. IndexOf(lc, x) = i
  BY <1>4, <1>8, IndexIs
<1>12. PICK u : u = ReplaceItem(at, e)
  OBVIOUS
<1>13. [lc EXCEPT !.chunks[i].items[k] = e] = lc
  <2>1. PICK h : h = lc.chunks[i]
    OBVIOUS
  <2>2. h \in ChunkType /\ h.items = items
    BY <1>8, <1>9, <2>1
  <2>3. [items EXCEPT ![k] = e] = items
    BY <1>9
  <2>4. [h EXCEPT !.items[k] = e] = h
    BY <2>2, <2>3 DEF ChunkType
  <2>5. [lc.chunks EXCEPT ![i].items[k] = e] = lc.chunks
    <3>1. [lc.chunks EXCEPT ![i] = h] = lc.chunks
      <4>1. lc.chunks = [j \in 1 .. Len(lc.chunks) |-> lc.chunks[j]]
        BY <1>9
      <4>. QED BY <2>1, <4>1
    <3>2. [lc.chunks EXCEPT ![i].items[k] = e] = [lc.chunks EXCEPT ![i] = [h EXCEPT !.items[k] = e]]
      BY <2>1
    <3>. QED BY <2>4, <3>1, <3>2
  <2>6. lc = [chunks |-> lc.chunks, lazy |-> lc.lazy, gen |-> lc.gen, log |-> lc.log]
    BY <1>9 DEF Shape
  <2>. QED BY <2>5, <2>6
<1>14. PICK after : after = Emit(lc, <<u>>)
  OBVIOUS
<1>15. ReplaceOne(lc, known) = after
  BY <1>5, <1>10, <1>11, <1>12, <1>13, <1>14 DEF ReplaceOne, ReplaceItemAt
<1>16. PICK late : late = Behind(rows, lc)
  OBVIOUS
<1>17. ApplyUpdate(late, u) = late
  <2>1. Nice(late, S) /\ x \in DOMAIN late /\ late[x].items = items
    BY <1>3, <1>4, <1>8, <1>16, RowOf
  <2>2. k \in 1 .. Len(late[x].items)
    BY <1>9, <2>1
  <2>3. ApplyUpdate(late, ReplaceItem(Position(x, k - 1), late[x].items[k])) = late
    BY <2>1, <2>2, ReplaceSame
  <2>. QED BY <1>7, <1>8, <1>9, <1>12, <2>1, <2>3
<1>18. With(lc, lc.chunks, lc.lazy, lc.gen) = lc
  BY <1>9 DEF With, Shape
<1>19. /\ after.chunks = lc.chunks /\ after.log["store"] = lc.log["store"] \o <<u>>
       /\ after.log["tracker"] = lc.log["tracker"] \o <<u>>
       /\ Behind(rows, after) = ApplyUpdate(late, u)
  <2>1. LET a == Emit(With(lc, lc.chunks, lc.lazy, lc.gen), <<u>>)
         IN  /\ a.chunks = lc.chunks
             /\ \A r \in Readers : a.log[r] = lc.log[r] \o <<u>>
             /\ \A table : Behind(table, a) = ApplyUpdate(Behind(table, lc), u)
    BY <1>9, EmitIs
  <2>. QED BY <1>14, <1>16, <1>18, <2>1 DEF Readers
<1>20. Unmoved(c, lc, n, after)
  <2>1. \A table, Z : Told(table, Z, u, table, Z)
    BY <1>12, SameTold
  <2>. QED BY <1>3, <1>4, <1>14, <1>16, <1>17, <2>1, SameSees
<1>21. \E Z : SeesRows(Behind(rows, after), after, Z, n)
  BY <1>3, <1>20 DEF Unmoved, Mirrored, Sees
<1>22. Agree(rows, Behind(rows, after))
  BY <1>16, <1>17, <1>19 DEF Lagging
<1>23. ASSUME NEW log, IsLog(log), \A j \in 1 .. Len(log) : Small(log[j], rows, lc)
       PROVE  \A j \in 1 .. Len(log \o <<u>>) : Small((log \o <<u>>)[j], rows, after)
  <2>1. /\ e \in Nat /\ k - 1 \in Nat /\ i \in 1 .. Len(after.chunks)
        /\ u = ReplaceItem(Position(after.chunks[i].id, k - 1), e)
    <3>1. e \in Nat /\ k - 1 \in Nat
      BY <1>7, <1>8, <1>9
    <3>2. i \in 1 .. Len(after.chunks)
      BY <1>7, <1>8, <1>19
    <3>3. u = ReplaceItem(Position(after.chunks[i].id, k - 1), e)
      BY <1>7, <1>8, <1>12, <1>19
    <3>. QED BY <3>1, <3>2, <3>3
  <2>2. after.chunks[i].gap = NoToken
    <3>1. lc.chunks[i].gap # NoToken => lc.chunks[i].items = <<>>
      BY <1>4, ChunksAre
    <3>. QED BY <1>8, <1>9, <1>19, <3>1
  <2>3. Small(u, rows, after)
    BY <2>1, <2>2 DEF Small
  <2>4. ASSUME NEW j \in 1 .. Len(log) PROVE Small(log[j], rows, after)
    <3>1. Small(log[j], rows, lc)
      BY <1>23
    <3>. QED BY <1>19, <3>1 DEF Small
  <2>. QED BY <1>23, <2>3, <2>4, SmallMore
<1>24. PICK a, b : a = lc.log["store"] /\ b = lc.log["tracker"]
  OBVIOUS
<1>25. IsLog(a) /\ IsLog(b)
  BY <1>9, <1>24 DEF Shape, Readers
<1>26. Lagging(rows, after, n)
  <2>1. \A j \in 1 .. Len(a) : Small(a[j], rows, lc)
    BY <1>24 DEF Lagging
  <2>2. \A j \in 1 .. Len(a \o <<u>>) : Small((a \o <<u>>)[j], rows, after)
    BY <1>23, <1>25, <2>1
  <2>3. \E Z : Nice(rows, Z)
    BY DEF Lagging
  <2>. QED BY <1>19, <1>21, <1>22, <1>24, <2>2, <2>3 DEF Lagging
<1>27. Tracks(t, rows, after, n)
  <2>1. \A j \in 1 .. Len(b) : Small(b[j], rows, lc)
    BY <1>24 DEF Tracks
  <2>2. \A j \in 1 .. Len(b \o <<u>>) : Small((b \o <<u>>)[j], rows, after)
    BY <1>23, <1>25, <2>1
  <2>3. PICK Z : Sees(c, after, Z, n)
    BY <1>20 DEF Unmoved, Mirrored
  <2>. QED BY <1>3, <1>19, <1>24, <2>2, <2>3 DEF Tracks, Sees, Heard
<1>. QED BY <1>15, <1>16, <1>17, <1>19, <1>26, <1>27 DEF StillLags

TailReplaced(c, n, r) ==
  /\ IsC(r) /\ r.panicked = c.panicked /\ r.rows = c.rows /\ r.tracked = c.tracked
  /\ StillLags(c.rows, c.tracked, c.lc, n, r.lc)

\* The common tail is replaced by itself.
LEMMA ReplaceTailIs ==
  ASSUME NEW c, IsC(c), NEW n, Lagging(c.rows, c.lc, n), Tracks(c.tracked, c.rows, c.lc, n),
         NEW at, NEW tail \in Nat, NEW events,
         \A i \in 1 .. tail : Held(c.lc, at[Len(at) - tail + i], events[i])
  PROVE  TailReplaced(c, n, ReplaceTail(c, at, tail, events))
<1>1. PICK s : s = [i \in 1 .. tail |-> [at |-> at[Len(at) - tail + i], event |-> events[i]]]
  OBVIOUS
<1>2. DOMAIN s = 1 .. tail /\ \A i \in 1 .. tail : Held(c.lc, s[i].at, s[i].event)
  BY <1>1
<1>3. PICK l : l = FoldLeft(ReplaceOne, c.lc, s)
  OBVIOUS
<1>4. PICK r : r = ReplaceTail(c, at, tail, events)
  OBVIOUS
<1>5. r = [c EXCEPT !.lc = l]
  BY <1>1, <1>3, <1>4 DEF ReplaceTail
<1>6. IsC(r) /\ r.panicked = c.panicked /\ r.rows = c.rows /\ r.tracked = c.tracked /\ r.lc = l
  BY <1>5 DEF IsC, Fields
<1>7. FoldLeft(ReplaceOne, c.lc, s) = Replacing!Fold(c.lc, s)
  BY DEF Replacing!Fold, Replacing!FoldLeft, FoldLeft, Replacing!MapThenFoldSet, MapThenFoldSet, Replacing!Max, Max
<1>8. PICK F : Replacing!IsRun(F, c.lc, s, tail) /\ F[tail] = Replacing!Fold(c.lc, s)
  BY <1>2, Replacing!FoldRuns
<1>9. F[0] = c.lc /\ \A k \in 1 .. tail : F[k] = ReplaceOne(F[k - 1], s[k])
  BY <1>8 DEF Replacing!IsRun
<1>10. PICK K : K = {k \in Nat : k <= tail => StillLags(c.rows, c.tracked, c.lc, n, F[k])}
  OBVIOUS
<1>11. 0 \in K
  BY <1>9, <1>10 DEF StillLags
<1>12. ASSUME NEW k \in Nat, k \in K PROVE k + 1 \in K
  <2>1. SUFFICES ASSUME k + 1 <= tail PROVE StillLags(c.rows, c.tracked, c.lc, n, F[k + 1])
    BY <1>10
  <2>2. PICK x : x = F[k]
    OBVIOUS
  <2>3. k + 1 \in 1 .. tail /\ (k + 1) - 1 = k /\ k <= tail
    BY <2>1
  <2>4. StillLags(c.rows, c.tracked, c.lc, n, x)
    BY <1>10, <1>12, <2>2, <2>3
  <2>5. F[k + 1] = ReplaceOne(x, s[k + 1])
    BY <1>9, <2>2, <2>3
  <2>6. Lagging(c.rows, x, n) /\ Tracks(c.tracked, c.rows, x, n) /\ x.chunks = c.lc.chunks /\ Behind(c.rows, x) = Behind(c.rows, c.lc)
    BY <2>4 DEF StillLags
  <2>7. Held(x, s[k + 1].at, s[k + 1].event)
    <3>1. PICK q, e : q = s[k + 1].at /\ e = s[k + 1].event
      OBVIOUS
    <3>2. Held(c.lc, q, e)
      BY <1>2, <2>3, <3>1
    <3>3. Held(x, q, e)
      BY <2>6, <3>2 DEF Held
    <3>. QED BY <3>1, <3>3
  <2>8. StillLags(c.rows, c.tracked, x, n, ReplaceOne(x, s[k + 1]))
    BY <2>6, <2>7, ReplaceOneIs
  <2>. QED BY <2>5, <2>6, <2>8 DEF StillLags
<1>13. \A k \in Nat : k \in K
  BY <1>11, <1>12, Replacing!NatInd
<1>14. StillLags(c.rows, c.tracked, c.lc, n, F[tail])
  BY <1>10, <1>13
<1>. QED BY <1>3, <1>4, <1>6, <1>7, <1>8, <1>14 DEF TailReplaced

-----------------------------------------------------------------------------
(* The deduplicator.                                                       *)

\* What filter_duplicate_events says of the events: all that are stored, split by whether
\* their chunk is loaded.
FilteredSet(c, E, dups) ==
  /\ Found(c, dups.memory, dups.store)
  /\ \A d \in dups.memory \cup dups.store : d.event \in E
  /\ \A at, e : HeldRow(c.rows, at, e) /\ e \in E =>
       \E d \in dups.memory \cup dups.store : d.event = e /\ d.at = at
Filtered(c, events, dups) == FilteredSet(c, ToSet(events), dups)

\* The duplicates of a set of events, split by whether their chunk is loaded.
LEMMA SplitIs ==
  ASSUME NEW c, NEW S, Nice(c.rows, S), NEW E
  PROVE  FilteredSet(c, E, SplitByMemory(c, Duplicates(c.rows, E)))
<1>1. PICK found : found = Duplicates(c.rows, E)
  OBVIOUS
<1>2. PICK split : split = SplitByMemory(c, found)
  OBVIOUS
<1>3. /\ split.memory = {d \in found : d.at.chunk \in Ids(c.lc)}
      /\ split.store = {d \in found : d.at.chunk \notin Ids(c.lc)}
  BY <1>2 DEF SplitByMemory
<1>4. /\ \A d \in found : HeldRow(c.rows, d.at, d.event) /\ d.event \in E
      /\ \A at, e : HeldRow(c.rows, at, e) /\ e \in E => \E d \in found : d.event = e /\ d.at = at
  BY <1>1, DuplicatesAre
<1>5. Found(c, split.memory, split.store)
  BY <1>3, <1>4 DEF Found
<1>6. ASSUME NEW at, NEW e, HeldRow(c.rows, at, e), e \in E
      PROVE  \E d \in split.memory \cup split.store : d.event = e /\ d.at = at
  <2>1. PICK d \in found : d.event = e /\ d.at = at
    BY <1>4, <1>6
  <2>2. d \in split.memory \cup split.store
    BY <1>3
  <2>. QED BY <2>1, <2>2
<1>7. \A d \in split.memory \cup split.store : d.event \in E
  BY <1>3, <1>4
<1>. QED BY <1>1, <1>2, <1>5, <1>6, <1>7 DEF FilteredSet

\* filter_duplicate_events finds every event that is stored, at the place where it is.
LEMMA FilterIs ==
  ASSUME NEW c, NEW S, Nice(c.rows, S), NEW events
  PROVE  Filtered(c, events, FilterDuplicateEvents(c, events))
<1>1. PICK split : split = SplitByMemory(c, Duplicates(c.rows, ToSet(events)))
  OBVIOUS
<1>2. PICK dups : dups = FilterDuplicateEvents(c, events)
  OBVIOUS
<1>3. dups.memory = split.memory /\ dups.store = split.store
  BY <1>1, <1>2 DEF FilterDuplicateEvents, Outcome
<1>4. FilteredSet(c, ToSet(events), split)
  BY <1>1, SplitIs
<1>. QED BY <1>2, <1>3, <1>4 DEF Filtered, FilteredSet

\* A bounded set of numbers has a maximum.
LEMMA MaxMember ==
  ASSUME NEW T, T # {}, NEW m \in Nat, \A x \in T : x \in 0 .. m
  PROVE  Max(T) \in T /\ \A x \in T : Max(T) >= x
<1>1. PICK U : U = {m - x : x \in T}
  OBVIOUS
<1>2. U # {} /\ \A x \in U : x \in Nat
  BY <1>1
<1>3. PICK u \in U : \A x \in U : u <= x
  BY <1>2, Applying!Least
<1>4. PICK t \in T : u = m - t
  BY <1>1
<1>5. \A x \in T : t >= x
  BY <1>1, <1>3, <1>4
<1>. QED BY <1>5, Zenon DEF Max

IsTail(items, events, n) ==
  /\ n \in 0 .. Len(events) /\ n <= Len(items)
  /\ \A i \in 1 .. n : items[Len(items) - n + i] = events[i]

\* What handle_sync takes as the tail that the new events begin with.
LEMMA CommonTailIs ==
  ASSUME NEW c, NEW n, Mirrored(c, c.lc, n), NEW events \in Seq(Nat)
  PROVE  IsTail(ItemsOf(c.lc.chunks), events, CommonTail(c, events))
<1>1. PICK items : items = ItemsOf(c.lc.chunks)
  OBVIOUS
<1>2. items \in Seq(Nat) /\ Len(items) \in Nat
  BY <1>1, PositionsAre DEF ArePlaces
<1>3. Len(events) \in Nat
  OBVIOUS
<1>4. PICK T : T = {k \in 0 .. Len(events) : k <= Len(items) /\
            SubSeq(items, Len(items) - k + 1, Len(items)) = SubSeq(events, 1, k)}
  OBVIOUS
<1>5. 0 \in T
  <2>1. PICK a, b : a = SubSeq(items, Len(items) + 1, Len(items)) /\ b = SubSeq(events, 1, 0)
    OBVIOUS
  <2>2. a \in Seq(Nat) /\ Len(a) = 0
    <3>1. Len(items) + 1 \in 1 .. Len(items) + 1 /\ Len(items) \in 0 .. Len(items) /\ Len(items) - (Len(items) + 1) + 1 = 0
      BY <1>2
    <3>. QED BY <1>2, <2>1, <3>1, SubSeqIs
  <2>3. b \in Seq(Nat) /\ Len(b) = 0
    <3>1. 1 \in 1 .. Len(events) + 1 /\ 0 \in 0 .. Len(events) /\ 0 - 1 + 1 = 0 /\ 1 <= 0 + 1
      BY <1>3
    <3>. QED BY <2>1, <3>1, SubSeqIs
  <2>4. a = b
    BY <2>2, <2>3
  <2>5. Len(items) - 0 + 1 = Len(items) + 1
    BY <1>2
  <2>. QED BY <1>2, <1>3, <1>4, <2>1, <2>4, <2>5
<1>6. PICK k : k = CommonTail(c, events)
  OBVIOUS
<1>7. k = Max(T)
  BY <1>1, <1>4, <1>6 DEF CommonTail
<1>8. k \in T
  <2>1. \A x \in T : x \in 0 .. Len(events)
    BY <1>4
  <2>2. T # {}
    BY <1>5
  <2>. QED BY <1>3, <1>7, <2>1, <2>2, MaxMember
<1>9. k \in 0 .. Len(events) /\ k <= Len(items) /\ SubSeq(items, Len(items) - k + 1, Len(items)) = SubSeq(events, 1, k)
  BY <1>4, <1>8
<1>10. ASSUME NEW i \in 1 .. k PROVE items[Len(items) - k + i] = events[i]
  <2>1. PICK a, lo : a = SubSeq(items, lo, Len(items)) /\ lo = Len(items) - k + 1
    OBVIOUS
  <2>2. lo \in 1 .. Len(items) + 1 /\ Len(items) \in 0 .. Len(items) /\ lo <= Len(items) + 1 /\ Len(items) - lo + 1 = k
    BY <1>2, <1>3, <1>9, <2>1
  <2>3. \A j \in 1 .. Len(items) - lo + 1 : a[j] = items[lo + j - 1]
    BY <1>2, <2>1, <2>2, SubSeqIs
  <2>4. a[i] = items[lo + i - 1] /\ lo + i - 1 = Len(items) - k + i
    BY <1>2, <1>9, <2>1, <2>2, <2>3
  <2>5. SubSeq(events, 1, k)[i] = events[i]
    <3>1. 1 \in 1 .. Len(events) + 1 /\ k \in 0 .. Len(events) /\ 1 <= k + 1 /\ k - 1 + 1 = k
      BY <1>3, <1>9
    <3>2. \A j \in 1 .. k - 1 + 1 : SubSeq(events, 1, k)[j] = events[1 + j - 1]
      BY <3>1, SubSeqIs
    <3>3. i \in 1 .. k - 1 + 1 /\ 1 + i - 1 = i
      BY <3>1
    <3>. QED BY <3>2, <3>3
  <2>. QED BY <1>9, <2>1, <2>4, <2>5
<1>. QED BY <1>1, <1>6, <1>9, <1>10 DEF IsTail

-----------------------------------------------------------------------------
(* The cache between two operations.                                       *)

\* A room with no chunk in the store, which has yet to see the first one.
Fresh(c) ==
  /\ c.rows = NoRows
  /\ Shape(c.lc)
  /\ c.lc.chunks = <<Chunk(0, NoToken, <<>>)>> /\ c.lc.lazy = NoChunk /\ c.lc.gen \in Nat
  /\ c.lc.log["store"] = <<NewChunk(NoChunk, 0, NoChunk, NoToken)>>
  /\ c.tracked = <<[id |-> 0, len |-> 0]>> /\ c.lc.log["tracker"] = <<>>

\* The cache before the order tracker has taken what waits for it.
Stable(c, n) ==
  /\ IsC(c) /\ c.panicked # "remove" /\ Len(c.lc.chunks) > 0
  /\ \/ Fresh(c) /\ n = 0
     \/ /\ Lagging(c.rows, c.lc, n) /\ (c.lc.log["store"] # <<>> => Gaps(c.lc) # {})
        /\ Mirrored(c, c.lc, n)

\* What waits for the tracker waits for the store, too.
Settles(c, n) ==
  Tracks(c.tracked, c.rows, c.lc, n) /\ (c.lc.log["tracker"] # <<>> => Gaps(c.lc) # {})

\* The cache between two operations.
AtRest(c, n) == Stable(c, n) /\ Settles(c, n)

\* A room with its first chunk only is mirrored, too.
LEMMA FreshIs ==
  ASSUME NEW c, Fresh(c)
  PROVE  Mirrored(c, c.lc, 0) /\ Settles(c, 0) /\ Ev(c, c.lc) = {} /\ Nice(c.rows, <<>>) /\ Len(c.lc.chunks) = 1
<1>1. PICK u, none : u = NewChunk(NoChunk, 0, NoChunk, NoToken) /\ none = <<>>
  OBVIOUS
<1>2. none \in Seq({}) /\ none \in Seq(Nat) /\ Len(none) = 0
  BY <1>1
<1>3. Nth(none, 0) = NoChunk /\ Nth(none, 0 + 1) = NoChunk
  BY <1>2 DEF Nth
<1>4. PICK after : after = ApplyUpdate(NoRows, u)
  OBVIOUS
<1>5. Added(NoRows, none, 0, 0, NoToken, after)
  <2>1. Nice(NoRows, none)
    BY <1>1, NoRowsNice
  <2>2. 0 \in 0 .. Len(none) /\ 0 \in Nat /\ 0 \notin DOMAIN NoRows /\ NoToken \in Nat
    BY <1>2 DEF NoRows, NoToken
  <2>3. Added(NoRows, none, 0, 0, NoToken, ApplyUpdate(NoRows, NewChunk(Nth(none, 0), 0, Nth(none, 0 + 1), NoToken)))
    BY <2>1, <2>2, InsertNice
  <2>. QED BY <1>1, <1>3, <1>4, <2>3
<1>6. Behind(c.rows, c.lc) = after
  <2>1. IsLog(none)
    BY <1>2 DEF IsLog
  <2>2. none \o <<u>> = <<u>>
    BY <1>1
  <2>3. Apply(NoRows, none \o <<u>>) = ApplyUpdate(Apply(NoRows, none), u)
    BY <2>1, ApplyMore
  <2>4. Apply(NoRows, none) = NoRows
    BY <1>1, ApplyNone
  <2>. QED BY <1>1, <1>4, <2>2, <2>3, <2>4 DEF Behind, Fresh
<1>7. PICK S : S = Ins(none, 0, 0)
  OBVIOUS
<1>8. S \in Seq(Nat) /\ Len(S) = 1 /\ S[1] = 0
  <2>1. S = [j \in 1 .. 1 |-> 0]
    BY <1>2, <1>7 DEF Ins
  <2>. QED BY <2>1
<1>9. Nice(after, S) /\ DOMAIN after = {0} /\ after[0].gap = NoToken /\ after[0].items = <<>>
  BY <1>5, <1>7 DEF Added, NoRows
<1>10. Loaded(after, S, 0) = <<Chunk(0, NoToken, <<>>)>>
  <2>1. Loaded(after, S, 0) = [i \in 1 .. 1 |-> Chunk(0, NoToken, <<>>)]
    BY <1>8, <1>9 DEF Loaded
  <2>. QED BY <2>1
<1>11. SeesRows(after, c.lc, S, 0)
  <2>1. Nth(S, 0) = NoChunk
    BY <1>8 DEF Nth
  <2>2. 0 \in 0 .. Len(S) /\ \A i \in 1 .. Len(S) : S[i] <= c.lc.gen
    BY <1>8 DEF Fresh
  <2>. QED BY <1>9, <1>10, <2>1, <2>2 DEF SeesRows, Fresh
<1>12. StoredEvents(after) = {}
  <2>1. ASSUME NEW e \in StoredEvents(after) PROVE FALSE
    <3>1. Typed(after)
      BY <1>9 DEF Nice
    <3>2. \E id \in DOMAIN after : \E i \in 1 .. Len(after[id].items) : after[id].items[i] = e
      BY <3>1, Events
    <3>. QED BY <1>9, <3>2
  <2>. QED BY <2>1
<1>13. Len(c.lc.chunks) = 1
  BY DEF Fresh
<1>14. PICK t, L : t = c.tracked /\ L = [id |-> 0, len |-> 0]
  OBVIOUS
<1>15. t = <<L>> /\ c.lc.log["tracker"] = <<>>
  BY <1>14 DEF Fresh
<1>16. Follows(HeardOf(t, c.lc.log["tracker"]), after, S)
  <2>1. HeardOf(t, c.lc.log["tracker"]) = Blank(t)
    BY <1>15, HeardNone
  <2>2. Lengths(after, S) = t
    <3>1. Lengths(after, S) = [i \in 1 .. 1 |-> L]
      BY <1>8, <1>9, <1>14 DEF Lengths
    <3>2. <<L>> = [i \in 1 .. 1 |-> L]
      OBVIOUS
    <3>. QED BY <1>15, <3>1, <3>2
  <2>. QED BY <2>1, <2>2 DEF Follows, Blank
<1>17. Distinct(t)
  <2>1. L \in LenInt
    BY <1>14 DEF LenInt
  <2>2. t \in Seq(LenInt) /\ Len(t) = 1
    BY <1>15, <2>1
  <2>3. \A i, j \in 1 .. 1 : i = j
    OBVIOUS
  <2>. QED BY <2>2, <2>3 DEF Distinct
<1>18. Settles(c, 0)
  <2>1. Len(c.lc.log["tracker"]) = 0
    BY <1>15
  <2>2. \A i \in 1 .. Len(c.lc.log["tracker"]) : Small(c.lc.log["tracker"][i], c.rows, c.lc)
    BY <2>1
  <2>. QED BY <1>6, <1>11, <1>14, <1>15, <1>16, <1>17, <2>2 DEF Settles, Tracks
<1>19. Sees(c, c.lc, S, 0)
  BY <1>6, <1>11, <1>14, <1>16 DEF Sees, Heard
<1>. QED BY <1>1, <1>6, <1>12, <1>13, <1>18, <1>19, NoRowsNice DEF Mirrored, Ev, Fresh

\* What is true at rest, of a new room as well.
LEMMA RestIs ==
  ASSUME NEW c, NEW n, Stable(c, n)
  PROVE  IsC(c) /\ Mirrored(c, c.lc, n) /\ Len(c.lc.chunks) > 0 /\ \E S : Nice(c.rows, S)
<1>1. CASE Fresh(c) /\ n = 0
  BY <1>1, FreshIs DEF Stable
<1>2. CASE Lagging(c.rows, c.lc, n) /\ Mirrored(c, c.lc, n)
  <2>1. \E S : Nice(c.rows, S)
    BY <1>2 DEF Lagging
  <2>. QED BY <1>2, <2>1 DEF Stable
<1>. QED BY <1>1, <1>2 DEF Stable

\* In a new room there is nothing to find.
LEMMA FreshHolds ==
  ASSUME NEW c, Fresh(c), NEW M, NEW T, Found(c, M, T)
  PROVE  M = {} /\ T = {}
<1>1. \A at, f : ~HeldRow(c.rows, at, f)
  BY DEF Fresh, NoRows, HeldRow
<1>. QED BY <1>1 DEF Found

Calm(c, n, r) ==
  /\ IsC(r) /\ r.panicked = c.panicked /\ Len(r.lc.chunks) > 0
  /\ r.lc.log["store"] = <<>>
  /\ Lagging(r.rows, r.lc, n) /\ Mirrored(r, r.lc, n)

\* The gap and the events come to the end, and the store takes them.
LEMMA PushAndPropagate ==
  ASSUME NEW c, IsC(c), NEW n, Mirrored(c, c.lc, n), Len(c.lc.chunks) > 0, NEW gap \in Nat, NEW s, Unknown(c, c.lc, s)
  PROVE  Calm(c, n, Propagate([c EXCEPT !.lc = PushLiveEvents(c.lc, gap, s)]))
<1>1. PICK l : l = PushLiveEvents(c.lc, gap, s)
  OBVIOUS
<1>2. Mirrored(c, l, n) /\ Len(l.chunks) > 0
  BY <1>1, PushLiveIs
<1>3. PICK d : d = [c EXCEPT !.lc = l]
  OBVIOUS
<1>4. IsC(d) /\ d.lc = l /\ d.rows = c.rows /\ d.panicked = c.panicked /\ d.tracked = c.tracked
  BY <1>3 DEF IsC, Fields
<1>5. Mirrored(d, d.lc, n)
  BY <1>2, <1>4 DEF Mirrored, Sees
<1>6. Propagated(d, n, Propagate(d))
  BY <1>4, <1>5, PropagateIs
<1>. QED BY <1>1, <1>2, <1>3, <1>4, <1>6 DEF Propagated, Calm

\* handle_sync in a new room.
LEMMA PushToFresh ==
  ASSUME NEW c, IsC(c), Fresh(c), NEW events \in Seq(Nat), Injective(events), NEW dups, Filtered(c, events, dups),
         NEW gap \in Nat, NEW tail, IsTail(ItemsOf(c.lc.chunks), events, tail)
  PROVE  Calm(c, 0, RemoveAndPush(c, Positions(c.lc), tail, dups, gap, events))
<1>1. Mirrored(c, c.lc, 0) /\ Ev(c, c.lc) = {} /\ Len(c.lc.chunks) = 1
  BY FreshIs
<1>2. tail = 0
  <2>1. PICK items : items = ItemsOf(c.lc.chunks)
    OBVIOUS
  <2>2. Len(items) \in Nat /\ \A k \in 1 .. Len(items) : Held(c.lc, Positions(c.lc)[k], items[k])
    BY <1>1, <2>1, PositionsAre DEF ArePlaces
  <2>3. \A k \in 1 .. Len(items) : items[k] \in Ev(c, c.lc)
    BY <1>1, <2>2, HeldIsKnown
  <2>4. Len(items) = 0
    BY <1>1, <2>2, <2>3
  <2>5. tail \in 0 .. Len(events) /\ tail <= Len(items)
    BY <2>1 DEF IsTail
  <2>. QED BY <2>4, <2>5
<1>3. dups.memory = {} /\ dups.store = {}
  <2>1. Found(c, dups.memory, dups.store)
    BY DEF Filtered, FilteredSet
  <2>. QED BY <2>1, FreshHolds
<1>4. PICK at : at = Positions(c.lc)
  OBVIOUS
<1>5. ReplaceTail(c, at, tail, events) = c
  <2>1. PICK s : s = [i \in 1 .. tail |-> [at |-> at[Len(at) - tail + i], event |-> events[i]]]
    OBVIOUS
  <2>2. s = <<>>
    BY <1>2, <2>1
  <2>3. FoldLeft(ReplaceOne, c.lc, <<>>) = Replacing!Fold(c.lc, <<>>)
    BY DEF Replacing!Fold, Replacing!FoldLeft, FoldLeft, Replacing!MapThenFoldSet, MapThenFoldSet, Replacing!Max, Max
  <2>4. FoldLeft(ReplaceOne, c.lc, s) = c.lc
    BY <2>2, <2>3, Replacing!FoldEmpty
  <2>5. ReplaceTail(c, at, tail, events) = [c EXCEPT !.lc = c.lc]
    BY <2>1, <2>4 DEF ReplaceTail
  <2>6. [c EXCEPT !.lc = c.lc] = c
    BY DEF IsC, Fields
  <2>. QED BY <2>5, <2>6
<1>6. PICK rest : rest = SubSeq(events, tail + 1, Len(events))
  OBVIOUS
<1>7. RemoveAndPush(c, at, tail, dups, gap, events) = Propagate([c EXCEPT !.lc = PushLiveEvents(c.lc, gap, rest)])
  <2>1. RemoveEvents(c, {}, {}) = c
    BY RemoveNothing
  <2>2. \A kept : {d \in dups.memory : d.at \notin kept} = {}
    BY <1>3
  <2>3. RemoveEvents(ReplaceTail(c, at, tail, events),
          {d \in dups.memory : d.at \notin {at[i] : i \in Len(at) - tail + 1 .. Len(at)}}, dups.store) = c
    BY <1>3, <1>5, <2>1, <2>2
  <2>. QED BY <1>6, <2>3 DEF RemoveAndPush
<1>8. Unknown(c, c.lc, rest)
  <2>1. Unknown(c, c.lc, events)
    BY <1>1 DEF Unknown
  <2>2. tail + 1 \in 1 .. Len(events) + 1 /\ Len(events) \in 0 .. Len(events) /\ tail + 1 <= Len(events) + 1
    BY <1>2
  <2>. QED BY <1>6, <2>1, <2>2, PartUnknown
<1>9. Calm(c, 0, Propagate([c EXCEPT !.lc = PushLiveEvents(c.lc, gap, rest)]))
  <2>1. Len(c.lc.chunks) > 0
    BY <1>1
  <2>. QED BY <1>1, <1>8, <2>1, PushAndPropagate
<1>. QED BY <1>4, <1>7, <1>9

\* handle_sync: the common tail is replaced in place, the other duplicates go, the rest is
\* appended, and none of it is stored twice.
LEMMA PushToLagging ==
  ASSUME NEW c, IsC(c), NEW n, Lagging(c.rows, c.lc, n), Tracks(c.tracked, c.rows, c.lc, n),
         Len(c.lc.chunks) > 0, NEW events \in Seq(Nat), Injective(events), NEW dups, Filtered(c, events, dups),
         NEW gap \in Nat, NEW tail, IsTail(ItemsOf(c.lc.chunks), events, tail)
  PROVE  Calm(c, n, RemoveAndPush(c, Positions(c.lc), tail, dups, gap, events))
<1>1. Mirrored(c, c.lc, n)
  BY TracksMirrors
<1>2. PICK at, items, m : at = Positions(c.lc) /\ items = ItemsOf(c.lc.chunks) /\ m = Len(events)
  OBVIOUS
<1>3. /\ Len(items) \in Nat /\ Len(at) = Len(items) /\ m \in Nat
      /\ \A k \in 1 .. Len(items) : Held(c.lc, at[k], items[k])
  BY <1>1, <1>2, PositionsAre DEF ArePlaces
<1>4. /\ tail \in 0 .. m /\ tail <= Len(items) /\ tail \in Nat
      /\ \A i \in 1 .. tail : items[Len(items) - tail + i] = events[i]
  BY <1>2, <1>3 DEF IsTail
<1>5. ASSUME NEW i \in 1 .. tail PROVE Held(c.lc, at[Len(at) - tail + i], events[i])
  <2>1. Len(items) - tail + i \in 1 .. Len(items)
    BY <1>3, <1>4
  <2>. QED BY <1>3, <1>4, <2>1
<1>6. PICK c1 : c1 = ReplaceTail(c, at, tail, events)
  OBVIOUS
<1>7. TailReplaced(c, n, c1)
  BY <1>4, <1>5, <1>6, ReplaceTailIs
<1>8. /\ IsC(c1) /\ c1.panicked = c.panicked /\ c1.rows = c.rows
      /\ Lagging(c1.rows, c1.lc, n) /\ Tracks(c1.tracked, c1.rows, c1.lc, n) /\ c1.lc.chunks = c.lc.chunks /\ Ev(c1, c1.lc) = Ev(c, c.lc)
  BY <1>7 DEF TailReplaced, StillLags, Ev
<1>9. PICK kept : kept = {at[i] : i \in Len(at) - tail + 1 .. Len(at)}
  OBVIOUS
<1>10. PICK M, T : M = {d \in dups.memory : d.at \notin kept} /\ T = dups.store
  OBVIOUS
<1>11. Found(c1, M, T)
  <2>1. Found(c, dups.memory, dups.store)
    BY DEF Filtered, FilteredSet
  <2>2. Ids(c1.lc) = Ids(c.lc)
    BY <1>8 DEF Ids
  <2>. QED BY <1>8, <1>10, <2>1, <2>2 DEF Found
<1>12. PICK c2 : c2 = RemoveEvents(c1, M, T)
  OBVIOUS
<1>13. EventsRemoved(c1, n, M, T, c2)
  <2>1. Len(c1.lc.chunks) > 0
    BY <1>8
  <2>. QED BY <1>8, <1>11, <1>12, <2>1, RemoveEventsIs
<1>14. /\ IsC(c2) /\ c2.panicked = c.panicked /\ Len(c2.lc.chunks) > 0 /\ Mirrored(c2, c2.lc, n)
       /\ \A e \in Ev(c2, c2.lc) : e \in Ev(c, c.lc) /\ \A d \in M \cup T : d.event # e
  BY <1>8, <1>13 DEF EventsRemoved
<1>15. PICK rest : rest = SubSeq(events, tail + 1, Len(events))
  OBVIOUS
<1>16. /\ rest \in Seq(Nat) /\ Len(rest) = m - tail
       /\ \A i \in 1 .. m - tail : rest[i] = events[tail + i] /\ tail + i \in 1 .. m
  <2>1. tail + 1 \in 1 .. m + 1 /\ m \in 0 .. m /\ tail + 1 <= m + 1 /\ m - (tail + 1) + 1 = m - tail
    BY <1>3, <1>4
  <2>2. PICK lo : lo = tail + 1
    OBVIOUS
  <2>3. /\ SubSeq(events, lo, m) \in Seq(Nat) /\ Len(SubSeq(events, lo, m)) = m - lo + 1
        /\ \A i \in 1 .. m - lo + 1 : SubSeq(events, lo, m)[i] = events[lo + i - 1]
    BY <1>2, <2>1, <2>2, SubSeqIs
  <2>4. \A i \in 1 .. m - tail : i \in 1 .. m - lo + 1 /\ lo + i - 1 = tail + i /\ tail + i \in 1 .. m
    BY <1>3, <1>4, <2>2
  <2>. QED BY <1>2, <1>3, <1>4, <1>15, <2>1, <2>2, <2>3, <2>4
<1>17. ASSUME NEW i \in 1 .. m - tail PROVE rest[i] \notin Ev(c2, c2.lc)
  <2>1. PICK j : j = tail + i
    OBVIOUS
  <2>2. PICK e : e = events[j]
    OBVIOUS
  <2>3. rest[i] = e /\ j \in 1 .. m /\ j > tail
    BY <1>4, <1>16, <2>1, <2>2
  <2>4. SUFFICES ASSUME e \in Ev(c2, c2.lc) PROVE FALSE
    BY <2>3
  <2>5. e \in StoredEvents(Behind(c.rows, c.lc))
    BY <1>14, <2>4 DEF Ev
  <2>6. PICK p : HeldRow(c.rows, p, e)
    BY <2>5, EventIsHeld
  <2>7. e \in ToSet(events)
    BY <1>2, <2>2, <2>3 DEF ToSet
  <2>8. PICK d \in dups.memory \cup dups.store : d.event = e /\ d.at = p
    BY <2>6, <2>7 DEF Filtered, FilteredSet
  <2>9. d \notin M \cup T
    BY <1>14, <2>4, <2>8
  <2>10. d \in dups.memory /\ p \in kept
    BY <1>10, <2>8, <2>9
  <2>11. PICK k \in Len(at) - tail + 1 .. Len(at) : p = at[k]
    BY <1>9, <2>10
  <2>12. PICK q : q = k - (Len(at) - tail)
    OBVIOUS
  <2>13. q \in 1 .. tail /\ Len(at) - tail + q = k
    BY <1>3, <1>4, <2>11, <2>12
  <2>14. Held(c.lc, p, events[q])
    BY <1>5, <2>11, <2>13
  <2>15. Held(c.lc, p, e)
    <3>1. p.chunk \in Ids(c.lc)
      <4>1. Found(c, dups.memory, dups.store)
        BY DEF Filtered, FilteredSet
      <4>. QED BY <2>8, <2>10, <4>1 DEF Found
    <3>2. PICK x \in 1 .. Len(c.lc.chunks) : c.lc.chunks[x].id = p.chunk
      BY <1>1, <3>1, IdsAre
    <3>. QED BY <2>6, <3>2, HeldInMemory
  <2>16. events[q] = events[j]
    BY <1>1, <2>2, <2>14, <2>15, HeldOnce
  <2>17. q \in 1 .. m /\ q # j
    BY <1>3, <1>4, <2>3, <2>13
  <2>. QED BY <1>2, <2>3, <2>16, <2>17 DEF Injective
<1>18. Unknown(c2, c2.lc, rest)
  <2>1. ASSUME NEW i \in 1 .. Len(rest), NEW j \in 1 .. Len(rest), rest[i] = rest[j] PROVE i = j
    <3>1. /\ i \in 1 .. m - tail /\ j \in 1 .. m - tail
      BY <1>16
    <3>2. events[tail + i] = events[tail + j] /\ tail + i \in 1 .. m /\ tail + j \in 1 .. m
      BY <1>16, <2>1, <3>1
    <3>3. tail + i = tail + j
      BY <1>2, <3>2 DEF Injective
    <3>. QED BY <1>4, <3>1, <3>3
  <2>. QED BY <1>16, <1>17, <2>1 DEF Unknown, Injective
<1>19. Calm(c2, n, Propagate([c2 EXCEPT !.lc = PushLiveEvents(c2.lc, gap, rest)]))
  BY <1>14, <1>18, PushAndPropagate
<1>20. RemoveAndPush(c, at, tail, dups, gap, events) = Propagate([c2 EXCEPT !.lc = PushLiveEvents(c2.lc, gap, rest)])
  BY <1>6, <1>9, <1>10, <1>12, <1>15 DEF RemoveAndPush
<1>. QED BY <1>2, <1>14, <1>19, <1>20 DEF Calm

-----------------------------------------------------------------------------
(* The answers of the server; what clearing and reloading leave.           *)

\* A response has each event once.
LEMMA InOrderIs ==
  ASSUME NEW D, IsFiniteSet(D), \A e \in D : e \in Nat
  PROVE  InOrder(D) \in Seq(Nat) /\ Injective(InOrder(D))
<1>1. PICK R : R = {p \in D \X D : p[1] < p[2]}
  OBVIOUS
<1>2. \A a, b \in D : <<a, b>> \in R <=> a < b
  BY <1>1
<1>3. Orders(R, D)
  BY <1>2 DEF Orders
<1>4. PICK m : m = Cardinality(D)
  OBVIOUS
<1>5. PICK s \in [1 .. m -> D] : InTheOrder(R, m, s)
  BY <1>3, <1>4, Listed
<1>6. \A i, j \in DOMAIN s : i < j => s[i] < s[j]
  BY <1>2, <1>5 DEF InTheOrder
<1>7. PICK t : t = InOrder(D)
  OBVIOUS
<1>8. t \in [1 .. m -> D] /\ \A i, j \in DOMAIN t : i < j => t[i] < t[j]
  BY <1>4, <1>6, <1>7, Zenon DEF InOrder
<1>9. InTheOrder(R, m, t)
  BY <1>2, <1>8 DEF InTheOrder
<1>10. m \in Nat /\ \A i, j \in 1 .. m : t[i] = t[j] => i = j
  BY <1>3, <1>4, <1>8, <1>9, ListedAll
<1>11. t \in [1 .. m -> Nat]
  BY <1>8
<1>12. t \in Seq(Nat) /\ Len(t) = m
  BY <1>10, <1>11
<1>. QED BY <1>7, <1>10, <1>12 DEF Injective

\* The events of a response.
LEMMA BetweenIs ==
  ASSUME NEW lo \in Nat, NEW hi \in Int
  PROVE  Between(lo, hi) \in Seq(Nat) /\ Injective(Between(lo, hi))
<1>1. PICK D : D = {e \in lo .. hi : Visible(e)}
  OBVIOUS
<1>2. D \subseteq lo .. hi
  BY <1>1
<1>3. IsFiniteSet(lo .. hi)
  BY FS_Interval
<1>4. IsFiniteSet(D) /\ \A e \in D : e \in Nat
  <2>1. IsFiniteSet(D)
    BY <1>2, <1>3, FS_Subset
  <2>2. \A e \in lo .. hi : e \in Nat
    OBVIOUS
  <2>. QED BY <1>2, <2>1, <2>2
<1>. QED BY <1>1, <1>4, InOrderIs DEF Between

\* What clear, replace_with and new leave: nothing but the given updates.
Cleared(chunks, lazy, gen) == [chunks |-> chunks, lazy |-> lazy, gen |-> gen, log |-> [r \in Readers |-> <<>>]]
OnlySays(chunks, lazy, gen, s, after) ==
  /\ Shape(after)
  /\ after.chunks = chunks /\ after.lazy = lazy /\ after.gen = gen
  /\ \A r \in Readers : after.log[r] = s
\* What is left after everything was cleared says only the given updates.
LEMMA ClearedEmits ==
  ASSUME NEW chunks, NEW lazy, NEW gen, NEW s, IsLog(s)
  PROVE  /\ OnlySays(chunks, lazy, gen, <<>>, Cleared(chunks, lazy, gen))
         /\ OnlySays(chunks, lazy, gen, s, Emit(Cleared(chunks, lazy, gen), s))
<1>1. PICK lc : lc = Cleared(chunks, lazy, gen)
  OBVIOUS
<1>2. PICK after : after = Emit(lc, s)
  OBVIOUS
<1>3. \A r \in Readers : lc.log[r] = <<>>
  BY <1>1 DEF Cleared
<1>4. PICK T : s \in Seq(T)
  BY DEF IsLog
<1>5. <<>> \o s = s
  BY <1>4
<1>6. PICK g : g = [r \in Readers |-> lc.log[r] \o s]
  OBVIOUS
<1>7. after = [chunks |-> chunks, lazy |-> lazy, gen |-> gen, log |-> g]
  BY <1>1, <1>2, <1>6 DEF Emit, Cleared
<1>8. \A r \in Readers : g[r] = s
  BY <1>3, <1>5, <1>6
<1>9. g = [r \in Readers |-> g[r]]
  BY <1>6
<1>10. OnlySays(chunks, lazy, gen, s, after)
  BY <1>7, <1>8, <1>9 DEF OnlySays, Shape
<1>11. OnlySays(chunks, lazy, gen, <<>>, lc)
  <2>1. IsLog(<<>>)
    <3>1. <<>> \in Seq({})
      OBVIOUS
    <3>. QED BY <3>1 DEF IsLog
  <2>2. lc.log = [r \in Readers |-> <<>>] /\ lc.chunks = chunks /\ lc.lazy = lazy /\ lc.gen = gen
    BY <1>1 DEF Cleared
  <2>3. lc = [chunks |-> lc.chunks, lazy |-> lc.lazy, gen |-> lc.gen, log |-> lc.log]
    BY <1>1, <2>2 DEF Cleared
  <2>. QED BY <1>3, <2>1, <2>2, <2>3 DEF OnlySays, Shape
<1>. QED BY <1>1, <1>2, <1>10, <1>11

\* A linked chunk with its first chunk, of which the store knows nothing.
FirstOnly(lc) ==
  /\ Shape(lc)
  /\ lc.chunks = <<Chunk(0, NoToken, <<>>)>> /\ lc.lazy = NoChunk /\ lc.gen \in Nat
  /\ lc.log["store"] = <<NewChunk(NoChunk, 0, NoChunk, NoToken)>> /\ lc.log["tracker"] = <<>>
\* The first chunk is made on first access.
LEMMA FirstChunkIs ==
  ASSUME NEW lc, Shape(lc), lc.chunks = <<>>, lc.lazy = NoChunk, lc.gen \in Nat, lc.log["store"] = <<>>
  PROVE  FirstOnly(FreshChunk(lc))
<1>1. PICK u, chunks : u = NewChunk(NoChunk, 0, NoChunk, NoToken) /\ chunks = <<Chunk(0, NoToken, <<>>)>>
  OBVIOUS
<1>2. PICK l : l = FirstChunk(lc)
  OBVIOUS
<1>3. l = Emit(With(lc, chunks, lc.lazy, lc.gen), <<u>>)
  <2>1. [lc EXCEPT !.chunks = chunks] = With(lc, chunks, lc.lazy, lc.gen)
    BY WithChunks
  <2>. QED BY <1>1, <1>2, <2>1 DEF FirstChunk
<1>4. /\ Shape(l) /\ l.chunks = chunks /\ l.lazy = lc.lazy /\ l.gen = lc.gen
      /\ \A r \in Readers : l.log[r] = lc.log[r] \o <<u>>
  BY <1>3, EmitIs
<1>5. l.log["store"] = <<u>>
  <2>1. <<>> \o <<u>> = <<u>>
    OBVIOUS
  <2>. QED BY <1>4, <2>1 DEF Readers
<1>6. PICK t : t = Take(l, "tracker")
  OBVIOUS
<1>7. /\ Shape(t) /\ t.chunks = l.chunks /\ t.lazy = l.lazy /\ t.gen = l.gen /\ t.log["tracker"] = <<>>
      /\ \A q \in Readers : q # "tracker" => t.log[q] = l.log[q]
  <2>1. "tracker" \in Readers
    BY DEF Readers
  <2>. QED BY <1>4, <1>6, <2>1, TakeIs
<1>8. t.log["store"] = <<u>>
  BY <1>5, <1>7 DEF Readers
<1>. QED BY <1>1, <1>2, <1>4, <1>6, <1>7, <1>8 DEF FirstOnly, FreshChunk

\* Only the last chunk of the store is loaded.
LastOnly(rows, lc) ==
  /\ Shape(lc)
  /\ lc.chunks = <<Chunk(LastId(rows), rows[LastId(rows)].gap, rows[LastId(rows)].items)>>
  /\ lc.lazy = rows[LastId(rows)].prev
  /\ lc.gen = MaxId(rows)
  /\ lc.log["store"] = <<>> /\ lc.log["tracker"] = <<>>
\* Memory with the last chunk of the store only, as after a reload.
LEMMA LastOnlyIs ==
  ASSUME NEW rows, NEW S, Nice(rows, S), Len(S) > 0, NEW lc, LastOnly(rows, lc)
  PROVE  Lagging(rows, lc, Len(S) - 1) /\ SeesRows(rows, lc, S, Len(S) - 1) /\ Len(lc.chunks) > 0
<1>1. PICK N, x : N = Len(S) /\ x = LastId(rows)
  OBVIOUS
<1>2. /\ N \in Nat /\ N > 0 /\ DOMAIN rows = {S[i] : i \in 1 .. N} /\ \A i \in 1 .. N : S[i] \in Nat
      /\ \A i \in 1 .. N : rows[S[i]].prev = Nth(S, i - 1)
  BY <1>1 DEF Nice, Linked
<1>3. x = S[N] /\ MaxId(rows) \in DOMAIN rows /\ \A id \in DOMAIN rows : id <= MaxId(rows)
  BY <1>1, LastIs
<1>4. lc.gen \in Nat /\ \A i \in 1 .. N : S[i] <= lc.gen
  <2>1. MaxId(rows) \in Nat
    BY <1>2, <1>3
  <2>. QED BY <1>2, <1>3, <2>1 DEF LastOnly
<1>5. lc.chunks = Loaded(rows, S, N - 1)
  <2>1. N - (N - 1) = 1 /\ (N - 1) + 1 = N
    BY <1>2
  <2>2. Loaded(rows, S, N - 1) = [i \in 1 .. 1 |-> Chunk(x, rows[x].gap, rows[x].items)]
    <3>1. \A i \in 1 .. 1 : (N - 1) + i = N
      BY <2>1
    <3>. QED BY <1>1, <1>3, <2>1, <3>1 DEF Loaded
  <2>. QED BY <1>1, <2>2 DEF LastOnly
<1>6. lc.lazy = Nth(S, N - 1)
  <2>1. N \in 1 .. N
    BY <1>2
  <2>. QED BY <1>1, <1>2, <1>3, <2>1 DEF LastOnly
<1>7. N - 1 \in 0 .. N
  BY <1>2
<1>8. SeesRows(rows, lc, S, N - 1)
  BY <1>1, <1>4, <1>5, <1>6, <1>7 DEF SeesRows, LastOnly
<1>9. Lagging(rows, lc, N - 1)
  BY <1>8, SettledLags DEF LastOnly
<1>10. Len(lc.chunks) = 1
  BY DEF LastOnly
<1>. QED BY <1>1, <1>8, <1>9, <1>10

\* The lengths the tracker is given when it is made anew.
LEMMA TrackedIs ==
  ASSUME NEW rows, NEW S, Nice(rows, S)
  PROVE  Tracked(Chain(rows)) = Lengths(rows, S)
<1>1. PICK ch, N : ch = Loaded(rows, S, 0) /\ N = Len(S)
  OBVIOUS
<1>2. N \in Nat
  BY <1>1 DEF Nice, Linked
<1>3. ch = [i \in 1 .. N |-> Chunk(S[i], rows[S[i]].gap, rows[S[i]].items)]
  <2>1. N - 0 = N /\ \A i \in 1 .. N : 0 + i = i
    BY <1>2
  <2>. QED BY <1>1, <2>1 DEF Loaded
<1>4. ASSUME NEW i \in 1 .. N PROVE ch[i].id = S[i] /\ ch[i].items = rows[S[i]].items
  <2>1. PICK x, g, t : x = S[i] /\ g = rows[S[i]].gap /\ t = rows[S[i]].items
    OBVIOUS
  <2>2. ch[i] = Chunk(x, g, t)
    BY <1>3, <2>1
  <2>3. ch[i].id = x /\ ch[i].items = t
    BY <2>2 DEF Chunk
  <2>. QED BY <2>1, <2>3
<1>5. DOMAIN ch = 1 .. N
  BY <1>3
<1>6. Tracked(ch) = Lengths(rows, S)
  BY <1>1, <1>4, <1>5 DEF Tracked, Lengths
<1>7. Chain(rows) = ch
  BY <1>1, NiceWellFormed
<1>. QED BY <1>6, <1>7

\* A tracker that has heard everything, and knows the lengths.
LEMMA QuietTracks ==
  ASSUME NEW rows, NEW lc, NEW S, NEW n, SeesRows(Behind(rows, lc), lc, S, n), lc.log["tracker"] = <<>>,
         NEW t, t = Lengths(Behind(rows, lc), S)
  PROVE  Tracks(t, rows, lc, n)
<1>1. PICK late : late = Behind(rows, lc)
  OBVIOUS
<1>2. Distinct(t)
  <2>1. Nice(late, S)
    BY <1>1 DEF SeesRows
  <2>. QED BY <1>1, <2>1, LengthsDistinct
<1>3. HeardOf(t, lc.log["tracker"]) = Blank(t)
  BY HeardNone
<1>4. Follows(Blank(t), late, S)
  BY <1>1 DEF Follows, Blank
<1>5. Len(lc.log["tracker"]) = 0
  OBVIOUS
<1>6. \A i \in 1 .. Len(lc.log["tracker"]) : Small(lc.log["tracker"][i], rows, lc)
  BY <1>5
<1>. QED BY <1>1, <1>2, <1>3, <1>4, <1>6 DEF Tracks

-----------------------------------------------------------------------------
(* The operations, at rest before and after.                               *)

\* updates_as_vector_diffs brings the cache to rest.
LEMMA DiffsRest ==
  ASSUME NEW c, NEW n, Stable(c, n)
  PROVE  AtRest(UpdatesAsVectorDiffs(c), n)
<1>1. PICK r : r = UpdatesAsVectorDiffs(c)
  OBVIOUS
<1>2. IsC(c) /\ Shape(c.lc) /\ Mirrored(c, c.lc, n)
  <2>1. IsC(c) /\ Mirrored(c, c.lc, n)
    BY RestIs
  <2>. QED BY <2>1, ChunksAre
<1>3. /\ IsC(r) /\ r.panicked = c.panicked /\ r.rows = c.rows /\ SameForStore(c.lc, r.lc)
      /\ r.tracked = TrackUpdates(c.tracked, c.lc.log["tracker"]) /\ r.lc.log["tracker"] = <<>>
  BY <1>1, <1>2, DiffsAre
<1>4. PICK h : h = Heard(c.tracked, c.lc)
  OBVIOUS
<1>5. PICK S : SeesRows(Behind(c.rows, c.lc), c.lc, S, n) /\ Follows(h, Behind(c.rows, c.lc), S)
  BY <1>2, <1>4 DEF Mirrored, Sees
<1>6. r.tracked = h.chunks
  <2>1. IsMapper(h)
    BY <1>5 DEF Follows, IsMapper
  <2>. QED BY <1>3, <1>4, <2>1, TrackIs DEF Heard
<1>7. Tracks(r.tracked, r.rows, r.lc, n)
  <2>1. Behind(r.rows, r.lc) = Behind(c.rows, c.lc)
    BY <1>3, SameForStoreSees
  <2>2. SeesRows(Behind(r.rows, r.lc), r.lc, S, n)
    BY <1>3, <1>5, <2>1, SameForStoreSees
  <2>3. r.tracked = Lengths(Behind(r.rows, r.lc), S)
    BY <1>5, <1>6, <2>1 DEF Follows
  <2>. QED BY <1>3, <2>2, <2>3, QuietTracks
<1>8. Mirrored(r, r.lc, n)
  BY <1>7, TracksMirrors
<1>9. Gaps(r.lc) = Gaps(c.lc)
  BY <1>3 DEF SameForStore, Gaps
<1>10. ASSUME Fresh(c) PROVE Fresh(r)
  <2>1. c.lc.log["tracker"] = <<>>
    BY <1>10 DEF Fresh
  <2>2. h = Blank(c.tracked)
    BY <1>4, <2>1, HeardNone DEF Heard
  <2>3. r.tracked = c.tracked
    BY <1>6, <2>2 DEF Blank
  <2>. QED BY <1>3, <1>10, <2>3 DEF SameForStore, Fresh
<1>11. Lagging(c.rows, c.lc, n) => Lagging(r.rows, r.lc, n)
  BY <1>3, SameForStoreSees
<1>12. r.panicked # "remove" /\ Len(r.lc.chunks) > 0 /\ r.lc.log["store"] = c.lc.log["store"]
  BY <1>3 DEF Stable, SameForStore
<1>13. Stable(r, n)
  BY <1>3, <1>9, <1>10, <1>11, <1>12, <1>8 DEF Stable
<1>14. Settles(r, n)
  BY <1>3, <1>7 DEF Settles
<1>. QED BY <1>1, <1>13, <1>14 DEF AtRest

\* The cache with one chunk or the other.
LEMMA ReloadedRests ==
  ASSUME NEW c, IsC(c), c.panicked # "remove", NEW S, Nice(c.rows, S),
         IF c.rows = NoRows THEN FirstOnly(c.lc) ELSE LastOnly(c.rows, c.lc),
         c.tracked = Tracked(IF c.rows = NoRows THEN c.lc.chunks ELSE Chain(c.rows))
  PROVE  \E n : AtRest(c, n)
<1>1. CASE c.rows = NoRows
  <2>1. PICK k, chunks : k = Chunk(0, NoToken, <<>>) /\ chunks = c.lc.chunks
    OBVIOUS
  <2>2. chunks = <<k>> /\ k.id = 0 /\ Len(k.items) = 0
    BY <1>1, <2>1 DEF FirstOnly, Chunk
  <2>3. c.tracked = <<[id |-> 0, len |-> 0]>>
    <3>1. c.tracked = Tracked(chunks)
      BY <1>1, <2>1
    <3>2. DOMAIN chunks = 1 .. 1 /\ \A i \in 1 .. 1 : chunks[i] = k
      BY <2>2
    <3>3. Tracked(chunks) = [i \in 1 .. 1 |-> [id |-> 0, len |-> 0]]
      BY <2>2, <3>2 DEF Tracked
    <3>4. <<[id |-> 0, len |-> 0]>> = [i \in 1 .. 1 |-> [id |-> 0, len |-> 0]]
      OBVIOUS
    <3>. QED BY <3>1, <3>3, <3>4
  <2>4. Fresh(c)
    BY <1>1, <2>3 DEF Fresh, FirstOnly
  <2>5. Len(c.lc.chunks) = 1
    BY <2>4 DEF Fresh
  <2>6. AtRest(c, 0)
    BY <2>4, <2>5, FreshIs DEF AtRest, Stable
  <2>. QED BY <2>6
<1>2. CASE c.rows # NoRows
  <2>1. Len(S) \in Nat /\ Len(S) # 0
    BY <1>2, NoneIsNoRows
  <2>2. Len(S) > 0
    BY <2>1
  <2>3. PICK n : n = Len(S) - 1
    OBVIOUS
  <2>4. Lagging(c.rows, c.lc, n) /\ SeesRows(c.rows, c.lc, S, n) /\ Len(c.lc.chunks) > 0
    BY <1>2, <2>2, <2>3, LastOnlyIs
  <2>5. c.lc.log["store"] = <<>> /\ c.lc.log["tracker"] = <<>>
    BY <1>2 DEF LastOnly
  <2>6. Behind(c.rows, c.lc) = c.rows
    BY <2>5, ApplyNone DEF Behind
  <2>7. c.tracked = Lengths(c.rows, S)
    BY <1>2, TrackedIs
  <2>8. Tracks(c.tracked, c.rows, c.lc, n)
    BY <2>4, <2>5, <2>6, <2>7, QuietTracks
  <2>9. Mirrored(c, c.lc, n)
    BY <2>8, TracksMirrors
  <2>10. AtRest(c, n)
    BY <2>4, <2>5, <2>8, <2>9 DEF AtRest, Stable, Settles
  <2>. QED BY <2>10
<1>. QED BY <1>1, <1>2

\* The fields of a linked chunk that changes in all of them.
LEMMA WithAll ==
  ASSUME NEW lc, Shape(lc), NEW chunks, NEW lazy, NEW gen,
         NEW after, after = [lc EXCEPT !.chunks = chunks, !.lazy = lazy, !.gen = gen]
  PROVE  after = With(lc, chunks, lazy, gen)
<1>1. PICK a, b, d, e : lc = [chunks |-> a, lazy |-> b, gen |-> d, log |-> e]
  BY DEF Shape
<1>2. PICK l1 : l1 = [lc EXCEPT !.chunks = chunks]
  OBVIOUS
<1>3. PICK l2 : l2 = [l1 EXCEPT !.lazy = lazy]
  OBVIOUS
<1>4. PICK l3 : l3 = [l2 EXCEPT !.gen = gen]
  OBVIOUS
<1>5. l1 = [chunks |-> chunks, lazy |-> b, gen |-> d, log |-> e]
  BY <1>1, <1>2
<1>6. l2 = [chunks |-> chunks, lazy |-> lazy, gen |-> d, log |-> e]
  BY <1>3, <1>5
<1>7. l3 = [chunks |-> chunks, lazy |-> lazy, gen |-> gen, log |-> e]
  BY <1>4, <1>6
<1>8. after = l3
  BY <1>2, <1>3, <1>4
<1>9. lc.log = e
  BY <1>1
<1>. QED BY <1>7, <1>8, <1>9 DEF With

\* clear: nothing is left, and the readers are told so.
LEMMA ClearAllIs ==
  ASSUME NEW lc, Shape(lc)
  PROVE  OnlySays(<<>>, NoChunk, 0, <<Clear>>, ClearAll(lc))
<1>1. PICK chunks, lazy, gen : chunks = <<>> /\ lazy = NoChunk /\ gen = 0
  OBVIOUS
<1>2. [lc EXCEPT !.chunks = chunks, !.lazy = lazy, !.gen = gen] = With(lc, chunks, lazy, gen)
  <2>1. PICK after : after = [lc EXCEPT !.chunks = chunks, !.lazy = lazy, !.gen = gen]
    OBVIOUS
  <2>2. after = With(lc, chunks, lazy, gen)
    BY <2>1, WithAll
  <2>. QED BY <2>1, <2>2
<1>3. ClearPending(With(lc, chunks, lazy, gen)) = Cleared(chunks, lazy, gen)
  BY DEF ClearPending, With, Cleared
<1>4. IsLog(<<Clear>>)
  <2>1. <<Clear>> \in Seq({Clear})
    OBVIOUS
  <2>. QED BY <2>1 DEF IsLog
<1>5. ClearAll(lc) = Emit(Cleared(chunks, lazy, gen), <<Clear>>)
  BY <1>1, <1>2, <1>3 DEF ClearAll
<1>6. OnlySays(chunks, lazy, gen, <<Clear>>, Emit(Cleared(chunks, lazy, gen), <<Clear>>))
  BY <1>4, ClearedEmits
<1>. QED BY <1>1, <1>5, <1>6

\* replace_with.
LEMMA ReplaceWithIs ==
  ASSUME NEW lc, Shape(lc), NEW raw, NEW gen
  PROVE  OnlySays(<<Chunk(raw.id, raw.gap, raw.items)>>, raw.prev, gen, <<Clear>> \o NewFirstUpdates(raw), ReplaceWith(lc, raw, gen))
<1>1. PICK chunks : chunks = <<Chunk(raw.id, raw.gap, raw.items)>>
  OBVIOUS
<1>2. PICK lazy : lazy = raw.prev
  OBVIOUS
<1>3. [lc EXCEPT !.chunks = chunks, !.lazy = lazy, !.gen = gen] = With(lc, chunks, lazy, gen)
  <2>1. PICK after : after = [lc EXCEPT !.chunks = chunks, !.lazy = lazy, !.gen = gen]
    OBVIOUS
  <2>2. after = With(lc, chunks, lazy, gen)
    BY <2>1, WithAll
  <2>. QED BY <2>1, <2>2
<1>4. ClearPending(With(lc, chunks, lazy, gen)) = Cleared(chunks, lazy, gen)
  BY DEF ClearPending, With, Cleared
<1>5. IsLog(<<Clear>> \o NewFirstUpdates(raw))
  <2>1. PICK u, v : u = NewChunk(raw.prev, raw.id, raw.next, raw.gap) /\ v = PushItems(Position(raw.id, 0), raw.items)
    OBVIOUS
  <2>2. PICK k, T : k = Clear /\ T = {k, u, v}
    OBVIOUS
  <2>3. PICK tail : tail = IF IsGap(raw) THEN <<>> ELSE <<v>>
    OBVIOUS
  <2>4. tail \in Seq(T) /\ <<u>> \in Seq(T) /\ <<k>> \in Seq(T)
    <3>1. <<v>> \in Seq(T) /\ <<u>> \in Seq(T) /\ <<k>> \in Seq(T) /\ <<>> \in Seq(T)
      BY <2>2
    <3>. QED BY <2>3, <3>1
  <2>5. <<k>> \o (<<u>> \o tail) \in Seq(T)
    BY <2>4
  <2>. QED BY <2>1, <2>2, <2>3, <2>5 DEF IsLog, NewFirstUpdates
<1>6. PICK s : s = <<Clear>> \o NewFirstUpdates(raw)
  OBVIOUS
<1>7. ReplaceWith(lc, raw, gen) = Emit(Cleared(chunks, lazy, gen), s)
  BY <1>2, <1>1, <1>3, <1>4, <1>6 DEF ReplaceWith
<1>8. OnlySays(chunks, lazy, gen, s, Emit(Cleared(chunks, lazy, gen), s))
  BY <1>5, <1>6, ClearedEmits
<1>. QED BY <1>2, <1>1, <1>6, <1>7, <1>8

\* shrink_to_last_reloaded_chunk: whatever was in memory, it is the end of the store again.
LEMMA ShrinkIs ==
  ASSUME NEW c, IsC(c), Shape(c.lc), c.panicked # "remove", NEW S, Nice(c.rows, S)
  PROVE  \E n : AtRest(ShrinkToLastReloadedChunk(c), n)
<1>1. PICK rows, x : rows = c.rows /\ x = LastId(rows)
  OBVIOUS
<1>2. ShrinkToLastReloadedChunk(c) = ShrinkTo(c, rows)
  BY <1>1, NiceWellFormed DEF ShrinkToLastReloadedChunk
<1>3. PICK raw, last : raw = Raw(rows, x) /\ last = ReplaceWith(c.lc, raw, MaxId(rows))
  OBVIOUS
<1>4. PICK none : none = FreshChunk(Take(ClearAll(c.lc), "store"))
  OBVIOUS
<1>5. PICK lc, tr : /\ lc = (IF rows = NoRows THEN none ELSE Take(Take(last, "store"), "tracker"))
                    /\ tr = Tracked(IF rows = NoRows THEN none.chunks ELSE Chain(rows))
  OBVIOUS
<1>6. PICK r : r = ShrinkTo(c, rows)
  OBVIOUS
<1>7. r = [c EXCEPT !.rows = rows, !.lc = lc, !.tracked = tr]
  BY <1>1, <1>3, <1>4, <1>5, <1>6 DEF ShrinkTo
<1>8. IsC(r) /\ r.rows = c.rows /\ r.lc = lc /\ r.panicked = c.panicked /\ r.tracked = tr
  BY <1>1, <1>7 DEF IsC, Fields
<1>9. ASSUME rows = NoRows PROVE FirstOnly(lc)
  <2>1. PICK a, b : a = ClearAll(c.lc) /\ b = Take(a, "store")
    OBVIOUS
  <2>2. OnlySays(<<>>, NoChunk, 0, <<Clear>>, a)
    BY <2>1, ClearAllIs
  <2>3. "store" \in Readers /\ Shape(a)
    BY <2>2 DEF Readers, OnlySays
  <2>4. Shape(b) /\ b.chunks = a.chunks /\ b.lazy = a.lazy /\ b.gen = a.gen /\ b.log["store"] = <<>>
    BY <2>1, <2>3, TakeIs
  <2>5. b.chunks = <<>> /\ b.lazy = NoChunk /\ b.gen \in Nat
    BY <2>2, <2>4 DEF OnlySays
  <2>. QED BY <1>4, <1>5, <1>9, <2>1, <2>4, <2>5, FirstChunkIs
<1>10. ASSUME rows # NoRows PROVE LastOnly(rows, lc)
  <2>1. PICK b : b = Take(last, "store")
    OBVIOUS
  <2>2. OnlySays(<<Chunk(raw.id, raw.gap, raw.items)>>, raw.prev, MaxId(rows), <<Clear>> \o NewFirstUpdates(raw), last)
    BY <1>3, ReplaceWithIs
  <2>3. "store" \in Readers /\ "tracker" \in Readers /\ Shape(last)
    BY <2>2 DEF Readers, OnlySays
  <2>4. Shape(b) /\ b.chunks = last.chunks /\ b.lazy = last.lazy /\ b.gen = last.gen /\ b.log["store"] = <<>>
    BY <2>1, <2>3, TakeIs
  <2>5. /\ Shape(lc) /\ lc.chunks = b.chunks /\ lc.lazy = b.lazy /\ lc.gen = b.gen
        /\ lc.log["tracker"] = <<>> /\ \A q \in Readers : q # "tracker" => lc.log[q] = b.log[q]
    BY <1>5, <1>10, <2>1, <2>3, <2>4, TakeIs
  <2>6. lc.log["store"] = <<>>
    BY <2>3, <2>4, <2>5
  <2>7. raw.id = x /\ raw.gap = rows[x].gap /\ raw.items = rows[x].items /\ raw.prev = rows[x].prev
    BY <1>3 DEF Raw
  <2>. QED BY <1>1, <2>2, <2>4, <2>5, <2>6, <2>7 DEF LastOnly, OnlySays
<1>11. IF r.rows = NoRows THEN FirstOnly(r.lc) ELSE LastOnly(r.rows, r.lc)
  BY <1>1, <1>8, <1>9, <1>10
<1>12. r.tracked = Tracked(IF r.rows = NoRows THEN r.lc.chunks ELSE Chain(r.rows))
  BY <1>1, <1>5, <1>8
<1>13. \E n : AtRest(r, n)
  BY <1>8, <1>11, <1>12, ReloadedRests
<1>. QED BY <1>2, <1>6, <1>13

\* RoomEventCacheState::new after a restart, or in a new room.
LEMMA OpenIs ==
  ASSUME NEW rows, NEW S, Nice(rows, S)
  PROVE  \E n : AtRest(Open(rows), n)
<1>1. PICK x, raw : x = LastId(rows) /\ raw = Raw(rows, x)
  OBVIOUS
<1>2. PICK none : none = Take(FreshChunk(NewLinkedChunk), "vector")
  OBVIOUS
<1>3. PICK last : last = [NewLinkedChunk EXCEPT !.chunks = <<Chunk(raw.id, raw.gap, raw.items)>>,
                                         !.lazy = raw.prev, !.gen = MaxId(rows)]
  OBVIOUS
<1>4. PICK lc : lc = IF rows = NoRows THEN none ELSE last
  OBVIOUS
<1>5. PICK v, t : v = Mapper(lc.chunks) /\ t = Tracked(IF rows = NoRows THEN lc.chunks ELSE Chain(rows))
  OBVIOUS
<1>6. PICK r : r = Open(rows)
  OBVIOUS
<1>7. r = [lc |-> lc, rows |-> rows, vector |-> v, panicked |-> "no", tracked |-> t]
  BY <1>1, <1>2, <1>3, <1>4, <1>5, <1>6 DEF Open
<1>8. IsC(r) /\ r.rows = rows /\ r.lc = lc /\ r.panicked # "remove" /\ r.tracked = t
  BY <1>7 DEF IsC, Fields
<1>9. PICK log : log = [q \in Readers |-> <<>>]
  OBVIOUS
<1>10. IsLog(<<>>)
  <2>1. <<>> \in Seq({})
    OBVIOUS
  <2>. QED BY <2>1 DEF IsLog
<1>11. ASSUME rows = NoRows PROVE FirstOnly(lc)
  <2>1. NewLinkedChunk = Cleared(<<>>, NoChunk, 0)
    BY DEF NewLinkedChunk, Cleared
  <2>2. OnlySays(<<>>, NoChunk, 0, <<>>, NewLinkedChunk)
    BY <1>10, <2>1, ClearedEmits
  <2>3. PICK new, a : new = NewLinkedChunk /\ a = FreshChunk(NewLinkedChunk)
    OBVIOUS
  <2>4. Shape(new) /\ new.chunks = <<>> /\ new.lazy = NoChunk /\ new.gen \in Nat /\ new.log["store"] = <<>>
    BY <2>2, <2>3 DEF OnlySays, Readers
  <2>5. FirstOnly(a)
    BY <2>3, <2>4, FirstChunkIs
  <2>6. "vector" \in Readers /\ "store" \in Readers /\ "tracker" \in Readers /\ "store" # "vector" /\ Shape(a)
    BY <2>5 DEF FirstOnly, Readers
  <2>7. /\ Shape(none) /\ none.chunks = a.chunks /\ none.lazy = a.lazy /\ none.gen = a.gen
        /\ \A q \in Readers : q # "vector" => none.log[q] = a.log[q]
    BY <1>2, <2>3, <2>6, TakeIs
  <2>8. none.log["store"] = a.log["store"] /\ none.log["tracker"] = a.log["tracker"]
    BY <2>6, <2>7
  <2>. QED BY <1>4, <1>11, <2>5, <2>7, <2>8 DEF FirstOnly
<1>12. ASSUME rows # NoRows PROVE LastOnly(rows, lc)
  <2>1. last = Cleared(<<Chunk(raw.id, raw.gap, raw.items)>>, raw.prev, MaxId(rows))
    BY <1>3 DEF NewLinkedChunk, Cleared
  <2>2. OnlySays(<<Chunk(raw.id, raw.gap, raw.items)>>, raw.prev, MaxId(rows), <<>>, last)
    BY <1>10, <2>1, ClearedEmits
  <2>3. raw.id = x /\ raw.gap = rows[x].gap /\ raw.items = rows[x].items /\ raw.prev = rows[x].prev
    BY <1>1 DEF Raw
  <2>4. last.log["store"] = <<>> /\ last.log["tracker"] = <<>>
    BY <2>2 DEF OnlySays, Readers
  <2>. QED BY <1>1, <1>4, <1>12, <2>2, <2>3, <2>4 DEF LastOnly, OnlySays
<1>13. IF r.rows = NoRows THEN FirstOnly(r.lc) ELSE LastOnly(r.rows, r.lc)
  BY <1>8, <1>11, <1>12
<1>14. r.tracked = Tracked(IF r.rows = NoRows THEN r.lc.chunks ELSE Chain(r.rows))
  BY <1>5, <1>8
<1>15. \E n : AtRest(r, n)
  BY <1>8, <1>13, <1>14, ReloadedRests
<1>. QED BY <1>6, <1>15

\* reload(ForgetAll).
LEMMA ForgetAllIs ==
  ASSUME NEW c, IsC(c), Shape(c.lc), c.panicked # "remove", NEW S, Nice(c.rows, S)
  PROVE  \E n : AtRest(ForgetAll(c), n)
<1>1. PICK l, d : l = ClearAll(c.lc) /\ d = [c EXCEPT !.lc = l]
  OBVIOUS
<1>2. OnlySays(<<>>, NoChunk, 0, <<Clear>>, l)
  BY <1>1, ClearAllIs
<1>3. IsC(d) /\ d.lc = l /\ d.rows = c.rows /\ d.panicked = c.panicked
  BY <1>1 DEF IsC, Fields
<1>4. PICK r, t, e : r = Apply(c.rows, l.log["store"]) /\ t = Take(l, "store") /\ e = Propagate(d)
  OBVIOUS
<1>5. e = [d EXCEPT !.rows = r, !.lc = t]
  BY <1>3, <1>4 DEF Propagate
<1>6. IsC(e) /\ e.lc = t /\ e.rows = r /\ e.panicked = c.panicked
  BY <1>3, <1>5 DEF IsC, Fields
<1>7. "store" \in Readers /\ Shape(l)
  BY <1>2 DEF OnlySays, Readers
<1>8. Shape(t)
  BY <1>4, <1>7, TakeIs
<1>9. r = NoRows
  <2>1. l.log["store"] = <<Clear>>
    BY <1>2, <1>7 DEF OnlySays
  <2>2. PICK none : none = <<>>
    OBVIOUS
  <2>3. none \o <<Clear>> = <<Clear>> /\ IsLog(none)
    <3>1. none \in Seq({})
      BY <2>2
    <3>. QED BY <2>2, <3>1 DEF IsLog
  <2>4. Apply(c.rows, none \o <<Clear>>) = ApplyUpdate(Apply(c.rows, none), Clear)
    BY <2>3, ApplyMore
  <2>5. Apply(c.rows, none) = c.rows
    BY <2>2, ApplyNone
  <2>6. c.rows # Refused
    BY NotRefused DEF Nice
  <2>7. ApplyUpdate(c.rows, Clear) = NoRows
    BY <2>6 DEF ApplyUpdate, Clear
  <2>. QED BY <1>4, <2>1, <2>3, <2>4, <2>5, <2>7
<1>10. Nice(e.rows, <<>>)
  BY <1>6, <1>9, NoRowsNice
<1>11. PICK f : f = ShrinkToLastReloadedChunk(e)
  OBVIOUS
<1>12. PICK n : Stable(f, n)
  BY <1>6, <1>8, <1>10, <1>11, ShrinkIs DEF AtRest
<1>13. AtRest(UpdatesAsVectorDiffs(f), n)
  BY <1>12, DiffsRest
<1>14. ForgetAll(c) = UpdatesAsVectorDiffs(f)
  BY <1>1, <1>4, <1>11 DEF ForgetAll
<1>. QED BY <1>13, <1>14

\* What is calm is at rest.
LEMMA CalmRests ==
  ASSUME NEW c, c.panicked # "remove", NEW n, NEW r, Calm(c, n, r)
  PROVE  Stable(r, n)
BY DEF Calm, Stable

\* handle_sync up to the shrinking.
LEMMA PushRests ==
  ASSUME NEW c, NEW n, AtRest(c, n), NEW events \in Seq(Nat), Injective(events), NEW dups, Filtered(c, events, dups),
         NEW gap \in Nat, NEW tail, IsTail(ItemsOf(c.lc.chunks), events, tail)
  PROVE  Stable(RemoveAndPush(c, Positions(c.lc), tail, dups, gap, events), n)
<1>1. IsC(c) /\ c.panicked # "remove" /\ Len(c.lc.chunks) > 0 /\ Tracks(c.tracked, c.rows, c.lc, n)
  BY DEF AtRest, Stable, Settles
<1>2. PICK r : r = RemoveAndPush(c, Positions(c.lc), tail, dups, gap, events)
  OBVIOUS
<1>3. CASE Fresh(c) /\ n = 0
  <2>1. Calm(c, 0, r)
    BY <1>1, <1>2, <1>3, PushToFresh
  <2>. QED BY <1>1, <1>2, <1>3, <2>1, CalmRests
<1>4. CASE Lagging(c.rows, c.lc, n)
  <2>1. Calm(c, n, r)
    BY <1>1, <1>2, <1>4, PushToLagging
  <2>. QED BY <1>1, <1>2, <2>1, CalmRests
<1>. QED BY <1>3, <1>4 DEF AtRest, Stable

\* handle_sync, of a sync or for the send queue: the store mirrors memory afterwards.
LEMMA SyncRests ==
  ASSUME NEW c, NEW n, AtRest(c, n), NEW events \in Seq(Nat), Injective(events), NEW dups, Filtered(c, events, dups),
         NEW limited, NEW token \in Nat
  PROVE  \E m : AtRest(HandleSync(c, dups, events, limited, token), m)
<1>1. CASE dups.all
  BY <1>1 DEF HandleSync
<1>2. CASE ~dups.all
  <2>1. PICK gap : gap = KeptToken(c, dups.all, limited, token)
    OBVIOUS
  <2>2. gap \in Nat
    <3>1. NoToken \in Nat
      BY DEF NoToken
    <3>. QED BY <2>1, <3>1 DEF KeptToken
  <2>3. PICK tail : tail = IF gap = NoToken THEN CommonTail(c, events) ELSE 0
    OBVIOUS
  <2>4. Mirrored(c, c.lc, n)
    BY RestIs DEF AtRest
  <2>5. PICK items : items = ItemsOf(c.lc.chunks)
    OBVIOUS
  <2>6. Len(items) \in Nat /\ Len(events) \in Nat
    BY <2>4, <2>5, PositionsAre DEF ArePlaces
  <2>7. IsTail(items, events, 0)
    BY <2>6 DEF IsTail
  <2>8. IsTail(items, events, CommonTail(c, events))
    BY <2>4, <2>5, CommonTailIs
  <2>9. IsTail(ItemsOf(c.lc.chunks), events, tail)
    BY <2>3, <2>5, <2>7, <2>8
  <2>10. PICK r : r = RemoveAndPush(c, Positions(c.lc), tail, dups, gap, events)
    OBVIOUS
  <2>11. Stable(r, n)
    BY <2>2, <2>9, <2>10, PushRests
  <2>12. PICK t : t = IF limited /\ gap # NoToken THEN ShrinkToLastReloadedChunk(r) ELSE r
    OBVIOUS
  <2>13. \E m : Stable(t, m)
    <3>1. CASE limited /\ gap # NoToken
      <4>1. IsC(r) /\ Mirrored(r, r.lc, n) /\ \E S : Nice(r.rows, S)
        BY <2>11, RestIs
      <4>2. Shape(r.lc)
        BY <4>1, ChunksAre
      <4>3. r.panicked # "remove"
        BY <2>11 DEF Stable
      <4>4. PICK S : Nice(r.rows, S)
        BY <4>1
      <4>5. \E m : Stable(ShrinkToLastReloadedChunk(r), m)
        BY <4>1, <4>2, <4>3, <4>4, ShrinkIs DEF AtRest
      <4>. QED BY <2>12, <3>1, <4>5
    <3>2. CASE ~(limited /\ gap # NoToken)
      BY <2>11, <2>12, <3>2
    <3>. QED BY <3>1, <3>2
  <2>14. PICK m : Stable(t, m)
    BY <2>13
  <2>15. AtRest(UpdatesAsVectorDiffs(t), m)
    BY <2>14, DiffsRest
  <2>16. HandleSync(c, dups, events, limited, token) = UpdatesAsVectorDiffs(t)
    BY <1>2, <2>1, <2>3, <2>10, <2>12 DEF HandleSync, PushUnknown
  <2>. QED BY <2>15, <2>16
<1>. QED BY <1>1, <1>2

\* remove_events, at rest before and after.
LEMMA RemoveRests ==
  ASSUME NEW c, NEW n, AtRest(c, n), NEW M, NEW T, Found(c, M, T)
  PROVE  Stable(RemoveEvents(c, M, T), n)
<1>1. IsC(c) /\ c.panicked # "remove" /\ Len(c.lc.chunks) > 0 /\ Tracks(c.tracked, c.rows, c.lc, n)
  BY DEF AtRest, Stable, Settles
<1>2. PICK r : r = RemoveEvents(c, M, T)
  OBVIOUS
<1>3. CASE Fresh(c) /\ n = 0
  <2>1. M = {} /\ T = {}
    BY <1>3, FreshHolds
  <2>2. RemoveEvents(c, {}, {}) = c
    BY RemoveNothing
  <2>. QED BY <2>1, <2>2 DEF AtRest
<1>4. CASE Lagging(c.rows, c.lc, n) /\ (c.lc.log["store"] # <<>> => Gaps(c.lc) # {})
  <2>1. EventsRemoved(c, n, M, T, r)
    BY <1>1, <1>2, <1>4, RemoveEventsIs
  <2>2. /\ IsC(r) /\ r.panicked = c.panicked /\ Len(r.lc.chunks) > 0 /\ Lagging(r.rows, r.lc, n)
        /\ Mirrored(r, r.lc, n)
        /\ r.lc = c.lc \/ r.lc.log["store"] = <<>>
    BY <2>1 DEF EventsRemoved
  <2>. QED BY <1>1, <1>2, <1>4, <2>2 DEF Stable
<1>. QED BY <1>3, <1>4 DEF AtRest, Stable

\* remove_events_sent_by, purge_events_older_than.
LEMMA RemoveSetRests ==
  ASSUME NEW c, NEW n, AtRest(c, n), NEW E, NEW split, split = SplitByMemory(c, Duplicates(c.rows, E))
  PROVE  AtRest(UpdatesAsVectorDiffs(RemoveEvents(c, split.memory, split.store)), n)
<1>1. PICK S : Nice(c.rows, S)
  BY RestIs DEF AtRest
<1>2. FilteredSet(c, E, split)
  BY <1>1, SplitIs
<1>3. Found(c, split.memory, split.store)
  BY <1>2 DEF FilteredSet
<1>4. PICK r : r = RemoveEvents(c, split.memory, split.store)
  OBVIOUS
<1>5. Stable(r, n)
  BY <1>3, <1>4, RemoveRests
<1>. QED BY <1>4, <1>5, DiffsRest

\* load_more_events_backwards of a chunk that is not loaded yet.
LEMMA LoadIs ==
  ASSUME NEW c, NEW n, AtRest(c, n), Gaps(c.lc) = {}, NEW prev, prev = PreviousIds(c.rows, IdOf(c.lc, 1)), prev # {},
         NEW raw, raw = Raw(c.rows, CHOOSE id \in prev : TRUE)
  PROVE  /\ CanBeFirst(c.lc, raw)
         /\ \E m : AtRest(UpdatesAsVectorDiffs([c EXCEPT !.lc = Take(Take(InsertNewFirstChunk(c.lc, raw), "tracker"), "store")]), m)
<1>1. ~Fresh(c)
  <2>1. SUFFICES ASSUME Fresh(c) PROVE prev = {}
    OBVIOUS
  <2>. QED BY <2>1 DEF Fresh, NoRows, PreviousIds
<1>2. /\ IsC(c) /\ c.panicked # "remove" /\ Len(c.lc.chunks) > 0 /\ Lagging(c.rows, c.lc, n) /\ c.lc.log["store"] = <<>>
      /\ Tracks(c.tracked, c.rows, c.lc, n) /\ c.lc.log["tracker"] = <<>>
  BY <1>1 DEF AtRest, Stable, Settles
<1>3. PICK rows, lc : rows = c.rows /\ lc = c.lc
  OBVIOUS
<1>4. Behind(rows, lc) = rows
  BY <1>2, <1>3, ApplyNone DEF Behind
<1>5. PICK S : SeesRows(rows, lc, S, n) /\ c.tracked = Lengths(rows, S)
  <2>1. PICK S : SeesRows(rows, lc, S, n) /\ Follows(HeardOf(c.tracked, lc.log["tracker"]), rows, S)
    BY <1>2, <1>3, <1>4 DEF Tracks
  <2>2. HeardOf(c.tracked, lc.log["tracker"]) = Blank(c.tracked)
    BY <1>2, <1>3, HeardNone
  <2>3. c.tracked = Lengths(rows, S)
    BY <2>1, <2>2 DEF Follows, Blank
  <2>. QED BY <2>1, <2>3
<1>6. PICK N : N = Len(S)
  OBVIOUS
<1>7. /\ N \in Nat /\ n \in Nat /\ n <= N /\ lc.chunks \in Seq(ChunkType) /\ Len(lc.chunks) = N - n
      /\ \A i \in 1 .. Len(lc.chunks) : n + i \in 1 .. N /\ lc.chunks[i].id = S[n + i]
  <2>1. SeesRows(rows, lc, S, n)
    BY <1>5
  <2>2. Memory(rows, lc, S, n)
    BY <2>1, MemoryIs
  <2>. QED BY <1>6, <2>2 DEF Memory
<1>8. /\ Nice(rows, S) /\ DOMAIN rows = {S[i] : i \in 1 .. N} /\ \A i, j \in 1 .. N : S[i] = S[j] => i = j
      /\ \A i \in 1 .. N : S[i] \in Nat /\ rows[S[i]].prev = Nth(S, i - 1) /\ rows[S[i]].next = Nth(S, i + 1)
  <2>1. Nice(rows, S)
    BY <1>5 DEF SeesRows
  <2>2. Linked(rows, S)
    BY <2>1 DEF Nice
  <2>3. \A i \in 1 .. N : S[i] \in Nat
    BY <1>6, <2>2 DEF Linked
  <2>. QED BY <1>6, <2>1, <2>2, <2>3 DEF Linked
<1>9. n + 1 \in 1 .. N /\ 1 \in 1 .. Len(lc.chunks) /\ IdOf(lc, 1) = S[n + 1]
  <2>1. 1 \in 1 .. Len(lc.chunks)
    BY <1>2, <1>3, <1>7
  <2>2. DOMAIN lc.chunks = 1 .. Len(lc.chunks)
    BY <1>7
  <2>. QED BY <1>7, <2>1, <2>2 DEF IdOf
<1>10. ASSUME NEW p \in prev PROVE n \in 1 .. N /\ p = S[n]
  <2>1. p \in DOMAIN rows /\ rows[p].next = S[n + 1]
    BY <1>3, <1>9 DEF PreviousIds
  <2>2. PICK i \in 1 .. N : p = S[i]
    BY <1>8, <2>1
  <2>3. Nth(S, i + 1) = S[n + 1] /\ S[n + 1] \in Nat
    BY <1>8, <1>9, <2>1, <2>2
  <2>4. i + 1 \in 1 .. N /\ S[i + 1] = S[n + 1]
    BY <1>6, <2>3 DEF Nth, NoChunk
  <2>5. i + 1 = n + 1
    BY <1>8, <1>9, <2>4
  <2>6. i = n
    BY <1>7, <2>5
  <2>. QED BY <2>2, <2>6
<1>11. PICK x : x = CHOOSE id \in prev : TRUE
  OBVIOUS
<1>12. x \in prev
  BY <1>11
<1>13. n \in 1 .. N /\ x = S[n] /\ x \in DOMAIN rows
  BY <1>8, <1>10, <1>12
<1>14. raw.id = x /\ raw.prev = Nth(S, n - 1) /\ raw.next = S[n + 1] /\ raw.gap = rows[x].gap /\ raw.items = rows[x].items
  <2>1. rows[x].prev = Nth(S, n - 1) /\ rows[x].next = Nth(S, n + 1)
    BY <1>8, <1>13
  <2>2. Nth(S, n + 1) = S[n + 1]
    BY <1>6, <1>9 DEF Nth
  <2>. QED BY <1>3, <1>11, <2>1, <2>2 DEF Raw
<1>15. CanBeFirst(lc, raw)
  <2>1. Len(raw.items) <= Cap
    BY <1>8, <1>13, <1>14, ItemsOnce
  <2>2. raw.prev \notin Ids(lc)
    <3>1. SUFFICES ASSUME raw.prev \in Ids(lc) PROVE FALSE
      OBVIOUS
    <3>2. DOMAIN lc.chunks = 1 .. Len(lc.chunks)
      BY <1>7
    <3>3. PICK i \in 1 .. Len(lc.chunks) : raw.prev = lc.chunks[i].id
      BY <3>1, <3>2 DEF Ids
    <3>4. n + i \in 1 .. N /\ Nth(S, n - 1) = S[n + i] /\ S[n + i] \in Nat
      BY <1>7, <1>8, <1>14, <3>3
    <3>5. n - 1 \in 1 .. N /\ S[n - 1] = S[n + i]
      BY <1>6, <3>4 DEF Nth, NoChunk
    <3>6. n - 1 = n + i
      BY <1>8, <3>4, <3>5
    <3>7. i \in Nat /\ i >= 1
      BY <1>7
    <3>. QED BY <1>7, <3>6, <3>7
  <2>3. raw.next = IdOf(lc, 1)
    BY <1>9, <1>14
  <2>4. lc.lazy = raw.id
    <3>1. lc.lazy = Nth(S, n)
      BY <1>5 DEF SeesRows
    <3>. QED BY <1>6, <1>13, <1>14, <3>1 DEF Nth
  <2>. QED BY <2>1, <2>2, <2>3, <2>4 DEF CanBeFirst
<1>16. PICK first, ups : first = <<Chunk(raw.id, raw.gap, raw.items)>> \o lc.chunks /\ ups = NewFirstUpdates(raw)
  OBVIOUS
<1>17. PICK in : in = InsertNewFirstChunk(lc, raw)
  OBVIOUS
<1>18. Shape(in) /\ in.chunks = first /\ in.lazy = raw.prev /\ in.gen = lc.gen
  <2>1. Shape(lc)
    BY <1>5 DEF SeesRows
  <2>2. PICK a, b, d, e : lc = [chunks |-> a, lazy |-> b, gen |-> d, log |-> e]
    BY <2>1 DEF Shape
  <2>3. lc.chunks = a /\ lc.gen = d /\ lc.log = e
    BY <2>2
  <2>4. PICK l1 : l1 = [lc EXCEPT !.chunks = first]
    OBVIOUS
  <2>5. PICK l2 : l2 = [l1 EXCEPT !.lazy = raw.prev]
    OBVIOUS
  <2>6. l1 = [chunks |-> first, lazy |-> b, gen |-> d, log |-> e]
    BY <2>2, <2>4
  <2>7. l2 = [chunks |-> first, lazy |-> raw.prev, gen |-> d, log |-> e]
    BY <2>5, <2>6
  <2>8. in = Emit(l2, ups)
    <3>1. l2 = [lc EXCEPT !.chunks = first, !.lazy = raw.prev]
      BY <2>4, <2>5
    <3>2. [lc EXCEPT !.chunks = <<Chunk(raw.id, raw.gap, raw.items)>> \o @, !.lazy = raw.prev] = l2
      BY <1>16, <3>1
    <3>. QED BY <1>16, <1>17, <3>2 DEF InsertNewFirstChunk
  <2>9. PICK g : g = [r \in Readers |-> e[r] \o ups]
    OBVIOUS
  <2>10. in = [chunks |-> first, lazy |-> raw.prev, gen |-> d, log |-> g]
    BY <2>7, <2>8, <2>9 DEF Emit
  <2>11. \A r \in Readers : IsLog(g[r])
    <3>1. IsLog(ups)
      <4>1. PICK u, v : u = NewChunk(raw.prev, raw.id, raw.next, raw.gap) /\ v = PushItems(Position(raw.id, 0), raw.items)
        OBVIOUS
      <4>2. PICK T : T = {u, v}
        OBVIOUS
      <4>3. PICK tail : tail = IF IsGap(raw) THEN <<>> ELSE <<v>>
        OBVIOUS
      <4>4. <<v>> \in Seq(T) /\ <<u>> \in Seq(T) /\ <<>> \in Seq(T)
        BY <4>2
      <4>5. <<u>> \o tail \in Seq(T)
        BY <4>3, <4>4
      <4>. QED BY <1>16, <4>1, <4>3, <4>5 DEF IsLog, NewFirstUpdates
    <3>2. ASSUME NEW r \in Readers PROVE IsLog(g[r])
      <4>1. IsLog(e[r])
        BY <2>1, <2>3 DEF Shape
      <4>2. PICK A : e[r] \in Seq(A)
        BY <4>1 DEF IsLog
      <4>3. PICK B : ups \in Seq(B)
        BY <3>1 DEF IsLog
      <4>4. PICK C : C = A \cup B
        OBVIOUS
      <4>5. e[r] \in Seq(C) /\ ups \in Seq(C)
        BY <4>2, <4>3, <4>4
      <4>6. e[r] \o ups \in Seq(C)
        BY <4>5
      <4>. QED BY <2>9, <4>6 DEF IsLog
    <3>. QED BY <3>2
  <2>12. g = [r \in Readers |-> g[r]]
    BY <2>9
  <2>. QED BY <2>3, <2>10, <2>11, <2>12 DEF Shape
<1>19. PICK one : one = Take(in, "tracker")
  OBVIOUS
<1>20. PICK l : l = Take(one, "store")
  OBVIOUS
<1>21. "tracker" \in Readers /\ "store" \in Readers
  BY DEF Readers
<1>22. Shape(one) /\ one.chunks = first /\ one.lazy = raw.prev /\ one.gen = lc.gen /\ one.log["tracker"] = <<>>
  BY <1>18, <1>19, <1>21, TakeIs
<1>23. Shape(l) /\ l.chunks = first /\ l.lazy = raw.prev /\ l.gen = lc.gen /\ l.log["store"] = <<>> /\ l.log["tracker"] = <<>>
  <2>1. /\ Shape(l) /\ l.chunks = one.chunks /\ l.lazy = one.lazy /\ l.gen = one.gen /\ l.log["store"] = <<>>
        /\ \A q \in Readers : q # "store" => l.log[q] = one.log[q]
    BY <1>20, <1>21, <1>22, TakeIs
  <2>. QED BY <1>21, <1>22, <2>1
<1>24. PICK m : m = n - 1
  OBVIOUS
<1>25. first = Loaded(rows, S, m)
  <2>1. m \in 0 .. N /\ N - m = (N - n) + 1 /\ m + 1 = n /\ N - m \in Nat
    BY <1>7, <1>13, <1>24
  <2>2. PICK h, t : h = Chunk(x, rows[x].gap, rows[x].items) /\ t = Loaded(rows, S, m)
    OBVIOUS
  <2>3. /\ t \in Seq(ChunkType) /\ Len(t) = N - m
        /\ \A i \in 1 .. N - m : t[i] = Chunk(S[m + i], rows[S[m + i]].gap, rows[S[m + i]].items) /\ t[i] \in ChunkType
    <3>1. Nice(rows, S) /\ m \in 0 .. Len(S)
      BY <1>6, <1>8, <2>1
    <3>2. t = Loaded(rows, S, m)
      BY <2>2
    <3>3. /\ t \in Seq(ChunkType) /\ Len(t) = Len(S) - m
          /\ \A i \in 1 .. Len(S) - m : t[i] = Chunk(S[m + i], rows[S[m + i]].gap, rows[S[m + i]].items) /\ t[i] \in ChunkType
      BY <3>1, <3>2, LoadedIs
    <3>. QED BY <1>6, <3>3
  <2>4. 1 \in 1 .. N - m /\ t[1] = h /\ h \in ChunkType
    <3>1. 1 \in 1 .. N - m
      BY <1>7, <1>13, <2>1
    <3>2. t[1] = Chunk(S[m + 1], rows[S[m + 1]].gap, rows[S[m + 1]].items) /\ t[1] \in ChunkType
      BY <2>3, <3>1
    <3>. QED BY <1>13, <2>1, <2>2, <3>1, <3>2
  <2>5. lc.chunks = Loaded(rows, S, n)
    BY <1>5 DEF SeesRows
  <2>6. \A i \in 1 .. N - n : lc.chunks[i] = Chunk(S[n + i], rows[S[n + i]].gap, rows[S[n + i]].items)
    BY <1>6, <2>5 DEF Loaded
  <2>7. <<h>> \in Seq(ChunkType) /\ Len(<<h>>) = 1 /\ <<h>>[1] = h
    BY <2>4
  <2>8. PICK f : f = <<h>> \o lc.chunks
    OBVIOUS
  <2>9. IsConcat(ChunkType, <<h>>, Len(<<h>>), lc.chunks, Len(lc.chunks), f)
    BY <1>7, <2>7, <2>8, ConcatIs
  <2>10. /\ f \in Seq(ChunkType) /\ Len(f) = 1 + (N - n)
         /\ f[1] = h /\ \A i \in 1 .. N - n : f[1 + i] = lc.chunks[i]
    <3>1. 1 \in 1 .. 1
      OBVIOUS
    <3>. QED BY <1>7, <2>7, <2>9, <3>1 DEF IsConcat
  <2>11. ASSUME NEW i \in 1 .. N - m PROVE f[i] = t[i]
    <3>1. CASE i = 1
      BY <2>4, <2>10, <3>1
    <3>2. CASE i # 1
      <4>1. PICK j : j = i - 1
        OBVIOUS
      <4>2. j \in 1 .. N - n /\ 1 + j = i /\ n + j = m + i
        BY <1>7, <1>24, <2>1, <3>2, <4>1
      <4>3. f[i] = lc.chunks[j]
        BY <2>10, <4>2
      <4>4. lc.chunks[j] = Chunk(S[n + j], rows[S[n + j]].gap, rows[S[n + j]].items)
        BY <2>6, <4>2
      <4>. QED BY <2>3, <4>2, <4>3, <4>4
    <3>. QED BY <3>1, <3>2
  <2>12. Len(f) = Len(t)
    BY <1>7, <2>1, <2>3, <2>10
  <2>13. f = t
    BY <2>3, <2>10, <2>11, <2>12
  <2>14. first = f
    BY <1>14, <1>16, <2>2, <2>8
  <2>. QED BY <2>2, <2>13, <2>14
<1>26. SeesRows(rows, l, S, m)
  <2>1. m \in 0 .. Len(S)
    BY <1>6, <1>13, <1>24
  <2>2. l.lazy = Nth(S, m)
    BY <1>14, <1>23, <1>24
  <2>3. l.gen \in Nat /\ \A i \in 1 .. Len(S) : S[i] <= l.gen
    BY <1>5, <1>23 DEF SeesRows
  <2>. QED BY <1>8, <1>23, <1>25, <2>1, <2>2, <2>3 DEF SeesRows
<1>27. Lagging(rows, l, m)
  BY <1>23, <1>26, SettledLags
<1>28. PICK d : d = [c EXCEPT !.lc = l]
  OBVIOUS
<1>29. IsC(d) /\ d.lc = l /\ d.rows = rows /\ d.tracked = c.tracked /\ d.panicked = c.panicked
  BY <1>2, <1>3, <1>28 DEF IsC, Fields
<1>30. Len(l.chunks) > 0
  <2>1. Memory(rows, l, S, m)
    BY <1>26, MemoryIs
  <2>2. Len(l.chunks) = N - m
    BY <1>6, <2>1 DEF Memory
  <2>. QED BY <1>7, <1>13, <1>24, <2>2
<1>31. Stable(d, m)
  <2>1. Behind(rows, l) = rows
    BY <1>23, ApplyNone DEF Behind
  <2>2. Tracks(d.tracked, d.rows, d.lc, m)
    BY <1>5, <1>23, <1>26, <1>29, <2>1, QuietTracks
  <2>3. Mirrored(d, d.lc, m)
    BY <2>2, TracksMirrors
  <2>. QED BY <1>2, <1>23, <1>27, <1>29, <1>30, <2>3 DEF Stable
<1>32. AtRest(UpdatesAsVectorDiffs(d), m)
  BY <1>31, DiffsRest
<1>33. d = [c EXCEPT !.lc = Take(Take(InsertNewFirstChunk(c.lc, raw), "tracker"), "store")]
  BY <1>3, <1>17, <1>19, <1>20, <1>28
<1>. QED BY <1>3, <1>15, <1>32, <1>33

-----------------------------------------------------------------------------
(* push_backwards_pagination_events and what concludes a pagination.       *)

\* A gap goes while the store and the tracker have yet to see it.
LEMMA UnlinkLags ==
  ASSUME NEW rows, NEW t, NEW lc, NEW n, Lagging(rows, lc, n), Tracks(t, rows, lc, n), NEW i \in 1 .. Len(lc.chunks), lc.chunks[i].gap # NoToken
  PROVE  Lagging(rows, Unlink(lc, i), n) /\ Tracks(t, rows, Unlink(lc, i), n)
<1>1. PICK c : c = [rows |-> rows, tracked |-> t]
  OBVIOUS
<1>2. PICK S : SeesRows(Behind(rows, lc), lc, S, n) /\ Follows(HeardOf(t, lc.log["tracker"]), Behind(rows, lc), S)
  BY DEF Tracks
<1>3. c.rows = rows /\ c.tracked = t
  BY <1>1
<1>4. Sees(c, lc, S, n) /\ Mirrored(c, lc, n)
  BY <1>2, <1>3 DEF Sees, Mirrored, Heard
<1>5. PICK late, x, u, after : late = Behind(rows, lc) /\ x = lc.chunks[i].id /\ u = RemoveChunk(x) /\ after = Unlink(lc, i)
  OBVIOUS
<1>6. lc.chunks[i].items = <<>> /\ Shape(lc) /\ lc.chunks \in Seq(ChunkType) /\ Len(lc.chunks) \in Nat
  BY <1>4, ChunksAre
<1>7. Gone(c, lc, n, i, after)
  BY <1>4, <1>5, <1>6, UnlinkIs
<1>8. Nice(late, S) /\ x \in DOMAIN late /\ late[x].gap # NoToken /\ IdOf(lc, i) = x
  BY <1>3, <1>4, <1>5, RowOf
<1>9. PICK chunks : chunks = RemoveAt(lc.chunks, i)
  OBVIOUS
<1>10. after = Emit(With(lc, chunks, lc.lazy, lc.gen), <<u>>)
  <2>1. [lc EXCEPT !.chunks = chunks] = With(lc, chunks, lc.lazy, lc.gen)
    BY <1>6, WithChunks
  <2>. QED BY <1>5, <1>8, <1>9, <2>1 DEF Unlink
<1>11. /\ after.log["store"] = lc.log["store"] \o <<u>> /\ after.log["tracker"] = lc.log["tracker"] \o <<u>>
       /\ Behind(rows, after) = ApplyUpdate(late, u)
  <2>1. LET a == Emit(With(lc, chunks, lc.lazy, lc.gen), <<u>>)
         IN  /\ \A r \in Readers : a.log[r] = lc.log[r] \o <<u>>
             /\ \A table : Behind(table, a) = ApplyUpdate(Behind(table, lc), u)
    BY <1>6, EmitIs
  <2>. QED BY <1>5, <1>10, <2>1 DEF Readers
<1>12. \E Z : SeesRows(Behind(rows, after), after, Z, n)
  BY <1>3, <1>7 DEF Gone, Mirrored, Sees
<1>13. Agree(rows, Behind(rows, after)) /\ x \in DOMAIN rows /\ rows[x].gap # NoToken
  <2>1. Agree(rows, late)
    BY <1>5 DEF Lagging
  <2>2. x \in DOMAIN rows /\ rows[x].gap # NoToken
    BY <1>8, <2>1 DEF Agree
  <2>3. PICK k \in 1 .. Len(S) : x = S[k]
    BY <1>8 DEF Nice, Linked
  <2>4. PICK gone : gone = ApplyUpdate(late, u)
    OBVIOUS
  <2>5. Dropped(late, S, k, x, gone)
    BY <1>5, <1>8, <2>3, <2>4, DeleteNice
  <2>6. /\ DOMAIN gone = DOMAIN late \ {x}
        /\ \A id \in DOMAIN gone : gone[id].gap = late[id].gap /\ gone[id].items = late[id].items
    BY <2>5 DEF Dropped
  <2>7. Agree(rows, gone)
    BY <2>1, <2>2, <2>6 DEF Agree
  <2>. QED BY <1>11, <2>2, <2>4, <2>7
<1>14. PICK a, b : a = lc.log["store"] /\ b = lc.log["tracker"]
  OBVIOUS
<1>15. IsLog(a) /\ IsLog(b)
  BY <1>6, <1>14 DEF Shape, Readers
<1>16. ASSUME NEW log, IsLog(log), \A j \in 1 .. Len(log) : Small(log[j], rows, lc)
       PROVE  \A j \in 1 .. Len(log \o <<u>>) : Small((log \o <<u>>)[j], rows, after)
  <2>1. Small(u, rows, after)
    BY <1>5, <1>13 DEF Small
  <2>2. ASSUME NEW j \in 1 .. Len(log) PROVE Small(log[j], rows, after)
    <3>1. Small(log[j], rows, lc)
      BY <1>16
    <3>2. CASE \E id \in DOMAIN rows : rows[id].gap # NoToken /\ log[j] = RemoveChunk(id)
      BY <3>2 DEF Small
    <3>3. CASE \E q \in 1 .. Len(lc.chunks), k \in Nat, e \in Nat :
                  lc.chunks[q].gap = NoToken /\ log[j] = ReplaceItem(Position(lc.chunks[q].id, k), e)
      <4>1. PICK q \in 1 .. Len(lc.chunks), k \in Nat, e \in Nat :
                  lc.chunks[q].gap = NoToken /\ log[j] = ReplaceItem(Position(lc.chunks[q].id, k), e)
        BY <3>3
      <4>2. \E p \in 1 .. Len(after.chunks) : after.chunks[p] = lc.chunks[q]
        <5>1. q # i
          BY <4>1
        <5>2. CASE q < i
          <6>1. q \in 1 .. i - 1 /\ q \in 1 .. Len(after.chunks)
            BY <1>6, <1>7, <5>2 DEF Gone
          <6>. QED BY <1>7, <6>1 DEF Gone
        <5>3. CASE q > i
          <6>1. q \in i + 1 .. Len(lc.chunks) /\ q - 1 \in 1 .. Len(after.chunks)
            BY <1>6, <1>7, <5>3 DEF Gone
          <6>. QED BY <1>7, <6>1 DEF Gone
        <5>. QED BY <1>6, <5>1, <5>2, <5>3
      <4>3. PICK p \in 1 .. Len(after.chunks) : after.chunks[p] = lc.chunks[q]
        BY <4>2
      <4>4. after.chunks[p].gap = NoToken /\ log[j] = ReplaceItem(Position(after.chunks[p].id, k), e)
        BY <4>1, <4>3
      <4>. QED BY <4>4 DEF Small
    <3>. QED BY <3>1, <3>2, <3>3 DEF Small
  <2>. QED BY <1>16, <2>1, <2>2, SmallMore
<1>17. Lagging(rows, after, n)
  <2>1. \E Z : Nice(rows, Z)
    BY DEF Lagging
  <2>2. \A j \in 1 .. Len(a) : Small(a[j], rows, lc)
    BY <1>14 DEF Lagging
  <2>3. \A j \in 1 .. Len(a \o <<u>>) : Small((a \o <<u>>)[j], rows, after)
    BY <1>15, <1>16, <2>2
  <2>. QED BY <1>11, <1>12, <1>13, <1>14, <2>1, <2>3 DEF Lagging
<1>18. Tracks(t, rows, after, n)
  <2>1. \A j \in 1 .. Len(b) : Small(b[j], rows, lc)
    BY <1>14 DEF Tracks
  <2>2. \A j \in 1 .. Len(b \o <<u>>) : Small((b \o <<u>>)[j], rows, after)
    BY <1>15, <1>16, <2>1
  <2>3. PICK Z : Sees(c, after, Z, n)
    BY <1>7 DEF Gone, Mirrored
  <2>. QED BY <1>3, <1>11, <1>14, <2>2, <2>3 DEF Tracks, Sees, Heard
<1>. QED BY <1>5, <1>17, <1>18

\* The chunk a pagination is about: a gap, or none.
GapOf(lc, gap) == gap = NoChunk \/ \E i \in 1 .. Len(lc.chunks) : lc.chunks[i].id = gap /\ lc.chunks[i].gap # NoToken
IsPlace(lc, place) == place = <<>> \/ \E i \in 1 .. Len(lc.chunks) : place = <<Position(lc.chunks[i].id, 0)>>
OnItems(lc, place) ==
  \A i \in 1 .. Len(lc.chunks) : place = <<Position(lc.chunks[i].id, 0)>> => lc.chunks[i].gap = NoToken
\* The answer is in, and the place for the next gap is known. It is the place of a gap only if
\* the gap of the answer was taken out because nothing came.
FilledIs(c, lc, n, gap, events, filled, place) ==
  /\ Mirrored(c, filled, n) /\ Len(filled.chunks) > 0
  /\ IsPlace(filled, place)
  /\ OnItems(filled, place) \/ (events = <<>> /\ gap # NoChunk /\ Len(lc.chunks) # 1)

\* An answer without events takes its gap out.
LEMMA FillGone ==
  ASSUME NEW c, NEW lc, NEW n, Mirrored(c, lc, n), NEW gap, gap # NoChunk, GapOf(lc, gap), Len(lc.chunks) # 1,
         NEW filled, filled = Fill(lc, gap, <<>>)
  PROVE  FilledIs(c, lc, n, gap, <<>>, filled, PlaceOfGap(lc, gap, <<>>, filled))
<1>1. PICK i \in 1 .. Len(lc.chunks) : lc.chunks[i].id = gap /\ lc.chunks[i].gap # NoToken
  BY DEF GapOf
<1>2. lc.chunks[i].items = <<>> /\ Len(lc.chunks) \in Nat /\ DOMAIN lc.chunks = 1 .. Len(lc.chunks)
  BY <1>1, ChunksAre
<1>3. IndexOf(lc, gap) = i
  BY <1>1, IndexIs
<1>4. filled = Unlink(lc, i)
  BY <1>3 DEF Fill, RemoveEmptyChunkAt
<1>5. Gone(c, lc, n, i, filled)
  BY <1>2, <1>4, UnlinkIs
<1>6. Mirrored(c, filled, n) /\ Len(filled.chunks) = Len(lc.chunks) - 1 /\ Len(filled.chunks) > 0
  <2>1. Mirrored(c, filled, n) /\ Len(filled.chunks) = Len(lc.chunks) - 1
    BY <1>5 DEF Gone
  <2>2. Len(lc.chunks) > 1
    <3>1. PICK k : k = Len(lc.chunks)
      OBVIOUS
    <3>2. k \in Nat /\ k # 1 /\ i \in 1 .. k
      BY <1>2, <3>1
    <3>3. k > 1
      BY <3>2
    <3>. QED BY <3>1, <3>3
  <2>3. Len(lc.chunks) - 1 > 0
    BY <1>2, <2>2
  <2>. QED BY <2>1, <2>3
<1>7. PICK next, place : next = IdOf(lc, i + 1) /\ place = PlaceOfGap(lc, gap, <<>>, filled)
  OBVIOUS
<1>8. place = IF next = NoChunk THEN <<>> ELSE <<Position(next, 0)>>
  BY <1>3, <1>7 DEF PlaceOfGap
<1>9. IsPlace(filled, place)
  <2>1. CASE i + 1 \in 1 .. Len(lc.chunks)
    <3>1. next = lc.chunks[i + 1].id
      BY <1>2, <1>7, <2>1 DEF IdOf
    <3>2. next \in Nat
      BY <2>1, <3>1, ChunksAre
    <3>3. next # NoChunk
      BY <3>2 DEF NoChunk
    <3>4. i + 1 \in i + 1 .. Len(lc.chunks) /\ i \in 1 .. Len(filled.chunks) /\ (i + 1) - 1 = i
      BY <1>2, <1>6, <2>1
    <3>5. filled.chunks[i] = lc.chunks[i + 1]
      BY <1>5, <3>4 DEF Gone
    <3>. QED BY <1>8, <3>1, <3>3, <3>4, <3>5 DEF IsPlace
  <2>2. CASE i + 1 \notin 1 .. Len(lc.chunks)
    <3>1. next = NoChunk
      BY <1>2, <1>7, <2>2 DEF IdOf
    <3>. QED BY <1>8, <3>1 DEF IsPlace
  <2>. QED BY <2>1, <2>2
<1>. QED BY <1>6, <1>7, <1>9 DEF FilledIs

\* An answer with events, or to the only chunk, replaces the gap.
LEMMA FillReplaced ==
  ASSUME NEW c, NEW lc, NEW n, Mirrored(c, lc, n), NEW gap, gap # NoChunk, GapOf(lc, gap),
         NEW events, Unknown(c, lc, events), events # <<>> \/ Len(lc.chunks) = 1,
         NEW filled, filled = Fill(lc, gap, events)
  PROVE  FilledIs(c, lc, n, gap, events, filled, PlaceOfGap(lc, gap, events, filled))
<1>1. PICK i \in 1 .. Len(lc.chunks) : lc.chunks[i].id = gap /\ lc.chunks[i].gap # NoToken
  BY DEF GapOf
<1>2. lc.chunks[i].items = <<>>
  BY <1>1, ChunksAre
<1>3. filled = ReplaceGapAt(lc, gap, events)
  BY DEF Fill
<1>4. /\ Mirrored(c, filled, n) /\ i \in 1 .. Len(filled.chunks)
      /\ filled.chunks[i].id = lc.gen + 1 /\ filled.chunks[i].gap = NoToken
  BY <1>1, <1>2, <1>3, ReplaceGapIs
<1>5. PICK place : place = PlaceOfGap(lc, gap, events, filled)
  OBVIOUS
<1>6. place = <<Position(lc.gen + 1, 0)>>
  BY <1>5 DEF PlaceOfGap
<1>7. /\ Len(filled.chunks) \in Nat
      /\ \A a, b \in 1 .. Len(filled.chunks) : filled.chunks[a].id = filled.chunks[b].id => a = b
  BY <1>4, ChunksAre
<1>8. OnItems(filled, place)
  <2>1. ASSUME NEW j \in 1 .. Len(filled.chunks), place = <<Position(filled.chunks[j].id, 0)>>
        PROVE  filled.chunks[j].gap = NoToken
    <3>1. filled.chunks[j].id = lc.gen + 1
      BY <1>6, <2>1 DEF Position
    <3>2. j = i
      BY <1>4, <1>7, <3>1
    <3>. QED BY <1>4, <3>2
  <2>. QED BY <2>1 DEF OnItems
<1>9. IsPlace(filled, place) /\ Len(filled.chunks) > 0
  BY <1>4, <1>6, <1>7 DEF IsPlace
<1>. QED BY <1>4, <1>5, <1>8, <1>9 DEF FilledIs

\* An answer that belongs to no gap comes before the first event.
LEMMA FillFirst ==
  ASSUME NEW c, NEW lc, NEW n, Mirrored(c, lc, n), NEW events, Unknown(c, lc, events), Positions(lc) # <<>>,
         NEW filled, filled = Fill(lc, NoChunk, events)
  PROVE  FilledIs(c, lc, n, NoChunk, events, filled, PlaceOfGap(lc, NoChunk, events, filled))
<1>1. PICK at : at = Positions(lc)
  OBVIOUS
<1>2. PICK i \in 1 .. Len(lc.chunks) : lc.chunks[i].items # <<>> /\ at[1] = Position(lc.chunks[i].id, 0)
  BY <1>1, PositionsAre DEF ArePlaces
<1>3. PICK id : id = lc.chunks[i].id
  OBVIOUS
<1>4. filled = InsertItemsAt(lc, Position(id, 0), events)
  BY <1>1, <1>2, <1>3 DEF Fill
<1>5. /\ Mirrored(c, filled, n) /\ i \in 1 .. Len(filled.chunks)
      /\ filled.chunks[i].id = lc.chunks[i].id /\ filled.chunks[i].gap = lc.chunks[i].gap
  BY <1>2, <1>3, <1>4, InsertItemsIs
<1>6. lc.chunks[i].gap = NoToken
  BY <1>2, ChunksAre
<1>7. PICK place : place = PlaceOfGap(lc, NoChunk, events, filled)
  OBVIOUS
<1>8. place = <<Position(id, 0)>>
  BY <1>1, <1>2, <1>3, <1>7 DEF PlaceOfGap
<1>9. /\ Len(filled.chunks) \in Nat
      /\ \A a, b \in 1 .. Len(filled.chunks) : filled.chunks[a].id = filled.chunks[b].id => a = b
  BY <1>5, ChunksAre
<1>10. OnItems(filled, place)
  <2>1. ASSUME NEW j \in 1 .. Len(filled.chunks), place = <<Position(filled.chunks[j].id, 0)>>
        PROVE  filled.chunks[j].gap = NoToken
    <3>1. filled.chunks[j].id = filled.chunks[i].id
      BY <1>3, <1>5, <1>8, <2>1 DEF Position
    <3>2. j = i
      BY <1>5, <1>9, <3>1
    <3>. QED BY <1>5, <1>6, <3>2
  <2>. QED BY <2>1 DEF OnItems
<1>11. IsPlace(filled, place) /\ Len(filled.chunks) > 0
  BY <1>3, <1>5, <1>8, <1>9 DEF IsPlace
<1>. QED BY <1>5, <1>7, <1>10, <1>11 DEF FilledIs

\* An answer that belongs to no gap, in a room without events.
LEMMA FillLast ==
  ASSUME NEW c, NEW lc, NEW n, Mirrored(c, lc, n), Len(lc.chunks) > 0, NEW events, Unknown(c, lc, events), Positions(lc) = <<>>,
         NEW filled, filled = Fill(lc, NoChunk, events)
  PROVE  FilledIs(c, lc, n, NoChunk, events, filled, PlaceOfGap(lc, NoChunk, events, filled))
<1>1. filled = PushItemsBack(lc, events)
  BY DEF Fill
<1>2. Grew(c, lc, n, Len(lc.chunks), events, filled)
  BY <1>1, PushItemsBackIs
<1>3. Mirrored(c, filled, n) /\ Len(lc.chunks) \in 1 .. Len(filled.chunks)
      /\ (events # <<>> => \E j \in 1 .. Len(filled.chunks) : filled.chunks[j].items # <<>>)
  BY <1>2 DEF Grew
<1>4. Len(filled.chunks) > 0 /\ \A a, b \in 1 .. Len(filled.chunks) : filled.chunks[a].id = filled.chunks[b].id => a = b
  <2>1. Len(filled.chunks) \in Nat /\ Len(lc.chunks) \in Nat
    BY <1>3, ChunksAre
  <2>. QED BY <1>3, <2>1, ChunksAre
<1>5. PICK place : place = PlaceOfGap(lc, NoChunk, events, filled)
  OBVIOUS
<1>6. CASE events = <<>>
  <2>1. place = <<>>
    BY <1>5, <1>6 DEF PlaceOfGap
  <2>2. IsPlace(filled, place) /\ OnItems(filled, place)
    BY <2>1 DEF IsPlace, OnItems
  <2>. QED BY <1>3, <1>4, <1>5, <2>2 DEF FilledIs
<1>7. CASE events # <<>>
  <2>1. PICK at : at = Positions(filled)
    OBVIOUS
  <2>2. place = <<at[1]>>
    BY <1>5, <1>7, <2>1 DEF PlaceOfGap
  <2>3. PICK i \in 1 .. Len(filled.chunks) : filled.chunks[i].items # <<>> /\ at[1] = Position(filled.chunks[i].id, 0)
    <3>1. ArePlaces(filled, ItemsOf(filled.chunks), at)
      BY <1>3, <2>1, PositionsAre
    <3>2. at # <<>>
      BY <1>3, <1>7, <3>1 DEF ArePlaces
    <3>. QED BY <3>1, <3>2 DEF ArePlaces
  <2>4. filled.chunks[i].gap = NoToken
    BY <1>3, <2>3, ChunksAre
  <2>5. OnItems(filled, place)
    <3>1. ASSUME NEW j \in 1 .. Len(filled.chunks), place = <<Position(filled.chunks[j].id, 0)>>
          PROVE  filled.chunks[j].gap = NoToken
      <4>1. filled.chunks[j].id = filled.chunks[i].id
        BY <2>2, <2>3, <3>1 DEF Position
      <4>2. j = i
        BY <1>4, <4>1
      <4>. QED BY <2>4, <4>2
    <3>. QED BY <3>1 DEF OnItems
  <2>6. IsPlace(filled, place)
    BY <2>2, <2>3 DEF IsPlace
  <2>. QED BY <1>3, <1>4, <1>5, <2>5, <2>6 DEF FilledIs
<1>. QED BY <1>6, <1>7

\* push_backwards_pagination_events, up to the next gap.
LEMMA FillIs ==
  ASSUME NEW c, NEW lc, NEW n, Mirrored(c, lc, n), Len(lc.chunks) > 0, NEW gap, GapOf(lc, gap),
         NEW events, Unknown(c, lc, events), NEW filled, filled = Fill(lc, gap, events)
  PROVE  FilledIs(c, lc, n, gap, events, filled, PlaceOfGap(lc, gap, events, filled))
<1>1. CASE gap # NoChunk /\ events = <<>> /\ Len(lc.chunks) # 1
  BY <1>1, FillGone
<1>2. CASE gap # NoChunk /\ (events # <<>> \/ Len(lc.chunks) = 1)
  BY <1>2, FillReplaced
<1>3. CASE gap = NoChunk /\ Positions(lc) # <<>>
  BY <1>3, FillFirst
<1>4. CASE gap = NoChunk /\ Positions(lc) = <<>>
  BY <1>4, FillLast
<1>. QED BY <1>1, <1>2, <1>3, <1>4

\* The next gap cannot be put on a gap.
GapRefused(c, filled, place, token, r) ==
  /\ ~OnItems(filled, place)
  /\ r = [c EXCEPT !.lc = filled, !.panicked = "gap"]
GapPut(c, n, r) ==
  /\ IsC(r) /\ r.panicked = c.panicked /\ r.rows = c.rows /\ r.tracked = c.tracked
  /\ Mirrored(c, r.lc, n) /\ Len(r.lc.chunks) > 0

\* The next gap goes before what has come.
LEMMA PutGapIs ==
  ASSUME NEW c, IsC(c), NEW n, NEW filled, Mirrored(c, filled, n), Len(filled.chunks) > 0,
         NEW place, IsPlace(filled, place), NEW token \in Nat, NEW r, r = PutGap(c, filled, place, token)
  PROVE  GapRefused(c, filled, place, token, r) \/ GapPut(c, n, r)
<1>1. ASSUME NEW l, Mirrored(c, l, n), Len(l.chunks) > 0, r = [c EXCEPT !.lc = l] PROVE GapPut(c, n, r)
  <2>1. IsC(r) /\ r.lc = l /\ r.rows = c.rows /\ r.tracked = c.tracked /\ r.panicked = c.panicked
    BY <1>1 DEF IsC, Fields
  <2>. QED BY <1>1, <2>1 DEF GapPut
<1>2. CASE token = NoToken
  <2>1. r = [c EXCEPT !.lc = filled]
    BY <1>2 DEF PutGap
  <2>. QED BY <1>1, <2>1
<1>3. CASE token # NoToken /\ place = <<>>
  <2>1. PICK l : l = PushGapBack(filled, token)
    OBVIOUS
  <2>2. r = [c EXCEPT !.lc = l]
    BY <1>3, <2>1 DEF PutGap
  <2>3. filled.chunks # <<>> /\ Len(filled.chunks) \in Nat
    <3>1. Len(filled.chunks) \in Nat
      BY ChunksAre
    <3>. QED BY <3>1
  <2>4. PICK k : k = Len(filled.chunks)
    OBVIOUS
  <2>5. l = InsertNext(filled, k, token)
    BY <2>1, <2>3, <2>4 DEF PushGapBack, FirstChunk
  <2>6. k \in 1 .. Len(filled.chunks)
    BY <2>3, <2>4
  <2>7. NewAt(c, filled, n, k, token, l)
    BY <2>5, <2>6, InsertNextIs
  <2>8. Mirrored(c, l, n) /\ Len(l.chunks) = Len(filled.chunks) + 1
    BY <2>7 DEF NewAt
  <2>9. Len(l.chunks) > 0
    BY <2>3, <2>8
  <2>. QED BY <1>1, <2>2, <2>8, <2>9
<1>4. CASE token # NoToken /\ place # <<>>
  <2>1. PICK i \in 1 .. Len(filled.chunks) : place = <<Position(filled.chunks[i].id, 0)>>
    BY <1>4 DEF IsPlace
  <2>2. PICK id, at : id = filled.chunks[i].id /\ at = Position(id, 0)
    OBVIOUS
  <2>3. place[1] = at /\ at.chunk = id /\ at.index = 0
    BY <2>1, <2>2 DEF Position
  <2>4. IndexOf(filled, id) = i
    BY <2>2, IndexIs
  <2>5. CASE filled.chunks[i].gap # NoToken
    <3>1. r = [c EXCEPT !.lc = filled, !.panicked = "gap"]
      BY <1>4, <2>3, <2>4, <2>5 DEF PutGap, IsGap
    <3>2. ~OnItems(filled, place)
      BY <2>1, <2>5 DEF OnItems
    <3>. QED BY <3>1, <3>2 DEF GapRefused
  <2>6. CASE filled.chunks[i].gap = NoToken
    <3>1. PICK l : l = InsertBefore(filled, i, token)
      OBVIOUS
    <3>2. l = InsertGapAt(filled, token, at)
      BY <2>3, <2>4, <3>1 DEF InsertGapAt
    <3>3. r = [c EXCEPT !.lc = l]
      BY <1>4, <2>3, <2>4, <2>6, <3>2 DEF PutGap, IsGap
    <3>4. NewAt(c, filled, n, i - 1, token, l)
      BY <3>1, InsertBeforeIs
    <3>5. Mirrored(c, l, n) /\ Len(l.chunks) = Len(filled.chunks) + 1
      BY <3>4 DEF NewAt
    <3>6. Len(filled.chunks) \in Nat
      BY ChunksAre
    <3>7. Len(l.chunks) > 0
      BY <3>5, <3>6
    <3>. QED BY <1>1, <3>3, <3>5, <3>7
  <2>. QED BY <2>5, <2>6
<1>. QED BY <1>2, <1>3, <1>4

\* push_backwards_pagination_events and what its caller does next. A panic leaves the
\* linked chunk as it was then, which the store and the tracker can still follow: it only comes with
\* an answer that brings nothing, before which nothing was taken out.
LEMMA PushBackRests ==
  ASSUME NEW c, NEW n, Stable(c, n), c.panicked = "no", NEW gap, GapOf(c.lc, gap),
         NEW events, Unknown(c, c.lc, events), events = <<>> => Settles(c, n), NEW token \in Nat
  PROVE  AtRest(Flush(PushBackwards(c, gap, token, events)), n)
<1>1. IsC(c) /\ Mirrored(c, c.lc, n) /\ Len(c.lc.chunks) > 0
  BY RestIs
<1>2. PICK lc, filled : lc = c.lc /\ filled = Fill(c.lc, gap, events)
  OBVIOUS
<1>3. PICK place : place = PlaceOfGap(lc, gap, events, filled)
  OBVIOUS
<1>4. FilledIs(c, lc, n, gap, events, filled, place)
  <2>1. Mirrored(c, lc, n) /\ Len(lc.chunks) > 0 /\ GapOf(lc, gap) /\ Unknown(c, lc, events) /\ filled = Fill(lc, gap, events)
    BY <1>1, <1>2
  <2>. QED BY <1>3, <2>1, FillIs
<1>5. PICK r : r = PutGap(c, filled, place, token)
  OBVIOUS
<1>6. PushBackwards(c, gap, token, events) = r
  BY <1>2, <1>3, <1>5 DEF PushBackwards, PushFilled
<1>7. GapRefused(c, filled, place, token, r) \/ GapPut(c, n, r)
  <2>1. Mirrored(c, filled, n) /\ Len(filled.chunks) > 0 /\ IsPlace(filled, place)
    BY <1>4 DEF FilledIs
  <2>. QED BY <1>1, <1>5, <2>1, PutGapIs
<1>8. CASE GapPut(c, n, r)
  <2>1. IsC(r) /\ r.panicked = "no" /\ Mirrored(r, r.lc, n) /\ Len(r.lc.chunks) > 0
    BY <1>8 DEF GapPut, Mirrored, Sees
  <2>2. PICK s : s = Propagate(r)
    OBVIOUS
  <2>3. Propagated(r, n, s)
    BY <2>1, <2>2, PropagateIs
  <2>4. Stable(s, n)
    BY <2>1, <2>3 DEF Propagated, Stable
  <2>5. AtRest(UpdatesAsVectorDiffs(s), n)
    BY <2>4, DiffsRest
  <2>6. Flush(r) = UpdatesAsVectorDiffs(s)
    BY <2>1, <2>2 DEF Flush
  <2>. QED BY <1>6, <2>5, <2>6
<1>9. CASE GapRefused(c, filled, place, token, r)
  <2>1. r = [c EXCEPT !.lc = filled, !.panicked = "gap"] /\ ~OnItems(filled, place)
    BY <1>9 DEF GapRefused
  <2>2. IsC(r) /\ r.lc = filled /\ r.rows = c.rows /\ r.tracked = c.tracked /\ r.panicked = "gap"
    BY <1>1, <2>1 DEF IsC, Fields
  <2>3. events = <<>> /\ gap # NoChunk /\ Len(lc.chunks) # 1
    BY <1>4, <2>1 DEF FilledIs
  <2>4. PICK i \in 1 .. Len(lc.chunks) : lc.chunks[i].id = gap /\ lc.chunks[i].gap # NoToken
    BY <1>2, <2>3 DEF GapOf
  <2>5. IndexOf(lc, gap) = i
    BY <1>1, <1>2, <2>4, IndexIs
  <2>6. filled = Unlink(lc, i)
    BY <1>2, <2>3, <2>5 DEF Fill, RemoveEmptyChunkAt
  <2>7. ~Fresh(c)
    <3>1. SUFFICES ASSUME Fresh(c) PROVE FALSE
      OBVIOUS
    <3>2. Len(lc.chunks) = 1
      BY <1>2, <3>1 DEF Fresh
    <3>. QED BY <2>3, <3>2
  <2>8. Lagging(c.rows, lc, n) /\ Tracks(c.tracked, c.rows, lc, n)
    BY <1>2, <2>3, <2>7 DEF Stable, Settles
  <2>9. Lagging(r.rows, r.lc, n) /\ Tracks(r.tracked, r.rows, r.lc, n)
    BY <2>2, <2>4, <2>6, <2>8, UnlinkLags
  <2>10. Gaps(r.lc) # {}
    <3>1. PICK j \in 1 .. Len(filled.chunks) : filled.chunks[j].gap # NoToken
      BY <2>1 DEF OnItems
    <3>2. Mirrored(c, filled, n)
      BY <1>4 DEF FilledIs
    <3>3. DOMAIN filled.chunks = 1 .. Len(filled.chunks)
      BY <3>2, ChunksAre
    <3>. QED BY <2>2, <3>1, <3>3 DEF Gaps, IsGap
  <2>11. Len(r.lc.chunks) > 0
    BY <1>4, <2>2 DEF FilledIs
  <2>12. AtRest(r, n)
    <3>1. Mirrored(r, r.lc, n)
      BY <2>9, TracksMirrors
    <3>. QED BY <2>2, <2>9, <2>10, <2>11, <3>1 DEF AtRest, Stable, Settles
  <2>13. Flush(r) = r
    BY <2>2 DEF Flush
  <2>. QED BY <1>6, <2>12, <2>13
<1>. QED BY <1>7, <1>8, <1>9

\* The duplicates of a page go, and its gap is still there.
LEMMA PageRemoved ==
  ASSUME NEW c, NEW n, AtRest(c, n), NEW events \in Seq(Nat), Injective(events), NEW dups, Filtered(c, events, dups),
         NEW gap, GapOf(c.lc, gap), NEW r, r = RemoveEvents(c, dups.memory, dups.store)
  PROVE  /\ Stable(r, n) /\ r.panicked = c.panicked /\ GapOf(r.lc, gap) /\ Unknown(r, r.lc, events)
         /\ events = <<>> => r = c
<1>1. IsC(c) /\ Len(c.lc.chunks) > 0 /\ Tracks(c.tracked, c.rows, c.lc, n)
  BY DEF AtRest, Stable, Settles
<1>2. Found(c, dups.memory, dups.store)
  BY DEF Filtered, FilteredSet
<1>3. Stable(r, n)
  BY <1>2, RemoveRests
<1>4. ASSUME events = <<>> PROVE r = c
  <2>1. ToSet(events) = {}
    BY <1>4 DEF ToSet
  <2>2. dups.memory = {} /\ dups.store = {}
    BY <2>1 DEF Filtered, FilteredSet
  <2>. QED BY <2>2, RemoveNothing
<1>5. CASE Fresh(c)
  <2>1. dups.memory = {} /\ dups.store = {}
    BY <1>2, <1>5, FreshHolds
  <2>2. r = c
    BY <2>1, RemoveNothing
  <2>3. Ev(c, c.lc) = {}
    BY <1>5, FreshIs
  <2>4. Unknown(c, c.lc, events)
    BY <2>3 DEF Unknown
  <2>. QED BY <1>3, <1>4, <2>2, <2>4
<1>6. CASE Lagging(c.rows, c.lc, n)
  <2>1. PICK M, T : M = dups.memory /\ T = dups.store
    OBVIOUS
  <2>2. EventsRemoved(c, n, M, T, r)
    BY <1>1, <1>2, <1>6, <2>1, RemoveEventsIs
  <2>3. /\ r.panicked = c.panicked /\ GapsKept(c.lc, r.lc)
        /\ \A e \in Ev(r, r.lc) : e \in Ev(c, c.lc) /\ \A d \in M \cup T : d.event # e
    BY <2>2 DEF EventsRemoved
  <2>4. GapOf(r.lc, gap)
    <3>1. CASE gap = NoChunk
      BY <3>1 DEF GapOf
    <3>2. CASE gap # NoChunk
      <4>1. PICK i \in 1 .. Len(c.lc.chunks) : c.lc.chunks[i].id = gap /\ c.lc.chunks[i].gap # NoToken
        BY <3>2 DEF GapOf
      <4>2. PICK j \in 1 .. Len(r.lc.chunks) : r.lc.chunks[j] = c.lc.chunks[i]
        BY <2>3, <4>1 DEF GapsKept
      <4>. QED BY <4>1, <4>2 DEF GapOf
    <3>. QED BY <3>1, <3>2
  <2>5. ASSUME NEW j \in 1 .. Len(events), events[j] \in Ev(r, r.lc) PROVE FALSE
    <3>1. PICK e : e = events[j]
      OBVIOUS
    <3>2. e \in Ev(c, c.lc) /\ \A d \in M \cup T : d.event # e
      BY <2>3, <2>5, <3>1
    <3>3. e \in StoredEvents(Behind(c.rows, c.lc))
      BY <3>2 DEF Ev
    <3>4. PICK p : HeldRow(c.rows, p, e)
      BY <1>6, <3>3, EventIsHeld
    <3>5. e \in ToSet(events)
      BY <3>1 DEF ToSet
    <3>6. PICK d \in dups.memory \cup dups.store : d.event = e
      BY <3>4, <3>5 DEF Filtered, FilteredSet
    <3>. QED BY <2>1, <3>2, <3>6
  <2>6. Unknown(r, r.lc, events)
    BY <2>5 DEF Unknown
  <2>. QED BY <1>3, <1>4, <2>3, <2>4, <2>6
<1>. QED BY <1>5, <1>6 DEF AtRest, Stable

\* conclude_backwards_pagination_from_network: whatever the answer, and whatever has happened
\* since it was asked for, the store mirrors memory afterwards.
LEMMA ConcludeRests ==
  ASSUME NEW c, NEW n, AtRest(c, n), NEW events \in Seq(Nat), Injective(events), NEW dups, Filtered(c, events, dups),
         NEW gap, GapOf(c.lc, gap), NEW token \in Nat
  PROVE  AtRest(Conclude(c, dups, gap, token, events), n)
<1>1. PICK d : d = [c EXCEPT !.panicked = "no"]
  OBVIOUS
<1>2. IsC(d) /\ d.panicked = "no" /\ d.lc = c.lc /\ d.rows = c.rows /\ d.tracked = c.tracked
  BY <1>1 DEF AtRest, Stable, IsC, Fields
<1>3. AtRest(d, n)
  <2>1. Fresh(c) => Fresh(d)
    BY <1>2 DEF Fresh
  <2>2. Mirrored(c, c.lc, n) => Mirrored(d, d.lc, n)
    BY <1>2 DEF Mirrored, Sees
  <2>3. Stable(d, n)
    BY <1>2, <2>1, <2>2 DEF AtRest, Stable
  <2>. QED BY <1>2, <2>3 DEF AtRest, Settles
<1>4. Filtered(d, events, dups) /\ GapOf(d.lc, gap)
  BY <1>2 DEF Filtered, FilteredSet, Found
<1>5. CASE dups.all
  <2>1. PICK none : none = <<>>
    OBVIOUS
  <2>2. Unknown(d, d.lc, none)
    <3>1. none \in Seq(Nat) /\ Len(none) = 0
      BY <2>1
    <3>. QED BY <3>1 DEF Unknown, Injective
  <2>3. NoToken \in Nat
    BY DEF NoToken
  <2>4. AtRest(Flush(PushBackwards(d, gap, NoToken, none)), n)
    BY <1>2, <1>3, <1>4, <2>2, <2>3, PushBackRests DEF AtRest
  <2>. QED BY <1>1, <1>5, <2>1, <2>4 DEF Conclude, PushPage
<1>6. CASE ~dups.all
  <2>1. PICK r : r = RemoveEvents(d, dups.memory, dups.store)
    OBVIOUS
  <2>2. Stable(r, n) /\ (events = <<>> => r = d) /\ r.panicked = d.panicked /\ GapOf(r.lc, gap) /\ Unknown(r, r.lc, events)
    BY <1>3, <1>4, <2>1, PageRemoved
  <2>3. r.panicked = "no"
    BY <1>2, <2>2
  <2>4. AtRest(Flush(PushBackwards(r, gap, token, events)), n)
    <3>1. events = <<>> => Settles(r, n)
      BY <1>3, <2>2 DEF AtRest
    <3>. QED BY <2>2, <2>3, <3>1, PushBackRests
  <2>. QED BY <1>1, <1>6, <2>1, <2>4 DEF Conclude, PushPage
<1>. QED BY <1>5, <1>6

-----------------------------------------------------------------------------
(* The inductive invariant.                                                *)

\* A cache that is at rest mirrors the store.
LEMMA RestMirrors ==
  ASSUME NEW n, AtRest(cache, n)
  PROVE  StoreMirrorsMemory
<1>1. cache.panicked # "remove" /\ Len(cache.lc.chunks) > 0 /\ Mirrored(cache, cache.lc, n)
  BY RestIs DEF AtRest, Stable
<1>2. PICK stored, lc : stored = Stored /\ lc = cache.lc
  OBVIOUS
<1>3. PICK S : SeesRows(stored, lc, S, n)
  BY <1>1, <1>2 DEF Mirrored, Sees, Behind, Stored
<1>4. PICK N : N = Len(S)
  OBVIOUS
<1>5. /\ N \in Nat /\ n \in Nat /\ n <= N /\ lc.chunks \in Seq(ChunkType) /\ Len(lc.chunks) = N - n
      /\ \A i \in 1 .. Len(lc.chunks) : lc.chunks[i] = Chunk(S[n + i], stored[S[n + i]].gap, stored[S[n + i]].items)
  <2>1. Memory(stored, lc, S, n)
    BY <1>3, MemoryIs
  <2>2. N \in Nat /\ n \in Nat /\ n <= N /\ lc.chunks \in Seq(ChunkType) /\ Len(lc.chunks) = N - n
    BY <1>4, <2>1 DEF Memory
  <2>3. \A i \in 1 .. Len(lc.chunks) : lc.chunks[i] = Chunk(S[n + i], stored[S[n + i]].gap, stored[S[n + i]].items)
    BY <2>1 DEF Memory
  <2>. QED BY <2>2, <2>3
<1>6. Nice(stored, S) /\ N > 0 /\ Len(S) > 0
  <2>1. Nice(stored, S)
    BY <1>3 DEF SeesRows
  <2>2. N - n > 0
    BY <1>1, <1>2, <1>5
  <2>3. N > 0
    BY <1>5, <2>2
  <2>. QED BY <1>4, <2>1, <2>3
<1>7. PICK chain : chain = Chain(stored)
  OBVIOUS
<1>8. WellFormed(stored) /\ chain = Loaded(stored, S, 0)
  BY <1>6, <1>7, NiceWellFormed
<1>9. stored # Refused
  BY <1>6, NotRefused DEF Nice
<1>10. /\ chain \in Seq(ChunkType) /\ Len(chain) = N
       /\ \A i \in 1 .. N : /\ chain[i] = Chunk(S[i], stored[S[i]].gap, stored[S[i]].items)
                            /\ S[i] \in DOMAIN stored /\ S[i] \in Nat
  <2>1. 0 \in 0 .. Len(S) /\ N - 0 = N
    BY <1>4, <1>5
  <2>2. /\ chain \in Seq(ChunkType) /\ Len(chain) = N - 0
        /\ \A i \in 1 .. N - 0 : /\ chain[i] = Chunk(S[0 + i], stored[S[0 + i]].gap, stored[S[0 + i]].items)
                                 /\ S[0 + i] \in DOMAIN stored /\ S[0 + i] \in Nat
    BY <1>4, <1>6, <1>8, <2>1, LoadedIs
  <2>3. \A i \in 1 .. N : 0 + i = i
    BY <1>5
  <2>. QED BY <2>1, <2>2, <2>3
<1>11. SubSeq(chain, n + 1, N) = lc.chunks
  <2>1. n + 1 \in 1 .. N + 1 /\ N \in 0 .. N /\ n + 1 <= N + 1 /\ N - (n + 1) + 1 = N - n
    BY <1>5
  <2>2. PICK lo : lo = n + 1
    OBVIOUS
  <2>3. PICK s : s = SubSeq(chain, lo, N)
    OBVIOUS
  <2>4. /\ s \in Seq(ChunkType) /\ Len(s) = N - lo + 1
        /\ \A i \in 1 .. N - lo + 1 : s[i] = chain[lo + i - 1]
    BY <1>10, <2>1, <2>2, <2>3, SubSeqIs
  <2>5. Len(s) = Len(lc.chunks) /\ Len(s) = N - n
    BY <1>5, <2>1, <2>2, <2>4
  <2>6. ASSUME NEW i \in 1 .. N - n PROVE s[i] = lc.chunks[i]
    <3>1. lo + i - 1 = n + i /\ n + i \in 1 .. N /\ i \in 1 .. N - lo + 1
      BY <1>5, <2>2
    <3>2. s[i] = chain[n + i]
      BY <2>4, <3>1
    <3>3. chain[n + i] = Chunk(S[n + i], stored[S[n + i]].gap, stored[S[n + i]].items)
      BY <1>10, <3>1
    <3>. QED BY <1>5, <3>2, <3>3
  <2>7. s = lc.chunks
    <3>1. \A i \in 1 .. Len(s) : s[i] = lc.chunks[i]
      BY <2>5, <2>6
    <3>2. lc.chunks \in Seq(ChunkType) /\ s \in Seq(ChunkType) /\ Len(s) = Len(lc.chunks)
      BY <1>5, <2>4, <2>5
    <3>. QED BY <3>1, <3>2
  <2>. QED BY <2>2, <2>3, <2>7
<1>12. lc.lazy = IF n = 0 THEN NoChunk ELSE chain[n].id
  <2>1. lc.lazy = Nth(S, n)
    BY <1>3 DEF SeesRows
  <2>2. CASE n = 0
    BY <2>1, <2>2 DEF Nth
  <2>3. CASE n # 0
    <3>1. n \in 1 .. N
      BY <1>5, <2>3
    <3>2. chain[n].id = S[n]
      BY <1>10, <3>1 DEF Chunk
    <3>. QED BY <1>4, <2>1, <2>3, <3>1, <3>2 DEF Nth
  <2>. QED BY <2>2, <2>3
<1>13. lc.gen >= MaxId(stored)
  <2>1. MaxId(stored) \in DOMAIN stored
    BY <1>6, LastIs
  <2>2. PICK i \in 1 .. N : MaxId(stored) = S[i]
    BY <1>4, <1>6, <2>1 DEF Nice, Linked
  <2>3. S[i] <= lc.gen /\ lc.gen \in Nat /\ S[i] \in Nat
    BY <1>3, <1>4, <1>10 DEF SeesRows
  <2>. QED BY <2>2, <2>3
<1>14. \A i \in DOMAIN chain : Len(chain[i].items) <= Cap
  <2>1. ASSUME NEW i \in 1 .. N PROVE Len(chain[i].items) <= Cap
    <3>1. S[i] \in DOMAIN stored /\ chain[i].items = stored[S[i]].items
      BY <1>10 DEF Chunk
    <3>2. Len(stored[S[i]].items) <= Cap
      BY <1>6, <3>1, ItemsOnce
    <3>. QED BY <3>1, <3>2
  <2>2. DOMAIN chain = 1 .. N
    BY <1>10
  <2>. QED BY <2>1, <2>2
<1>15. Len(chain) - Len(lc.chunks) = n /\ n >= 0
  BY <1>5, <1>10
<1>16. cache.panicked # "remove"
  BY <1>1
<1>17. Stored = stored /\ Chain(Stored) = chain /\ cache.lc = lc
  BY <1>2, <1>7
<1>. QED BY <1>8, <1>9, <1>10, <1>11, <1>12, <1>13, <1>14, <1>15, <1>16, <1>17 DEF StoreMirrorsMemory

\* A cache that is at rest has told the tracker, or will tell it, the lengths the store has.
LEMMA RestTracks ==
  ASSUME NEW n, AtRest(cache, n)
  PROVE  OrderTrackerIsExact
<1>1. Mirrored(cache, cache.lc, n)
  BY RestIs DEF AtRest
<1>2. PICK stored, t, log : stored = Stored /\ t = cache.tracked /\ log = cache.lc.log["tracker"]
  OBVIOUS
<1>3. PICK S : SeesRows(stored, cache.lc, S, n) /\ Follows(HeardOf(t, log), stored, S)
  BY <1>1, <1>2 DEF Mirrored, Sees, Behind, Stored, Heard
<1>4. Tracked(Chain(stored)) = Lengths(stored, S)
  <2>1. Nice(stored, S)
    BY <1>3 DEF SeesRows
  <2>. QED BY <2>1, TrackedIs
<1>5. IsMapper(HeardOf(t, log)) /\ HeardOf(t, log).chunks = Lengths(stored, S)
  BY <1>3 DEF Follows, IsMapper
<1>6. TrackUpdates(t, log) = Lengths(stored, S)
  BY <1>5, TrackIs
<1>. QED BY <1>2, <1>4, <1>6 DEF OrderTrackerIsExact

ReqFields == {"pc", "token", "events", "end", "hit"}
\* What a pagination asked for, and what it was told.
IsRequest(q) ==
  /\ DOMAIN q = ReqFields /\ q = [f \in ReqFields |-> q[f]]
  /\ q.token \in Nat /\ q.end \in Nat /\ q.events \in Seq(Nat) /\ Injective(q.events)

\* The inductive invariant: between two operations the cache is at rest, and an answer that
\* waits to be concluded has each event once.
Rests == \E n : AtRest(cache, n)
Serving == head \in Nat /\ pos \in Nat
Requests == pager = [p \in Pagers |-> pager[p]] /\ \A p \in Pagers : IsRequest(pager[p])
IInv == Rests /\ Serving /\ Requests

\* A pagination that asks for nothing.
LEMMA QuietIs ==
  ASSUME NEW pc, NEW token \in Nat, NEW hit
  PROVE  IsRequest(Quiet) /\ IsRequest([Quiet EXCEPT !.pc = pc, !.token = token, !.hit = hit])
<1>1. PICK none : none = <<>>
  OBVIOUS
<1>2. none \in Seq(Nat) /\ Injective(none)
  <2>1. none \in Seq(Nat) /\ Len(none) = 0
    BY <1>1
  <2>. QED BY <2>1 DEF Injective
<1>3. PICK q : q = Quiet
  OBVIOUS
<1>4. /\ DOMAIN q = ReqFields /\ q = [f \in ReqFields |-> q[f]]
      /\ q.token = 0 /\ q.end = 0 /\ q.events = none
  BY <1>1, <1>3 DEF Quiet, ReqFields, NoToken
<1>5. PICK r : r = [q EXCEPT !.pc = pc, !.token = token, !.hit = hit]
  OBVIOUS
<1>6. /\ DOMAIN r = ReqFields /\ r = [f \in ReqFields |-> r[f]]
      /\ r.token = token /\ r.end = 0 /\ r.events = none
  BY <1>4, <1>5 DEF ReqFields
<1>7. IsRequest(q)
  BY <1>2, <1>4 DEF IsRequest
<1>8. IsRequest(r)
  BY <1>2, <1>6 DEF IsRequest
<1>. QED BY <1>3, <1>5, <1>7, <1>8

\* The requests after one of them has changed.
LEMMA GoesOn ==
  ASSUME Requests, NEW p \in Pagers, NEW q, IsRequest(q), pager' = [pager EXCEPT ![p] = q]
  PROVE  Requests'
<1>1. \A x \in Pagers : pager'[x] = IF x = p THEN q ELSE pager[x]
  BY DEF Requests
<1>2. pager' = [x \in Pagers |-> pager'[x]]
  BY DEF Requests
<1>. QED BY <1>1, <1>2 DEF Requests

\* A pagination goes on to the next step with a token and an outcome.
LEMMA GoesIs ==
  ASSUME Requests, NEW p \in Pagers, NEW pc, NEW token \in Nat, NEW hit, Goes(p, pc, token, hit)
  PROVE  Requests'
<1>1. PICK q : q = [Quiet EXCEPT !.pc = pc, !.token = token, !.hit = hit]
  OBVIOUS
<1>2. IsRequest(q) /\ pager' = [pager EXCEPT ![p] = q]
  BY <1>1, QuietIs DEF Goes
<1>. QED BY <1>2, GoesOn

\* A request that moves on without an answer.
LEMMA MovesOn ==
  ASSUME Requests, NEW p \in Pagers, NEW pc, pager' = [pager EXCEPT ![p].pc = pc]
  PROVE  Requests'
<1>1. PICK r : r = pager[p]
  OBVIOUS
<1>2. PICK q : q = [r EXCEPT !.pc = pc]
  OBVIOUS
<1>3. IsRequest(r)
  BY <1>1 DEF Requests
<1>4. DOMAIN q = ReqFields /\ q = [f \in ReqFields |-> q[f]] /\ q.token = r.token /\ q.end = r.end /\ q.events = r.events
  BY <1>2, <1>3 DEF IsRequest, ReqFields
<1>5. IsRequest(q)
  BY <1>3, <1>4 DEF IsRequest
<1>6. pager' = [pager EXCEPT ![p] = q]
  BY <1>1, <1>2
<1>. QED BY <1>5, <1>6, GoesOn

-----------------------------------------------------------------------------
(* Every action keeps it.                                                  *)

\* The first event of a response, and the token of one.
LEMMA FirstIs ==
  ASSUME NEW hi \in Int, NEW k \in Nat
  PROVE  First(hi, k) \in Nat /\ \A lo \in Nat : \A t \in Tokens(lo) : t \in Nat
BY DEF First, Tokens, NoToken

\* The answer to a sync.
LEMMA TimelineRests ==
  ASSUME IInv, NEW lo \in Nat, NEW limited, HandleTimeline(lo, limited)
  PROVE  IInv'
<1>1. PICK events : events = Between(lo, head)
  OBVIOUS
<1>2. PICK dups : dups = FilterDuplicateEvents(cache, events)
  OBVIOUS
<1>3. PICK token \in Tokens(lo) : HandleEvents(events, dups, limited, token)
  BY <1>1, <1>2 DEF HandleTimeline
<1>4. /\ cache' = IF events = <<>> /\ token = NoToken THEN cache ELSE HandleSync(cache, dups, events, limited, token)
      /\ pos' = head /\ pager' = pager /\ head' = head
  BY <1>3 DEF HandleEvents
<1>5. head \in Int /\ head \in Nat
  BY DEF IInv, Serving
<1>6. token \in Nat
  BY <1>5, FirstIs
<1>7. events \in Seq(Nat) /\ Injective(events)
  BY <1>1, <1>5, BetweenIs
<1>8. PICK n : AtRest(cache, n)
  BY DEF IInv, Rests
<1>9. PICK S : Nice(cache.rows, S)
  BY <1>8, RestIs DEF AtRest
<1>10. Filtered(cache, events, dups)
  BY <1>2, <1>9, FilterIs
<1>11. PICK r : r = HandleSync(cache, dups, events, limited, token)
  OBVIOUS
<1>12. \E m : AtRest(r, m)
  BY <1>6, <1>7, <1>8, <1>10, <1>11, SyncRests
<1>13. Rests'
  BY <1>4, <1>8, <1>11, <1>12 DEF Rests
<1>14. Requests'
  BY <1>4 DEF IInv, Requests
<1>. QED BY <1>4, <1>5, <1>13, <1>14 DEF IInv, Serving

\* The actions of the sync and of maintenance keep the invariant.
LEMMA SyncKeeps ==
  ASSUME IInv, Sync \/ Resync \/ Lagged \/ NewEvent
  PROVE  IInv'
<1>1. head \in Nat /\ pos \in Nat /\ Limit \in Nat /\ head \in Int
  BY RoomEventCacheAssumption DEF IInv, Serving
<1>2. PICK n : AtRest(cache, n)
  BY DEF IInv, Rests
<1>3. First(head, Limit) \in Nat
  BY <1>1, FirstIs
<1>4. CASE Sync
  <2>1. PICK lo : lo = IF First(head, Limit) < pos + 1 THEN pos + 1 ELSE First(head, Limit)
    OBVIOUS
  <2>2. lo \in Nat /\ HandleTimeline(lo, lo > pos + 1)
    BY <1>1, <1>3, <1>4, <2>1 DEF Sync
  <2>. QED BY <2>2, TimelineRests
<1>5. CASE Resync
  <2>1. PICK lo : lo = First(head, Limit)
    OBVIOUS
  <2>2. lo \in Nat /\ HandleTimeline(lo, lo > 1)
    BY <1>3, <1>5, <2>1 DEF Resync
  <2>. QED BY <2>2, TimelineRests
<1>6. CASE Lagged
  <2>1. cache' = ForgetAll(cache) /\ pos' = head /\ pager' = pager /\ head' = head
    BY <1>6 DEF Lagged
  <2>2. IsC(cache) /\ Mirrored(cache, cache.lc, n) /\ \E S : Nice(cache.rows, S)
    BY <1>2, RestIs DEF AtRest
  <2>3. Shape(cache.lc) /\ cache.panicked # "remove"
    BY <1>2, <2>2, ChunksAre DEF AtRest, Stable
  <2>4. PICK S : Nice(cache.rows, S)
    BY <2>2
  <2>5. \E m : AtRest(ForgetAll(cache), m)
    BY <2>2, <2>3, <2>4, ForgetAllIs
  <2>6. Rests'
    BY <2>1, <2>5 DEF Rests
  <2>7. Requests'
    BY <2>1 DEF IInv, Requests
  <2>. QED BY <1>1, <2>1, <2>6, <2>7 DEF IInv, Serving
<1>7. CASE NewEvent
  <2>1. cache' = cache /\ pos' = pos /\ pager' = pager /\ head' = head + 1
    BY <1>7 DEF NewEvent
  <2>2. Rests'
    BY <1>2, <2>1 DEF Rests
  <2>3. Requests'
    BY <2>1 DEF IInv, Requests
  <2>4. head + 1 \in Nat
    BY <1>1
  <2>. QED BY <1>1, <2>1, <2>2, <2>3, <2>4 DEF IInv, Serving
<1>. QED BY <1>4, <1>5, <1>6, <1>7

\* insert_sent_event_from_send_queue.
LEMMA SentKeeps ==
  ASSUME IInv, NEW e \in Own, InsertSentEvent(e)
  PROVE  IInv'
<1>1. PICK n : AtRest(cache, n)
  BY DEF IInv, Rests
<1>2. PICK events : events = <<e>>
  OBVIOUS
<1>3. events \in Seq(Nat) /\ Injective(events)
  <2>1. e \in 1 .. MaxEvents
    BY RoomEventCacheAssumption
  <2>2. e \in Nat
    <3>1. MaxEvents \in Nat
      BY RoomEventCacheAssumption
    <3>. QED BY <2>1, <3>1
  <2>3. events \in Seq(Nat) /\ Len(events) = 1
    BY <1>2, <2>2
  <2>. QED BY <2>3 DEF Injective
<1>4. PICK S : Nice(cache.rows, S)
  BY <1>1, RestIs DEF AtRest
<1>5. PICK dups : dups = FilterDuplicateEvents(cache, events)
  OBVIOUS
<1>6. Filtered(cache, events, dups)
  BY <1>4, <1>5, FilterIs
<1>7. NoToken \in Nat
  BY DEF NoToken
<1>8. PICK limited : limited = FALSE
  OBVIOUS
<1>9. PICK r : r = HandleSync(cache, dups, events, limited, NoToken)
  OBVIOUS
<1>10. \E m : AtRest(r, m)
  BY <1>1, <1>3, <1>6, <1>7, <1>9, SyncRests
<1>11. cache' = (IF HasEvents(cache) THEN r ELSE cache) /\ head' = head /\ pos' = pos /\ pager' = pager
  BY <1>2, <1>5, <1>8, <1>9 DEF InsertSentEvent, server
<1>12. Rests'
  BY <1>1, <1>10, <1>11 DEF Rests
<1>13. Requests'
  BY <1>11 DEF IInv, Requests
<1>. QED BY <1>11, <1>12, <1>13 DEF IInv, Serving

\* Shrinking, ignoring a user, a restart.
LEMMA MaintenanceKeeps ==
  ASSUME IInv, AutoShrink \/ RemoveEventsSentBy \/ Restart
  PROVE  IInv'
<1>1. PICK n : AtRest(cache, n)
  BY DEF IInv, Rests
<1>2. IsC(cache) /\ Mirrored(cache, cache.lc, n) /\ \E S : Nice(cache.rows, S)
  BY <1>1, RestIs DEF AtRest
<1>3. Shape(cache.lc) /\ cache.panicked # "remove"
  BY <1>1, <1>2, ChunksAre DEF AtRest, Stable
<1>4. PICK S : Nice(cache.rows, S)
  BY <1>2
<1>5. CASE AutoShrink
  <2>1. /\ cache' = UpdatesAsVectorDiffs(ShrinkToLastReloadedChunk(cache))
        /\ pager' = pager /\ head' = head /\ pos' = pos
    BY <1>5 DEF AutoShrink, server
  <2>2. PICK r : r = ShrinkToLastReloadedChunk(cache)
    OBVIOUS
  <2>3. PICK m : AtRest(r, m)
    BY <1>2, <1>3, <1>4, <2>2, ShrinkIs
  <2>4. AtRest(UpdatesAsVectorDiffs(r), m)
    BY <2>3, DiffsRest DEF AtRest
  <2>5. Rests'
    BY <2>1, <2>2, <2>4 DEF Rests
  <2>6. Requests'
    BY <2>1 DEF IInv, Requests
  <2>. QED BY <2>1, <2>5, <2>6 DEF IInv, Serving
<1>6. CASE RemoveEventsSentBy
  <2>1. PICK split : split = SplitByMemory(cache, Duplicates(cache.rows, Muted))
    OBVIOUS
  <2>2. /\ cache' = UpdatesAsVectorDiffs(RemoveEvents(cache, split.memory, split.store))
        /\ pager' = pager /\ head' = head /\ pos' = pos
    BY <1>6, <2>1 DEF RemoveEventsSentBy
  <2>3. AtRest(UpdatesAsVectorDiffs(RemoveEvents(cache, split.memory, split.store)), n)
    BY <1>1, <2>1, RemoveSetRests
  <2>4. Rests'
    BY <2>2, <2>3 DEF Rests
  <2>5. Requests'
    BY <2>2 DEF IInv, Requests
  <2>. QED BY <2>2, <2>4, <2>5 DEF IInv, Serving
<1>7. CASE Restart
  <2>1. cache' = Open(cache.rows) /\ pager' = [p \in Pagers |-> Quiet] /\ head' = head /\ pos' = pos
    BY <1>7 DEF Restart, server
  <2>2. \E m : AtRest(Open(cache.rows), m)
    BY <1>4, OpenIs
  <2>3. Rests'
    BY <2>1, <2>2 DEF Rests
  <2>4. IsRequest(Quiet)
    BY QuietIs DEF NoToken
  <2>5. Requests'
    BY <2>1, <2>4 DEF Requests
  <2>. QED BY <2>1, <2>3, <2>5 DEF IInv, Serving
<1>. QED BY <1>5, <1>6, <1>7

\* purge_events_older_than.
LEMMA PurgeKeeps ==
  ASSUME IInv, NEW k \in 2 .. MaxEvents, PurgeEventsOlderThan(k)
  PROVE  IInv'
<1>1. PICK n : AtRest(cache, n)
  BY DEF IInv, Rests
<1>2. PICK items : items = ItemsOf(Chain(cache.rows))
  OBVIOUS
<1>3. PICK E : E = {items[i] : i \in {j \in DOMAIN items : \A q \in 1 .. j : items[q] < k}}
  OBVIOUS
<1>4. PICK split : split = SplitByMemory(cache, Duplicates(cache.rows, E))
  OBVIOUS
<1>5. /\ cache' = UpdatesAsVectorDiffs(RemoveEvents(cache, split.memory, split.store))
      /\ pager' = pager /\ head' = head /\ pos' = pos
  BY <1>2, <1>3, <1>4 DEF PurgeEventsOlderThan
<1>6. AtRest(UpdatesAsVectorDiffs(RemoveEvents(cache, split.memory, split.store)), n)
  BY <1>1, <1>4, RemoveSetRests
<1>7. Rests'
  BY <1>5, <1>6 DEF Rests
<1>8. Requests'
  BY <1>5 DEF IInv, Requests
<1>. QED BY <1>5, <1>7, <1>8 DEF IInv, Serving

\* The steps of a pagination that leave the cache alone.
LEMMA WaitingKeeps ==
  ASSUME IInv, NEW p \in Pagers, Call(p) \/ Start(p) \/ WaitForToken(p) \/ Finish(p) \/ NetworkFails(p)
  PROVE  IInv'
<1>1. cache' = cache /\ head' = head /\ pos' = pos
  BY DEF Call, Start, WaitForToken, Finish, NetworkFails, server
<1>2. Requests /\ NoToken \in Nat
  BY DEF IInv, NoToken
<1>3. Requests'
  <2>1. CASE Call(p)
    BY <1>2, <2>1, MovesOn DEF Call
  <2>2. CASE Start(p)
    <3>1. PICK pc : pc = IF status = "hit" THEN "idle" ELSE "load"
      OBVIOUS
    <3>2. pager' = [pager EXCEPT ![p].pc = pc]
      BY <2>2, <3>1 DEF Start
    <3>. QED BY <1>2, <3>2, MovesOn
  <2>3. CASE WaitForToken(p)
    BY <1>2, <2>3, GoesIs DEF WaitForToken
  <2>4. CASE Finish(p)
    BY <1>2, <2>4, GoesIs DEF Finish
  <2>5. CASE NetworkFails(p)
    BY <1>2, <2>5, GoesIs DEF NetworkFails
  <2>. QED BY <2>1, <2>2, <2>3, <2>4, <2>5
<1>4. Rests' /\ Serving'
  BY <1>1 DEF IInv, Rests, Serving
<1>. QED BY <1>3, <1>4 DEF IInv

\* load_more_events_backwards: what comes from the store can always be put first.
LEMMA LoadKeeps ==
  ASSUME IInv, NEW p \in Pagers, LoadMore(p)
  PROVE  IInv'
<1>1. head' = head /\ pos' = pos
  BY DEF LoadMore, server
<1>2. Requests /\ NoToken \in Nat /\ Serving'
  BY <1>1 DEF IInv, NoToken, Serving
<1>3. PICK n : AtRest(cache, n)
  BY DEF IInv, Rests
<1>4. Mirrored(cache, cache.lc, n) /\ \E S : Nice(cache.rows, S)
  BY <1>3, RestIs DEF AtRest
<1>5. PICK lc, prev : lc = cache.lc /\ prev = PreviousIds(cache.rows, IdOf(lc, 1))
  OBVIOUS
<1>6. PICK raw : raw = Raw(cache.rows, CHOOSE id \in prev : TRUE)
  OBVIOUS
<1>7. CASE Gaps(lc) # {}
  <2>1. Goes(p, "network", lc.chunks[Max(Gaps(lc))].gap, FALSE) /\ cache' = cache
    BY <1>5, <1>7 DEF LoadMore
  <2>2. /\ Len(lc.chunks) \in Nat /\ DOMAIN lc.chunks = 1 .. Len(lc.chunks)
        /\ \A i \in 1 .. Len(lc.chunks) : lc.chunks[i].gap \in Nat
    BY <1>4, <1>5, ChunksAre
  <2>3. PICK T : T = Gaps(lc)
    OBVIOUS
  <2>4. \A x \in T : x \in 0 .. Len(lc.chunks) /\ x \in 1 .. Len(lc.chunks)
    BY <2>2, <2>3 DEF Gaps
  <2>5. Max(T) \in T
    BY <1>7, <2>2, <2>3, <2>4, MaxMember
  <2>6. PICK token : token = lc.chunks[Max(T)].gap
    OBVIOUS
  <2>7. token \in Nat /\ Goes(p, "network", token, FALSE)
    BY <2>1, <2>2, <2>3, <2>4, <2>5, <2>6
  <2>8. Requests'
    BY <1>2, <2>7, GoesIs
  <2>9. Rests'
    BY <1>3, <2>1 DEF Rests
  <2>. QED BY <1>2, <2>8, <2>9 DEF IInv
<1>8. CASE Gaps(lc) = {} /\ prev = {}
  <2>1. /\ cache' = cache
        /\ \/ Goes(p, "finish", NoToken, TRUE)
           \/ Goes(p, IF waited THEN "network" ELSE "wait", NoToken, FALSE)
    BY <1>5, <1>8 DEF LoadMore
  <2>2. PICK pc : pc = IF waited THEN "network" ELSE "wait"
    OBVIOUS
  <2>3. Goes(p, "finish", NoToken, TRUE) \/ Goes(p, pc, NoToken, FALSE)
    BY <2>1, <2>2
  <2>4. Requests'
    BY <1>2, <2>3, GoesIs
  <2>5. Rests'
    BY <1>3, <2>1 DEF Rests
  <2>. QED BY <1>2, <2>4, <2>5 DEF IInv
<1>9. CASE Gaps(lc) = {} /\ prev # {}
  <2>1. PICK r : r = UpdatesAsVectorDiffs([cache EXCEPT !.lc = Take(Take(InsertNewFirstChunk(cache.lc, raw), "tracker"), "store")])
    OBVIOUS
  <2>2. CanBeFirst(cache.lc, raw) /\ \E m : AtRest(r, m)
    <3>1. Gaps(cache.lc) = {} /\ prev = PreviousIds(cache.rows, IdOf(cache.lc, 1)) /\ prev # {}
      BY <1>5, <1>9
    <3>. QED BY <1>3, <1>6, <2>1, <3>1, LoadIs
  <2>3. cache' = r /\ IF IsGap(raw) THEN Goes(p, "network", raw.gap, FALSE) ELSE Goes(p, "finish", NoToken, raw.prev = NoChunk)
    BY <1>5, <1>6, <1>9, <2>1, <2>2 DEF LoadMore
  <2>4. raw.gap \in Nat
    <3>1. PICK x : x = CHOOSE id \in prev : TRUE
      OBVIOUS
    <3>2. x \in prev
      BY <1>9, <3>1
    <3>3. x \in DOMAIN cache.rows
      BY <1>5, <3>2 DEF PreviousIds
    <3>4. cache.rows[x].gap \in Nat
      BY <1>4, <3>3, ItemsOnce
    <3>. QED BY <1>6, <3>1, <3>4 DEF Raw
  <2>5. PICK first : first = (raw.prev = NoChunk)
    OBVIOUS
  <2>6. Goes(p, "network", raw.gap, FALSE) \/ Goes(p, "finish", NoToken, first)
    BY <2>3, <2>5
  <2>7. PICK token : token = raw.gap
    OBVIOUS
  <2>8. token \in Nat /\ (Goes(p, "network", token, FALSE) \/ Goes(p, "finish", NoToken, first))
    BY <2>4, <2>6, <2>7
  <2>9. Requests'
    BY <1>2, <2>8, GoesIs
  <2>10. Rests'
    BY <2>2, <2>3 DEF Rests
  <2>. QED BY <1>2, <2>9, <2>10 DEF IInv
<1>. QED BY <1>7, <1>8, <1>9

\* The answer of the server.
LEMMA AnswerKeeps ==
  ASSUME IInv, NEW p \in Pagers, Messages(p)
  PROVE  IInv'
<1>1. cache' = cache /\ head' = head /\ pos' = pos
  BY DEF Messages, server
<1>2. Rests' /\ Serving' /\ Requests /\ head \in Nat
  BY <1>1 DEF IInv, Rests, Serving
<1>3. PICK r : r = pager[p]
  OBVIOUS
<1>4. IsRequest(r)
  BY <1>2, <1>3 DEF Requests
<1>5. PICK upto : upto = IF r.token = NoToken THEN head ELSE r.token - 1
  OBVIOUS
<1>6. upto \in Int /\ Batch \in Nat
  BY <1>2, <1>4, <1>5, RoomEventCacheAssumption DEF IsRequest
<1>7. PICK lo : lo = First(upto, Batch)
  OBVIOUS
<1>8. lo \in Nat
  BY <1>6, <1>7, FirstIs
<1>9. PICK end \in Tokens(lo) :
        pager' = [pager EXCEPT ![p].pc = "answered", ![p].end = end, ![p].events = Between(lo, upto)]
  BY <1>3, <1>5, <1>7 DEF Messages
<1>10. end \in Nat
  BY <1>6, <1>8, FirstIs
<1>11. PICK events : events = Between(lo, upto)
  OBVIOUS
<1>12. events \in Seq(Nat) /\ Injective(events)
  BY <1>6, <1>8, <1>11, BetweenIs
<1>13. PICK q : q = [r EXCEPT !.pc = "answered", !.end = end, !.events = events]
  OBVIOUS
<1>14. DOMAIN q = ReqFields /\ q = [f \in ReqFields |-> q[f]] /\ q.token = r.token /\ q.end = end /\ q.events = events
  BY <1>4, <1>13 DEF IsRequest, ReqFields
<1>15. IsRequest(q)
  BY <1>4, <1>10, <1>12, <1>14 DEF IsRequest
<1>16. pager' = [pager EXCEPT ![p] = q]
  BY <1>2, <1>3, <1>9, <1>11, <1>13 DEF Requests
<1>17. Requests'
  BY <1>2, <1>15, <1>16, GoesOn
<1>. QED BY <1>2, <1>17 DEF IInv

\* conclude_backwards_pagination_from_network, with the cache as it is then.
LEMMA ConcludeKeeps ==
  ASSUME IInv, NEW p \in Pagers, ConcludeFromNetwork(p)
  PROVE  IInv'
<1>1. head' = head /\ pos' = pos
  BY DEF ConcludeFromNetwork, server
<1>2. Requests /\ NoToken \in Nat /\ Serving'
  BY <1>1 DEF IInv, NoToken, Serving
<1>3. PICK n : AtRest(cache, n)
  BY DEF IInv, Rests
<1>4. PICK request : request = pager[p]
  OBVIOUS
<1>5. IsRequest(request)
  BY <1>2, <1>4 DEF Requests
<1>6. PICK gaps : gaps = {i \in Gaps(cache.lc) : cache.lc.chunks[i].gap = request.token}
  OBVIOUS
<1>7. PICK gap, dups : /\ gap = IF gaps = {} THEN NoChunk ELSE IdOf(cache.lc, Max(gaps))
                       /\ dups = FilterDuplicateEvents(cache, request.events)
  OBVIOUS
<1>8. PICK token, after : token = EndToken(request) /\ after = Conclude(cache, dups, gap, token, request.events)
  OBVIOUS
<1>9. \/ Goes(p, "start", NoToken, FALSE) /\ cache' = cache
      \/ Concluded(p, request, dups, after)
  BY <1>4, <1>6, <1>7, <1>8 DEF ConcludeFromNetwork
<1>10. Requests'
  <2>1. PICK hit : hit = ReachedStart(after.lc)
    OBVIOUS
  <2>2. Goes(p, "start", NoToken, FALSE) \/ Goes(p, "idle", NoToken, FALSE) \/ Goes(p, "finish", NoToken, hit)
    BY <1>9, <2>1 DEF Concluded
  <2>. QED BY <1>2, <2>2, GoesIs
<1>11. AtRest(after, n)
  <2>1. request.events \in Seq(Nat) /\ Injective(request.events) /\ token \in Nat
    BY <1>2, <1>5, <1>8 DEF IsRequest, EndToken
  <2>2. PICK S : Nice(cache.rows, S)
    BY <1>3, RestIs DEF AtRest
  <2>3. Filtered(cache, request.events, dups)
    BY <1>7, <2>2, FilterIs
  <2>4. GapOf(cache.lc, gap)
    <3>1. CASE gaps = {}
      BY <1>7, <3>1 DEF GapOf
    <3>2. CASE gaps # {}
      <4>1. Mirrored(cache, cache.lc, n)
        BY <1>3, RestIs DEF AtRest
      <4>2. Len(cache.lc.chunks) \in Nat /\ DOMAIN cache.lc.chunks = 1 .. Len(cache.lc.chunks)
        BY <4>1, ChunksAre
      <4>3. \A i \in gaps : i \in Nat /\ i \in DOMAIN cache.lc.chunks /\ cache.lc.chunks[i].gap # NoToken
        BY <1>6, <4>2 DEF Gaps, IsGap
      <4>4. \A i \in gaps : i \in 0 .. Len(cache.lc.chunks)
        BY <4>2, <4>3
      <4>5. Max(gaps) \in gaps
        BY <3>2, <4>2, <4>4, MaxMember
      <4>6. PICK i : i = Max(gaps)
        OBVIOUS
      <4>7. i \in DOMAIN cache.lc.chunks /\ i \in 1 .. Len(cache.lc.chunks) /\ cache.lc.chunks[i].gap # NoToken
        BY <4>2, <4>3, <4>5, <4>6
      <4>8. gap = cache.lc.chunks[i].id
        BY <1>7, <3>2, <4>6, <4>7 DEF IdOf
      <4>. QED BY <4>7, <4>8 DEF GapOf
    <3>. QED BY <3>1, <3>2
  <2>5. PICK events : events = request.events
    OBVIOUS
  <2>6. events \in Seq(Nat) /\ Injective(events) /\ Filtered(cache, events, dups)
    BY <2>1, <2>3, <2>5
  <2>7. AtRest(Conclude(cache, dups, gap, token, events), n)
    BY <1>3, <2>1, <2>4, <2>6, ConcludeRests
  <2>. QED BY <1>8, <2>5, <2>7
<1>12. cache' = cache \/ cache' = after
  BY <1>9 DEF Concluded
<1>13. Rests'
  BY <1>3, <1>11, <1>12 DEF Rests
<1>. QED BY <1>2, <1>10, <1>13 DEF IInv

\* Between two operations of the room event cache, whatever their order, the cache is at rest:
\* either the room is new and the store has yet to see its first chunk, or the store agrees
\* with memory but for updates that it can still take, and the order tracker with the store but
\* for updates it has yet to hear (handle_sync, remove_events,
\* push_backwards_pagination_events, the lazy loading and reloading of chunks).
THEOREM CacheRests == Spec => []IInv
<1>1. Init => IInv
  <2>1. SUFFICES ASSUME Init PROVE IInv
    OBVIOUS
  <2>2. \E n : AtRest(Open(NoRows), n)
    BY NoRowsNice, OpenIs
  <2>3. Rests
    BY <2>1, <2>2 DEF Init, Rests
  <2>4. IsRequest(Quiet)
    BY QuietIs DEF NoToken
  <2>5. Requests
    BY <2>1, <2>4 DEF Init, Requests
  <2>6. Serving
    BY <2>1 DEF Init, Serving
  <2>. QED BY <2>3, <2>5, <2>6 DEF IInv
<1>2. IInv /\ [Next]_vars => IInv'
  <2>1. SUFFICES ASSUME IInv, [Next]_vars PROVE IInv'
    OBVIOUS
  <2>2. CASE Sync \/ Resync \/ Lagged \/ NewEvent
    BY <2>1, <2>2, SyncKeeps
  <2>3. CASE \E e \in Own : InsertSentEvent(e)
    BY <2>1, <2>3, SentKeeps
  <2>4. CASE AutoShrink \/ RemoveEventsSentBy \/ Restart
    BY <2>1, <2>4, MaintenanceKeeps
  <2>5. CASE \E k \in 2 .. MaxEvents : PurgeEventsOlderThan(k)
    BY <2>1, <2>5, PurgeKeeps
  <2>6. CASE \E p \in Pagers : Call(p) \/ Paginate(p) \/ NetworkFails(p)
    <3>1. PICK p \in Pagers : Call(p) \/ Paginate(p) \/ NetworkFails(p)
      BY <2>6
    <3>2. CASE Call(p) \/ Start(p) \/ WaitForToken(p) \/ Finish(p) \/ NetworkFails(p)
      BY <2>1, <3>2, WaitingKeeps
    <3>3. CASE LoadMore(p)
      BY <2>1, <3>3, LoadKeeps
    <3>4. CASE Messages(p)
      BY <2>1, <3>4, AnswerKeeps
    <3>5. CASE ConcludeFromNetwork(p)
      BY <2>1, <3>5, ConcludeKeeps
    <3>. QED BY <3>1, <3>2, <3>3, <3>4, <3>5 DEF Paginate
  <2>7. CASE UNCHANGED vars
    <3>1. cache' = cache /\ head' = head /\ pos' = pos /\ pager' = pager
      BY <2>7 DEF vars
    <3>. QED BY <2>1, <3>1 DEF IInv, Rests, Serving, Requests
  <2>. QED BY <2>1, <2>2, <2>3, <2>4, <2>5, <2>6, <2>7 DEF Next
<1>. QED BY <1>1, <1>2, PTL DEF Spec

\* For every capacity of a chunk, every limit of a sync and of a page, every number of callers
\* and of events, and any sequence of syncs, pages, sends, reloads, removals and restarts:
\* memory is a suffix of what the store holds, no update is ever refused, no event is stored
\* twice, no position is stale, and remove_events never meets a position that is not there.
THEOREM MirrorsMemory == Spec => []StoreMirrorsMemory
<1>1. IInv => StoreMirrorsMemory
  BY RestMirrors DEF IInv, Rests
<1>. QED BY <1>1, CacheRests, PTL

\* For every value of the constants and any sequence of operations, restarts included: once the
\* order tracker has heard what waits for it, it has the length of every chunk of the room, loaded
\* or not, in the order of the store. It is told nothing of a chunk that is lazily loaded, and is
\* told at once of an event that only the store has lost, ahead of what waits for it
\* (load_more_events_backwards, remove_events, updates_as_vector_diffs).
THEOREM TrackerIsExact == Spec => []OrderTrackerIsExact
<1>1. IInv => OrderTrackerIsExact
  BY RestTracks DEF IInv, Rests
<1>. QED BY <1>1, CacheRests, PTL

\* Lazy loading never meets a store that it would have to give up: whenever a pagination asks
\* for the chunk before the first one in memory and the store has one, it fits there, so the
\* room is never cleared by load_more_events_backwards.
THEOREM NextChunkFits ==
  Spec => [](LET prev == PreviousIds(cache.rows, IdOf(cache.lc, 1))
             IN  Gaps(cache.lc) = {} /\ prev # {} =>
                   CanBeFirst(cache.lc, Raw(cache.rows, CHOOSE id \in prev : TRUE)))
<1>. DEFINE prev == PreviousIds(cache.rows, IdOf(cache.lc, 1))
<1>1. IInv => (Gaps(cache.lc) = {} /\ prev # {} =>
                 CanBeFirst(cache.lc, Raw(cache.rows, CHOOSE id \in prev : TRUE)))
  BY LoadIs DEF IInv, Rests
<1>. QED BY <1>1, CacheRests, PTL
=============================================================================
