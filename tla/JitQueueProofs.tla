-------------------------- MODULE JitQueueProofs ---------------------------
(***************************************************************************)
(* Proofs about JitQueue: no add of a superseded entry reaches the shadow  *)
(* playlist (SupersededNeverLands), whatever the user edits; and with at   *)
(* most one edit by the user the row table is right about each row         *)
(* (RowsExact), and so is jitQueue:trackChanged (ChangedNamesPlaying).     *)
(***************************************************************************)
EXTENDS JitQueue, JitShadowRowsProofs

-----------------------------------------------------------------------------
(* Generations: a new value is carried by nobody.                          *)
LEMMA FreshIsNew ==
  ASSUME NEW used, IsFiniteSet(used)
  PROVE  Fresh(used) \in Nat /\ Fresh(used) \notin used
<1> DEFINE c == Cardinality(used)
<1>1. c \in Nat
  BY FS_CardinalityType
<1>2. IsFiniteSet(0..c) /\ Cardinality(0..c) = c + 1
  BY <1>1, FS_Interval
<1>3. ~(0..c \subseteq used)
  <2> SUFFICES ASSUME 0..c \subseteq used PROVE FALSE
    OBVIOUS
  <2>1. Cardinality(0..c) <= c
    BY FS_Subset
  <2> QED BY <1>1, <1>2, <2>1
<1>4. \E n \in 0..c : n \notin used
  BY <1>3
<1>5. Fresh(used) \in 0..c /\ Fresh(used) \notin used
  BY <1>4 DEF Fresh
<1> QED BY <1>1, <1>5

LEMMA FiniteImage ==
  ASSUME NEW S, IsFiniteSet(S), NEW T, NEW f \in [S -> T],
         \A y \in T : \E x \in S : f[x] = y
  PROVE  IsFiniteSet(T)
<1>1. f \in Surjection(S, T)
  BY DEF Surjection
<1> QED BY <1>1, FS_Surjection

-----------------------------------------------------------------------------
(* How many rows an entry has: an injection of rows bounds it.             *)
LEMMA CountInjection ==
  ASSUME NEW s \in Seq(ShadowRow), NEW t \in Seq(ShadowRow), NEW e,
         NEW f \in [1..Len(s) -> Int],
         \A i \in 1..Len(s) : s[i].of = e => f[i] \in 1..Len(t) /\ t[f[i]].of = e,
         \A i, j \in 1..Len(s) : s[i].of = e /\ s[j].of = e /\ f[i] = f[j] => i = j
  PROVE  RowsAddedBy(s, e) \in Nat /\ RowsAddedBy(t, e) \in Nat
           /\ RowsAddedBy(s, e) <= RowsAddedBy(t, e)
<1> DEFINE A == {i \in DOMAIN s : s[i].of = e}
           B == {i \in DOMAIN t : t[i].of = e}
           g == [i \in A |-> f[i]]
<1>1. /\ DOMAIN s = 1..Len(s) /\ DOMAIN t = 1..Len(t)
      /\ Len(s) \in Nat /\ Len(t) \in Nat
  BY LenProperties
<1>2. IsFiniteSet(A) /\ IsFiniteSet(B)
  <2>1. IsFiniteSet(1..Len(s)) /\ IsFiniteSet(1..Len(t))
    BY <1>1, FS_Interval
  <2> QED BY <1>1, <2>1, FS_Subset
<1>3. g \in Injection(A, B)
  <2>1. g \in [A -> B]
    BY <1>1
  <2>2. \A i, j \in A : g[i] = g[j] => i = j
    BY <1>1
  <2>3. DOMAIN g = A
    OBVIOUS
  <2> HIDE DEF g, A, B
  <2> QED BY <2>1, <2>2, <2>3 DEF Injection, IsInjective
<1>4. Cardinality(A) <= Cardinality(B)
  <2> HIDE DEF g, A, B
  <2> QED BY <1>2, <1>3, FS_Injection
<1>5. Cardinality(A) \in Nat /\ Cardinality(B) \in Nat
  BY <1>2, FS_CardinalityType
<1> QED BY <1>4, <1>5 DEF RowsAddedBy

(* Rows are not lost track of by removing some, nor by inserting those of  *)
(* another entry.                                                          *)
LEMMA CountSubSeq ==
  ASSUME NEW s \in Seq(ShadowRow), NEW m \in Nat \ {0}, NEW n \in 0..Len(s), NEW e
  PROVE  RowsAddedBy(SubSeq(s, m, n), e) <= RowsAddedBy(s, e)
<1> DEFINE u == SubSeq(s, m, n)
           f == [i \in 1..Len(u) |-> m + i - 1]
<1>1. /\ u \in Seq(ShadowRow) /\ Len(u) = (IF m <= n THEN n - m + 1 ELSE 0)
      /\ \A i \in 1..(n - m + 1) : u[i] = s[m + i - 1]
  BY SubSeqInside
<1>2. Len(s) \in Nat /\ Len(u) \in Nat
  BY <1>1, LenProperties
<1> HIDE DEF u
<1>3. f \in [1..Len(u) -> Int]
  BY <1>2
<1>4. \A i \in 1..Len(u) : f[i] \in 1..Len(s) /\ s[f[i]] = u[i]
  BY <1>1, <1>2
<1>5. \A i, j \in 1..Len(u) : f[i] = f[j] => i = j
  BY <1>2
<1> HIDE DEF f
<1>6. /\ \A i \in 1..Len(u) : u[i].of = e => f[i] \in 1..Len(s) /\ s[f[i]].of = e
      /\ \A i, j \in 1..Len(u) : u[i].of = e /\ u[j].of = e /\ f[i] = f[j] => i = j
  BY <1>4, <1>5
<1>7. u \in Seq(ShadowRow)
  BY <1>1
<1>8. RowsAddedBy(u, e) <= RowsAddedBy(s, e)
  BY <1>3, <1>6, <1>7, CountInjection
<1> QED BY <1>8 DEF u

LEMMA CountCut ==
  ASSUME NEW s \in Seq(ShadowRow), NEW row \in 1..Len(s), NEW e
  PROVE  RowsAddedBy(Cut(s, row, row), e) <= RowsAddedBy(s, e)
<1> DEFINE u == Cut(s, row, row)
           f == [i \in 1..Len(u) |-> IF i < row THEN i ELSE i + 1]
<1>0. Len(s) \in Nat
  BY LenProperties
<1>1. /\ u \in Seq(ShadowRow) /\ Len(u) = Len(s) - 1
      /\ \A i \in 1..Len(u) : u[i] = IF i < row THEN s[i] ELSE s[i + 1]
  BY <1>0, CutParts
<1> HIDE DEF u
<1>3. f \in [1..Len(u) -> Int]
  BY <1>0, <1>1
<1>4. \A i \in 1..Len(u) : f[i] \in 1..Len(s) /\ s[f[i]] = u[i]
  BY <1>0, <1>1
<1>5. \A i, j \in 1..Len(u) : f[i] = f[j] => i = j
  BY <1>0, <1>1
<1> HIDE DEF f
<1>6. /\ \A i \in 1..Len(u) : u[i].of = e => f[i] \in 1..Len(s) /\ s[f[i]].of = e
      /\ \A i, j \in 1..Len(u) : u[i].of = e /\ u[j].of = e /\ f[i] = f[j] => i = j
  BY <1>4, <1>5
<1>7. u \in Seq(ShadowRow)
  BY <1>1
<1>8. RowsAddedBy(u, e) <= RowsAddedBy(s, e)
  BY <1>3, <1>6, <1>7, CountInjection
<1> QED BY <1>8 DEF u

LEMMA CountSplice ==
  ASSUME NEW s \in Seq(ShadowRow), NEW t \in Seq(ShadowRow), NEW at \in 0..Len(s), NEW e,
         \A i \in 1..Len(t) : t[i].of # e
  PROVE  RowsAddedBy(Splice(s, at, t), e) <= RowsAddedBy(s, e)
<1> DEFINE u == Splice(s, at, t)
           f == [i \in 1..Len(u) |-> IF i <= at THEN i ELSE i - Len(t)]
<1>0. Len(s) \in Nat /\ Len(t) \in Nat
  BY LenProperties
<1>1. /\ u \in Seq(ShadowRow) /\ Len(u) = Len(s) + Len(t)
      /\ \A i \in 1..(Len(s) + Len(t)) :
           u[i] = IF i <= at THEN s[i] ELSE IF i <= at + Len(t) THEN t[i - at] ELSE s[i - Len(t)]
  BY SpliceParts
<1> HIDE DEF u
<1>2. \A i \in 1..Len(u) : u[i].of = e => i <= at \/ i > at + Len(t)
  <2> SUFFICES ASSUME NEW i \in 1..Len(u), i > at, i <= at + Len(t) PROVE u[i].of # e
    BY <1>0, <1>1
  <2>1. u[i] = t[i - at] /\ i - at \in 1..Len(t)
    BY <1>0, <1>1
  <2> QED BY <2>1
<1>3. f \in [1..Len(u) -> Int]
  BY <1>0, <1>1
<1>4. \A i \in 1..Len(u) : u[i].of = e => f[i] \in 1..Len(s) /\ s[f[i]] = u[i]
  BY <1>0, <1>1, <1>2
<1>5. \A i, j \in 1..Len(u) : u[i].of = e /\ u[j].of = e /\ f[i] = f[j] => i = j
  BY <1>0, <1>1, <1>2
<1> HIDE DEF f
<1>6. /\ \A i \in 1..Len(u) : u[i].of = e => f[i] \in 1..Len(s) /\ s[f[i]].of = e
      /\ \A i, j \in 1..Len(u) : u[i].of = e /\ u[j].of = e /\ f[i] = f[j] => i = j
  BY <1>4, <1>5
<1>7. u \in Seq(ShadowRow)
  BY <1>1
<1>8. RowsAddedBy(u, e) <= RowsAddedBy(s, e)
  BY <1>3, <1>6, <1>7, CountInjection
<1> QED BY <1>8 DEF u

-----------------------------------------------------------------------------
(* The row table: the shape of what its operations return.                 *)
TableType == [rows : Seq(TableRow), stale : BOOLEAN]

LEMMA HandlesSeq ==
  ASSUME NEW L \in Seq(ShadowRow)
  PROVE  /\ Handles(L) \in Seq(Handle) /\ Len(Handles(L)) = Len(L)
         /\ \A i \in 1..Len(L) : Handles(L)[i] = L[i].handle
<1>1. Len(L) \in Nat /\ DOMAIN L = 1..Len(L) /\ \A i \in 1..Len(L) : L[i] \in ShadowRow
  BY LenProperties
<1>2. Handles(L) \in [1..Len(L) -> Handle]
  BY <1>1 DEF Handles, ShadowRow
<1>3. \A i \in 1..Len(L) : Handles(L)[i] = L[i].handle
  BY <1>1 DEF Handles
<1> QED BY <1>1, <1>2, <1>3, SeqOfFunction

LEMMA AddedSeq ==
  ASSUME NEW handles \in Seq(Handle), NEW e \in 0..MaxEntry
  PROVE  /\ Added(e, handles) \in Seq(ShadowRow) /\ Len(Added(e, handles)) = Len(handles)
         /\ \A i \in 1..Len(handles) :
              Added(e, handles)[i].handle = handles[i] /\ Added(e, handles)[i].of = e
<1>1. /\ Len(handles) \in Nat /\ DOMAIN handles = 1..Len(handles)
      /\ \A i \in 1..Len(handles) : handles[i] \in Handle
  BY LenProperties
<1>2. Added(e, handles) \in [1..Len(handles) -> ShadowRow]
  BY <1>1 DEF Added, ShadowRow
<1>3. \A i \in 1..Len(handles) :
        Added(e, handles)[i].handle = handles[i] /\ Added(e, handles)[i].of = e
  BY <1>1 DEF Added
<1> QED BY <1>1, <1>2, <1>3, SeqOfFunction

LEMMA RowsOfSeq ==
  ASSUME NEW handles \in Seq(Handle), NEW e \in 0..MaxEntry, NEW kind \in {"Single", "Batch"}
  PROVE  /\ RowsOf(e, kind, handles) \in Seq(TableRow)
         /\ Len(RowsOf(e, kind, handles)) = Len(handles)
         /\ \A i \in 1..Len(handles) : RowsOf(e, kind, handles)[i] = Row(e, kind, handles[i])
<1>1. /\ Len(handles) \in Nat /\ DOMAIN handles = 1..Len(handles)
      /\ \A i \in 1..Len(handles) : handles[i] \in Handle
  BY LenProperties
<1>2. RowsOf(e, kind, handles) \in [1..Len(handles) -> TableRow]
  BY <1>1 DEF RowsOf, Row, TableRow
<1>3. \A i \in 1..Len(handles) : RowsOf(e, kind, handles)[i] = Row(e, kind, handles[i])
  BY <1>1 DEF RowsOf
<1> QED BY <1>1, <1>2, <1>3, SeqOfFunction

LEMMA ResolutionSeq ==
  ASSUME NEW handles \in Resolution
  PROVE  /\ handles \in Seq(Handle) /\ DOMAIN handles = 1..Len(handles)
         /\ handles # <<>> => Len(handles) \in Nat \ {0}
<1>1. PICK n \in 0..MaxRows : handles \in [1..n -> Resource]
  BY DEF Resolution
<1>2. n \in Nat /\ handles \in [1..n -> Handle]
  BY <1>1, JitAssumption DEF Handle
<1>3. handles \in Seq(Handle)
  BY <1>2, SeqOfFunction
<1> QED BY <1>3, LenProperties, EmptySeq

LEMMA RowCount ==
  ASSUME NEW tb \in TableType
  PROVE  /\ Len(tb.rows) \in Nat /\ DOMAIN tb.rows = 1..Len(tb.rows)
         /\ tb.rows \in Seq(TableRow) /\ tb.stale \in BOOLEAN
         /\ \A i \in 1..Len(tb.rows) : tb.rows[i] \in TableRow
<1>1. tb.rows \in Seq(TableRow) /\ tb.stale \in BOOLEAN
  BY DEF TableType
<1> QED BY <1>1, LenProperties

LEMMA WithRows ==
  ASSUME NEW tb \in TableType, NEW rows \in Seq(TableRow)
  PROVE  LET n == [tb EXCEPT !.rows = rows] IN n \in TableType /\ n.rows = rows /\ n.stale = tb.stale
BY DEF TableType

(* Verify: a table that passes is as long as the playlist; it keeps its    *)
(* rows, and those found behind them belong to nobody.                     *)
LEMMA VerifyTable ==
  ASSUME NEW tb \in TableType, NEW L \in Seq(ShadowRow)
  PROVE  LET v == Verify(tb, Handles(L)) IN
         /\ v \in TableType
         /\ ~v.stale =>
              /\ ~tb.stale /\ Len(tb.rows) <= Len(L) /\ Len(v.rows) = Len(L)
              /\ \A i \in 1..Len(tb.rows) :
                   v.rows[i] = tb.rows[i] /\ tb.rows[i].handle = L[i].handle
              /\ \A i \in (Len(tb.rows) + 1)..Len(L) :
                   v.rows[i] = Row(NoEntry, "Single", L[i].handle)
<1> DEFINE v == Verify(tb, Handles(L))
           h == Handles(L)
           n == Len(tb.rows)
           extra == RowsOf(NoEntry, "Single", SubSeq(h, n + 1, Len(h)))
<1>0. n \in Nat /\ Len(L) \in Nat
  BY RowCount, LenProperties
<1>1. CASE ~(~tb.stale /\ Agrees(tb, h))
  <2>1. v = [tb EXCEPT !.stale = TRUE]
    BY <1>1 DEF Verify
  <2>2. v \in TableType /\ v.stale
    BY <2>1 DEF TableType
  <2> QED BY <2>2
<1>2. CASE ~tb.stale /\ Agrees(tb, h)
  <2>1. h \in Seq(Handle) /\ Len(h) = Len(L) /\ \A i \in 1..Len(L) : h[i] = L[i].handle
    BY HandlesSeq
  <2>2. n <= Len(L) /\ \A i \in 1..n : tb.rows[i].handle = L[i].handle
    BY <1>0, <1>2, <2>1, RowCount DEF Agrees
  <2>3. /\ SubSeq(h, n + 1, Len(h)) \in Seq(Handle)
        /\ Len(SubSeq(h, n + 1, Len(h))) = Len(L) - n
        /\ \A i \in 1..(Len(L) - n) : SubSeq(h, n + 1, Len(h))[i] = h[n + i]
    <3> HIDE DEF h, n
    <3>1. /\ SubSeq(h, n + 1, Len(h)) \in Seq(Handle)
          /\ Len(SubSeq(h, n + 1, Len(h))) = IF n + 1 <= Len(h) THEN Len(h) - (n + 1) + 1 ELSE 0
          /\ \A i \in 1..(Len(h) - (n + 1) + 1) : SubSeq(h, n + 1, Len(h))[i] = h[(n + 1) + i - 1]
      BY <1>0, <2>1, SubSeqInside
    <3> QED BY <1>0, <2>1, <2>2, <3>1
  <2>4. /\ extra \in Seq(TableRow) /\ Len(extra) = Len(L) - n
        /\ \A i \in 1..(Len(L) - n) : extra[i] = Row(NoEntry, "Single", h[n + i])
    <3>1. NoEntry \in 0..MaxEntry
      BY JitAssumption DEF NoEntry
    <3> DEFINE sub == SubSeq(h, n + 1, Len(h))
    <3>2. sub \in Seq(Handle) /\ Len(sub) = Len(L) - n /\ \A i \in 1..(Len(L) - n) : sub[i] = h[n + i]
      BY <2>3
    <3>3. extra = RowsOf(NoEntry, "Single", sub)
      OBVIOUS
    <3> HIDE DEF h, n, sub, extra
    <3>4. /\ RowsOf(NoEntry, "Single", sub) \in Seq(TableRow)
          /\ Len(RowsOf(NoEntry, "Single", sub)) = Len(sub)
          /\ \A i \in 1..Len(sub) : RowsOf(NoEntry, "Single", sub)[i] = Row(NoEntry, "Single", sub[i])
      BY <3>1, <3>2, RowsOfSeq
    <3> QED BY <3>2, <3>3, <3>4
  <2>5. /\ tb.rows \o extra \in Seq(TableRow) /\ Len(tb.rows \o extra) = n + Len(extra)
        /\ \A i \in 1..(n + Len(extra)) :
             (tb.rows \o extra)[i] = IF i <= n THEN tb.rows[i] ELSE extra[i - n]
    <3> HIDE DEF extra
    <3> QED BY <2>4, RowCount, ConcatProperties
  <2>6. v = [tb EXCEPT !.rows = tb.rows \o extra]
    BY <1>2 DEF Verify
  <2>7. v \in TableType /\ v.rows = tb.rows \o extra
    <3> HIDE DEF extra, v
    <3> QED BY <2>5, <2>6, WithRows
  <2> HIDE DEF v, extra, n, h
  <2>8. Len(v.rows) = Len(L)
    BY <1>0, <2>4, <2>5, <2>7
  <2>9. \A i \in 1..n : v.rows[i] = tb.rows[i]
    BY <1>0, <2>2, <2>4, <2>5, <2>7
  <2>10. ASSUME NEW i \in (n + 1)..Len(L) PROVE v.rows[i] = Row(NoEntry, "Single", L[i].handle)
    <3>1. v.rows[i] = extra[i - n] /\ i - n \in 1..(Len(L) - n)
      BY <1>0, <2>4, <2>5, <2>7
    <3>2. extra[i - n] = Row(NoEntry, "Single", h[n + (i - n)])
      BY <2>4, <3>1
    <3>3. n + (i - n) = i /\ i \in 1..Len(L)
      BY <1>0
    <3> QED BY <2>1, <3>1, <3>2, <3>3
  <2>11. \A i \in 1..n : v.rows[i] = tb.rows[i] /\ tb.rows[i].handle = L[i].handle
    BY <2>2, <2>9
  <2> QED BY <1>2, <2>2, <2>7, <2>8, <2>10, <2>11 DEF v, n
<1> QED BY <1>1, <1>2

(* Remove and Insert keep the table's type.                                *)
LEMMA RemoveTable ==
  ASSUME NEW tb \in TableType, NEW first \in Nat \ {0}, NEW last \in Nat, first <= last
  PROVE  /\ Remove(tb, first, last) \in TableType
         /\ Remove(tb, first, last).stale = tb.stale
<1> DEFINE upTo == IF last > Len(tb.rows) THEN Len(tb.rows) ELSE last
           rows == Cut(tb.rows, first, upTo)
<1>1. CASE tb.stale \/ first > Len(tb.rows)
  BY <1>1 DEF Remove
<1>2. CASE ~(tb.stale \/ first > Len(tb.rows))
  <2>1. Remove(tb, first, last) = [tb EXCEPT !.rows = rows]
    BY <1>2 DEF Remove
  <2>2. first \in 1..Len(tb.rows) /\ upTo \in first..Len(tb.rows)
    BY <1>2, RowCount
  <2>3. rows \in Seq(TableRow)
    <3> HIDE DEF upTo
    <3> QED BY <2>2, RowCount, CutParts
  <2> HIDE DEF rows
  <2> QED BY <2>1, <2>3, WithRows
<1> QED BY <1>1, <1>2

LEMMA InsertTable ==
  ASSUME NEW tb \in TableType, NEW at \in Nat, NEW e \in 0..MaxEntry,
         NEW kind \in {"Single", "Batch"}, NEW handles \in Seq(Handle)
  PROVE  /\ Insert(tb, at, e, kind, handles) \in TableType
         /\ Insert(tb, at, e, kind, handles).stale = tb.stale
<1> DEFINE from == IF at > Len(tb.rows) THEN Len(tb.rows) ELSE at
           new == RowsOf(e, kind, handles)
           rows == Splice(tb.rows, from, new)
<1>1. CASE tb.stale
  BY <1>1 DEF Insert
<1>2. CASE ~tb.stale
  <2>1. Insert(tb, at, e, kind, handles) = [tb EXCEPT !.rows = rows]
    BY <1>2 DEF Insert
  <2>2. from \in 0..Len(tb.rows)
    BY RowCount
  <2>3. new \in Seq(TableRow)
    BY RowsOfSeq
  <2>4. rows \in Seq(TableRow)
    <3> HIDE DEF from, new
    <3> QED BY <2>2, <2>3, RowCount, SpliceParts
  <2> HIDE DEF rows
  <2> QED BY <2>1, <2>4, WithRows
<1> QED BY <1>1, <1>2, RowCount

LEMMA BatchTable ==
  ASSUME NEW L \in Seq(ShadowRow), NEW e \in 0..MaxEntry
  PROVE  /\ ResetAsBatch(Handles(L), e) \in TableType
         /\ Settled(ResetAsBatch(Handles(L), e), L)
<1> DEFINE h == Handles(L)
           rows == RowsOf(e, "Batch", h)
<1>1. h \in Seq(Handle) /\ Len(h) = Len(L) /\ \A i \in 1..Len(L) : h[i] = L[i].handle
  BY HandlesSeq
<1>2. rows \in Seq(TableRow) /\ Len(rows) = Len(h) /\ \A i \in 1..Len(h) : rows[i] = Row(e, "Batch", h[i])
  <2> HIDE DEF h
  <2> QED BY <1>1, RowsOfSeq
<1>3. Len(L) \in Nat
  BY LenProperties
<1>4. ResetAsBatch(h, e) = [rows |-> rows, stale |-> FALSE]
  BY DEF ResetAsBatch
<1> HIDE DEF h, rows
<1>5. Fits(rows, L) /\ Len(rows) = Len(L)
  <2>1. ASSUME NEW i \in 1..Len(rows)
        PROVE  rows[i].handle = L[i].handle /\ rows[i].kind = "Batch"
    <3>1. rows[i] = Row(e, "Batch", L[i].handle)
      BY <1>1, <1>2
    <3> QED BY <3>1 DEF Row
  <2>2. Len(rows) = Len(L)
    BY <1>1, <1>2
  <2> QED BY <1>3, <2>1, <2>2 DEF Fits
<1>6. ResetAsBatch(h, e) \in TableType /\ Settled(ResetAsBatch(h, e), L)
  BY <1>2, <1>4, <1>5 DEF TableType, Settled
<1> QED BY <1>6 DEF h

LEMMA ResetTable == Reset \in TableType /\ ~Reset.stale /\ Reset.rows = <<>> /\ Len(Reset.rows) = 0
<1>1. <<>> \in Seq(TableRow) /\ Len(<<>>) = 0
  BY EmptySeq
<1> QED BY <1>1 DEF Reset, TableType

(* The first and the last row of an entry are rows.                        *)
LEMMA RowFound ==
  ASSUME NEW tb \in TableType, NEW e
  PROVE  /\ FirstRowOf(tb, e) = NoRow \/ FirstRowOf(tb, e) \in OwnRows(tb, e)
         /\ LastRowOf(tb, e) = NoRow \/ LastRowOf(tb, e) \in OwnRows(tb, e)
         /\ OwnRows(tb, e) # {} => ~tb.stale
         /\ OwnRows(tb, e) \subseteq 1..Len(tb.rows)
<1>0. Len(tb.rows) \in Nat /\ DOMAIN tb.rows = 1..Len(tb.rows)
  BY RowCount
<1>1. OwnRows(tb, e) \subseteq 1..Len(tb.rows) /\ (OwnRows(tb, e) # {} => ~tb.stale)
  BY <1>0 DEF OwnRows
<1>2. CASE OwnRows(tb, e) = {}
  BY <1>1, <1>2 DEF FirstRowOf, LastRowOf
<1>3. CASE OwnRows(tb, e) # {}
  <2>1. \E i \in OwnRows(tb, e) : \A j \in OwnRows(tb, e) : i <= j
    <3>1. OwnRows(tb, e) \in SUBSET (Nat \ {0})
      BY <1>0, <1>1
    <3> QED BY <1>3, <3>1, LeastOf
  <2>2. \E i \in OwnRows(tb, e) : \A j \in OwnRows(tb, e) : j <= i
    BY <1>0, <1>1, <1>3, GreatestOf
  <2>3. FirstRowOf(tb, e) \in OwnRows(tb, e)
    BY <1>3, <2>1 DEF FirstRowOf
  <2>4. LastRowOf(tb, e) \in OwnRows(tb, e)
    BY <1>3, <2>2 DEF LastRowOf
  <2> QED BY <1>1, <2>3, <2>4
<1> QED BY <1>2, <1>3

(* Where a current entry is put is a position of the playlist.             *)
LEMMA InsertPosition ==
  ASSUME NEW tb \in TableType, NEW e, NEW count \in Nat, ~tb.stale => Len(tb.rows) <= count
  PROVE  CurrentInsertPosition(tb, e, count) \in 0..count
<1>1. CASE FirstRowOf(tb, e) = NoRow
  BY <1>1 DEF CurrentInsertPosition
<1>2. CASE FirstRowOf(tb, e) # NoRow
  <2>1. FirstRowOf(tb, e) \in 1..Len(tb.rows) /\ ~tb.stale
    BY <1>2, RowFound
  <2> QED BY <1>2, <2>1, RowCount DEF CurrentInsertPosition
<1> QED BY <1>1, <1>2

-----------------------------------------------------------------------------
(* The waiting steps and the generations they carry.                       *)
LEMMA Waiting ==
  ASSUME TypeOK
  PROVE  /\ Len(posted) \in Nat /\ DOMAIN posted = 1..Len(posted)
         /\ Posted \subseteq Step /\ IsFiniteSet(Posted)
         /\ Adds \subseteq Ticket /\ IsFiniteSet(Adds)
<1>1. posted \in Seq(Step) /\ resolving \subseteq Ticket /\ IsFiniteSet(resolving)
  BY DEF TypeOK
<1>2. /\ Len(posted) \in Nat /\ DOMAIN posted = 1..Len(posted)
      /\ \A i \in 1..Len(posted) : posted[i] \in Step
  BY <1>1, LenProperties
<1>3. Posted \subseteq Step
  BY <1>2 DEF Posted
<1>4. IsFiniteSet(Posted)
  <2> DEFINE f == [i \in 1..Len(posted) |-> posted[i]]
  <2>1. IsFiniteSet(1..Len(posted))
    BY <1>2, FS_Interval
  <2>2. f \in [1..Len(posted) -> Posted] /\ \A y \in Posted : \E i \in 1..Len(posted) : f[i] = y
    BY <1>2 DEF Posted
  <2> HIDE DEF f
  <2> QED BY <2>1, <2>2, FiniteImage
<1>5. {t \in Posted : IsAdd(t)} \subseteq Ticket
  <2> SUFFICES ASSUME NEW t \in Posted, t.kind = "add" PROVE t \in Ticket
    BY DEF IsAdd
  <2>1. t \in Step
    BY <1>3
  <2> QED BY <2>1 DEF Step, Ticket, RequestStep
<1>6. IsFiniteSet({t \in Posted : IsAdd(t)})
  BY <1>4, FS_Subset
<1>7. IsFiniteSet(Adds)
  BY <1>1, <1>6, FS_Union DEF Adds
<1> QED BY <1>1, <1>2, <1>3, <1>4, <1>5, <1>7 DEF Adds

LEMMA Generations ==
  ASSUME TypeOK
  PROVE  /\ Fresh({t.session : t \in Adds}) \in Nat
         /\ \A t \in Adds : t.session # Fresh({u.session : u \in Adds})
         /\ FreshNext \in Nat /\ \A t \in Adds : t.next # FreshNext
         /\ FreshTrack \in Nat
<1>1. /\ Posted \subseteq Step /\ IsFiniteSet(Posted)
      /\ IsFiniteSet(Adds)
  BY Waiting
<1>2. IsFiniteSet({t.session : t \in Adds})
  <2> DEFINE T == {t.session : t \in Adds}
             f == [t \in Adds |-> t.session]
  <2>1. f \in [Adds -> T] /\ \A y \in T : \E t \in Adds : f[t] = y
    OBVIOUS
  <2> HIDE DEF f, T
  <2>2. IsFiniteSet(T)
    BY <1>1, <2>1, FiniteImage
  <2> QED BY <2>2 DEF T
<1>3. IsFiniteSet({t.next : t \in Adds})
  <2> DEFINE T == {t.next : t \in Adds}
             f == [t \in Adds |-> t.next]
  <2>1. f \in [Adds -> T] /\ \A y \in T : \E t \in Adds : f[t] = y
    OBVIOUS
  <2> HIDE DEF f, T
  <2>2. IsFiniteSet(T)
    BY <1>1, <2>1, FiniteImage
  <2> QED BY <2>2 DEF T
<1>4. FreshTrack \in Nat
  <2> DEFINE A == {u \in Posted : u.kind = "attribute"}
             T == {t.track : t \in A}
             f == [t \in A |-> t.track]
  <2>0. IsFiniteSet(A)
    BY <1>1, FS_Subset
  <2>1. f \in [A -> T] /\ \A y \in T : \E t \in A : f[t] = y
    OBVIOUS
  <2>2. FreshTrack = Fresh(T)
    BY DEF FreshTrack
  <2> HIDE DEF f, T, A
  <2>3. IsFiniteSet(T)
    BY <2>0, <2>1, FiniteImage
  <2> QED BY <2>2, <2>3, FreshIsNew
<1>5. /\ Fresh({t.session : t \in Adds}) \in Nat
      /\ Fresh({t.session : t \in Adds}) \notin {t.session : t \in Adds}
  BY <1>2, FreshIsNew
<1>6. FreshNext \in Nat /\ FreshNext \notin {t.next : t \in Adds}
  BY <1>3, FreshIsNew DEF FreshNext
<1> QED BY <1>4, <1>5, <1>6

(* An ended session leaves no waiting add alive.                           *)
LEMMA SessionEnds ==
  ASSUME TypeOK, EndSession
  PROVE  /\ {session', next', track'} \subseteq Nat
         /\ \A t \in Adds : t.session # session'
         /\ next' = next
<1>1. track' = FreshTrack
  BY DEF EndSession, FreshTrack
<1> QED BY <1>1, Generations DEF EndSession, TypeOK

LEMMA Enqueued ==
  ASSUME TypeOK, NEW s \in Step, posted' = Append(posted, s)
  PROVE  posted' \in Seq(Step) /\ Posted' = Posted \cup {s}
<1>1. posted \in Seq(Step)
  BY DEF TypeOK
<1>2. /\ posted' \in Seq(Step) /\ Len(posted') = Len(posted) + 1
      /\ \A i \in 1..Len(posted) : posted'[i] = posted[i]
      /\ posted'[Len(posted) + 1] = s
  BY <1>1, AppendProperties
<1>3. Len(posted) \in Nat /\ DOMAIN posted = 1..Len(posted) /\ DOMAIN posted' = 1..Len(posted')
  BY <1>1, <1>2, LenProperties
<1>4. Posted' \subseteq Posted \cup {s}
  <2> SUFFICES ASSUME NEW i \in 1..(Len(posted) + 1) PROVE posted'[i] \in Posted \cup {s}
    BY <1>2, <1>3 DEF Posted
  <2>1. CASE i = Len(posted) + 1
    BY <1>2, <2>1
  <2>2. CASE i \in 1..Len(posted)
    BY <1>2, <1>3, <2>2 DEF Posted
  <2> QED BY <1>3, <2>1, <2>2
<1>5. Posted \cup {s} \subseteq Posted'
  <2>1. ASSUME NEW i \in 1..Len(posted) PROVE posted[i] \in Posted'
    <3>1. i \in DOMAIN posted' /\ posted'[i] = posted[i]
      BY <1>2, <1>3
    <3> QED BY <3>1 DEF Posted
  <2>2. s \in Posted'
    <3>1. Len(posted) + 1 \in DOMAIN posted'
      BY <1>2, <1>3
    <3> QED BY <1>2, <3>1 DEF Posted
  <2> QED BY <1>3, <2>1, <2>2 DEF Posted
<1> QED BY <1>2, <1>4, <1>5

LEMMA Dequeued ==
  ASSUME TypeOK, posted # <<>>, posted' = Tail(posted)
  PROVE  /\ posted' \in Seq(Step) /\ Posted' \subseteq Posted
         /\ Head(posted) \in Posted
<1>1. posted \in Seq(Step)
  BY DEF TypeOK
<1>2. /\ posted' \in Seq(Step) /\ Len(posted') = Len(posted) - 1
      /\ \A i \in 1..Len(posted') : posted'[i] = posted[i + 1]
  BY <1>1, HeadTailProperties
<1>3. Len(posted) \in Nat /\ DOMAIN posted = 1..Len(posted) /\ DOMAIN posted' = 1..Len(posted')
  BY <1>1, <1>2, LenProperties
<1>4. Posted' \subseteq Posted
  <2> SUFFICES ASSUME NEW i \in 1..Len(posted') PROVE posted'[i] \in Posted
    BY <1>3 DEF Posted
  <2>1. i + 1 \in DOMAIN posted /\ posted'[i] = posted[i + 1]
    BY <1>2, <1>3
  <2> QED BY <2>1 DEF Posted
<1>5. Head(posted) \in Posted
  <2>1. Head(posted) = posted[1] /\ Len(posted) # 0
    BY <1>1, EmptySeq
  <2>2. 1 \in DOMAIN posted
    BY <1>3, <2>1
  <2> QED BY <2>1, <2>2 DEF Posted
<1> QED BY <1>2, <1>4, <1>5

-----------------------------------------------------------------------------
(* The playing item.                                                       *)
ItemType(n) == {NoItem, UserItem} \cup [list : {"shadow"}, row : 0..n, handle : Handle]

LEMMA ShadowItemType ==
  ASSUME NEW L \in Seq(ShadowRow), NEW r \in 1..Len(L)
  PROVE  /\ ShadowItem(L, r) \in ItemType(Len(L)) /\ ShadowItem(L, r) # NoItem
         /\ Len(L) \in Nat
<1>1. Len(L) \in Nat /\ L[r] \in ShadowRow
  BY LenProperties
<1>2. L[r].handle \in Handle
  BY <1>1 DEF ShadowRow
<1>3. ShadowItem(L, r) \in [list : {"shadow"}, row : 0..Len(L), handle : Handle]
  BY <1>1, <1>2 DEF ShadowItem
<1>4. ShadowItem(L, r).list = "shadow" /\ NoItem.list = "none"
  BY DEF ShadowItem, NoItem
<1> QED BY <1>1, <1>3, <1>4 DEF ItemType

LEMMA ItemGrows ==
  ASSUME NEW n \in Nat, NEW m \in Nat, n <= m
  PROVE  ItemType(n) \subseteq ItemType(m)
BY DEF ItemType

LEMMA ItemParts ==
  ASSUME NEW n \in Nat, NEW it \in ItemType(n)
  PROVE  /\ it.row \in 0..n /\ (it.list # "shadow" => it \in {NoItem, UserItem} /\ it.row = 0)
         /\ it.list = "shadow" => it \in [list : {"shadow"}, row : 0..n, handle : Handle]
         /\ it = NoItem <=> it.list = "none"
<1>1. /\ NoItem.list = "none" /\ NoItem.row = 0
      /\ UserItem.list = "user" /\ UserItem.row = 0
  BY DEF NoItem, UserItem, NoRow
<1>2. CASE it = NoItem \/ it = UserItem
  BY <1>1, <1>2
<1>3. CASE it \in [list : {"shadow"}, row : 0..n, handle : Handle]
  <2>1. it.list = "shadow" /\ it.row \in 0..n
    BY <1>3
  <2> QED BY <1>1, <1>3, <2>1
<1> QED BY <1>2, <1>3 DEF ItemType

LEMMA RowDropped ==
  ASSUME NEW n \in Nat, NEW m \in Nat, NEW it \in ItemType(n), it.list = "shadow", NEW r \in 0..m
  PROVE  /\ [it EXCEPT !.row = r] \in ItemType(m) /\ [it EXCEPT !.row = r] # NoItem /\ it # NoItem
         /\ [it EXCEPT !.row = r].row = r /\ [it EXCEPT !.row = r].list = "shadow"
         /\ [it EXCEPT !.row = r].handle = it.handle
<1>1. it \in [list : {"shadow"}, row : 0..n, handle : Handle] /\ it # NoItem
  BY ItemParts
<1> DEFINE i2 == [it EXCEPT !.row = r]
<1>2. i2 \in [list : {"shadow"}, row : 0..m, handle : Handle] /\ i2.row = r /\ i2.handle = it.handle
  BY <1>1
<1>3. i2.list = "shadow" /\ NoItem.list = "none"
  BY <1>2 DEF NoItem
<1> HIDE DEF i2
<1>4. i2 \in ItemType(m) /\ i2 # NoItem /\ it # NoItem /\ i2.row = r /\ i2.list = "shadow" /\ i2.handle = it.handle
  BY <1>1, <1>2, <1>3 DEF ItemType
<1> QED BY <1>4 DEF i2

LEMMA ItemOfType == TypeOK => /\ item \in ItemType(Len(shadow)) /\ Len(shadow) \in Nat
                              /\ shadow \in Seq(ShadowRow) /\ DOMAIN shadow = 1..Len(shadow)
BY LenProperties DEF TypeOK, ItemType

LEMMA UnlocatedType ==
  ASSUME TypeOK, NEW n \in Nat
  PROVE  Unlocated \in ItemType(n) /\ (Unlocated = NoItem <=> item = NoItem)
<1>1. item \in ItemType(Len(shadow)) /\ Len(shadow) \in Nat
  BY ItemOfType
<1>2. CASE item.list = "shadow"
  <2>1. NoRow \in 0..n
    BY DEF NoRow
  <2> QED BY <1>1, <1>2, <2>1, RowDropped DEF Unlocated
<1>3. CASE item.list # "shadow"
  <2>1. item \in {NoItem, UserItem}
    BY <1>1, <1>3, ItemParts
  <2> QED BY <1>3, <2>1 DEF Unlocated, ItemType
<1> QED BY <1>2, <1>3

LEMMA ShrunkType ==
  ASSUME NEW n \in Nat, NEW it \in ItemType(n), NEW first \in 1..(n + 1), NEW last \in (first - 1)..n
  PROVE  /\ Shrunk(it, first, last) \in ItemType(n - (last - first + 1))
         /\ Shrunk(it, first, last) = NoItem <=> it = NoItem
         /\ it.list = "shadow" /\ it.row > last =>
              /\ Shrunk(it, first, last).row = it.row - (last - first + 1)
              /\ Shrunk(it, first, last).list = "shadow"
<1> DEFINE m == n - (last - first + 1)
<1>0. m \in Nat /\ first - 1 <= m
  OBVIOUS
<1>1. CASE it.list # "shadow"
  <2>1. it \in {NoItem, UserItem}
    BY <1>1, ItemParts
  <2> QED BY <1>1, <2>1 DEF Shrunk, ItemType
<1>2. CASE it.list = "shadow" /\ it.row < first
  <2>1. it \in [list : {"shadow"}, row : 0..n, handle : Handle] /\ it.row \in 0..n
    BY <1>2, ItemParts
  <2>2. it.row \in 0..m
    BY <1>0, <1>2, <2>1
  <2>3. it \in [list : {"shadow"}, row : 0..m, handle : Handle]
    BY <2>1, <2>2
  <2>4. Shrunk(it, first, last) = it
    BY <1>2 DEF Shrunk
  <2> QED BY <1>2, <2>1, <2>3, <2>4 DEF ItemType
<1>3. CASE it.list = "shadow" /\ ~(it.row < first)
  <2> DEFINE r == IF it.row <= last THEN NoRow ELSE it.row - (last - first + 1)
  <2>0. it.row \in 0..n
    BY ItemParts
  <2>1. r \in 0..m
    BY <1>3, <2>0 DEF NoRow
  <2>2. Shrunk(it, first, last) = [it EXCEPT !.row = r]
    BY <1>3 DEF Shrunk
  <2>3. it.row > last => r = it.row - (last - first + 1)
    BY <2>0
  <2> HIDE DEF r, m
  <2>4. /\ [it EXCEPT !.row = r] \in ItemType(m) /\ [it EXCEPT !.row = r] # NoItem /\ it # NoItem
        /\ [it EXCEPT !.row = r].row = r /\ [it EXCEPT !.row = r].list = "shadow"
    BY <1>0, <1>3, <2>1, RowDropped
  <2> QED BY <2>2, <2>3, <2>4 DEF m
<1> QED BY <1>1, <1>2, <1>3

-----------------------------------------------------------------------------
(* Where an add puts its rows: what is kept of the playlist, and the table *)
(* that has been compared with it.                                         *)
LEMMA InsertionParts ==
  ASSUME TypeOK, NEW t \in Ticket
  PROVE  /\ Keep(t) \in 0..Len(shadow)
         /\ Kept(t) \in Seq(ShadowRow) /\ Len(Kept(t)) = Keep(t)
         /\ \A i \in 1..Keep(t) : Kept(t)[i] = shadow[i]
         /\ KeptTable(t) \in TableType
         /\ ~KeptTable(t).stale => Len(KeptTable(t).rows) = Keep(t)
         /\ Position(t) \in 0..Keep(t)
<1> DEFINE v == Verify(table, Handles(shadow))
           shrunk == Remove(v, Keep(t) + 1, Len(shadow))
           tb == IF Replaces(t) THEN shrunk ELSE table
<1>0. /\ Len(shadow) \in Nat /\ shadow \in Seq(ShadowRow)
      /\ table \in TableType
  BY ItemOfType DEF TypeOK, TableType
<1>1. v \in TableType /\ (~v.stale => Len(v.rows) = Len(shadow))
  BY <1>0, VerifyTable
<1>2. LastCurrentRow = NoRow \/ LastCurrentRow \in 1..Len(v.rows)
  <2> HIDE DEF v
  <2>1. LastRowOf(v, currentEntry) = NoRow \/ LastRowOf(v, currentEntry) \in 1..Len(v.rows)
    BY <1>1, RowFound
  <2> QED BY <2>1 DEF LastCurrentRow, v
<1>3. Keep(t) \in 0..Len(shadow) /\ (Replaces(t) => Keep(t) < Len(shadow))
  BY <1>0, <1>1, <1>2, RowCount DEF Keep, Replaces, NoRow
<1>4. Kept(t) \in Seq(ShadowRow) /\ Len(Kept(t)) = Keep(t) /\ \A i \in 1..Keep(t) : Kept(t)[i] = shadow[i]
  <2>1. /\ SubSeq(shadow, 1, Keep(t)) \in Seq(ShadowRow)
        /\ Len(SubSeq(shadow, 1, Keep(t))) = IF 1 <= Keep(t) THEN Keep(t) - 1 + 1 ELSE 0
        /\ \A i \in 1..(Keep(t) - 1 + 1) : SubSeq(shadow, 1, Keep(t))[i] = shadow[1 + i - 1]
    BY <1>0, <1>3, SubSeqInside
  <2>2. Kept(t) = SubSeq(shadow, 1, Keep(t))
    BY DEF Kept
  <2> HIDE DEF v, shrunk, tb
  <2> QED BY <1>0, <1>3, <2>1, <2>2
<1>5. tb \in TableType
  <2>1. CASE Replaces(t)
    <3>1. Keep(t) + 1 \in Nat \ {0} /\ Len(shadow) \in Nat /\ Keep(t) + 1 <= Len(shadow)
      BY <1>0, <1>3, <2>1
    <3> HIDE DEF v
    <3>2. shrunk \in TableType
      BY <1>1, <3>1, RemoveTable
    <3> QED BY <2>1, <3>2
  <2>2. CASE ~Replaces(t)
    BY <1>0, <2>2
  <2> QED BY <2>1, <2>2
<1>6. KeptTable(t) = Verify(tb, Handles(Kept(t)))
  BY DEF KeptTable
<1> HIDE DEF v, shrunk, tb
<1>7. KeptTable(t) \in TableType /\ (~KeptTable(t).stale => Len(KeptTable(t).rows) = Keep(t))
  BY <1>4, <1>5, <1>6, VerifyTable
<1>8. Position(t) \in 0..Keep(t)
  <2>1. Keep(t) \in Nat /\ (~KeptTable(t).stale => Len(KeptTable(t).rows) <= Keep(t))
    BY <1>0, <1>3, <1>7
  <2>2. CurrentInsertPosition(KeptTable(t), nextEntry, Keep(t)) \in 0..Keep(t)
    BY <1>7, <2>1, InsertPosition
  <2> QED BY <2>1, <2>2 DEF Position
<1> QED BY <1>3, <1>4, <1>7, <1>8

(* The rows a live add puts in, and the item it starts.                    *)
LEMMA InsertionType ==
  ASSUME TypeOK, NEW t \in Ticket, NEW handles \in Seq(Handle), Len(handles) \in Nat \ {0},
         Insertion(t, handles)
  PROVE  /\ shadow' \in Seq(ShadowRow) /\ table' \in TableType
         /\ item' \in ItemType(Len(shadow')) /\ (phase' = "stopped" <=> item' = NoItem)
         /\ phase' \in {"stopped", "opening", "playing"} /\ state' \in State
         /\ state' = "Idle" => state = "Idle"
<1> DEFINE added == Added(t.entry, handles)
           new == Splice(Kept(t), Position(t), added)
<1>0. t.entry \in 0..MaxEntry
  BY JitAssumption DEF Ticket, Entry
<1>1. added \in Seq(ShadowRow) /\ Len(added) = Len(handles)
  BY <1>0, AddedSeq
<1>2. /\ Kept(t) \in Seq(ShadowRow) /\ Len(Kept(t)) = Keep(t)
      /\ KeptTable(t) \in TableType
      /\ Keep(t) \in 0..Len(shadow) /\ Position(t) \in 0..Keep(t)
  BY InsertionParts
<1>3. new \in Seq(ShadowRow) /\ Len(new) = Keep(t) + Len(handles)
  <2> HIDE DEF added
  <2> QED BY <1>1, <1>2, SpliceParts
<1>4. shadow' = new /\ table' = Insert(KeptTable(t), Position(t), t.entry, "Single", handles)
  BY DEF Insertion
<1>5. table' \in TableType
  <2>1. Position(t) \in Nat
    BY <1>2, ItemOfType
  <2> QED BY <1>0, <1>2, <1>4, <2>1, InsertTable
<1>6. Len(shadow) \in Nat /\ item \in ItemType(Len(shadow))
  BY ItemOfType
<1>7. CASE t.slot = "Current"
  <2>1. item' = ShadowItem(new, Position(t) + 1) /\ phase' = "opening"
        /\ state' = IF state = "Idle" THEN state ELSE "Active"
    BY <1>7 DEF Insertion, ActivatePlaybackOnShadow
  <2> HIDE DEF new
  <2>2. Position(t) + 1 \in 1..Len(new)
    BY <1>2, <1>3, <1>6
  <2>3. item' \in ItemType(Len(new)) /\ item' # NoItem
    BY <1>3, <2>1, <2>2, ShadowItemType
  <2> QED BY <1>3, <1>4, <1>5, <2>1, <2>3 DEF TypeOK, State
<1>8. CASE t.slot # "Current"
  <2>1. item' = Shrunk(item, Keep(t) + 1, Len(shadow)) /\ phase' = phase /\ state' = state
    BY <1>8 DEF Insertion
  <2> HIDE DEF new
  <2>2. Keep(t) + 1 \in 1..(Len(shadow) + 1) /\ Len(shadow) \in ((Keep(t) + 1) - 1)..Len(shadow)
    BY <1>2, <1>6
  <2>3. item' \in ItemType(Len(shadow) - (Len(shadow) - (Keep(t) + 1) + 1)) /\ (item' = NoItem <=> item = NoItem)
    BY <1>6, <2>1, <2>2, ShrunkType
  <2>4. Len(shadow) - (Len(shadow) - (Keep(t) + 1) + 1) = Keep(t)
    BY <1>2, <1>6
  <2>5. Keep(t) \in Nat /\ Len(new) \in Nat /\ Keep(t) <= Len(new)
    BY <1>2, <1>3, <1>6
  <2>6. item' \in ItemType(Len(new))
    BY <2>3, <2>4, <2>5, ItemGrows
  <2> QED BY <1>3, <1>4, <1>5, <2>1, <2>3, <2>6 DEF TypeOK
<1> QED BY <1>7, <1>8

-----------------------------------------------------------------------------
(* TypeOK, in the parts that the steps change together.                    *)
EntriesType ==
  /\ lastEntry \in 0..MaxEntry /\ currentEntry \in 0..lastEntry
  /\ nextEntry = NoEntry \/ nextEntry \in (currentEntry + 1)..lastEntry
ThreadsType == posted \in Seq(Step) /\ resolving \subseteq Ticket /\ IsFiniteSet(resolving)
PlayerType ==
  /\ shadow \in Seq(ShadowRow) /\ item \in ItemType(Len(shadow))
  /\ phase \in {"stopped", "opening", "playing"} /\ (phase = "stopped" <=> item = NoItem)
OrdersType == savedOrder \in {Unsaved, 0, UserOrder} /\ order \in {0, UserOrder}
FlagsType == state \in State /\ needNextRequested \in BOOLEAN /\ hasShadow \in BOOLEAN
GenerationsType == {session, next, track} \subseteq Nat

LEMMA TypeParts ==
  TypeOK <=> /\ EntriesType /\ ThreadsType /\ PlayerType /\ OrdersType /\ FlagsType
             /\ GenerationsType /\ table \in TableType
             /\ edits \in 0..MaxEdits /\ reported \in 0..lastEntry
BY DEF TypeOK, EntriesType, ThreadsType, PlayerType, OrdersType, FlagsType, GenerationsType,
       TableType, ItemType

LEMMA TypePartsNext ==
  ASSUME EntriesType', ThreadsType', PlayerType', OrdersType', FlagsType', GenerationsType',
         table' \in TableType, edits' \in 0..MaxEdits, reported' \in 0..lastEntry'
  PROVE  TypeOK'
BY DEF TypeOK, EntriesType, ThreadsType, PlayerType, OrdersType, FlagsType, GenerationsType,
       TableType, ItemType

LEMMA InitType == Init => TypeOK
<1> SUFFICES ASSUME Init PROVE TypeOK
  OBVIOUS
<1>1. EntriesType /\ reported \in 0..lastEntry
  BY JitAssumption DEF Init, EntriesType, NoEntry
<1>5. OrdersType /\ GenerationsType
  BY DEF Init, OrdersType, GenerationsType
<1>6. FlagsType
  BY DEF Init, FlagsType, State
<1>2. ThreadsType
  <2>1. <<>> \in Seq(Step)
    BY EmptySeq
  <2> QED BY <2>1, FS_EmptySet DEF Init, ThreadsType
<1>3. PlayerType
  <2>1. <<>> \in Seq(ShadowRow)
    BY EmptySeq
  <2> QED BY <2>1 DEF Init, PlayerType, ItemType
<1>4. table \in TableType /\ edits \in 0..MaxEdits
  BY ResetTable, JitAssumption DEF Init
<1> QED BY <1>1, <1>2, <1>3, <1>4, <1>5, <1>6, TypeParts

(* The user's order comes back or is saved, the session ends, the table    *)
(* and the playlist are emptied: what each leaves of the types.            *)
LEMMA OrdersKept ==
  ASSUME OrdersType, SaveUserContext \/ RestoreUserContext \/ UNCHANGED contextVars
  PROVE  OrdersType'
BY DEF OrdersType, SaveUserContext, RestoreUserContext, contextVars

LEMMA EmptiedType ==
  ASSUME TypeOK, NEW it \in {item, NoItem}, Emptied(it)
  PROVE  /\ shadow' \in Seq(ShadowRow) /\ item' \in ItemType(Len(shadow'))
         /\ item' = NoItem <=> it = NoItem
         /\ table' \in TableType /\ needNextRequested' = FALSE
         /\ currentEntry' = NoEntry /\ nextEntry' = NoEntry
<1>0. it \in ItemType(Len(shadow)) /\ Len(shadow) \in Nat /\ shadow \in Seq(ShadowRow)
  BY ItemOfType DEF ItemType
<1>1. <<>> \in Seq(ShadowRow) /\ Len(<<>>) = 0
  BY EmptySeq
<1>2. table' \in TableType /\ needNextRequested' = FALSE /\ currentEntry' = NoEntry /\ nextEntry' = NoEntry
  BY ResetTable DEF Emptied, NewWait
<1>3. CASE ~hasShadow
  BY <1>0, <1>2, <1>3 DEF Emptied
<1>4. CASE hasShadow /\ it.list = "shadow"
  <2>1. shadow' = <<>> /\ item' = [it EXCEPT !.row = NoRow]
    BY <1>4 DEF Emptied
  <2>2. NoRow \in 0..0 /\ 0 \in Nat
    BY DEF NoRow
  <2>3. item' \in ItemType(0) /\ item' # NoItem /\ it # NoItem
    BY <1>0, <1>4, <2>1, <2>2, RowDropped
  <2> QED BY <1>1, <1>2, <2>1, <2>3
<1>5. CASE hasShadow /\ it.list # "shadow"
  <2>1. shadow' = <<>> /\ item' = it
    BY <1>5 DEF Emptied
  <2>2. it \in {NoItem, UserItem}
    BY <1>0, <1>5, ItemParts
  <2> QED BY <1>1, <1>2, <2>1, <2>2 DEF ItemType
<1> QED BY <1>3, <1>4, <1>5

(* The commands of the page.                                               *)
LEMMA PlayNowType ==
  ASSUME TypeOK, PlayNow, UNCHANGED edits, Quiet
  PROVE  TypeOK'
<1>0. EntriesType /\ ThreadsType /\ PlayerType /\ OrdersType /\ table \in TableType /\ edits \in 0..MaxEdits
  BY TypeParts
<1>1. session' \in Nat /\ GenerationsType'
  BY SessionEnds DEF PlayNow, GenerationsType
<1>2. EntriesType' /\ lastEntry' \in Entry
  BY <1>0, JitAssumption DEF PlayNow, EntriesType, Entry, NoEntry
<1>3. ThreadsType'
  <2>1. Add(lastEntry', "Current", session', 0) \in Step
    BY <1>1, <1>2 DEF Add, Step, Ticket
  <2>2. posted' \in Seq(Step)
    BY <2>1, Enqueued DEF PlayNow
  <2> QED BY <1>0, <2>2 DEF PlayNow, ThreadsType
<1>4. OrdersType'
  BY <1>0, OrdersKept DEF PlayNow
<1>5. FlagsType'
  BY DEF PlayNow, FlagsType, State, NewWait
<1>6. PlayerType' /\ table' \in TableType /\ edits' \in 0..MaxEdits
  BY <1>0 DEF PlayNow, playerVars, PlayerType
<1>7. reported' \in 0..lastEntry'
  BY <1>2 DEF Quiet, NoEntry, EntriesType
<1> QED BY <1>1, <1>2, <1>3, <1>4, <1>5, <1>6, <1>7, TypePartsNext

LEMMA EnqueueNextType ==
  ASSUME TypeOK, EnqueueNext, UNCHANGED edits, Quiet
  PROVE  TypeOK'
<1>0. /\ EntriesType /\ ThreadsType /\ PlayerType /\ OrdersType /\ GenerationsType
      /\ table \in TableType /\ edits \in 0..MaxEdits
  BY TypeParts
<1>1. session \in Nat /\ next' \in Nat /\ GenerationsType'
  BY <1>0, Generations DEF EnqueueNext, GenerationsType
<1>2. EntriesType' /\ lastEntry' \in Entry
  BY <1>0, JitAssumption DEF EnqueueNext, EntriesType, Entry, NoEntry
<1>3. ThreadsType'
  <2>1. Add(lastEntry', "Next", session, next') \in Step
    BY <1>1, <1>2 DEF Add, Step, Ticket
  <2>2. posted' \in Seq(Step)
    BY <2>1, Enqueued DEF EnqueueNext
  <2> QED BY <1>0, <2>2 DEF EnqueueNext, ThreadsType
<1>4. OrdersType'
  BY <1>0, OrdersKept DEF EnqueueNext
<1>5. FlagsType'
  BY DEF EnqueueNext, FlagsType, State, NewWait
<1>6. PlayerType' /\ table' \in TableType /\ edits' \in 0..MaxEdits
  BY <1>0 DEF EnqueueNext, playerVars, PlayerType
<1>7. reported' \in 0..lastEntry'
  BY <1>2 DEF Quiet, NoEntry, EntriesType
<1> QED BY <1>1, <1>2, <1>3, <1>4, <1>5, <1>6, <1>7, TypePartsNext

LEMMA SkipType ==
  ASSUME TypeOK, Skip, UNCHANGED edits, Quiet
  PROVE  TypeOK'
<1>0. /\ EntriesType /\ ThreadsType /\ PlayerType /\ OrdersType /\ GenerationsType /\ FlagsType
      /\ table \in TableType /\ edits \in 0..MaxEdits
  BY TypeParts
<1>1. EntriesType' /\ ThreadsType' /\ OrdersType' /\ GenerationsType' /\ table' \in TableType
      /\ edits' \in 0..MaxEdits
  BY <1>0 DEF Skip, commandVars, contextVars, genVars, threadVars,
              EntriesType, ThreadsType, OrdersType, GenerationsType
<1>2. FlagsType'
  BY <1>0 DEF Skip, commandVars, FlagsType, State
<1>3. PlayerType'
  <2>0. /\ item \in ItemType(Len(shadow)) /\ Len(shadow) \in Nat /\ shadow \in Seq(ShadowRow)
        /\ shadow' = shadow
    BY ItemOfType DEF Skip
  <2>1. CASE PlayingRow # NoRow /\ PlayingRow < Len(shadow)
    <3>1. item' = ShadowItem(shadow, PlayingRow + 1) /\ phase' = "opening"
      BY <2>1 DEF Skip, ActivatePlaybackOnShadow
    <3>2. PlayingRow \in 0..Len(shadow)
      BY <2>0, ItemParts DEF PlayingRow, NoRow
    <3>3. PlayingRow + 1 \in 1..Len(shadow)
      BY <2>0, <2>1, <3>2
    <3>4. item' \in ItemType(Len(shadow)) /\ item' # NoItem
      BY <2>0, <3>1, <3>3, ShadowItemType
    <3> QED BY <2>0, <3>1, <3>4 DEF PlayerType
  <2>2. CASE ~(PlayingRow # NoRow /\ PlayingRow < Len(shadow))
    <3>1. \/ item' = item /\ phase' = phase
          \/ item' = UserItem /\ phase' = "opening"
      BY <2>2 DEF Skip, PlayerNext
    <3>2. UserItem # NoItem /\ UserItem \in ItemType(Len(shadow))
      BY DEF UserItem, NoItem, ItemType
    <3> QED BY <1>0, <2>0, <3>1, <3>2 DEF PlayerType
  <2> QED BY <2>1, <2>2
<1>4. reported' \in 0..lastEntry'
  BY <1>1 DEF Quiet, NoEntry, EntriesType
<1> QED BY <1>1, <1>2, <1>3, <1>4, TypePartsNext

LEMMA StopType ==
  ASSUME TypeOK, NEW clearBuffer \in BOOLEAN, Stop(clearBuffer), UNCHANGED edits, Quiet
  PROVE  TypeOK'
<1>0. /\ EntriesType /\ ThreadsType /\ PlayerType /\ OrdersType /\ FlagsType
      /\ table \in TableType /\ edits \in 0..MaxEdits
  BY TypeParts
<1>1. ThreadsType' /\ edits' \in 0..MaxEdits /\ lastEntry' = lastEntry /\ hasShadow' = hasShadow
  BY <1>0 DEF Stop, threadVars, ThreadsType
<1>2. OrdersType' /\ GenerationsType'
  BY <1>0, OrdersKept, SessionEnds DEF Stop, GenerationsType
<1>3. state' = "Idle" /\ phase' = "stopped"
  BY DEF Stop
<1>4. /\ EntriesType' /\ table' \in TableType /\ needNextRequested' \in BOOLEAN
      /\ shadow' \in Seq(ShadowRow) /\ item' \in ItemType(Len(shadow')) /\ item' = NoItem
  <2>1. CASE clearBuffer
    <3>1. Emptied(NoItem)
      BY <2>1 DEF Stop
    <3>2. /\ shadow' \in Seq(ShadowRow) /\ item' \in ItemType(Len(shadow')) /\ item' = NoItem
          /\ table' \in TableType /\ needNextRequested' = FALSE
          /\ currentEntry' = NoEntry /\ nextEntry' = NoEntry
      BY <3>1, EmptiedType
    <3>3. EntriesType'
      BY <1>0, <1>1, <3>2 DEF EntriesType, NoEntry
    <3> QED BY <3>2, <3>3
  <2>2. CASE ~clearBuffer
    BY <1>0, <1>1, <2>2 DEF Stop, EntriesType, PlayerType, FlagsType, ItemType
  <2> QED BY <2>1, <2>2
<1>5. FlagsType' /\ PlayerType'
  BY <1>0, <1>1, <1>3, <1>4 DEF FlagsType, PlayerType, State
<1>6. reported' \in 0..lastEntry'
  BY <1>4 DEF Quiet, NoEntry, EntriesType
<1> QED BY <1>1, <1>2, <1>4, <1>5, <1>6, TypePartsNext

LEMMA ClearType ==
  ASSUME TypeOK, Clear, UNCHANGED edits, Quiet
  PROVE  TypeOK'
<1>0. /\ EntriesType /\ ThreadsType /\ PlayerType /\ OrdersType /\ FlagsType
      /\ table \in TableType /\ edits \in 0..MaxEdits
  BY TypeParts
<1>1. /\ ThreadsType' /\ edits' \in 0..MaxEdits /\ lastEntry' = lastEntry /\ hasShadow' = hasShadow
      /\ state' = "Idle" /\ phase' = phase
  BY <1>0 DEF Clear, threadVars, ThreadsType
<1>2. OrdersType' /\ GenerationsType'
  BY <1>0, OrdersKept, SessionEnds DEF Clear, GenerationsType
<1>3. /\ shadow' \in Seq(ShadowRow) /\ item' \in ItemType(Len(shadow'))
      /\ (item' = NoItem <=> item = NoItem)
      /\ table' \in TableType /\ needNextRequested' = FALSE
      /\ currentEntry' = NoEntry /\ nextEntry' = NoEntry
  BY EmptiedType DEF Clear
<1>4. EntriesType'
  BY <1>0, <1>1, <1>3 DEF EntriesType, NoEntry
<1>5. FlagsType' /\ PlayerType'
  BY <1>0, <1>1, <1>3 DEF FlagsType, PlayerType, State
<1>6. reported' \in 0..lastEntry'
  BY <1>4 DEF Quiet, NoEntry, EntriesType
<1> QED BY <1>1, <1>2, <1>3, <1>4, <1>5, <1>6, TypePartsNext

LEMMA PreloadBatchType ==
  ASSUME TypeOK, NEW handles \in Resolution, handles # <<>>, NEW replace \in BOOLEAN,
         NEW startIndex \in DOMAIN handles, PreloadBatch(handles, startIndex, replace),
         UNCHANGED edits, Quiet
  PROVE  TypeOK'
<1> DEFINE old == IF replace THEN <<>> ELSE shadow
           tb == IF replace THEN Reset ELSE table
           checked == Verify(tb, Handles(old))
           e == lastEntry + 1
           added == Added(e, handles)
           new == old \o added
<1>0. /\ EntriesType /\ ThreadsType /\ PlayerType /\ OrdersType /\ GenerationsType /\ FlagsType
      /\ table \in TableType /\ edits \in 0..MaxEdits
  BY TypeParts
<1>1. /\ handles \in Seq(Handle) /\ Len(handles) \in Nat \ {0} /\ startIndex \in 1..Len(handles)
  BY ResolutionSeq
<1>2. e \in 0..MaxEntry /\ lastEntry' = e
  <2>1. lastEntry < MaxEntry /\ lastEntry' = lastEntry + 1
    BY DEF PreloadBatch
  <2>2. lastEntry \in 0..MaxEntry /\ MaxEntry \in Nat
    BY <1>0, JitAssumption DEF EntriesType
  <2> QED BY <2>1, <2>2
<1>3. old \in Seq(ShadowRow) /\ Len(old) \in Nat
  <2>1. <<>> \in Seq(ShadowRow) /\ Len(<<>>) = 0
    BY EmptySeq
  <2> QED BY <2>1, ItemOfType
<1>4. tb \in TableType
  BY <1>0, ResetTable
<1>5. checked \in TableType
  <2> HIDE DEF old, tb
  <2> QED BY <1>3, <1>4, VerifyTable
<1>6. added \in Seq(ShadowRow) /\ Len(added) = Len(handles)
  <2> HIDE DEF e
  <2> QED BY <1>1, <1>2, AddedSeq
<1>7. new \in Seq(ShadowRow) /\ Len(new) = Len(old) + Len(handles)
  <2> HIDE DEF old, added
  <2>1. old \o added \in Seq(ShadowRow) /\ Len(old \o added) = Len(old) + Len(added)
    BY <1>3, <1>6, ConcatProperties
  <2> QED BY <1>6, <2>1
<1>8. /\ shadow' = new /\ hasShadow' = TRUE /\ SaveUserContext /\ UNCHANGED threadVars
      /\ IF AlreadyPlaying(replace)
         THEN /\ table' = Insert(checked, Len(old), e, "Batch", handles)
              /\ UNCHANGED <<state, currentEntry, nextEntry, needNextRequested, genVars, item, phase>>
         ELSE /\ table' = ResetAsBatch(Handles(new), e)
              /\ EndSession
              /\ ActivatePlaybackOnShadow(new, Len(old) + startIndex)
              /\ state' = "Active"
              /\ currentEntry' = NoEntry /\ nextEntry' = NoEntry
              /\ NewWait
  BY DEF PreloadBatch
<1>9. ThreadsType' /\ OrdersType' /\ edits' \in 0..MaxEdits
  BY <1>0, <1>8, OrdersKept DEF threadVars, ThreadsType
<1>10. CASE AlreadyPlaying(replace)
  <2>1. old = shadow
    BY <1>10 DEF AlreadyPlaying
  <2>2. EntriesType' /\ GenerationsType' /\ FlagsType'
    BY <1>0, <1>2, <1>8, <1>10 DEF EntriesType, GenerationsType, FlagsType, genVars
  <2> HIDE DEF new, old, checked, e
  <2>3. table' \in TableType
    BY <1>1, <1>2, <1>3, <1>5, <1>8, <1>10, InsertTable
  <2>4. item' \in ItemType(Len(new)) /\ (phase' = "stopped" <=> item' = NoItem)
        /\ phase' \in {"stopped", "opening", "playing"}
    <3>1. Len(shadow) \in Nat /\ Len(new) \in Nat /\ Len(shadow) <= Len(new)
      BY <1>1, <1>3, <1>7, <2>1
    <3>2. item' = item /\ phase' = phase
      BY <1>8, <1>10
    <3> QED BY <1>0, <3>1, <3>2, ItemGrows DEF PlayerType
  <2>5. PlayerType'
    BY <1>7, <1>8, <2>4 DEF PlayerType
  <2>6. reported' \in 0..lastEntry'
    BY <2>2 DEF Quiet, NoEntry, EntriesType
  <2> QED BY <1>9, <2>2, <2>3, <2>5, <2>6, TypePartsNext
<1>11. CASE ~AlreadyPlaying(replace)
  <2>1. EndSession /\ NewWait /\ state' = "Active" /\ currentEntry' = NoEntry /\ nextEntry' = NoEntry
        /\ table' = ResetAsBatch(Handles(new), e)
        /\ ActivatePlaybackOnShadow(new, Len(old) + startIndex)
    BY <1>8, <1>11
  <2>2. EntriesType' /\ GenerationsType' /\ FlagsType'
    <3>1. GenerationsType'
      BY <2>1, SessionEnds DEF GenerationsType
    <3>2. EntriesType'
      BY <1>2, <2>1 DEF EntriesType, NoEntry
    <3>3. FlagsType'
      BY <1>8, <2>1 DEF FlagsType, State, NewWait
    <3> QED BY <3>1, <3>2, <3>3
  <2> HIDE DEF new, old, checked, e
  <2>3. table' \in TableType
    BY <1>2, <1>7, <2>1, BatchTable
  <2>4. Len(old) + startIndex \in 1..Len(new)
    BY <1>1, <1>3, <1>7
  <2>5. item' \in ItemType(Len(new)) /\ item' # NoItem /\ phase' = "opening"
    BY <1>7, <2>1, <2>4, ShadowItemType DEF ActivatePlaybackOnShadow
  <2>6. PlayerType'
    BY <1>7, <1>8, <2>5 DEF PlayerType
  <2>7. reported' \in 0..lastEntry'
    BY <2>2 DEF Quiet, NoEntry, EntriesType
  <2> QED BY <1>9, <2>2, <2>3, <2>6, <2>7, TypePartsNext
<1> QED BY <1>10, <1>11

(* The steps of the main thread, and adds that resolve.                    *)
LEMMA AddToPlaylistType ==
  ASSUME TypeOK, NEW t \in Posted, AddToPlaylist(t), UNCHANGED edits, Quiet
  PROVE  TypeOK'
<1>0. /\ EntriesType /\ ThreadsType /\ PlayerType /\ OrdersType /\ GenerationsType /\ FlagsType
      /\ table \in TableType /\ edits \in 0..MaxEdits
  BY TypeParts
<1>1. EntriesType' /\ OrdersType' /\ GenerationsType' /\ FlagsType' /\ edits' \in 0..MaxEdits
  BY <1>0 DEF AddToPlaylist, commandVars, contextVars, genVars, EntriesType, OrdersType,
              GenerationsType, FlagsType
<1>2. posted' \in Seq(Step)
  BY Dequeued DEF AddToPlaylist
<1>3. t \in Ticket
  <2>1. t \in Adds
    BY DEF AddToPlaylist, Adds
  <2> QED BY <2>1, Waiting
<1>4. ThreadsType'
  <2>1. resolving' = resolving \/ resolving' = resolving \cup {t}
    BY DEF AddToPlaylist
  <2> QED BY <1>0, <1>2, <1>3, <2>1, FS_AddElement DEF ThreadsType
<1>5. phase' = phase /\ (\/ UNCHANGED <<table, shadow, item>>
                         \/ shadow' = <<>> /\ table' = Reset /\ item' = Unlocated)
  BY DEF AddToPlaylist
<1>6. PlayerType' /\ table' \in TableType
  <2>1. CASE UNCHANGED <<table, shadow, item>>
    BY <1>0, <1>5, <2>1 DEF PlayerType
  <2>2. CASE shadow' = <<>> /\ table' = Reset /\ item' = Unlocated
    <3>1. <<>> \in Seq(ShadowRow) /\ Len(<<>>) = 0
      BY EmptySeq
    <3>2. Unlocated \in ItemType(0) /\ (Unlocated = NoItem <=> item = NoItem)
      BY UnlocatedType
    <3> QED BY <1>0, <1>5, <2>2, <3>1, <3>2, ResetTable DEF PlayerType
  <2> QED BY <1>5, <2>1, <2>2
<1>7. reported' \in 0..lastEntry'
  BY <1>1 DEF Quiet, NoEntry, EntriesType
<1> QED BY <1>1, <1>4, <1>6, <1>7, TypePartsNext

LEMMA ResolvedType ==
  ASSUME TypeOK, NEW t \in resolving, UNCHANGED edits, Quiet,
         ResolutionAborted(t) \/ \E handles \in Resolution : Resolved(t, handles)
  PROVE  TypeOK'
<1>0. /\ EntriesType /\ ThreadsType /\ PlayerType /\ OrdersType /\ GenerationsType /\ FlagsType
      /\ table \in TableType /\ edits \in 0..MaxEdits
  BY TypeParts
<1>1. /\ EntriesType' /\ OrdersType' /\ GenerationsType' /\ edits' \in 0..MaxEdits
      /\ needNextRequested' = needNextRequested /\ hasShadow' = hasShadow
      /\ posted' = posted /\ resolving' = resolving \ {t}
  BY <1>0 DEF Resolved, HandleResolvedItems, ResolutionAborted, commandVars, contextVars, genVars,
              EntriesType, OrdersType, GenerationsType
<1>2. ThreadsType'
  BY <1>0, <1>1, FS_RemoveElement DEF ThreadsType
<1>3. PlayerType' /\ table' \in TableType /\ state' \in State
  <2>1. CASE UNCHANGED <<state, table, playerVars>>
    BY <1>0, <2>1 DEF PlayerType, FlagsType, playerVars
  <2>2. CASE ~UNCHANGED <<state, table, playerVars>>
    <3>1. PICK handles \in Resolution : Resolved(t, handles)
      BY <2>2 DEF ResolutionAborted
    <3>2. handles # <<>> /\ Insertion(t, handles)
      BY <2>2, <3>1 DEF Resolved, HandleResolvedItems
    <3>3. handles \in Seq(Handle) /\ Len(handles) \in Nat \ {0}
      BY <3>2, ResolutionSeq
    <3>4. t \in Ticket
      BY <1>0 DEF ThreadsType
    <3> QED BY <3>2, <3>3, <3>4, InsertionType DEF PlayerType
  <2> QED BY <2>1, <2>2
<1>4. FlagsType'
  BY <1>0, <1>1, <1>3 DEF FlagsType
<1>5. reported' \in 0..lastEntry'
  BY <1>1 DEF Quiet, NoEntry, EntriesType
<1> QED BY <1>1, <1>2, <1>3, <1>4, <1>5, TypePartsNext

(* Removing the played rows keeps the rows that follow.                    *)
LEMMA PlayedRows ==
  ASSUME TypeOK, NEW checked \in TableType, NEW row \in 0..Len(shadow),
         RemovePlayedRows(checked, row), row # NoRow => item.list = "shadow" /\ item.row = row
  PROVE  /\ shadow' \in Seq(ShadowRow) /\ table' \in TableType
         /\ item' \in ItemType(Len(shadow')) /\ (item' = NoItem <=> item = NoItem)
         /\ item'.list = item.list
<1>0. /\ Len(shadow) \in Nat /\ shadow \in Seq(ShadowRow) /\ item \in ItemType(Len(shadow))
  BY ItemOfType
<1>1. CASE ~(row > 1 /\ ~checked.stale)
  BY <1>0, <1>1 DEF RemovePlayedRows
<1>2. CASE row > 1 /\ ~checked.stale
  <2>1. /\ shadow' = SubSeq(shadow, row, Len(shadow))
        /\ table' = Remove(checked, 1, row - 1)
        /\ item' = Shrunk(item, 1, row - 1)
    BY <1>2 DEF RemovePlayedRows
  <2>2. row \in Nat \ {0} /\ row - 1 \in Nat /\ 1 <= row - 1 /\ row <= Len(shadow)
    BY <1>0, <1>2
  <2>3. shadow' \in Seq(ShadowRow) /\ Len(shadow') = Len(shadow) - row + 1
    BY <1>0, <2>1, <2>2, SubSeqInside
  <2>4. table' \in TableType
    BY <2>1, <2>2, RemoveTable
  <2>5. item.list = "shadow" /\ item.row = row
    BY <1>2 DEF NoRow
  <2>6. 1 \in 1..(Len(shadow) + 1) /\ row - 1 \in (1 - 1)..Len(shadow)
    BY <1>0, <2>2
  <2>7. /\ item' \in ItemType(Len(shadow) - ((row - 1) - 1 + 1))
        /\ (item' = NoItem <=> item = NoItem)
        /\ item'.list = "shadow"
    <3>1. item.row > row - 1
      BY <2>2, <2>5
    <3>2. /\ Shrunk(item, 1, row - 1) \in ItemType(Len(shadow) - ((row - 1) - 1 + 1))
          /\ (Shrunk(item, 1, row - 1) = NoItem <=> item = NoItem)
      BY <1>0, <2>6, ShrunkType
    <3>3. Shrunk(item, 1, row - 1).list = "shadow"
      BY <1>0, <2>5, <2>6, <3>1, ShrunkType
    <3> QED BY <2>1, <3>2, <3>3
  <2>8. Len(shadow) - ((row - 1) - 1 + 1) = Len(shadow')
    BY <1>0, <2>2, <2>3
  <2> QED BY <2>3, <2>4, <2>5, <2>7, <2>8
<1> QED BY <1>1, <1>2

LEMMA PlayingRowIs ==
  ASSUME TypeOK
  PROVE  /\ PlayingRow \in 0..Len(shadow)
         /\ PlayingRow # NoRow => hasShadow /\ item.list = "shadow" /\ item.row = PlayingRow
<1>1. item \in ItemType(Len(shadow)) /\ Len(shadow) \in Nat
  BY ItemOfType
<1> QED BY <1>1, ItemParts DEF PlayingRow, NoRow

LEMMA AttributeType ==
  ASSUME TypeOK, NEW t \in Posted, AttributeNewTrack(t), UNCHANGED edits
  PROVE  TypeOK'
<1> DEFINE checked == IF PlayingRow # NoRow THEN Verify(table, Handles(shadow)) ELSE table
           attribution == Attribute(checked, PlayingRow, currentEntry, nextEntry, state = "Idle")
<1>0. /\ EntriesType /\ ThreadsType /\ PlayerType /\ OrdersType /\ GenerationsType /\ FlagsType
      /\ table \in TableType /\ edits \in 0..MaxEdits
  BY TypeParts
<1>1. posted' \in Seq(Step)
  BY Dequeued DEF AttributeNewTrack
<1>2. /\ ThreadsType' /\ edits' \in 0..MaxEdits /\ hasShadow' = hasShadow /\ phase' = phase
      /\ lastEntry' = lastEntry
  BY <1>0, <1>1 DEF AttributeNewTrack, ThreadsType
<1>3. checked \in TableType
  <2>1. shadow \in Seq(ShadowRow)
    BY <1>0 DEF PlayerType
  <2> QED BY <1>0, <2>1, VerifyTable
<1>4. \/ /\ reported' = NoEntry
         /\ UNCHANGED <<state, table, currentEntry, nextEntry, needNextRequested, contextVars,
                        genVars, shadow, item>>
      \/ ReleaseSession(checked)
      \/ StayInSession(attribution, checked)
  BY DEF AttributeNewTrack
<1> HIDE DEF checked, attribution
<1>5. CASE /\ reported' = NoEntry
           /\ UNCHANGED <<state, table, currentEntry, nextEntry, needNextRequested, contextVars,
                          genVars, shadow, item>>
  <2>1. EntriesType' /\ OrdersType' /\ GenerationsType' /\ FlagsType' /\ PlayerType'
    BY <1>0, <1>2, <1>5 DEF contextVars, genVars, EntriesType, OrdersType, GenerationsType,
                            FlagsType, PlayerType
  <2>2. table' \in TableType /\ reported' \in 0..lastEntry'
    BY <1>0, <1>2, <1>5 DEF EntriesType, NoEntry
  <2> QED BY <1>2, <2>1, <2>2, TypePartsNext
<1>6. CASE ReleaseSession(checked)
  <2>1. UNCHANGED <<shadow, item, currentEntry, nextEntry, needNextRequested>> /\ reported' = NoEntry
    BY <1>6 DEF ReleaseSession
  <2>2. EntriesType' /\ PlayerType' /\ reported' \in 0..lastEntry'
    BY <1>0, <1>2, <2>1 DEF EntriesType, PlayerType, NoEntry
  <2>3. CASE state = "Idle"
    <3>1. table' = checked /\ UNCHANGED <<state, contextVars, genVars>>
      BY <1>6, <2>3 DEF ReleaseSession
    <3>2. OrdersType' /\ GenerationsType' /\ FlagsType'
      BY <1>0, <1>2, <2>1, <3>1 DEF contextVars, genVars, OrdersType, GenerationsType, FlagsType
    <3> QED BY <1>2, <1>3, <2>2, <3>1, <3>2, TypePartsNext
  <2>4. CASE state # "Idle"
    <3>1. table' = Reset /\ state' = "Idle" /\ RestoreUserContext /\ EndSession
      BY <1>6, <2>4 DEF ReleaseSession
    <3>2. OrdersType' /\ GenerationsType'
      BY <1>0, <3>1, OrdersKept, SessionEnds DEF GenerationsType
    <3>3. FlagsType'
      BY <1>0, <1>2, <2>1, <3>1 DEF FlagsType, State
    <3> QED BY <1>2, <2>2, <3>1, <3>2, <3>3, ResetTable, TypePartsNext
  <2> QED BY <2>3, <2>4
<1>7. CASE StayInSession(attribution, checked)
  <2>1. /\ (Advance \/ UNCHANGED <<genVars, currentEntry, nextEntry>>)
        /\ needNextRequested' = FALSE /\ RemovePlayedRows(checked, PlayingRow)
        /\ reported' = currentEntry' /\ UNCHANGED contextVars
        /\ state' = IF nextEntry' = NoEntry THEN "WaitingNext" ELSE "Active"
    BY <1>7 DEF StayInSession, NewWait
  <2>2. EntriesType'
    BY <1>0, <1>2, <2>1 DEF Advance, EntriesType, NoEntry
  <2>3. GenerationsType'
    BY <1>0, <2>1, SessionEnds DEF Advance, GenerationsType, genVars
  <2>4. OrdersType'
    BY <1>0, <2>1, OrdersKept
  <2>5. FlagsType'
    BY <1>0, <1>2, <2>1 DEF FlagsType, State
  <2>6. PlayerType' /\ table' \in TableType
    <3>1. /\ shadow' \in Seq(ShadowRow) /\ table' \in TableType
          /\ item' \in ItemType(Len(shadow')) /\ (item' = NoItem <=> item = NoItem)
      BY <1>3, <2>1, PlayingRowIs, PlayedRows
    <3> QED BY <1>0, <1>2, <3>1 DEF PlayerType
  <2>7. reported' \in 0..lastEntry'
    BY <2>1, <2>2 DEF EntriesType
  <2> QED BY <1>2, <2>2, <2>3, <2>4, <2>5, <2>6, <2>7, TypePartsNext
<1> QED BY <1>4, <1>5, <1>6, <1>7

(* The player's callbacks.                                                 *)
LEMMA QuietThreads ==
  ASSUME ThreadsType, UNCHANGED threadVars
  PROVE  ThreadsType'
BY DEF ThreadsType, threadVars

(* Steps that touch neither the table nor the entries nor the main thread's*)
(* queue: the player moves to another item, or the session ends.           *)
LEMMA PlayerStepType ==
  ASSUME TypeOK, Quiet, edits' \in 0..MaxEdits, PlayerType', OrdersType', GenerationsType',
         state' \in State, hasShadow' \in BOOLEAN, table' \in TableType,
         UNCHANGED <<commandVars, threadVars>>
  PROVE  TypeOK'
<1>0. EntriesType /\ ThreadsType /\ FlagsType
  BY TypeParts
<1>1. EntriesType' /\ ThreadsType' /\ FlagsType'
  BY <1>0, QuietThreads DEF commandVars, EntriesType, FlagsType
<1>2. reported' \in 0..lastEntry'
  BY <1>1 DEF Quiet, NoEntry, EntriesType
<1> QED BY <1>1, <1>2, TypePartsNext

LEMMA PlayerMovesType ==
  ASSUME TypeOK, Quiet, UNCHANGED edits, NotifyEmpty \/ NextFollows \/ UserPlays \/ PlaybackEnds \/ UserStops
  PROVE  TypeOK'
<1>0. /\ EntriesType /\ ThreadsType /\ PlayerType /\ OrdersType /\ GenerationsType /\ FlagsType
      /\ table \in TableType /\ edits \in 0..MaxEdits
  BY TypeParts
<1>s. /\ shadow \in Seq(ShadowRow) /\ Len(shadow) \in Nat /\ DOMAIN shadow = 1..Len(shadow)
      /\ item \in ItemType(Len(shadow))
  BY ItemOfType
<1>i. /\ UserItem # NoItem /\ {UserItem, NoItem} \subseteq ItemType(Len(shadow))
  BY DEF UserItem, NoItem, ItemType
<1>1. CASE NotifyEmpty
  <2>1. state' \in State /\ hasShadow' \in BOOLEAN /\ UNCHANGED <<commandVars, threadVars, table>>
    BY <1>0, <1>1 DEF NotifyEmpty, State, FlagsType
  <2>2. PlayerType' /\ OrdersType' /\ GenerationsType'
    BY <1>0, <1>1 DEF NotifyEmpty, playerVars, contextVars, genVars, PlayerType, OrdersType, GenerationsType
  <2> QED BY <1>0, <2>1, <2>2, PlayerStepType
<1>2. CASE NextFollows \/ UserPlays
  <2>1. /\ phase' = "opening" /\ shadow' = shadow /\ NoCallback
        /\ item' = UserItem \/ \E row \in DOMAIN shadow : item' = ShadowItem(shadow, row)
    BY <1>2 DEF NextFollows, UserPlays
  <2>2. item' \in ItemType(Len(shadow)) /\ item' # NoItem
    BY <1>s, <1>i, <2>1, ShadowItemType
  <2>3. PlayerType'
    BY <1>s, <2>1, <2>2 DEF PlayerType
  <2>4. /\ state' \in State /\ hasShadow' \in BOOLEAN /\ UNCHANGED <<commandVars, threadVars, table>>
        /\ OrdersType' /\ GenerationsType'
    BY <1>0, <2>1 DEF NoCallback, FlagsType, contextVars, genVars, OrdersType, GenerationsType
  <2> QED BY <1>0, <2>3, <2>4, PlayerStepType
<1>3. CASE PlaybackEnds
  <2>1. /\ phase' = "stopped" /\ item' = NoItem /\ shadow' = shadow
        /\ state' \in {state, "Exhausted"} /\ hasShadow' = hasShadow
        /\ UNCHANGED <<commandVars, threadVars, contextVars, genVars, table>>
    BY <1>3 DEF PlaybackEnds
  <2>2. PlayerType'
    BY <1>s, <1>i, <2>1 DEF PlayerType
  <2>3. state' \in State /\ OrdersType' /\ GenerationsType' /\ hasShadow' \in BOOLEAN
    BY <1>0, <2>1 DEF FlagsType, State, contextVars, genVars, OrdersType, GenerationsType
  <2> QED BY <1>0, <2>1, <2>2, <2>3, PlayerStepType
<1>4. CASE UserStops
  <2>1. /\ phase' = "stopped" /\ item' = NoItem /\ shadow' = shadow
        /\ hasShadow' = hasShadow /\ UNCHANGED <<commandVars, threadVars, table>>
        /\ \/ UNCHANGED <<state, contextVars, genVars>>
           \/ state' = "Idle" /\ EndSession /\ RestoreUserContext
    BY <1>4 DEF UserStops
  <2>2. PlayerType'
    BY <1>s, <1>i, <2>1 DEF PlayerType
  <2>3. GenerationsType'
    BY <1>0, <2>1, SessionEnds DEF GenerationsType, genVars
  <2>4. OrdersType'
    BY <1>0, <2>1, OrdersKept
  <2>5. state' \in State /\ hasShadow' \in BOOLEAN
    BY <1>0, <2>1 DEF FlagsType, State
  <2> QED BY <1>0, <2>1, <2>2, <2>3, <2>4, <2>5, PlayerStepType
<1> QED BY <1>1, <1>2, <1>3, <1>4

(* The shadow playlist goes, or the user edits it.                         *)
LEMMA EditType ==
  ASSUME TypeOK, Quiet,
         (UNCHANGED edits /\ OnShadowPlaylistRemoved) \/ UserAppends \/ UserRemoves
  PROVE  TypeOK'
<1>0. /\ EntriesType /\ ThreadsType /\ PlayerType /\ OrdersType /\ GenerationsType /\ FlagsType
      /\ table \in TableType /\ edits \in 0..MaxEdits
  BY TypeParts
<1>s. /\ shadow \in Seq(ShadowRow) /\ Len(shadow) \in Nat /\ DOMAIN shadow = 1..Len(shadow)
      /\ item \in ItemType(Len(shadow))
  BY ItemOfType
<1>1. CASE UNCHANGED edits /\ OnShadowPlaylistRemoved
  <2>1. /\ shadow' = <<>> /\ item' = Unlocated /\ phase' = phase /\ state' = "Idle" /\ table' = Reset
        /\ hasShadow' = FALSE /\ EndSession /\ UNCHANGED <<commandVars, contextVars, threadVars>>
    BY <1>1 DEF OnShadowPlaylistRemoved
  <2>2. <<>> \in Seq(ShadowRow) /\ Len(<<>>) = 0
    BY EmptySeq
  <2>3. Unlocated \in ItemType(0) /\ (Unlocated = NoItem <=> item = NoItem)
    BY UnlocatedType
  <2>4. PlayerType'
    BY <1>0, <2>1, <2>2, <2>3 DEF PlayerType
  <2>5. OrdersType' /\ GenerationsType'
    BY <1>0, <2>1, OrdersKept, SessionEnds DEF GenerationsType
  <2>6. state' \in State
    BY <2>1 DEF State
  <2> QED BY <1>0, <1>1, <2>1, <2>4, <2>5, <2>6, ResetTable, PlayerStepType
<1>2. ASSUME Edit, NoCallback, phase' = phase, shadow' \in Seq(ShadowRow),
             item' \in ItemType(Len(shadow')), item' = NoItem <=> item = NoItem
      PROVE  TypeOK'
  <2>1. edits' \in 0..MaxEdits
    BY <1>0, <1>2, JitAssumption DEF Edit
  <2>2. PlayerType'
    BY <1>0, <1>2 DEF PlayerType
  <2>3. /\ state' \in State /\ hasShadow' \in BOOLEAN /\ UNCHANGED <<commandVars, threadVars, table>>
        /\ OrdersType' /\ GenerationsType'
    BY <1>0, <1>2 DEF NoCallback, FlagsType, contextVars, genVars, OrdersType, GenerationsType
  <2> QED BY <1>0, <2>1, <2>2, <2>3, PlayerStepType
<1>3. CASE UserAppends
  <2>1. PICK h \in Foreign : shadow' = shadow \o Added(NoEntry, <<h>>)
    BY <1>3 DEF UserAppends
  <2>2. <<h>> \in Seq(Handle) /\ Len(<<h>>) = 1
    BY DEF Handle
  <2>3. NoEntry \in 0..MaxEntry
    BY JitAssumption DEF NoEntry
  <2>4. Added(NoEntry, <<h>>) \in Seq(ShadowRow) /\ Len(Added(NoEntry, <<h>>)) = 1
    <3> DEFINE hs == <<h>>
    <3>1. hs \in Seq(Handle) /\ Len(hs) = 1
      BY <2>2
    <3> HIDE DEF hs
    <3>2. Added(NoEntry, hs) \in Seq(ShadowRow) /\ Len(Added(NoEntry, hs)) = 1
      BY <2>3, <3>1, AddedSeq
    <3> QED BY <3>2 DEF hs
  <2>5. shadow' \in Seq(ShadowRow) /\ Len(shadow') = Len(shadow) + 1
    <3> DEFINE added == Added(NoEntry, <<h>>)
    <3>1. added \in Seq(ShadowRow) /\ Len(added) = 1 /\ shadow' = shadow \o added
      BY <2>1, <2>4
    <3> HIDE DEF added
    <3>2. shadow \o added \in Seq(ShadowRow) /\ Len(shadow \o added) = Len(shadow) + Len(added)
      BY <1>s, <3>1, ConcatProperties
    <3> QED BY <3>1, <3>2
  <2>6. item' \in ItemType(Len(shadow')) /\ item' = item
    <3>1. Len(shadow') \in Nat /\ Len(shadow) <= Len(shadow') /\ item' = item
      BY <1>s, <1>3, <2>5 DEF UserAppends
    <3> QED BY <1>s, <3>1, ItemGrows
  <2> QED BY <1>2, <1>3, <2>5, <2>6 DEF UserAppends
<1>4. CASE UserRemoves
  <2>1. PICK row \in 1..Len(shadow) : shadow' = Cut(shadow, row, row) /\ item' = Shrunk(item, row, row)
    BY <1>s, <1>4 DEF UserRemoves
  <2>2. shadow' \in Seq(ShadowRow) /\ Len(shadow') = Len(shadow) - (row - row + 1)
    <3>1. row \in row..Len(shadow)
      BY <1>s
    <3> QED BY <1>s, <2>1, <3>1, CutParts
  <2>3. item' \in ItemType(Len(shadow) - (row - row + 1)) /\ (item' = NoItem <=> item = NoItem)
    <3>1. row \in 1..(Len(shadow) + 1) /\ row \in (row - 1)..Len(shadow)
      BY <1>s
    <3> QED BY <1>s, <2>1, <3>1, ShrunkType
  <2> QED BY <1>2, <1>4, <2>2, <2>3 DEF UserRemoves
<1> QED BY <1>1, <1>3, <1>4

LEMMA PostingType ==
  ASSUME TypeOK, Quiet, UNCHANGED edits,
         NewTrack \/ PlaybackTime \/ RequestNextTrack
  PROVE  TypeOK'
<1>0. /\ EntriesType /\ ThreadsType /\ PlayerType /\ OrdersType /\ GenerationsType /\ FlagsType
      /\ table \in TableType /\ edits \in 0..MaxEdits
  BY TypeParts
<1>1. /\ UNCHANGED <<table, hasShadow, currentEntry, nextEntry, lastEntry, contextVars, resolving, shadow, item>>
  BY DEF NewTrack, PlaybackTime, RequestNextTrack, commandVars, playerVars
<1>2. /\ EntriesType' /\ OrdersType' /\ table' \in TableType /\ edits' \in 0..MaxEdits
      /\ hasShadow' \in BOOLEAN
  BY <1>0, <1>1 DEF EntriesType, OrdersType, contextVars, FlagsType
<1>3. reported' \in 0..lastEntry'
  BY <1>2 DEF Quiet, NoEntry, EntriesType
<1>4. CASE NewTrack
  <2>1. GenerationsType'
    BY <1>0, <1>4, Generations DEF NewTrack, GenerationsType
  <2>2. FlagsType'
    BY <1>0, <1>4, <1>2 DEF NewTrack, commandVars, FlagsType
  <2>3. phase = "opening" /\ phase' = "playing"
    BY <1>4 DEF NewTrack
  <2>4. PlayerType'
    BY <1>0, <1>1, <2>3 DEF PlayerType
  <2>5. item.handle \in Handle \cup {"user"}
    <3>1. item \in {UserItem} \cup [list : {"shadow"}, row : 0..Len(shadow), handle : Handle]
      BY <1>0, <2>3 DEF PlayerType, ItemType
    <3>2. UserItem.handle = "user"
      BY DEF UserItem
    <3> QED BY <3>1, <3>2
  <2>6. Attribution(track', item.handle) \in Step
    <3>1. track' \in Nat
      BY <2>1 DEF GenerationsType
    <3> QED BY <2>5, <3>1 DEF Attribution, Step
  <2>7. posted' \in Seq(Step)
    BY <1>4, <2>6, Enqueued DEF NewTrack
  <2>8. ThreadsType'
    BY <1>0, <1>1, <2>7 DEF ThreadsType
  <2> QED BY <1>2, <1>3, <2>1, <2>2, <2>4, <2>8, TypePartsNext
<1>5. CASE PlaybackTime
  <2>1. GenerationsType' /\ PlayerType'
    BY <1>0, <1>1, <1>5 DEF PlaybackTime, genVars, playerVars, GenerationsType, PlayerType
  <2>2. FlagsType'
    BY <1>0, <1>2, <1>5 DEF PlaybackTime, FlagsType
  <2>3. RequestStep \in Step
    BY DEF Step
  <2>4. posted' \in Seq(Step)
    BY <1>5, <2>3, Enqueued DEF PlaybackTime
  <2>5. ThreadsType'
    BY <1>0, <1>1, <2>4 DEF ThreadsType
  <2> QED BY <1>2, <1>3, <2>1, <2>2, <2>5, TypePartsNext
<1>6. CASE RequestNextTrack
  <2>1. GenerationsType' /\ PlayerType'
    BY <1>0, <1>1, <1>6 DEF RequestNextTrack, genVars, playerVars, GenerationsType, PlayerType
  <2>2. FlagsType'
    BY <1>0, <1>2, <1>6 DEF RequestNextTrack, commandVars, FlagsType, State
  <2>3. posted' \in Seq(Step)
    BY <1>6, Dequeued DEF RequestNextTrack
  <2>4. ThreadsType'
    BY <1>0, <1>1, <2>3 DEF ThreadsType
  <2> QED BY <1>2, <1>3, <2>1, <2>2, <2>4, TypePartsNext
<1> QED BY <1>4, <1>5, <1>6

LEMMA TypeStep == TypeOK /\ [Next]_vars => TypeOK'
<1> SUFFICES ASSUME TypeOK, [Next]_vars PROVE TypeOK'
  OBVIOUS
<1>1. CASE UNCHANGED vars
  BY <1>1 DEF vars, commandVars, contextVars, genVars, threadVars, playerVars, TypeOK
<1>2. CASE UNCHANGED edits /\ MainThread
  BY <1>2, PostingType, AddToPlaylistType, AttributeType DEF MainThread
<1>3. CASE UNCHANGED edits /\ Quiet /\ Page
  BY <1>3, PlayNowType, EnqueueNextType, SkipType, ClearType, PlayerMovesType, StopType, PreloadBatchType
     DEF Page
<1>4. CASE UNCHANGED edits /\ Quiet /\ Locations
  BY <1>4, ResolvedType DEF Locations
<1>5. CASE UNCHANGED edits /\ Quiet /\ Player
  BY <1>5, PostingType, PlayerMovesType, EditType DEF Player
<1>6. CASE Quiet /\ (UserAppends \/ UserRemoves)
  BY <1>6, EditType
<1> QED BY <1>1, <1>2, <1>3, <1>4, <1>5, <1>6 DEF Next

-----------------------------------------------------------------------------
(* Adds and the entries they were issued for.                              *)
LEMMA AddsShrink ==
  ASSUME Posted' \subseteq Posted, resolving' \subseteq Adds
  PROVE  Adds' \subseteq Adds
BY DEF Adds, IsAdd

LEMMA SameAdds ==
  ASSUME UNCHANGED threadVars
  PROVE  Adds' = Adds
<1>1. Posted' = Posted /\ resolving' = resolving
  BY DEF threadVars, Posted
<1> QED BY <1>1 DEF Adds, IsAdd

LEMMA NoNewAdd ==
  ASSUME TypeOK, NEW s \in Step, posted' = Append(posted, s), s.kind # "add", UNCHANGED resolving
  PROVE  Adds' = Adds
<1>1. Posted' = Posted \cup {s}
  BY Enqueued
<1> QED BY <1>1 DEF Adds, IsAdd

LEMMA OneNewAdd ==
  ASSUME TypeOK, NEW s \in Step, posted' = Append(posted, s), UNCHANGED resolving
  PROVE  Adds' \subseteq Adds \cup {s}
<1>1. Posted' = Posted \cup {s}
  BY Enqueued
<1> QED BY <1>1 DEF Adds, IsAdd

LEMMA TicketsKept ==
  ASSUME TicketsExact, Adds' \subseteq Adds, UNCHANGED <<session, next, currentEntry, nextEntry>>,
         state # "Idle" => state' # "Idle"
  PROVE  TicketsExact'
BY DEF TicketsExact

LEMMA TicketsDead ==
  ASSUME TypeOK, EndSession, Adds' \subseteq Adds
  PROVE  TicketsExact'
<1>1. \A t \in Adds : t.session # session'
  BY SessionEnds
<1> QED BY <1>1 DEF TicketsExact

(* A command that issues an add makes it the only live one of its slot.    *)
LEMMA TicketsIssued ==
  ASSUME TypeOK, TypeOK', TicketsExact, PlayNow \/ EnqueueNext
  PROVE  TicketsExact'
<1>1. CASE PlayNow
  <2> DEFINE s == Add(lastEntry', "Current", session', 0)
  <2>1. s \in Step
    <3>1. lastEntry' \in Entry /\ session' \in Nat
      BY <1>1, JitAssumption DEF PlayNow, TypeOK, Entry
    <3> QED BY <3>1 DEF Add, Step, Ticket
  <2>2. /\ posted' = Append(posted, s) /\ resolving' = resolving
        /\ state' = "Active" /\ currentEntry' = lastEntry'
    BY <1>1 DEF PlayNow
  <2>3. Adds' \subseteq Adds \cup {s}
    <3> HIDE DEF s
    <3> QED BY <2>1, <2>2, OneNewAdd
  <2>4. \A t \in Adds : t.session # session'
    BY <1>1, SessionEnds DEF PlayNow
  <2>5. s.entry = lastEntry' /\ s.slot = "Current"
    BY DEF Add
  <2> HIDE DEF s
  <2> QED BY <2>2, <2>3, <2>4, <2>5 DEF TicketsExact
<1>2. CASE EnqueueNext
  <2> DEFINE s == Add(lastEntry', "Next", session, next')
  <2>1. s \in Step
    <3>1. lastEntry' \in Entry /\ session \in Nat /\ next' \in Nat
      BY <1>2, JitAssumption DEF EnqueueNext, TypeOK, Entry
    <3> QED BY <3>1 DEF Add, Step, Ticket
  <2>2. /\ posted' = Append(posted, s) /\ resolving' = resolving
        /\ state \in {"Active", "WaitingNext"} /\ state' = "Active"
        /\ nextEntry' = lastEntry' /\ currentEntry' = currentEntry /\ session' = session
        /\ next' = FreshNext
    BY <1>2 DEF EnqueueNext
  <2>3. Adds' \subseteq Adds \cup {s}
    <3> HIDE DEF s
    <3> QED BY <2>1, <2>2, OneNewAdd
  <2>4. \A t \in Adds : t.next # next'
    BY <2>2, Generations
  <2>5. s.entry = lastEntry' /\ s.slot = "Next"
    BY DEF Add
  <2> HIDE DEF s
  <2> QED BY <2>2, <2>3, <2>4, <2>5 DEF TicketsExact
<1> QED BY <1>1, <1>2

LEMMA TicketsAttribute ==
  ASSUME TypeOK, TicketsExact, NEW t \in Posted, AttributeNewTrack(t)
  PROVE  TicketsExact'
<1> DEFINE checked == IF PlayingRow # NoRow THEN Verify(table, Handles(shadow)) ELSE table
           attribution == Attribute(checked, PlayingRow, currentEntry, nextEntry, state = "Idle")
<1>1. Adds' \subseteq Adds
  <2>1. Posted' \subseteq Posted
    BY Dequeued DEF AttributeNewTrack
  <2>2. resolving' \subseteq Adds
    BY DEF AttributeNewTrack, Adds
  <2> QED BY <2>1, <2>2, AddsShrink
<1>2. \/ UNCHANGED <<state, currentEntry, nextEntry, genVars>>
      \/ ReleaseSession(checked)
      \/ StayInSession(attribution, checked)
  BY DEF AttributeNewTrack
<1> HIDE DEF checked, attribution
<1>3. CASE UNCHANGED <<state, currentEntry, nextEntry, genVars>>
  BY <1>1, <1>3, TicketsKept DEF genVars
<1>4. CASE ReleaseSession(checked)
  <2>1. CASE state = "Idle"
    BY <1>1, <1>4, <2>1, TicketsKept DEF ReleaseSession, genVars
  <2>2. CASE state # "Idle"
    BY <1>1, <1>4, <2>2, TicketsDead DEF ReleaseSession
  <2> QED BY <2>1, <2>2
<1>5. CASE StayInSession(attribution, checked)
  <2>1. CASE EndSession
    BY <1>1, <2>1, TicketsDead
  <2>2. CASE UNCHANGED <<genVars, currentEntry, nextEntry>>
    <3>1. state' # "Idle"
      BY <1>5 DEF StayInSession
    <3> QED BY <1>1, <2>2, <3>1, TicketsKept DEF genVars
  <2> QED BY <1>5, <2>1, <2>2 DEF StayInSession, Advance
<1> QED BY <1>2, <1>3, <1>4, <1>5

LEMMA TicketsPage ==
  ASSUME TypeOK, TypeOK', TicketsExact, Page
  PROVE  TicketsExact'
<1>1. CASE PlayNow \/ EnqueueNext
  BY <1>1, TicketsIssued
<1>2. CASE Skip
  <2>1. Adds' \subseteq Adds
    BY <1>2, SameAdds DEF Skip
  <2> QED BY <1>2, <2>1, TicketsKept DEF Skip, genVars, commandVars
<1>3. CASE Clear \/ \E clearBuffer \in BOOLEAN : Stop(clearBuffer)
  <2>1. EndSession /\ UNCHANGED threadVars
    BY <1>3 DEF Clear, Stop
  <2> QED BY <2>1, SameAdds, TicketsDead
<1>4. CASE NotifyEmpty
  <2>1. Adds' \subseteq Adds
    BY <1>4, SameAdds DEF NotifyEmpty
  <2> QED BY <1>4, <2>1, TicketsKept DEF NotifyEmpty, genVars, commandVars
<1>5. CASE \E handles \in Resolution \ {<<>>}, replace \in BOOLEAN :
             \E startIndex \in DOMAIN handles : PreloadBatch(handles, startIndex, replace)
  <2>1. UNCHANGED threadVars /\ (EndSession \/ UNCHANGED <<state, currentEntry, nextEntry, genVars>>)
    BY <1>5 DEF PreloadBatch
  <2>2. Adds' \subseteq Adds
    BY <2>1, SameAdds
  <2> QED BY <2>1, <2>2, TicketsDead, TicketsKept DEF genVars
<1> QED BY <1>1, <1>2, <1>3, <1>4, <1>5 DEF Page

LEMMA TicketsMainThread ==
  ASSUME TypeOK, TicketsExact, MainThread
  PROVE  TicketsExact'
<1>1. CASE RequestNextTrack
  <2>1. Adds' \subseteq Adds
    <3>1. Posted' \subseteq Posted
      BY <1>1, Dequeued DEF RequestNextTrack
    <3>2. resolving' \subseteq Adds
      BY <1>1 DEF RequestNextTrack, Adds
    <3> QED BY <3>1, <3>2, AddsShrink
  <2> QED BY <1>1, <2>1, TicketsKept DEF RequestNextTrack, genVars, commandVars
<1>2. ASSUME NEW t \in Posted, AddToPlaylist(t) PROVE TicketsExact'
  <2>1. Adds' \subseteq Adds
    <3>1. Posted' \subseteq Posted
      BY <1>2, Dequeued DEF AddToPlaylist
    <3>2. resolving' \subseteq Adds
      BY <1>2 DEF AddToPlaylist, Adds
    <3> QED BY <3>1, <3>2, AddsShrink
  <2> QED BY <1>2, <2>1, TicketsKept DEF AddToPlaylist, genVars, commandVars
<1> QED BY <1>1, <1>2, TicketsAttribute DEF MainThread

LEMMA TicketsLocations ==
  ASSUME TypeOK, TicketsExact, Locations
  PROVE  TicketsExact'
<1>1. PICK t \in resolving : ResolutionAborted(t) \/ \E handles \in Resolution : Resolved(t, handles)
  BY DEF Locations
<1>2. posted' = posted /\ resolving' \subseteq resolving /\ UNCHANGED <<commandVars, genVars>>
  BY <1>1 DEF ResolutionAborted, Resolved, HandleResolvedItems
<1>3. Adds' \subseteq Adds
  <2>1. Posted' \subseteq Posted
    BY <1>2 DEF Posted
  <2>2. resolving' \subseteq Adds
    BY <1>2 DEF Adds
  <2> QED BY <2>1, <2>2, AddsShrink
<1>4. state # "Idle" => state' # "Idle"
  BY <1>1 DEF ResolutionAborted, Resolved, HandleResolvedItems, Insertion
<1> QED BY <1>2, <1>3, <1>4, TicketsKept DEF commandVars, genVars

LEMMA TicketsPlayer ==
  ASSUME TypeOK, TypeOK', TicketsExact, Player \/ UserAppends \/ UserRemoves
  PROVE  TicketsExact'
<1>1. CASE NewTrack \/ PlaybackTime
  <2>1. Adds' \subseteq Adds
    <3>1. CASE NewTrack
      <4>1. item.handle \in Handle \cup {"user"} /\ track' \in Nat
        <5>1. item \in {UserItem} \cup [list : {"shadow"}, row : 0..Len(shadow), handle : Handle]
          BY <3>1, TypeParts DEF NewTrack, PlayerType, ItemType
        <5>2. UserItem.handle = "user"
          BY DEF UserItem
        <5>3. track' \in Nat
          BY DEF TypeOK
        <5> QED BY <5>1, <5>2, <5>3
      <4>2. Attribution(track', item.handle) \in Step /\ Attribution(track', item.handle).kind # "add"
        BY <4>1 DEF Attribution, Step
      <4> QED BY <3>1, <4>2, NoNewAdd DEF NewTrack
    <3>2. CASE PlaybackTime
      <4>1. RequestStep \in Step /\ RequestStep.kind # "add"
        BY DEF RequestStep, Step
      <4> QED BY <3>2, <4>1, NoNewAdd DEF PlaybackTime
    <3> QED BY <1>1, <3>1, <3>2
  <2> QED BY <1>1, <2>1, TicketsKept DEF NewTrack, PlaybackTime, genVars, commandVars
<1>2. CASE PlaybackEnds \/ NextFollows \/ UserPlays \/ UserAppends \/ UserRemoves
  <2>1. UNCHANGED <<threadVars, genVars, commandVars>> /\ (state # "Idle" => state' # "Idle")
    BY <1>2 DEF PlaybackEnds, NextFollows, UserPlays, UserAppends, UserRemoves, NoCallback
  <2> QED BY <2>1, SameAdds, TicketsKept DEF commandVars, genVars
<1>3. CASE UserStops \/ OnShadowPlaylistRemoved
  <2>1. /\ UNCHANGED <<threadVars, commandVars>>
        /\ EndSession \/ UNCHANGED <<state, genVars>>
    BY <1>3 DEF UserStops, OnShadowPlaylistRemoved
  <2>2. Adds' \subseteq Adds
    BY <2>1, SameAdds
  <2> QED BY <2>1, <2>2, TicketsDead, TicketsKept DEF commandVars, genVars
<1> QED BY <1>1, <1>2, <1>3 DEF Player

Inv == TypeOK /\ TicketsExact

LEMMA InitInv == Init => Inv
<1>1. Init => Adds = {}
  BY DEF Init, Adds, Posted
<1> QED BY <1>1, InitType DEF Inv, TicketsExact

LEMMA StepInv == Inv /\ [Next]_vars => Inv'
<1> SUFFICES ASSUME Inv, [Next]_vars PROVE Inv'
  OBVIOUS
<1>1. TypeOK'
  BY TypeStep DEF Inv
<1>2. CASE UNCHANGED vars
  <2>1. Adds' \subseteq Adds
    BY <1>2, SameAdds DEF vars
  <2> QED BY <1>1, <1>2, <2>1, TicketsKept DEF Inv, vars, genVars, commandVars
<1>3. CASE Next
  BY <1>1, <1>3, TicketsPage, TicketsMainThread, TicketsLocations, TicketsPlayer DEF Inv, Next
<1> QED BY <1>2, <1>3

LEMMA InvAlways == Spec => []Inv
BY InitInv, StepInv, PTL DEF Spec

-----------------------------------------------------------------------------
(* Which steps add rows of an entry.                                       *)
LEMMA CountNat ==
  ASSUME NEW s \in Seq(ShadowRow), NEW e
  PROVE  RowsAddedBy(s, e) \in Nat
<1>1. Len(s) \in Nat /\ DOMAIN s = 1..Len(s)
  BY LenProperties
<1>2. IsFiniteSet(1..Len(s))
  BY <1>1, FS_Interval
<1>3. IsFiniteSet({i \in DOMAIN s : s[i].of = e})
  BY <1>1, <1>2, FS_Subset
<1> QED BY <1>3, FS_CardinalityType DEF RowsAddedBy

LEMMA CountEmpty ==
  ASSUME NEW e
  PROVE  RowsAddedBy(<<>>, e) = 0
<1>1. {i \in DOMAIN <<>> : <<>>[i].of = e} = {}
  OBVIOUS
<1> QED BY <1>1, FS_EmptySet DEF RowsAddedBy

LEMMA CountConcat ==
  ASSUME NEW s \in Seq(ShadowRow), NEW t \in Seq(ShadowRow), NEW e,
         \A i \in 1..Len(t) : t[i].of # e
  PROVE  RowsAddedBy(s \o t, e) <= RowsAddedBy(s, e)
<1> DEFINE u == s \o t
           f == [i \in 1..Len(u) |-> i]
<1>0. Len(s) \in Nat /\ Len(t) \in Nat
  BY LenProperties
<1>1. /\ u \in Seq(ShadowRow) /\ Len(u) = Len(s) + Len(t)
      /\ \A i \in 1..(Len(s) + Len(t)) : u[i] = IF i <= Len(s) THEN s[i] ELSE t[i - Len(s)]
  BY ConcatProperties
<1> HIDE DEF u
<1>2. \A i \in 1..Len(u) : u[i].of = e => i <= Len(s)
  <2> SUFFICES ASSUME NEW i \in 1..Len(u), i > Len(s) PROVE u[i].of # e
    BY <1>0, <1>1
  <2>1. u[i] = t[i - Len(s)] /\ i - Len(s) \in 1..Len(t)
    BY <1>0, <1>1
  <2> QED BY <2>1
<1>3. f \in [1..Len(u) -> Int]
  BY <1>0, <1>1
<1>4. \A i \in 1..Len(u) : u[i].of = e => f[i] \in 1..Len(s) /\ s[f[i]] = u[i]
  BY <1>0, <1>1, <1>2
<1>5. \A i, j \in 1..Len(u) : f[i] = f[j] => i = j
  BY <1>0, <1>1
<1> HIDE DEF f
<1>6. /\ \A i \in 1..Len(u) : u[i].of = e => f[i] \in 1..Len(s) /\ s[f[i]].of = e
      /\ \A i, j \in 1..Len(u) : u[i].of = e /\ u[j].of = e /\ f[i] = f[j] => i = j
  BY <1>4, <1>5
<1>7. u \in Seq(ShadowRow)
  BY <1>1
<1>8. RowsAddedBy(u, e) <= RowsAddedBy(s, e)
  BY <1>3, <1>6, <1>7, CountInjection
<1> QED BY <1>8 DEF u

LEMMA NotLanded ==
  ASSUME TypeOK, TypeOK', NEW e
  PROVE  /\ shadow' = shadow => ~Landed(e)
         /\ shadow' = <<>> => ~Landed(e)
         /\ RowsAddedBy(shadow', e) <= RowsAddedBy(shadow, e) => ~Landed(e)
<1>1. RowsAddedBy(shadow, e) \in Nat /\ RowsAddedBy(shadow', e) \in Nat
  BY CountNat DEF TypeOK
<1>2. ~(RowsAddedBy(shadow', e) > RowsAddedBy(shadow, e)) <=> ~Landed(e)
  BY DEF Landed
<1> QED BY <1>1, <1>2, CountEmpty

(* A live add puts in rows of its own entry only.                          *)
LEMMA LandsOwnOnly ==
  ASSUME TypeOK, TypeOK', NEW t \in Ticket, NEW handles \in Seq(Handle), Insertion(t, handles),
         NEW e, e # t.entry
  PROVE  ~Landed(e)
<1> DEFINE added == Added(t.entry, handles)
<1>0. t.entry \in 0..MaxEntry
  BY JitAssumption DEF Ticket, Entry
<1>1. added \in Seq(ShadowRow) /\ \A i \in 1..Len(added) : added[i].of # e
  <2>1. /\ added \in Seq(ShadowRow) /\ Len(added) = Len(handles)
        /\ \A i \in 1..Len(handles) : added[i].of = t.entry
    BY <1>0, AddedSeq
  <2> HIDE DEF added
  <2> QED BY <2>1
<1>2. /\ Kept(t) \in Seq(ShadowRow) /\ Len(Kept(t)) = Keep(t)
      /\ Keep(t) \in 0..Len(shadow) /\ Position(t) \in 0..Keep(t)
  BY InsertionParts
<1>3. shadow \in Seq(ShadowRow) /\ Len(shadow) \in Nat
  BY ItemOfType
<1>4. shadow' = Splice(Kept(t), Position(t), added)
  BY DEF Insertion
<1> HIDE DEF added
<1>5. RowsAddedBy(shadow', e) <= RowsAddedBy(Kept(t), e)
  BY <1>1, <1>2, <1>4, CountSplice
<1>6. RowsAddedBy(Kept(t), e) <= RowsAddedBy(shadow, e)
  BY <1>2, <1>3, CountSubSeq DEF Kept
<1>7. /\ RowsAddedBy(shadow', e) \in Nat /\ RowsAddedBy(shadow, e) \in Nat
      /\ RowsAddedBy(Kept(t), e) \in Nat
  BY <1>2, CountNat DEF TypeOK
<1>8. RowsAddedBy(shadow', e) <= RowsAddedBy(shadow, e)
  BY <1>5, <1>6, <1>7
<1> QED BY <1>8, NotLanded

LEMMA BatchLandsOwnOnly ==
  ASSUME TypeOK, TypeOK', NEW handles \in Resolution, NEW replace \in BOOLEAN,
         NEW startIndex \in DOMAIN handles, PreloadBatch(handles, startIndex, replace),
         NEW e, e # lastEntry'
  PROVE  ~Landed(e)
<1> DEFINE old == IF replace THEN <<>> ELSE shadow
           added == Added(lastEntry + 1, handles)
<1>1. lastEntry' = lastEntry + 1 /\ lastEntry + 1 \in 0..MaxEntry /\ shadow' = old \o added
  <2>1. lastEntry' = lastEntry + 1 /\ shadow' = old \o added
    BY DEF PreloadBatch
  <2>2. lastEntry' \in 0..MaxEntry
    BY DEF TypeOK
  <2> QED BY <2>1, <2>2
<1>2. handles \in Seq(Handle)
  BY ResolutionSeq
<1>3. added \in Seq(ShadowRow) /\ \A i \in 1..Len(added) : added[i].of # e
  <2>1. /\ added \in Seq(ShadowRow) /\ Len(added) = Len(handles)
        /\ \A i \in 1..Len(handles) : added[i].of = lastEntry + 1
    BY <1>1, <1>2, AddedSeq
  <2> HIDE DEF added
  <2> QED BY <1>1, <2>1
<1>4. /\ old \in Seq(ShadowRow) /\ shadow \in Seq(ShadowRow)
      /\ RowsAddedBy(old, e) <= RowsAddedBy(shadow, e)
  <2>1. shadow \in Seq(ShadowRow) /\ RowsAddedBy(shadow, e) \in Nat
    BY CountNat DEF TypeOK
  <2>2. <<>> \in Seq(ShadowRow) /\ RowsAddedBy(<<>>, e) = 0
    BY EmptySeq, CountEmpty
  <2> QED BY <2>1, <2>2
<1> HIDE DEF old, added
<1>5. RowsAddedBy(shadow', e) <= RowsAddedBy(old, e)
  BY <1>1, <1>3, <1>4, CountConcat
<1>6. /\ RowsAddedBy(shadow', e) \in Nat /\ RowsAddedBy(shadow, e) \in Nat /\ RowsAddedBy(old, e) \in Nat
  BY <1>4, CountNat DEF TypeOK
<1>7. RowsAddedBy(shadow', e) <= RowsAddedBy(shadow, e)
  BY <1>4, <1>5, <1>6
<1> QED BY <1>7, NotLanded

LEMMA PlayedRowsDoNotLand ==
  ASSUME TypeOK, TypeOK', NEW t \in Posted, AttributeNewTrack(t), NEW e
  PROVE  ~Landed(e)
<1> DEFINE checked == IF PlayingRow # NoRow THEN Verify(table, Handles(shadow)) ELSE table
<1>1. shadow' = shadow \/ RemovePlayedRows(checked, PlayingRow)
  BY DEF AttributeNewTrack, ReleaseSession, StayInSession
<1> HIDE DEF checked
<1>2. CASE shadow' = shadow
  BY <1>2, NotLanded
<1>3. CASE shadow' # shadow
  <2>1. PlayingRow > 1 /\ shadow' = SubSeq(shadow, PlayingRow, Len(shadow))
    BY <1>1, <1>3 DEF RemovePlayedRows
  <2>2. /\ PlayingRow \in Nat \ {0} /\ shadow \in Seq(ShadowRow) /\ Len(shadow) \in 0..Len(shadow)
    BY <2>1, PlayingRowIs, ItemOfType
  <2>3. RowsAddedBy(shadow', e) <= RowsAddedBy(shadow, e)
    BY <2>1, <2>2, CountSubSeq
  <2> QED BY <2>3, NotLanded
<1> QED BY <1>2, <1>3

LEMMA EditsDoNotLand ==
  ASSUME TypeOK, TypeOK', UserAppends \/ UserRemoves, NEW e \in Entry
  PROVE  ~Landed(e)
<1>0. shadow \in Seq(ShadowRow) /\ Len(shadow) \in Nat /\ DOMAIN shadow = 1..Len(shadow)
  BY ItemOfType
<1>1. CASE UserRemoves
  <2>1. PICK row \in 1..Len(shadow) : shadow' = Cut(shadow, row, row)
    BY <1>0, <1>1 DEF UserRemoves
  <2> QED BY <1>0, <2>1, CountCut, NotLanded
<1>2. CASE UserAppends
  <2>1. PICK h \in Foreign : shadow' = shadow \o Added(NoEntry, <<h>>)
    BY <1>2 DEF UserAppends
  <2> DEFINE hs == <<h>>
             added == Added(NoEntry, hs)
  <2>2. hs \in Seq(Handle)
    BY DEF Handle
  <2>3. NoEntry \in 0..MaxEntry /\ e # NoEntry
    BY JitAssumption DEF NoEntry, Entry
  <2>4. shadow' = shadow \o added
    BY <2>1
  <2>5. added \in Seq(ShadowRow) /\ \A i \in 1..Len(added) : added[i].of # e
    <3> HIDE DEF hs
    <3>1. /\ added \in Seq(ShadowRow) /\ Len(added) = Len(hs)
          /\ \A i \in 1..Len(hs) : added[i].of = NoEntry
      BY <2>2, <2>3, AddedSeq
    <3> HIDE DEF added
    <3> QED BY <2>3, <3>1
  <2> HIDE DEF added
  <2>6. RowsAddedBy(shadow', e) <= RowsAddedBy(shadow, e)
    BY <1>0, <2>4, <2>5, CountConcat
  <2> QED BY <2>6, NotLanded
<1> QED BY <1>1, <1>2

LEMMA LandsLive ==
  ASSUME Inv, TypeOK', NEW t \in resolving, UNCHANGED <<currentEntry, nextEntry>>,
         ResolutionAborted(t) \/ \E handles \in Resolution : Resolved(t, handles),
         NEW e, Landed(e)
  PROVE  e \in {currentEntry', nextEntry'} /\ state' # "Idle"
<1>0. TypeOK /\ TicketsExact /\ t \in Adds /\ t \in Ticket
  BY Waiting DEF Inv, Adds
<1>1. shadow' # shadow
  BY <1>0, NotLanded
<1>2. PICK handles \in Resolution : Resolved(t, handles)
  BY <1>1 DEF ResolutionAborted, playerVars
<1>3. IsLive(t) /\ handles # <<>> /\ Insertion(t, handles)
  BY <1>1, <1>2 DEF Resolved, HandleResolvedItems, playerVars
<1>4. handles \in Seq(Handle)
  BY ResolutionSeq
<1>5. e = t.entry
  BY <1>0, <1>3, <1>4, LandsOwnOnly
<1>6. state # "Idle" /\ t.entry \in {currentEntry, nextEntry}
  <2>1. t.slot \in {"Current", "Next"}
    BY <1>0 DEF Ticket
  <2> QED BY <1>0, <1>3, <2>1 DEF IsLive, TicketsExact
<1>7. state' # "Idle"
  BY <1>3, <1>6 DEF Insertion
<1> QED BY <1>5, <1>6, <1>7

(* No row reaches the shadow playlist for an entry that holds neither slot *)
(* of a session: an add whose generation has passed (TakeNext, EndSession) *)
(* has no effect when it resolves, whatever happened in between.           *)
THEOREM SupersededAddsNothing == Spec => SupersededNeverLands
<1> DEFINE P == \A e \in Entry : Landed(e) =>
                  /\ e \in {currentEntry', nextEntry'} \/ e \notin 1..lastEntry
                  /\ state' # "Idle"
<1>1. ASSUME Inv, Inv', [Next]_vars PROVE [P]_vars
  <2> SUFFICES ASSUME Next, NEW e \in Entry, Landed(e)
               PROVE  /\ e \in {currentEntry', nextEntry'} \/ e \notin 1..lastEntry
                      /\ state' # "Idle"
    BY <1>1
  <2>0. TypeOK /\ TypeOK'
    BY <1>1 DEF Inv
  <2>1. shadow' # shadow /\ shadow' # <<>>
    BY <2>0, NotLanded
  <2>2. CASE MainThread
    <3>1. ~RequestNextTrack
      BY <2>1 DEF RequestNextTrack, playerVars
    <3>2. ASSUME NEW t \in Posted PROVE ~AddToPlaylist(t)
      BY <2>1 DEF AddToPlaylist
    <3> QED BY <2>0, <2>2, <3>1, <3>2, PlayedRowsDoNotLand DEF MainThread
  <2>3. CASE Page
    <3>1. PICK handles \in Resolution, replace \in BOOLEAN :
            \E startIndex \in DOMAIN handles : PreloadBatch(handles, startIndex, replace)
      BY <2>1, <2>3 DEF Page, PlayNow, EnqueueNext, Skip, Clear, NotifyEmpty, Stop, Emptied, playerVars
    <3>2. e = lastEntry'
      BY <2>0, <3>1, BatchLandsOwnOnly
    <3>3. lastEntry' = lastEntry + 1 /\ lastEntry \in Nat
      BY <2>0, <3>1 DEF PreloadBatch, TypeOK
    <3>4. state' = "Active"
      BY <3>1 DEF PreloadBatch, AlreadyPlaying
    <3> QED BY <3>2, <3>3, <3>4
  <2>4. CASE Locations
    <3>1. PICK t \in resolving : ResolutionAborted(t) \/ \E handles \in Resolution : Resolved(t, handles)
      BY <2>4 DEF Locations
    <3>2. UNCHANGED <<currentEntry, nextEntry>>
      BY <3>1 DEF ResolutionAborted, Resolved, HandleResolvedItems, commandVars
    <3> QED BY <1>1, <2>0, <3>1, <3>2, LandsLive
  <2>5. CASE Player
    BY <2>1, <2>5 DEF Player, NewTrack, PlaybackEnds, NextFollows, PlaybackTime, UserPlays, UserStops,
                      OnShadowPlaylistRemoved, playerVars
  <2>6. CASE UserAppends \/ UserRemoves
    BY <2>0, <2>6, EditsDoNotLand
  <2>7. MainThread \/ Page \/ Locations \/ Player \/ UserAppends \/ UserRemoves
    BY DEF Next
  <2> QED BY <2>2, <2>3, <2>4, <2>5, <2>6, <2>7
<1> QED BY <1>1, InvAlways, PTL DEF Spec, SupersededNeverLands

-----------------------------------------------------------------------------
(* The table against the playlist.                                         *)
LEMMA VerifySettles ==
  ASSUME NEW tb \in TableType, NEW L \in Seq(ShadowRow),
         tb.stale \/ Fits(tb.rows, L) \/ Len(tb.rows) > Len(L)
  PROVE  Settled(Verify(tb, Handles(L)), L)
<1> DEFINE v == Verify(tb, Handles(L))
           n == Len(tb.rows)
<1>1. /\ v \in TableType
      /\ ~v.stale =>
           /\ ~tb.stale /\ n <= Len(L) /\ Len(v.rows) = Len(L)
           /\ \A i \in 1..n : v.rows[i] = tb.rows[i]
           /\ \A i \in (n + 1)..Len(L) : v.rows[i] = Row(NoEntry, "Single", L[i].handle)
  BY VerifyTable
<1>2. n \in Nat /\ Len(L) \in Nat
  BY RowCount, LenProperties
<1> SUFFICES ASSUME ~v.stale PROVE Fits(v.rows, L) /\ Len(v.rows) = Len(L)
  BY DEF Settled
<1> HIDE DEF v
<1>3. Fits(tb.rows, L)
  BY <1>1, <1>2
<1>4. ASSUME NEW i \in 1..Len(L)
      PROVE  /\ v.rows[i].handle = L[i].handle
             /\ v.rows[i].kind = "Single" => v.rows[i].entry \in {NoEntry, L[i].of}
  <2>1. CASE i <= n
    <3>1. i \in 1..n /\ v.rows[i] = tb.rows[i]
      BY <1>1, <1>2, <2>1
    <3> QED BY <1>3, <3>1 DEF Fits
  <2>2. CASE i > n
    <3>1. v.rows[i] = Row(NoEntry, "Single", L[i].handle)
      BY <1>1, <1>2, <2>2
    <3> QED BY <3>1 DEF Row
  <2> QED BY <1>2, <2>1, <2>2
<1>5. Len(v.rows) = Len(L)
  BY <1>1
<1> QED BY <1>2, <1>4, <1>5 DEF Fits

LEMMA PrefixFits ==
  ASSUME NEW tb \in TableType, NEW L \in Seq(ShadowRow), Settled(tb, L),
         NEW keep \in 0..Len(L), keep < Len(L),
         NEW K \in Seq(ShadowRow), Len(K) = keep, \A i \in 1..keep : K[i] = L[i]
  PROVE  LET r == Remove(tb, keep + 1, Len(L)) IN r.stale \/ Fits(r.rows, K)
<1> DEFINE r == Remove(tb, keep + 1, Len(L))
           rows == Cut(tb.rows, keep + 1, Len(tb.rows))
<1>0. Len(L) \in Nat
  BY LenProperties
<1>1. CASE tb.stale
  BY <1>1 DEF Remove
<1>2. CASE ~tb.stale
  <2>1. Fits(tb.rows, L) /\ Len(tb.rows) = Len(L)
    BY <1>2 DEF Settled
  <2>2. r = [tb EXCEPT !.rows = rows]
    BY <1>0, <1>2, <2>1 DEF Remove
  <2>3. keep + 1 \in 1..Len(tb.rows) /\ Len(tb.rows) \in (keep + 1)..Len(tb.rows)
    BY <1>0, <2>1
  <2>4. /\ rows \in Seq(TableRow) /\ Len(rows) = Len(tb.rows) - (Len(tb.rows) - (keep + 1) + 1)
        /\ \A i \in 1..Len(rows) :
             rows[i] = IF i < keep + 1 THEN tb.rows[i] ELSE tb.rows[i + (Len(tb.rows) - (keep + 1) + 1)]
    BY <2>3, RowCount, CutParts
  <2> HIDE DEF rows, r
  <2>5. Len(rows) = keep /\ \A i \in 1..keep : rows[i] = tb.rows[i]
    BY <1>0, <2>1, <2>4
  <2>6. r.rows = rows
    BY <2>2, <2>4, WithRows
  <2>7. \A i \in 1..keep : /\ rows[i].handle = K[i].handle
                           /\ rows[i].kind = "Single" => rows[i].entry \in {NoEntry, K[i].of}
    <3> SUFFICES ASSUME NEW i \in 1..keep
                 PROVE  /\ rows[i].handle = K[i].handle
                        /\ rows[i].kind = "Single" => rows[i].entry \in {NoEntry, K[i].of}
      OBVIOUS
    <3>1. i \in 1..Len(tb.rows) /\ rows[i] = tb.rows[i] /\ K[i] = L[i]
      BY <1>0, <2>1, <2>5
    <3> QED BY <2>1, <3>1 DEF Fits
  <2> QED BY <1>0, <2>5, <2>6, <2>7 DEF Fits, r
<1> QED BY <1>1, <1>2

LEMMA SuffixSettled ==
  ASSUME NEW tb \in TableType, NEW L \in Seq(ShadowRow), Settled(tb, L), ~tb.stale,
         NEW row \in 1..Len(L), row > 1
  PROVE  LET r == Remove(tb, 1, row - 1)
             K == SubSeq(L, row, Len(L)) IN
         /\ Settled(r, K)
         /\ 1 \in DOMAIN r.rows /\ r.rows[1] = tb.rows[row] /\ K[1] = L[row]
<1> DEFINE r == Remove(tb, 1, row - 1)
           K == SubSeq(L, row, Len(L))
           rows == Cut(tb.rows, 1, row - 1)
<1>0. Len(L) \in Nat
  BY LenProperties
<1>1. Fits(tb.rows, L) /\ Len(tb.rows) = Len(L)
  BY DEF Settled
<1>2. r = [tb EXCEPT !.rows = rows]
  BY <1>0, <1>1 DEF Remove
<1>3. 1 \in 1..Len(tb.rows) /\ row - 1 \in 1..Len(tb.rows)
  BY <1>0, <1>1
<1>4. /\ rows \in Seq(TableRow) /\ Len(rows) = Len(tb.rows) - ((row - 1) - 1 + 1)
      /\ \A i \in 1..Len(rows) :
           rows[i] = IF i < 1 THEN tb.rows[i] ELSE tb.rows[i + ((row - 1) - 1 + 1)]
  <2>1. tb.rows \in Seq(TableRow) /\ row - 1 \in 1..Len(tb.rows) /\ 1 \in 1..Len(tb.rows)
    BY <1>3, RowCount
  <2>2. \A s \in Seq(TableRow) : \A first \in 1..Len(s) : \A last \in first..Len(s) :
          /\ Cut(s, first, last) \in Seq(TableRow)
          /\ Len(Cut(s, first, last)) = Len(s) - (last - first + 1)
          /\ \A i \in 1..Len(Cut(s, first, last)) :
               Cut(s, first, last)[i] = IF i < first THEN s[i] ELSE s[i + (last - first + 1)]
    BY CutParts
  <2> QED BY <2>1, <2>2
<1>5. /\ K \in Seq(ShadowRow) /\ Len(K) = IF row <= Len(L) THEN Len(L) - row + 1 ELSE 0
      /\ \A i \in 1..(Len(L) - row + 1) : K[i] = L[row + i - 1]
  BY <1>0, SubSeqInside
<1> HIDE DEF rows, r, K
<1>6. Len(rows) = Len(K) /\ Len(K) = Len(L) - row + 1
  BY <1>0, <1>1, <1>4, <1>5
<1>7. ASSUME NEW i \in 1..Len(K)
      PROVE  rows[i] = tb.rows[row + i - 1] /\ K[i] = L[row + i - 1] /\ row + i - 1 \in 1..Len(L)
  <2>1. i + ((row - 1) - 1 + 1) = row + i - 1 /\ ~(i < 1)
    BY <1>0, <1>6
  <2>2. rows[i] = tb.rows[i + ((row - 1) - 1 + 1)]
    BY <1>4, <1>6, <2>1
  <2>3. K[i] = L[row + i - 1]
    BY <1>5, <1>6
  <2>4. row + i - 1 \in 1..Len(L)
    BY <1>0, <1>6
  <2> QED BY <2>1, <2>2, <2>3, <2>4
<1>8. r.rows = rows /\ DOMAIN rows = 1..Len(rows)
  BY <1>2, <1>4, WithRows, LenProperties
<1>9. Fits(rows, K)
  <2>1. ASSUME NEW i \in 1..Len(rows)
        PROVE  /\ rows[i].handle = K[i].handle
               /\ rows[i].kind = "Single" => rows[i].entry \in {NoEntry, K[i].of}
    <3>1. rows[i] = tb.rows[row + i - 1] /\ K[i] = L[row + i - 1] /\ row + i - 1 \in 1..Len(tb.rows)
      BY <1>1, <1>6, <1>7
    <3> QED BY <1>1, <3>1 DEF Fits
  <2> QED BY <1>0, <1>6, <2>1 DEF Fits
<1>10. 1 \in 1..Len(K) /\ row + 1 - 1 = row
  BY <1>0, <1>6
<1>11. rows[1] = tb.rows[row] /\ K[1] = L[row]
  BY <1>7, <1>10
<1>12. Settled(r, K) /\ 1 \in DOMAIN r.rows /\ r.rows[1] = tb.rows[row]
  BY <1>6, <1>8, <1>9, <1>10, <1>11 DEF Settled
<1> QED BY <1>11, <1>12 DEF r, K

LEMMA InsertSettled ==
  ASSUME NEW tb \in TableType, NEW L \in Seq(ShadowRow), Settled(tb, L), NEW at \in 0..Len(L),
         NEW e \in 0..MaxEntry, NEW kind \in {"Single", "Batch"}, NEW handles \in Seq(Handle)
  PROVE  Settled(Insert(tb, at, e, kind, handles), Splice(L, at, Added(e, handles)))
<1> DEFINE r == Insert(tb, at, e, kind, handles)
           added == Added(e, handles)
           K == Splice(L, at, added)
           new == RowsOf(e, kind, handles)
           rows == Splice(tb.rows, at, new)
<1>0. Len(L) \in Nat /\ Len(handles) \in Nat
  BY LenProperties
<1>1. CASE tb.stale
  BY <1>1 DEF Insert, Settled
<1>2. CASE ~tb.stale
  <2>1. Fits(tb.rows, L) /\ Len(tb.rows) = Len(L)
    BY <1>2 DEF Settled
  <2>2. r = [tb EXCEPT !.rows = rows]
    <3>1. ~(at > Len(tb.rows))
      BY <1>0, <2>1
    <3> QED BY <1>2, <3>1 DEF Insert
  <2>3. /\ added \in Seq(ShadowRow) /\ Len(added) = Len(handles)
        /\ \A i \in 1..Len(handles) : added[i].handle = handles[i] /\ added[i].of = e
    BY AddedSeq
  <2>4. /\ new \in Seq(TableRow) /\ Len(new) = Len(handles)
        /\ \A i \in 1..Len(handles) : new[i] = Row(e, kind, handles[i])
    BY RowsOfSeq
  <2> HIDE DEF added, new
  <2>5. /\ K \in Seq(ShadowRow) /\ Len(K) = Len(L) + Len(added)
        /\ \A i \in 1..(Len(L) + Len(added)) :
             K[i] = IF i <= at THEN L[i] ELSE IF i <= at + Len(added) THEN added[i - at] ELSE L[i - Len(added)]
    BY <2>3, SpliceParts
  <2>6. /\ rows \in Seq(TableRow) /\ Len(rows) = Len(tb.rows) + Len(new)
        /\ \A i \in 1..(Len(tb.rows) + Len(new)) :
             rows[i] = IF i <= at THEN tb.rows[i]
                       ELSE IF i <= at + Len(new) THEN new[i - at] ELSE tb.rows[i - Len(new)]
    <3>1. tb.rows \in Seq(TableRow) /\ at \in 0..Len(tb.rows) /\ new \in Seq(TableRow)
      BY <2>1, <2>4, RowCount
    <3> QED BY <3>1, SpliceParts
  <2> HIDE DEF K, rows, r
  <2>7. Len(rows) = Len(K) /\ Len(K) = Len(L) + Len(handles)
    BY <2>1, <2>3, <2>4, <2>5, <2>6
  <2>8. ASSUME NEW i \in 1..Len(K)
        PROVE  /\ rows[i].handle = K[i].handle
               /\ rows[i].kind = "Single" => rows[i].entry \in {NoEntry, K[i].of}
    <3>1. CASE i <= at
      <4>1. rows[i] = tb.rows[i] /\ K[i] = L[i] /\ i \in 1..Len(tb.rows)
        BY <1>0, <2>1, <2>3, <2>4, <2>5, <2>6, <2>7, <3>1
      <4> QED BY <2>1, <4>1 DEF Fits
    <3>2. CASE i > at /\ i <= at + Len(handles)
      <4>0. ~(i <= at) /\ i <= at + Len(added) /\ i <= at + Len(new) /\ i - at \in 1..Len(handles)
        BY <1>0, <2>3, <2>4, <3>2
      <4>1. rows[i] = new[i - at] /\ K[i] = added[i - at]
        BY <2>3, <2>4, <2>5, <2>6, <2>1, <2>7, <4>0
      <4>2. /\ new[i - at] = Row(e, kind, handles[i - at])
            /\ added[i - at].handle = handles[i - at] /\ added[i - at].of = e
        BY <2>3, <2>4, <4>0
      <4> QED BY <4>1, <4>2 DEF Row
    <3>3. CASE i > at + Len(handles)
      <4>0. ~(i <= at) /\ ~(i <= at + Len(added)) /\ ~(i <= at + Len(new)) /\ i - Len(handles) \in 1..Len(L)
        BY <1>0, <2>3, <2>4, <2>7, <3>3
      <4>1. rows[i] = tb.rows[i - Len(handles)] /\ K[i] = L[i - Len(handles)]
        BY <2>3, <2>4, <2>5, <2>6, <2>1, <2>7, <4>0
      <4> QED BY <2>1, <4>0, <4>1 DEF Fits
    <3> QED BY <1>0, <3>1, <3>2, <3>3
  <2>9. r.rows = rows
    BY <2>2, <2>6, WithRows
  <2>10. Len(K) \in Nat
    BY <1>0, <2>7
  <2>11. Fits(rows, K)
    BY <2>7, <2>8, <2>10 DEF Fits
  <2>12. Settled(r, K)
    BY <2>7, <2>9, <2>11 DEF Settled
  <2> QED BY <2>12 DEF r, K, added
<1> QED BY <1>1, <1>2

(* The three ways a step leaves the table right: it touches neither the    *)
(* table nor the playlist; it starts an empty table; or what it has done   *)
(* follows a comparison.                                                   *)
TableFits == table.stale \/ Fits(table.rows, shadow) \/ Len(table.rows) > Len(shadow)

LEMMA TableKept ==
  ASSUME TableExact, UNCHANGED <<table, shadow, edits>>, ~hasShadow' => ~hasShadow
  PROVE  TableExact'
BY DEF TableExact, Fits, Settled

LEMMA TableSettled ==
  ASSUME TypeOK', Settled(table', shadow'), ~hasShadow' => shadow' = <<>>
  PROVE  TableExact'
BY DEF TableExact, Fits, Settled

LEMMA TableReset ==
  ASSUME TypeOK', table' = Reset, ~hasShadow' => shadow' = <<>>
  PROVE  TableExact'
<1>1. ~table'.stale /\ table'.rows = <<>> /\ Len(table'.rows) = 0
  BY ResetTable
<1>2. Len(shadow') \in Nat
  BY LenProperties DEF TypeOK
<1>3. Fits(table'.rows, shadow')
  BY <1>1, <1>2 DEF Fits
<1> QED BY <1>1, <1>3 DEF TableExact, Fits, Settled

LEMMA TableChecked ==
  ASSUME TypeOK, TableExact
  PROVE  /\ table \in TableType /\ shadow \in Seq(ShadowRow) /\ TableFits
         /\ Verify(table, Handles(shadow)) \in TableType
         /\ Settled(Verify(table, Handles(shadow)), shadow)
<1>1. table \in TableType /\ shadow \in Seq(ShadowRow)
  BY DEF TypeOK, TableType
<1>2. TableFits
  BY DEF TableExact, TableFits
<1>3. table.stale \/ Fits(table.rows, shadow) \/ Len(table.rows) > Len(shadow)
  BY <1>2 DEF TableFits
<1>4. Settled(Verify(table, Handles(shadow)), shadow)
  BY <1>1, <1>3, VerifySettles
<1>5. Verify(table, Handles(shadow)) \in TableType
  BY <1>1, VerifyTable
<1> QED BY <1>1, <1>2, <1>4, <1>5

(* The rows of a live add: what is kept is compared, then the rows go into *)
(* the playlist and the table at the same position.                        *)
LEMMA KeptSettled ==
  ASSUME TypeOK, TableExact, NEW t \in Ticket
  PROVE  Settled(KeptTable(t), Kept(t))
<1> DEFINE v == Verify(table, Handles(shadow))
           shrunk == Remove(v, Keep(t) + 1, Len(shadow))
           tb == IF Replaces(t) THEN shrunk ELSE table
           K == Kept(t)
<1>0. /\ Keep(t) \in 0..Len(shadow) /\ K \in Seq(ShadowRow) /\ Len(K) = Keep(t)
      /\ \A i \in 1..Keep(t) : K[i] = shadow[i]
      /\ Len(shadow) \in Nat
  BY InsertionParts, ItemOfType
<1>1. /\ table \in TableType /\ shadow \in Seq(ShadowRow) /\ TableFits
      /\ v \in TableType /\ Settled(v, shadow)
  BY TableChecked
<1>2. KeptTable(t) = Verify(tb, Handles(K))
  BY DEF KeptTable
<1>3. CASE Replaces(t)
  <2>1. Keep(t) < Len(shadow)
    BY <1>3 DEF Replaces, Keep
  <2> HIDE DEF v, K
  <2>2. shrunk.stale \/ Fits(shrunk.rows, K)
    BY <1>0, <1>1, <2>1, PrefixFits
  <2>3. shrunk \in TableType
    <3>1. Keep(t) + 1 \in Nat \ {0} /\ Keep(t) + 1 <= Len(shadow)
      BY <1>0, <2>1
    <3> QED BY <1>0, <1>1, <3>1, RemoveTable
  <2> HIDE DEF shrunk
  <2>4. Settled(Verify(shrunk, Handles(K)), K)
    BY <1>0, <2>2, <2>3, VerifySettles
  <2> QED BY <1>2, <1>3, <2>4 DEF K
<1>4. CASE ~Replaces(t)
  <2>1. Keep(t) = Len(shadow)
    BY <1>4 DEF Keep
  <2> HIDE DEF v, K
  <2>2. table.stale \/ Fits(table.rows, K) \/ Len(table.rows) > Len(K)
    <3>1. CASE Fits(table.rows, shadow)
      <4>1. Len(table.rows) \in Nat /\ Len(table.rows) <= Len(K)
        BY <1>0, <1>1, <2>1, <3>1, RowCount DEF Fits
      <4>2. ASSUME NEW i \in 1..Len(table.rows)
            PROVE  /\ table.rows[i].handle = K[i].handle
                   /\ table.rows[i].kind = "Single" => table.rows[i].entry \in {NoEntry, K[i].of}
        <5>1. K[i] = shadow[i]
          BY <1>0, <4>1
        <5> QED BY <3>1, <5>1 DEF Fits
      <4> QED BY <4>1, <4>2 DEF Fits
    <3> QED BY <1>0, <1>1, <2>1, <3>1 DEF TableFits
  <2>3. Settled(Verify(table, Handles(K)), K)
    BY <1>0, <1>1, <2>2, VerifySettles
  <2> QED BY <1>2, <1>4, <2>3 DEF K
<1> QED BY <1>3, <1>4

LEMMA InsertionSettles ==
  ASSUME TypeOK, TypeOK', TableExact, NEW t \in Ticket, NEW handles \in Resolution,
         Insertion(t, handles), hasShadow'
  PROVE  TableExact'
<1>1. handles \in Seq(Handle) /\ t.entry \in 0..MaxEntry
  BY ResolutionSeq, JitAssumption DEF Ticket, Entry
<1>2. /\ Kept(t) \in Seq(ShadowRow) /\ KeptTable(t) \in TableType
      /\ Position(t) \in 0..Len(Kept(t))
  BY InsertionParts
<1>3. Settled(KeptTable(t), Kept(t))
  BY KeptSettled
<1>4. /\ shadow' = Splice(Kept(t), Position(t), Added(t.entry, handles))
      /\ table' = Insert(KeptTable(t), Position(t), t.entry, "Single", handles)
  BY DEF Insertion
<1>5. Settled(table', shadow')
  BY <1>1, <1>2, <1>3, <1>4, InsertSettled
<1> QED BY <1>5, TableSettled

LEMMA SpliceEnd ==
  ASSUME NEW S, NEW s \in Seq(S), NEW t \in Seq(S)
  PROVE  Splice(s, Len(s), t) = s \o t
<1> DEFINE u == Splice(s, Len(s), t)
           w == s \o t
<1>0. Len(s) \in Nat /\ Len(t) \in Nat /\ Len(s) \in 0..Len(s)
  BY LenProperties
<1>1. /\ u \in Seq(S) /\ Len(u) = Len(s) + Len(t)
      /\ \A i \in 1..(Len(s) + Len(t)) :
           u[i] = IF i <= Len(s) THEN s[i] ELSE IF i <= Len(s) + Len(t) THEN t[i - Len(s)] ELSE s[i - Len(t)]
  BY <1>0, SpliceParts
<1>2. /\ w \in Seq(S) /\ Len(w) = Len(s) + Len(t)
      /\ \A i \in 1..(Len(s) + Len(t)) : w[i] = IF i <= Len(s) THEN s[i] ELSE t[i - Len(s)]
  BY ConcatProperties
<1> HIDE DEF u, w
<1>3. ASSUME NEW i \in 1..Len(u) PROVE u[i] = w[i]
  <2>1. i \in 1..(Len(s) + Len(t))
    BY <1>1
  <2>2. CASE i <= Len(s)
    <3>1. u[i] = s[i] /\ w[i] = s[i]
      BY <1>1, <1>2, <2>1, <2>2
    <3> QED BY <3>1
  <2>3. CASE ~(i <= Len(s))
    <3>1. i <= Len(s) + Len(t)
      BY <1>0, <2>1
    <3>2. u[i] = t[i - Len(s)] /\ w[i] = t[i - Len(s)]
      BY <1>1, <1>2, <2>1, <2>3, <3>1
    <3> QED BY <3>2
  <2> QED BY <2>2, <2>3
<1>4. Len(u) = Len(w)
  BY <1>1, <1>2
<1>5. u = w
  BY <1>1, <1>2, <1>3, <1>4, SeqEqual
<1> QED BY <1>5 DEF u, w

LEMMA TablePreload ==
  ASSUME TypeOK, TypeOK', TableExact, NEW handles \in Resolution, NEW replace \in BOOLEAN,
         NEW startIndex \in DOMAIN handles, PreloadBatch(handles, startIndex, replace)
  PROVE  TableExact'
<1> DEFINE old == IF replace THEN <<>> ELSE shadow
           checked == Verify(IF replace THEN Reset ELSE table, Handles(old))
           e == lastEntry + 1
           added == Added(e, handles)
           new == old \o added
<1>1. /\ lastEntry' = e /\ hasShadow' = TRUE /\ shadow' = new
      /\ IF AlreadyPlaying(replace)
         THEN table' = Insert(checked, Len(old), e, "Batch", handles)
         ELSE table' = ResetAsBatch(Handles(new), e)
  BY DEF PreloadBatch
<1>2. handles \in Seq(Handle) /\ e \in 0..MaxEntry /\ new \in Seq(ShadowRow)
  BY <1>1, ResolutionSeq DEF TypeOK
<1> HIDE DEF e
<1>3. CASE AlreadyPlaying(replace)
  <2>1. old = shadow /\ checked = Verify(table, Handles(shadow))
    BY <1>3 DEF AlreadyPlaying
  <2>2. shadow \in Seq(ShadowRow) /\ checked \in TableType /\ Settled(checked, shadow)
    BY <2>1, TableChecked
  <2>3. added \in Seq(ShadowRow) /\ Len(shadow) \in 0..Len(shadow)
    BY <1>2, AddedSeq, ItemOfType
  <2>4. table' = Insert(checked, Len(shadow), e, "Batch", handles) /\ shadow' = shadow \o added
    BY <1>1, <1>3, <2>1
  <2> HIDE DEF checked
  <2>5. Settled(table', Splice(shadow, Len(shadow), added))
    BY <1>2, <2>2, <2>3, <2>4, InsertSettled
  <2> HIDE DEF added
  <2>6. Splice(shadow, Len(shadow), added) = shadow'
    BY <2>2, <2>3, <2>4, SpliceEnd
  <2> QED BY <1>1, <2>5, <2>6, TableSettled
<1>4. CASE ~AlreadyPlaying(replace)
  <2>1. table' = ResetAsBatch(Handles(new), e)
    BY <1>1, <1>4
  <2> HIDE DEF new
  <2> QED BY <1>1, <1>2, <2>1, BatchTable, TableSettled
<1> QED BY <1>3, <1>4

(* The row that a step of the session goes on with, before and after the   *)
(* played rows have gone.                                                  *)
LEMMA StayRow ==
  ASSUME TypeOK, TableExact,
         NEW checked, checked = (IF PlayingRow # NoRow THEN Verify(table, Handles(shadow)) ELSE table),
         NEW attribution,
         attribution = Attribute(checked, PlayingRow, currentEntry, nextEntry, state = "Idle"),
         attribution # "Release", RemovePlayedRows(checked, PlayingRow), hasShadow' = hasShadow
  PROVE  /\ PlayingRow # NoRow /\ hasShadow /\ item.list = "shadow"
         /\ checked \in TableType /\ ~checked.stale /\ Fits(checked.rows, shadow)
         /\ PlayingRow \in 1..Len(checked.rows)
         /\ Settled(table', shadow')
         /\ PlayingRow' # NoRow /\ PlayingRow' \in DOMAIN table'.rows
         /\ table'.rows[PlayingRow'] = checked.rows[PlayingRow]
         /\ shadow'[PlayingRow'] = shadow[PlayingRow]
<1>1. PlayingRow # NoRow /\ ~checked.stale
  BY DEF Attribute
<1>2. checked = Verify(table, Handles(shadow))
  BY <1>1
<1>3. shadow \in Seq(ShadowRow) /\ checked \in TableType /\ Settled(checked, shadow)
  BY <1>2, TableChecked
<1>4. Len(shadow) \in Nat /\ item \in ItemType(Len(shadow))
  BY ItemOfType
<1>5. /\ PlayingRow \in 1..Len(shadow) /\ hasShadow /\ item.list = "shadow" /\ item.row = PlayingRow
  BY <1>1, <1>4, PlayingRowIs DEF NoRow
<1>6. Fits(checked.rows, shadow) /\ Len(checked.rows) = Len(shadow) /\ DOMAIN checked.rows = 1..Len(shadow)
  BY <1>1, <1>3, RowCount DEF Settled
<1>7. CASE PlayingRow > 1
  <2>1. /\ shadow' = SubSeq(shadow, PlayingRow, Len(shadow))
        /\ table' = Remove(checked, 1, PlayingRow - 1)
        /\ item' = Shrunk(item, 1, PlayingRow - 1)
    BY <1>1, <1>7 DEF RemovePlayedRows
  <2>2. /\ Settled(Remove(checked, 1, PlayingRow - 1), SubSeq(shadow, PlayingRow, Len(shadow)))
        /\ 1 \in DOMAIN Remove(checked, 1, PlayingRow - 1).rows
        /\ Remove(checked, 1, PlayingRow - 1).rows[1] = checked.rows[PlayingRow]
        /\ SubSeq(shadow, PlayingRow, Len(shadow))[1] = shadow[PlayingRow]
    BY <1>1, <1>3, <1>5, <1>7, SuffixSettled
  <2>3. item'.row = PlayingRow - ((PlayingRow - 1) - 1 + 1) /\ item'.list = "shadow"
    <3>1. 1 \in 1..(Len(shadow) + 1) /\ PlayingRow - 1 \in (1 - 1)..Len(shadow) /\ item.row > PlayingRow - 1
      BY <1>4, <1>5, <1>7
    <3>2. /\ Shrunk(item, 1, PlayingRow - 1).row = item.row - ((PlayingRow - 1) - 1 + 1)
          /\ Shrunk(item, 1, PlayingRow - 1).list = "shadow"
      BY <1>4, <1>5, <3>1, ShrunkType
    <3> QED BY <1>5, <2>1, <3>2
  <2>4. PlayingRow' = 1
    <3>1. item'.row = 1
      <4>1. PlayingRow \in Int
        BY <1>4, <1>5
      <4>2. (PlayingRow - 1) - 1 + 1 = PlayingRow - 1 /\ PlayingRow - (PlayingRow - 1) = 1
        BY <4>1
      <4> QED BY <2>3, <4>2
    <3> QED BY <1>5, <2>3, <3>1 DEF PlayingRow
  <2> QED BY <1>1, <1>3, <1>5, <1>6, <2>1, <2>2, <2>4 DEF NoRow
<1>8. CASE ~(PlayingRow > 1)
  <2>1. table' = checked /\ UNCHANGED <<shadow, item>>
    BY <1>8 DEF RemovePlayedRows
  <2>2. PlayingRow' = PlayingRow
    BY <2>1 DEF PlayingRow
  <2> QED BY <1>1, <1>3, <1>5, <1>6, <2>1, <2>2
<1> QED BY <1>7, <1>8

LEMMA TableAttribute ==
  ASSUME TypeOK, TypeOK', TableExact, NEW t \in Posted, AttributeNewTrack(t), UNCHANGED edits
  PROVE  TableExact'
<1> DEFINE checked == IF PlayingRow # NoRow THEN Verify(table, Handles(shadow)) ELSE table
           attribution == Attribute(checked, PlayingRow, currentEntry, nextEntry, state = "Idle")
<1>1. hasShadow' = hasShadow /\ (~hasShadow => shadow = <<>>)
  BY DEF AttributeNewTrack, TableExact
<1>2. \/ UNCHANGED <<table, shadow>>
      \/ ReleaseSession(checked)
      \/ attribution # "Release" /\ StayInSession(attribution, checked)
  BY DEF AttributeNewTrack
<1>3. CASE UNCHANGED <<table, shadow>>
  BY <1>1, <1>3, TableKept
<1>4. CASE ReleaseSession(checked)
  <2>1. shadow' = shadow /\ (table' = checked \/ table' = Reset)
    BY <1>4 DEF ReleaseSession
  <2>2. CASE table' = Reset
    BY <1>1, <2>1, <2>2, TableReset
  <2>3. CASE table' = checked /\ PlayingRow # NoRow
    <3>1. Settled(table', shadow')
      BY <2>1, <2>3, TableChecked
    <3> QED BY <1>1, <2>1, <3>1, TableSettled
  <2>4. CASE table' = checked /\ PlayingRow = NoRow
    BY <1>1, <2>1, <2>4, TableKept
  <2> QED BY <2>1, <2>2, <2>3, <2>4
<1>5. CASE attribution # "Release" /\ StayInSession(attribution, checked)
  <2>1. attribution # "Release" /\ RemovePlayedRows(checked, PlayingRow)
    BY <1>5 DEF StayInSession
  <2> HIDE DEF attribution
  <2>2. attribution = Attribute(checked, PlayingRow, currentEntry, nextEntry, state = "Idle")
    BY DEF attribution
  <2>3. checked = (IF PlayingRow # NoRow THEN Verify(table, Handles(shadow)) ELSE table)
    OBVIOUS
  <2> HIDE DEF checked
  <2>4. Settled(table', shadow') /\ hasShadow
    BY <1>1, <2>1, <2>2, <2>3, StayRow
  <2> QED BY <1>1, <2>4, TableSettled
<1> QED BY <1>2, <1>3, <1>4, <1>5

(* The one edit: until then the table is as long as the playlist or empty. *)
LEMMA TableEdit ==
  ASSUME TypeOK, TypeOK', TableExact, MaxEdits <= 1, UserAppends \/ UserRemoves
  PROVE  TableExact'
<1>0. /\ shadow \in Seq(ShadowRow) /\ Len(shadow) \in Nat /\ DOMAIN shadow = 1..Len(shadow)
      /\ table \in TableType /\ Len(table.rows) \in Nat
  BY ItemOfType, RowCount DEF TypeOK, TableType
<1>1. edits = 0 /\ edits' = 1 /\ table' = table /\ hasShadow /\ hasShadow' = hasShadow
  <2>1. Edit /\ NoCallback /\ hasShadow
    BY DEF UserAppends, UserRemoves
  <2>2. edits \in 0..MaxEdits /\ MaxEdits \in Nat
    BY JitAssumption DEF TypeOK
  <2>3. edits < MaxEdits /\ edits' = edits + 1
    BY <2>1 DEF Edit
  <2>4. edits = 0
    BY <2>2, <2>3
  <2> QED BY <2>1, <2>3, <2>4 DEF NoCallback
<1>2. Settled(table, shadow) \/ table.rows = <<>>
  BY <1>1 DEF TableExact
<1>3. table.stale \/ Fits(table.rows, shadow') \/ Len(table.rows) > Len(shadow')
  <2>1. CASE table.rows = <<>>
    <3>1. Len(shadow') \in Nat /\ Len(table.rows) = 0
      BY <2>1, LenProperties DEF TypeOK
    <3> QED BY <3>1 DEF Fits
  <2>2. CASE Settled(table, shadow) /\ ~table.stale /\ UserRemoves
    <3>1. PICK row \in 1..Len(shadow) : shadow' = Cut(shadow, row, row)
      BY <1>0, <2>2 DEF UserRemoves
    <3>2. Len(Cut(shadow, row, row)) = Len(shadow) - (row - row + 1)
      <4>1. row \in row..Len(shadow)
        BY <1>0
      <4> QED BY <1>0, <4>1, CutParts
    <3> QED BY <1>0, <2>2, <3>1, <3>2 DEF Settled
  <2>3. CASE Settled(table, shadow) /\ ~table.stale /\ UserAppends
    <3>1. PICK h \in Foreign : shadow' = shadow \o Added(NoEntry, <<h>>)
      BY <2>3 DEF UserAppends
    <3> DEFINE hs == <<h>>
               added == Added(NoEntry, hs)
    <3>2. hs \in Seq(Handle) /\ NoEntry \in 0..MaxEntry
      BY JitAssumption DEF Handle, NoEntry
    <3>3. added \in Seq(ShadowRow) /\ shadow' = shadow \o added
      BY <3>1, <3>2, AddedSeq
    <3> HIDE DEF added
    <3>4. /\ Len(shadow') = Len(shadow) + Len(added) /\ Len(added) \in Nat
          /\ \A i \in 1..(Len(shadow) + Len(added)) : i <= Len(shadow) => shadow'[i] = shadow[i]
      BY <1>0, <3>3, ConcatProperties, LenProperties
    <3>5. Fits(table.rows, shadow)
      BY <2>3 DEF Settled
    <3>6. Len(table.rows) <= Len(shadow)
      BY <3>5 DEF Fits
    <3>7. ASSUME NEW i \in 1..Len(table.rows)
          PROVE  /\ table.rows[i].handle = shadow'[i].handle
                 /\ table.rows[i].kind = "Single" => table.rows[i].entry \in {NoEntry, shadow'[i].of}
      <4>1. shadow'[i] = shadow[i]
        BY <1>0, <3>4, <3>6
      <4> QED BY <3>5, <4>1 DEF Fits
    <3>8. Len(table.rows) <= Len(shadow')
      BY <1>0, <3>4, <3>6
    <3> QED BY <3>7, <3>8 DEF Fits
  <2> QED BY <1>2, <2>1, <2>2, <2>3
<1> QED BY <1>1, <1>3 DEF TableExact, Fits, Settled

LEMMA TableStep == ASSUME Inv, TypeOK', TableExact, MaxEdits <= 1, [Next]_vars PROVE TableExact'
<1>0. TypeOK /\ (~hasShadow => shadow = <<>>)
  BY DEF Inv, TableExact
<1>1. CASE UNCHANGED vars
  BY <1>1, TableKept DEF vars, playerVars
<1>2. CASE UNCHANGED edits /\ MainThread
  <2>1. CASE RequestNextTrack
    BY <1>2, <2>1, TableKept DEF RequestNextTrack, playerVars
  <2>2. ASSUME NEW t \in Posted, AddToPlaylist(t) PROVE TableExact'
    <3>1. /\ hasShadow' = hasShadow
          /\ UNCHANGED <<table, shadow>> \/ (shadow' = <<>> /\ table' = Reset)
      BY <2>2 DEF AddToPlaylist
    <3> QED BY <1>2, <3>1, TableKept, TableReset
  <2> QED BY <1>0, <1>2, <2>1, <2>2, TableAttribute DEF MainThread
<1>3. CASE UNCHANGED edits /\ Page
  <2>1. CASE PlayNow \/ EnqueueNext \/ Skip \/ NotifyEmpty
    <3>1. UNCHANGED <<table, shadow>> /\ (hasShadow' \/ hasShadow' = hasShadow)
      BY <2>1 DEF PlayNow, EnqueueNext, Skip, NotifyEmpty, playerVars
    <3> QED BY <1>3, <3>1, TableKept
  <2>2. CASE Clear \/ \E clearBuffer \in BOOLEAN : Stop(clearBuffer)
    <3>1. /\ hasShadow' = hasShadow
          /\ UNCHANGED <<table, shadow>>
             \/ (table' = Reset /\ shadow' = IF hasShadow THEN <<>> ELSE shadow)
      BY <2>2 DEF Clear, Stop, Emptied
    <3> QED BY <1>0, <1>3, <3>1, TableKept, TableReset
  <2>3. ASSUME NEW handles \in Resolution, NEW replace \in BOOLEAN,
               NEW startIndex \in DOMAIN handles, PreloadBatch(handles, startIndex, replace)
        PROVE  TableExact'
    BY <1>0, <2>3, TablePreload
  <2> QED BY <1>3, <2>1, <2>2, <2>3 DEF Page
<1>4. CASE UNCHANGED edits /\ Locations
  <2>1. PICK t \in resolving :
          ResolutionAborted(t) \/ \E handles \in Resolution : Resolved(t, handles)
    BY <1>4 DEF Locations
  <2>2. CASE UNCHANGED <<table, shadow, hasShadow>>
    BY <1>4, <2>2, TableKept
  <2>3. CASE ~UNCHANGED <<table, shadow, hasShadow>>
    <3>1. PICK handles \in Resolution : Resolved(t, handles)
      BY <2>1, <2>3 DEF ResolutionAborted, playerVars
    <3>2. HandleResolvedItems(t, handles)
      BY <3>1 DEF Resolved
    <3>3. hasShadow' = hasShadow
      BY <3>2 DEF HandleResolvedItems
    <3>4. hasShadow /\ Insertion(t, handles)
      BY <2>3, <3>2, <3>3 DEF HandleResolvedItems, playerVars
    <3>5. t \in Ticket
      BY <1>0 DEF TypeOK
    <3> QED BY <1>0, <3>3, <3>4, <3>5, InsertionSettles
  <2> QED BY <2>2, <2>3
<1>5. CASE UNCHANGED edits /\ Player
  <2>1. CASE OnShadowPlaylistRemoved
    <3>1. shadow' = <<>> /\ table' = Reset
      BY <2>1 DEF OnShadowPlaylistRemoved
    <3> QED BY <3>1, TableReset
  <2>2. CASE ~OnShadowPlaylistRemoved
    <3>1. UNCHANGED <<table, shadow, hasShadow>>
      BY <1>5, <2>2 DEF Player, NewTrack, PlaybackEnds, NextFollows, PlaybackTime, UserPlays,
                        UserStops, NoCallback, playerVars
    <3> QED BY <1>5, <3>1, TableKept
  <2> QED BY <2>1, <2>2
<1>6. CASE UserAppends \/ UserRemoves
  BY <1>0, <1>6, TableEdit
<1> QED BY <1>1, <1>2, <1>3, <1>4, <1>5, <1>6 DEF Next

LEMMA InitTable == Init => TableExact
<1> SUFFICES ASSUME Init PROVE TableExact
  OBVIOUS
<1>1. table.rows = <<>> /\ Len(table.rows) = 0 /\ ~table.stale /\ shadow = <<>> /\ Len(shadow) = 0
  BY ResetTable DEF Init
<1>2. Fits(table.rows, shadow)
  BY <1>1 DEF Fits
<1> QED BY <1>1, <1>2 DEF TableExact, Settled

LEMMA TableAlways == ASSUME MaxEdits <= 1 PROVE Spec => []TableExact
<1>1. Init => Inv /\ TableExact
  BY InitInv, InitTable
<1>2. (Inv /\ TableExact) /\ [Next]_vars => (Inv /\ TableExact)'
  BY StepInv, TableStep DEF Inv
<1> QED BY <1>1, <1>2, PTL DEF Spec

(* With one edit by the user, a table that passes its comparison gives     *)
(* every row of a playNow or an enqueueNext to the entry that added it     *)
(* (jit_shadow::Verify, Insert, Remove; HandleResolvedItems and            *)
(* RemovePlayedRows of QueueManager.cpp).                                  *)
THEOREM RowsAttributed == ASSUME MaxEdits <= 1 PROVE Spec => []RowsExact
<1>1. ASSUME Inv, TableExact PROVE RowsExact
  <2> DEFINE checked == Verify(table, Handles(shadow))
  <2>1. checked \in TableType /\ Settled(checked, shadow)
    BY <1>1, TableChecked DEF Inv
  <2> HIDE DEF checked
  <2>2. ~checked.stale =>
          \A i \in DOMAIN checked.rows :
            checked.rows[i].kind = "Single" => checked.rows[i].entry \in {NoEntry, shadow[i].of}
    BY <2>1, RowCount DEF Settled, Fits
  <2> QED BY <2>2 DEF checked, RowsExact
<1> QED BY <1>1, InvAlways, TableAlways, PTL

-----------------------------------------------------------------------------
(* jitQueue:trackChanged.                                                  *)
LEMMA StayNames ==
  ASSUME Inv, TypeOK', TableExact, NEW t \in Posted, AttributeNewTrack(t), reported' # NoEntry
  PROVE  ChangedNamesPlaying'
<1> DEFINE checked == IF PlayingRow # NoRow THEN Verify(table, Handles(shadow)) ELSE table
           attribution == Attribute(checked, PlayingRow, currentEntry, nextEntry, state = "Idle")
           r == checked.rows[PlayingRow]
<1>1. /\ phase = "playing" /\ phase' = phase /\ hasShadow' = hasShadow
      /\ attribution # "Release" /\ StayInSession(attribution, checked)
  BY DEF AttributeNewTrack, ReleaseSession
<1> HIDE DEF attribution
<1>2. attribution = Attribute(checked, PlayingRow, currentEntry, nextEntry, state = "Idle")
  BY DEF attribution
<1>3. checked = (IF PlayingRow # NoRow THEN Verify(table, Handles(shadow)) ELSE table)
  OBVIOUS
<1> HIDE DEF checked
<1>4. /\ RemovePlayedRows(checked, PlayingRow) /\ reported' = currentEntry'
      /\ currentEntry' = IF attribution = "Advance" THEN nextEntry ELSE currentEntry
  BY <1>1 DEF StayInSession, Advance
<1>5. /\ PlayingRow # NoRow
      /\ checked \in TableType /\ Fits(checked.rows, shadow) /\ PlayingRow \in 1..Len(checked.rows)
      /\ PlayingRow' # NoRow /\ PlayingRow' \in DOMAIN table'.rows
      /\ table'.rows[PlayingRow'] = r /\ shadow'[PlayingRow'] = shadow[PlayingRow]
  BY <1>1, <1>2, <1>3, <1>4, StayRow DEF Inv
<1>6. r.kind \in {"Single", "Batch"} /\ (r.kind = "Single" => r.entry \in {NoEntry, shadow[PlayingRow].of})
  BY <1>5, RowCount DEF Fits, TableRow
<1> HIDE DEF r
<1>7. CASE r.kind = "Batch"
  BY <1>1, <1>5, <1>7 DEF ChangedNamesPlaying, BatchRowPlays
<1>8. CASE r.kind # "Batch"
  <2>1. r.entry # NoEntry /\ r.entry = IF attribution = "Advance" THEN nextEntry ELSE currentEntry
    BY <1>1, <1>2, <1>8 DEF Attribute, r
  <2>2. shadow'[PlayingRow'].of = reported'
    BY <1>4, <1>5, <1>6, <1>8, <2>1
  <2> QED BY <1>1, <1>5, <2>2 DEF ChangedNamesPlaying
<1> QED BY <1>7, <1>8

LEMMA QuietNames == Quiet => ChangedNamesPlaying'
BY DEF Quiet, ChangedNamesPlaying

(* With one edit by the user, jitQueue:trackChanged names the entry whose  *)
(* row is playing when it is sent (OnPlaybackNewTrack's posted attribution *)
(* of QueueManager.cpp).                                                   *)
THEOREM ChangedIsPlaying == ASSUME MaxEdits <= 1 PROVE Spec => []ChangedNamesPlaying
<1>1. Init => ChangedNamesPlaying
  BY DEF Init, ChangedNamesPlaying
<1>2. ASSUME Inv, TypeOK', TableExact, ChangedNamesPlaying, [Next]_vars PROVE ChangedNamesPlaying'
  <2>1. CASE UNCHANGED vars
    BY <1>2, <2>1 DEF vars, playerVars, ChangedNamesPlaying, BatchRowPlays, PlayingRow
  <2>2. CASE Quiet
    BY <2>2, QuietNames
  <2>3. CASE ~Quiet /\ Next
    <3>1. PICK t \in Posted : AttributeNewTrack(t)
      BY <2>3 DEF Next, MainThread
    <3> QED BY <1>2, <2>3, <3>1, StayNames DEF Quiet
  <2> QED BY <1>2, <2>1, <2>2, <2>3
<1>3. Inv /\ TypeOK' /\ TableExact /\ ChangedNamesPlaying /\ [Next]_vars => ChangedNamesPlaying'
  BY <1>2
<1>4. Inv => TypeOK
  BY DEF Inv
<1> QED BY <1>1, <1>3, <1>4, InvAlways, TableAlways, PTL DEF Spec
=============================================================================
