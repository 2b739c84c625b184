------------------------ MODULE JitShadowRowsProofs -------------------------
(***************************************************************************)
(* Lemmas about the operators of JitShadowRows, for the proofs about the   *)
(* modules that use it: the parts of a sequence that Cut and Splice keep,  *)
(* and the first and the last of the places of something.                  *)
(***************************************************************************)
EXTENDS JitShadowRows, FiniteSetTheorems, SequenceTheorems, WellFoundedInduction, TLAPS

-----------------------------------------------------------------------------
(* Sequences: a function on 1..n is one, and Cut and Splice keep the types *)
(* of their arguments.                                                     *)
LEMMA SeqOfFunction ==
  ASSUME NEW S, NEW n \in Nat, NEW f \in [1..n -> S]
  PROVE  f \in Seq(S) /\ Len(f) = n
BY SeqDef

LEMMA SubSeqInside ==
  ASSUME NEW S, NEW s \in Seq(S), NEW m \in Nat \ {0}, NEW n \in 0..Len(s)
  PROVE  /\ SubSeq(s, m, n) \in Seq(S)
         /\ Len(SubSeq(s, m, n)) = IF m <= n THEN n - m + 1 ELSE 0
         /\ \A i \in 1..(n - m + 1) : SubSeq(s, m, n)[i] = s[m + i - 1]
<1>1. \A i \in m..n : s[i] \in S
  BY LenProperties
<1> QED BY <1>1, SubSeqProperties

LEMMA CutParts ==
  ASSUME NEW S, NEW s \in Seq(S), NEW first \in 1..Len(s), NEW last \in first..Len(s)
  PROVE  /\ Cut(s, first, last) \in Seq(S)
         /\ Len(Cut(s, first, last)) = Len(s) - (last - first + 1)
         /\ \A i \in 1..Len(Cut(s, first, last)) :
              Cut(s, first, last)[i] = IF i < first THEN s[i] ELSE s[i + (last - first + 1)]
<1> DEFINE a == SubSeq(s, 1, first - 1)
           b == SubSeq(s, last + 1, Len(s))
<1>0. Len(s) \in Nat
  BY LenProperties
<1>1. a \in Seq(S) /\ Len(a) = first - 1 /\ \A i \in 1..(first - 1) : a[i] = s[i]
  BY <1>0, SubSeqInside
<1>2. b \in Seq(S) /\ Len(b) = Len(s) - last /\ \A i \in 1..(Len(s) - last) : b[i] = s[last + i]
  BY <1>0, SubSeqInside
<1>3. /\ a \o b \in Seq(S) /\ Len(a \o b) = Len(a) + Len(b)
      /\ \A i \in 1..(Len(a) + Len(b)) : (a \o b)[i] = IF i <= Len(a) THEN a[i] ELSE b[i - Len(a)]
  BY <1>1, <1>2, ConcatProperties
<1>4. Cut(s, first, last) = a \o b
  BY DEF Cut
<1> HIDE DEF a, b
<1>5. Len(a \o b) = Len(s) - (last - first + 1)
  BY <1>0, <1>1, <1>2, <1>3
<1>6. ASSUME NEW i \in 1..Len(a \o b)
      PROVE  (a \o b)[i] = IF i < first THEN s[i] ELSE s[i + (last - first + 1)]
  <2>1. CASE i < first
    BY <1>0, <1>1, <1>2, <1>3, <2>1
  <2>2. CASE i >= first
    <3>1. (a \o b)[i] = b[i - (first - 1)] /\ i - (first - 1) \in 1..(Len(s) - last)
      BY <1>0, <1>1, <1>2, <1>3, <1>5, <2>2
    <3>2. b[i - (first - 1)] = s[last + (i - (first - 1))]
      BY <1>2, <3>1
    <3>3. last + (i - (first - 1)) = i + (last - first + 1)
      BY <1>0, <1>5
    <3> QED BY <1>0, <1>5, <2>2, <3>1, <3>2, <3>3
  <2> QED BY <1>0, <1>5, <2>1, <2>2
<1> QED BY <1>3, <1>4, <1>5, <1>6

LEMMA SpliceParts ==
  ASSUME NEW S, NEW s \in Seq(S), NEW t \in Seq(S), NEW at \in 0..Len(s)
  PROVE  /\ Splice(s, at, t) \in Seq(S)
         /\ Len(Splice(s, at, t)) = Len(s) + Len(t)
         /\ \A i \in 1..(Len(s) + Len(t)) :
              Splice(s, at, t)[i] = IF i <= at THEN s[i]
                                    ELSE IF i <= at + Len(t) THEN t[i - at]
                                    ELSE s[i - Len(t)]
<1> DEFINE a == SubSeq(s, 1, at)
           b == SubSeq(s, at + 1, Len(s))
           c == a \o t
           w == c \o b
<1>0. Len(s) \in Nat /\ Len(t) \in Nat
  BY LenProperties
<1>1. a \in Seq(S) /\ Len(a) = at /\ \A i \in 1..at : a[i] = s[i]
  BY <1>0, SubSeqInside
<1>2. b \in Seq(S) /\ Len(b) = Len(s) - at /\ \A i \in 1..(Len(s) - at) : b[i] = s[at + i]
  BY <1>0, SubSeqInside
<1>3. /\ c \in Seq(S) /\ Len(c) = at + Len(t)
      /\ \A i \in 1..(at + Len(t)) : c[i] = IF i <= at THEN a[i] ELSE t[i - at]
  <2> HIDE DEF a, b
  <2> QED BY <1>1, ConcatProperties
<1>4. /\ w \in Seq(S) /\ Len(w) = Len(c) + Len(b)
      /\ \A i \in 1..(Len(c) + Len(b)) : w[i] = IF i <= Len(c) THEN c[i] ELSE b[i - Len(c)]
  <2> HIDE DEF c, b
  <2> QED BY <1>2, <1>3, ConcatProperties
<1>5. Splice(s, at, t) = w
  BY DEF Splice
<1> HIDE DEF a, b, c, w
<1>6. Len(w) = Len(s) + Len(t)
  BY <1>0, <1>2, <1>3, <1>4
<1>7. /\ Len(c) = at + Len(t) /\ Len(b) = Len(s) - at
      /\ Len(c) + Len(b) = Len(s) + Len(t)
  BY <1>0, <1>2, <1>3
<1>8. \A i \in 1..(Len(s) + Len(t)) : w[i] = IF i <= Len(c) THEN c[i] ELSE b[i - Len(c)]
  BY <1>4, <1>7
<1>9. ASSUME NEW i \in 1..(Len(s) + Len(t))
      PROVE  w[i] = IF i <= at THEN s[i]
                            ELSE IF i <= at + Len(t) THEN t[i - at] ELSE s[i - Len(t)]
  <2>1. CASE i <= at
    BY <1>0, <1>1, <1>3, <1>7, <1>8, <2>1
  <2>2. CASE i > at /\ i <= at + Len(t)
    BY <1>0, <1>3, <1>7, <1>8, <2>2
  <2>3. CASE i > at + Len(t)
    <3>1. w[i] = b[i - (at + Len(t))] /\ i - (at + Len(t)) \in 1..(Len(s) - at)
      BY <1>0, <1>7, <1>8, <2>3
    <3>2. b[i - (at + Len(t))] = s[at + (i - (at + Len(t)))]
      BY <1>2, <3>1
    <3>3. at + (i - (at + Len(t))) = i - Len(t)
      BY <1>0
    <3>4. ~(i <= at) /\ ~(i <= at + Len(t))
      BY <1>0, <2>3
    <3>5. w[i] = s[i - Len(t)]
      BY <3>1, <3>2, <3>3
    <3> QED BY <3>4, <3>5
  <2> QED BY <1>0, <2>1, <2>2, <2>3
<1> QED BY <1>4, <1>5, <1>6, <1>9

-----------------------------------------------------------------------------
(* A set of places has a first and a last one.                             *)
LEMMA LeastOf ==
  ASSUME NEW S \in SUBSET (Nat \ {0}), S # {}
  PROVE  \E m \in S : \A x \in S : m <= x
<1> DEFINE R == StrictSubsetOrdering(Nat)
           T == {1..s : s \in S}
<1>1. IsWellFoundedOn(R, FiniteSubsetsOf(Nat))
  BY FS_StrictSubsetOrderingWellFounded
<1>2. T \subseteq FiniteSubsetsOf(Nat)
  <2>1. ASSUME NEW s \in S PROVE (1..s) \subseteq Nat /\ IsFiniteSet(1..s)
    BY FS_Interval
  <2> QED BY <2>1 DEF FiniteSubsetsOf
<1>3. T # {}
  OBVIOUS
<1>4. PICK seg \in T : \A y \in T : <<y, seg>> \notin R
  <2> HIDE DEF R, T
  <2> QED BY <1>1, <1>2, <1>3, WFMin
<1>5. PICK m \in S : seg = 1..m
  BY <1>4
<1>6. ASSUME NEW x \in S, x < m PROVE FALSE
  <2>1. (1..x) \subseteq (1..m) /\ (1..x) # (1..m)
    BY <1>6, m \in 1..m, m \notin 1..x
  <2>2. <<1..x, 1..m>> \in R
    BY <2>1 DEF StrictSubsetOrdering
  <2> QED BY <2>2, <1>4, <1>5
<1> QED BY <1>6

LEMMA GreatestOf ==
  ASSUME NEW n \in Nat, NEW S \in SUBSET (1..n), S # {}
  PROVE  \E m \in S : \A x \in S : x <= m
<1> DEFINE T == {n + 1 - x : x \in S}
<1>1. T \in SUBSET (Nat \ {0}) /\ T # {}
  <2>1. ASSUME NEW x \in S PROVE n + 1 - x \in Nat \ {0}
    OBVIOUS
  <2>2. PICK x \in S : TRUE
    OBVIOUS
  <2>3. n + 1 - x \in T
    OBVIOUS
  <2> QED BY <2>1, <2>3
<1>2. PICK k \in T : \A y \in T : k <= y
  <2> HIDE DEF T
  <2> QED BY <1>1, LeastOf
<1>3. PICK m \in S : k = n + 1 - m
  BY <1>2
<1>4. ASSUME NEW x \in S PROVE x <= m
  <2>1. n + 1 - m <= n + 1 - x
    BY <1>2, <1>3
  <2> QED BY <2>1
<1> QED BY <1>4
=============================================================================
