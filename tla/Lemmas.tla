------------------------------- MODULE Lemmas -------------------------------
(***************************************************************************)
(* Facts about numbers, sequences and finite sets that the proofs about    *)
(* the components share.                                                   *)
(***************************************************************************)
EXTENDS Naturals, Sequences, FiniteSets, SequencesExt, SequenceTheorems,
        FiniteSetTheorems, WellFoundedInduction, TLAPS

\* A set of numbers that is not empty has a least one.
LEMMA Least ==
  ASSUME NEW S \in SUBSET Nat, S # {}
  PROVE  \E i \in S : \A j \in S : i <= j
<1> DEFINE R == {ss \in Nat \X Nat : ss[1] < ss[2]}
<1>1. IsWellFoundedOn(R, Nat)
  <2>1. OpToRel(<, Nat) = R
    BY Zenon DEF OpToRel
  <2>2. QED
    BY <2>1, NatLessThanWellFounded, Zenon
<1>2. PICK i \in S : \A j \in S : ~(<<j, i>> \in R)
  BY <1>1, WFMin, Zenon
<1>3. ASSUME NEW j \in S PROVE i <= j
  <2>1. <<j, i>> \in Nat \X Nat /\ ~(<<j, i>> \in R)
    BY <1>2
  <2>2. ~(j < i)
    BY <2>1
  <2>3. QED
    BY <2>2
<1>4. QED
  BY <1>3

\* A set that gains at most one element counts at most one more.
LEMMA OneMore ==
  ASSUME NEW S, NEW T, NEW x, IsFiniteSet(S), T \subseteq S \cup {x}
  PROVE  IsFiniteSet(T) /\ Cardinality(T) \in Nat /\ Cardinality(S) \in Nat
         /\ Cardinality(T) <= Cardinality(S) + 1
<1>1. IsFiniteSet(S \cup {x}) /\ Cardinality(S \cup {x}) <= Cardinality(S) + 1
  <2>1. Cardinality(S) \in Nat
    BY FS_CardinalityType
  <2>2. QED
    BY <2>1, FS_AddElement
<1>2. IsFiniteSet(T) /\ Cardinality(T) <= Cardinality(S \cup {x})
  BY <1>1, FS_Subset
<1>3. Cardinality(S) \in Nat /\ Cardinality(T) \in Nat /\ Cardinality(S \cup {x}) \in Nat
  BY <1>1, <1>2, FS_CardinalityType
<1>4. QED
  BY <1>1, <1>2, <1>3

\* A sequence without repetitions keeps none when a new element is appended.
LEMMA Appended ==
  ASSUME NEW S, NEW s \in Seq(S), NEW x \in S
  PROVE  /\ ToSet(Append(s, x)) = ToSet(s) \cup {x}
         /\ IsInjective(s) /\ x \notin ToSet(s) => IsInjective(Append(s, x))
<1> DEFINE t == Append(s, x)
<1>1. /\ Len(s) \in Nat /\ DOMAIN s = 1 .. Len(s) /\ DOMAIN t = 1 .. Len(s) + 1
      /\ \A i \in 1 .. Len(s) : t[i] = s[i]
      /\ t[Len(s) + 1] = x
  BY AppendProperties, LenProperties
<1> HIDE DEF t
<1>2. ToSet(t) = ToSet(s) \cup {x}
  <2>1. \A i \in DOMAIN t : i \in DOMAIN s \/ i = Len(s) + 1
    BY <1>1
  <2>2. \A i \in DOMAIN s : i \in DOMAIN t
    BY <1>1
  <2>3. Len(s) + 1 \in DOMAIN t
    BY <1>1
  <2>4. QED
    BY <1>1, <2>1, <2>2, <2>3 DEF ToSet
<1>3. ASSUME IsInjective(s), x \notin ToSet(s) PROVE IsInjective(t)
  <2>1. \A i \in DOMAIN s : s[i] # x
    BY <1>3 DEF ToSet
  <2>2. \A i, j \in DOMAIN s : s[i] = s[j] => i = j
    BY <1>3 DEF IsInjective
  <2>3. \A i, j \in DOMAIN t : t[i] = t[j] => i = j
    BY <1>1, <2>1, <2>2
  <2>4. QED
    BY <2>3 DEF IsInjective
<1>4. QED
  BY <1>2, <1>3 DEF t

\* Taking one place out of a sequence without repetitions takes one element away.
LEMMA Removed ==
  ASSUME NEW S, NEW s \in Seq(S), IsInjective(s), NEW i \in DOMAIN s
  PROVE  /\ RemoveAt(s, i) \in Seq(S)
         /\ IsInjective(RemoveAt(s, i))
         /\ ToSet(RemoveAt(s, i)) = ToSet(s) \ {s[i]}
<1> DEFINE n == Len(s)
           l == SubSeq(s, 1, i - 1)
           r == SubSeq(s, i + 1, n)
           t == RemoveAt(s, i)
<1>1. n \in Nat /\ DOMAIN s = 1 .. n /\ i \in 1 .. n /\ \A j \in 1 .. n : s[j] \in S
  BY LenProperties, ElementOfSeq
<1>2. l \in Seq(S) /\ Len(l) = i - 1 /\ \A j \in 1 .. i - 1 : l[j] = s[j]
  <2>1. \A j \in 1 .. i - 1 : s[j] \in S
    BY <1>1
  <2>2. /\ SubSeq(s, 1, i - 1) \in Seq(S)
        /\ Len(SubSeq(s, 1, i - 1)) = IF 1 <= i - 1 THEN (i - 1) - 1 + 1 ELSE 0
        /\ \A j \in 1 .. (i - 1) - 1 + 1 : SubSeq(s, 1, i - 1)[j] = s[1 + j - 1]
    BY <1>1, <2>1, SubSeqProperties
  <2>3. QED
    BY <1>1, <2>2
<1>3. r \in Seq(S) /\ Len(r) = n - i /\ \A j \in 1 .. n - i : r[j] = s[i + j]
  <2>1. \A j \in i + 1 .. n : s[j] \in S
    BY <1>1
  <2>2. /\ SubSeq(s, i + 1, n) \in Seq(S)
        /\ Len(SubSeq(s, i + 1, n)) = IF i + 1 <= n THEN n - (i + 1) + 1 ELSE 0
        /\ \A j \in 1 .. n - (i + 1) + 1 : SubSeq(s, i + 1, n)[j] = s[(i + 1) + j - 1]
    BY <1>1, <2>1, SubSeqProperties
  <2>3. QED
    BY <1>1, <2>2
<1>4. t = l \o r
  BY DEF RemoveAt
<1>5. /\ t \in Seq(S) /\ Len(t) = n - 1
      /\ \A j \in 1 .. n - 1 : t[j] = IF j < i THEN s[j] ELSE s[j + 1]
  <2> HIDE DEF n, l, r, t
  <2>1. l \o r \in Seq(S) /\ Len(l \o r) = (i - 1) + (n - i)
    <3>1. l \o r \in Seq(S) /\ Len(l \o r) = Len(l) + Len(r)
      BY <1>2, <1>3, ConcatProperties
    <3>2. QED
      BY <1>1, <1>2, <1>3, <3>1
  <2>2. ASSUME NEW j \in 1 .. n - 1 PROVE t[j] = IF j < i THEN s[j] ELSE s[j + 1]
    <3>1. j \in 1 .. Len(l) + Len(r)
      BY <1>1, <1>2, <1>3
    <3>2. (l \o r)[j] = IF j <= Len(l) THEN l[j] ELSE r[j - Len(l)]
      BY <1>2, <1>3, <3>1, ConcatProperties
    <3>3. CASE j < i
      BY <1>1, <1>2, <1>4, <3>2, <3>3
    <3>4. CASE ~(j < i)
      <4>1. j - (i - 1) \in 1 .. n - i /\ ~(j <= i - 1) /\ i + (j - (i - 1)) = j + 1
        BY <1>1, <3>4
      <4>2. QED
        BY <1>2, <1>3, <1>4, <3>2, <3>4, <4>1
    <3>5. QED
      BY <3>3, <3>4
  <2>3. QED
    BY <1>1, <1>4, <2>1, <2>2
<1>6. DOMAIN t = 1 .. n - 1
  BY <1>5, LenProperties
<1> HIDE DEF n, l, r, t
<1>7. IsInjective(t)
  <2>1. ASSUME NEW a \in 1 .. n - 1, NEW b \in 1 .. n - 1, t[a] = t[b] PROVE a = b
    <3>1. /\ a \in 1 .. n /\ b \in 1 .. n /\ a + 1 \in 1 .. n /\ b + 1 \in 1 .. n
      BY <1>1
    <3>2. \A x, y \in 1 .. n : s[x] = s[y] => x = y
      BY <1>1 DEF IsInjective
    <3>3. QED
      BY <1>1, <1>5, <2>1, <3>1, <3>2
  <2>2. QED
    BY <1>6, <2>1 DEF IsInjective
<1>8. ToSet(t) = ToSet(s) \ {s[i]}
  <2>1. ASSUME NEW j \in 1 .. n - 1 PROVE t[j] \in ToSet(s) \ {s[i]}
    <3>1. PICK m \in 1 .. n : m # i /\ t[j] = s[m]
      <4>1. CASE j < i
        BY <1>1, <1>5, <4>1
      <4>2. CASE ~(j < i)
        <5>1. j + 1 \in 1 .. n /\ j + 1 # i /\ t[j] = s[j + 1]
          BY <1>1, <1>5, <4>2
        <5>2. QED
          BY <5>1
      <4>3. QED
        BY <4>1, <4>2
    <3>2. s[m] # s[i]
      BY <1>1, <3>1 DEF IsInjective
    <3>3. QED
      BY <1>1, <3>1, <3>2 DEF ToSet
  <2>2. ASSUME NEW m \in 1 .. n, s[m] # s[i] PROVE \E j \in 1 .. n - 1 : t[j] = s[m]
    <3>1. CASE m < i
      <4>1. m \in 1 .. n - 1 /\ t[m] = s[m]
        BY <1>1, <1>5, <3>1
      <4>2. QED
        BY <4>1
    <3>2. CASE ~(m < i)
      <4>1. m # i
        BY <2>2
      <4>2. m - 1 \in 1 .. n - 1 /\ ~(m - 1 < i) /\ (m - 1) + 1 = m
        BY <1>1, <3>2, <4>1
      <4>3. t[m - 1] = s[m]
        BY <1>5, <4>2
      <4>4. QED
        BY <4>2, <4>3
    <3>3. QED
      BY <3>1, <3>2
  <2>3. ASSUME NEW x \in ToSet(s) \ {s[i]} PROVE x \in ToSet(t)
    <3>1. PICK m \in 1 .. n : x = s[m]
      BY <1>1 DEF ToSet
    <3>2. PICK j \in 1 .. n - 1 : t[j] = s[m]
      BY <2>2, <2>3, <3>1
    <3>3. QED
      BY <1>6, <3>1, <3>2 DEF ToSet
  <2>4. ASSUME NEW x \in ToSet(t) PROVE x \in ToSet(s) \ {s[i]}
    <3>1. PICK j \in 1 .. n - 1 : x = t[j]
      BY <1>6 DEF ToSet
    <3>2. QED
      BY <2>1, <3>1
  <2>5. QED
    BY <2>3, <2>4
<1>9. QED
  BY <1>5, <1>7, <1>8 DEF t
=============================================================================
