---------------------------- MODULE ReaddirProofs ----------------------------
(***************************************************************************)
(* Proofs about Readdir, for every directory, limit of the namenode, mix of*)
(* calls and changes by others: names come in order and none twice, none   *)
(* that was there all along is left out, and no more come than asked for.  *)
(***************************************************************************)
EXTENDS Readdir, FiniteSetTheorems, SequenceTheorems, TLAPS

USE ReaddirAssumption

-----------------------------------------------------------------------------
(* A sorted listing.                                                       *)

Below == {ss \in Nat \X Nat : ss[1] < ss[2]}

\* A set of natural numbers that is not empty has a least one.
LEMMA NatMin ==
    ASSUME NEW T \in SUBSET Nat, T # {}
    PROVE  \E x \in T : \A y \in T : x <= y
<1>1. IsWellFoundedOn(Below, Nat)
  BY NatLessThanWellFounded DEF OpToRel, Below
<1>2. PICK x \in T : \A y \in T : ~ (<<y, x>> \in Below)
  BY <1>1, WFMin, Zenon
<1>3. ASSUME NEW y \in T PROVE x <= y
  <2>1. y \in Nat /\ x \in Nat
    OBVIOUS
  <2>2. ~ (<<y, x>> \in Below)
    BY <1>2
  <2>3. y < x => <<y, x>> \in Below
    BY <2>1 DEF Below
  <2>4. QED
    BY <2>1, <2>2, <2>3
<1>4. QED
  BY <1>3

Rank(e, S) == Cardinality(Before(e, S))

\* What the ranks of the elements of a finite set are.
LEMMA RankProperties ==
    ASSUME NEW S \in SUBSET Nat, IsFiniteSet(S)
    PROVE  /\ Cardinality(S) \in Nat
           /\ \A e \in S : Rank(e, S) \in 0 .. Cardinality(S) - 1
           /\ \A d, e \in S : d < e => Rank(d, S) < Rank(e, S)
<1>1. Cardinality(S) \in Nat
  BY FS_CardinalityType
<1>2. ASSUME NEW e \in S
      PROVE  /\ IsFiniteSet(Before(e, S)) /\ Rank(e, S) \in Nat
             /\ IsFiniteSet(Before(e, S) \cup {e})
             /\ Cardinality(Before(e, S) \cup {e}) = Rank(e, S) + 1
  <2>1. IsFiniteSet(Before(e, S))
    BY FS_Subset DEF Before
  <2>2. e \notin Before(e, S)
    BY DEF Before
  <2>3. QED
    BY <2>1, <2>2, FS_AddElement, FS_CardinalityType DEF Rank
<1>3. ASSUME NEW e \in S PROVE Rank(e, S) <= Cardinality(S) - 1
  <2>1. Before(e, S) \cup {e} \in SUBSET S
    BY DEF Before
  <2>2. Cardinality(Before(e, S) \cup {e}) <= Cardinality(S)
    BY <2>1, FS_Subset
  <2>3. QED
    BY <1>1, <1>2, <2>2
<1>4. ASSUME NEW d \in S, NEW e \in S, d < e PROVE Rank(d, S) < Rank(e, S)
  <2>1. Before(d, S) \cup {d} \in SUBSET Before(e, S)
    <3>1. d \in Nat /\ e \in Nat /\ \A x \in S : x \in Nat
      OBVIOUS
    <3>2. \A x \in S : x < d => x < e
      BY <1>4, <3>1
    <3>3. QED
      BY <1>4, <3>2, Zenon DEF Before
  <2>2. Cardinality(Before(d, S) \cup {d}) <= Rank(e, S)
    BY <1>2, <2>1, FS_Subset, Zenon DEF Rank
  <2>3. /\ Cardinality(Before(d, S) \cup {d}) = Rank(d, S) + 1
        /\ Rank(d, S) \in Nat /\ Rank(e, S) \in Nat
    BY <1>2, Zenon
  <2>4. QED
    BY <2>2, <2>3
<1>5. \A e \in S : Rank(e, S) \in Nat
  BY <1>2, Zenon
<1>6. \A e \in S : Rank(e, S) \in 0 .. Cardinality(S) - 1
  BY <1>1, <1>3, <1>5
<1>7. QED
  BY <1>1, <1>4, <1>6

\* Every rank below the size of a finite set is taken.
LEMMA RankTaken ==
    ASSUME NEW S \in SUBSET Nat, IsFiniteSet(S), NEW k \in 0 .. Cardinality(S) - 1
    PROVE  \E e \in S : Rank(e, S) = k
<1> DEFINE Free == {r \in 0 .. Cardinality(S) - 1 : \A e \in S : Rank(e, S) # r}
<1>0. Cardinality(S) \in Nat
  BY FS_CardinalityType
<1>1. SUFFICES ASSUME Free # {} PROVE FALSE
  OBVIOUS
<1>2. PICK r \in Free : \A q \in Free : r <= q
  <2>1. Free \in SUBSET Nat
    BY <1>0
  <2>2. QED
    BY <1>1, <2>1, NatMin, Zenon
\* The elements of lower ranks; the least of the others has rank r.
<1>3. PICK low \in SUBSET S : /\ Cardinality(low) = r /\ low # S
                              /\ \A x \in S : x \in low <=> Rank(x, S) < r
  <2>1. CASE r = 0
    <3>1. \A x \in S : Rank(x, S) \in Nat
      BY RankProperties
    <3>2. S # {}
      BY <2>1, <1>0, FS_EmptySet
    <3>3. QED
      BY <2>1, <3>1, <3>2, FS_EmptySet
  <2>2. CASE r # 0
    <3>1. r \in 0 .. Cardinality(S) - 1 /\ r - 1 \in 0 .. Cardinality(S) - 1 /\ r - 1 \notin Free
      BY <1>0, <1>2, <2>2
    <3>2. PICK e \in S : Rank(e, S) = r - 1
      BY <3>1
    <3>3. e \notin Before(e, S) /\ IsFiniteSet(Before(e, S))
      BY FS_Subset DEF Before
    <3>4. Cardinality(Before(e, S) \cup {e}) = r
      <4>1. Cardinality(Before(e, S) \cup {e}) = Cardinality(Before(e, S)) + 1
        BY <3>3, FS_AddElement, Zenon
      <4>2. QED
        BY <1>0, <3>1, <3>2, <4>1 DEF Rank
    <3>5. ASSUME NEW x \in S PROVE x \in Before(e, S) \cup {e} <=> Rank(x, S) < r
      <4>1. /\ x < e => Rank(x, S) < Rank(e, S) /\ Rank(x, S) \in Nat
            /\ e < x => Rank(e, S) < Rank(x, S)
            /\ Rank(x, S) \in Nat
        BY RankProperties
      <4>2. QED
        BY <3>1, <3>2, <4>1 DEF Before
    <3>6. Before(e, S) \cup {e} \in SUBSET S
      BY DEF Before
    <3>7. Before(e, S) \cup {e} # S
      BY <1>0, <3>1, <3>4
    <3>8. QED
      BY <3>4, <3>5, <3>6, <3>7
  <2>3. QED
    BY <2>1, <2>2
<1>4. PICK m \in S \ low : \A x \in S \ low : m <= x
  <2>1. S \ low \in SUBSET Nat /\ S \ low # {}
    BY <1>3, Zenon
  <2>2. QED
    BY <2>1, NatMin, Zenon
<1>5. Before(m, S) = low
  <2>1. ASSUME NEW x \in S, x < m PROVE x \in low
    BY <1>4, <2>1
  <2>2. ASSUME NEW x \in low PROVE x < m
    <3>1. Rank(x, S) < r /\ ~(Rank(m, S) < r) /\ x # m
      BY <1>3, <1>4
    <3>2. m < x => Rank(m, S) < Rank(x, S)
      BY <1>4, RankProperties
    <3>3. Rank(x, S) \in Nat /\ Rank(m, S) \in Nat /\ r \in Nat /\ x \in Nat /\ m \in Nat
      BY <1>0, RankProperties
    <3>4. QED
      BY <3>1, <3>2, <3>3
  <2>3. QED
    BY <2>1, <2>2, Zenon DEF Before
<1>6. Rank(m, S) = r
  BY <1>3, <1>5 DEF Rank
<1>7. QED
  BY <1>6

\* Sorted lists the elements of a finite set in order, each once.
LEMMA SortedProperties ==
    ASSUME NEW S \in SUBSET Nat, IsFiniteSet(S)
    PROVE  /\ Sorted(S) \in Seq(S) /\ Len(Sorted(S)) = Cardinality(S)
           /\ \A i, j \in 1 .. Len(Sorted(S)) : i < j => Sorted(S)[i] < Sorted(S)[j]
           /\ \A e \in S : \E i \in 1 .. Len(Sorted(S)) : Sorted(S)[i] = e
<1> DEFINE c == Cardinality(S)
           f == Sorted(S)
<1>0. c \in Nat
  BY FS_CardinalityType
<1>1. ASSUME NEW i \in 1 .. c PROVE f[i] \in S /\ Rank(f[i], S) = i - 1
  <2>1. \E e \in S : Cardinality(Before(e, S)) = i - 1
    BY <1>0, RankTaken DEF Rank
  <2>2. f[i] = CHOOSE e \in S : Cardinality(Before(e, S)) = i - 1
    BY DEF Sorted
  <2>3. QED
    BY <2>1, <2>2 DEF Rank
<1>2. f \in Seq(S) /\ Len(f) = c
  <2>1. f = [i \in 1 .. c |-> f[i]]
    BY DEF Sorted
  <2>2. QED
    BY <1>0, <1>1, <2>1, IsASeq
<1> HIDE DEF f, c
<1>3. ASSUME NEW i \in 1 .. c, NEW j \in 1 .. c, i < j PROVE f[i] < f[j]
  <2>1. f[i] \in S /\ f[j] \in S /\ Rank(f[i], S) = i - 1 /\ Rank(f[j], S) = j - 1
    BY <1>1
  <2>2. f[j] < f[i] => Rank(f[j], S) < Rank(f[i], S)
    BY <2>1, RankProperties, Zenon
  <2>3. f[i] \in Nat /\ f[j] \in Nat
    BY <2>1, Zenon
  <2>4. f[i] # f[j]
    BY <1>0, <1>3, <2>1
  <2>5. QED
    BY <1>0, <1>3, <2>1, <2>2, <2>3, <2>4
<1>4. ASSUME NEW e \in S PROVE \E i \in 1 .. c : f[i] = e
  <2> DEFINE i == Rank(e, S) + 1
  <2>1. Rank(e, S) \in 0 .. c - 1
    BY RankProperties DEF c
  <2>2. i \in 1 .. c /\ f[i] \in S /\ Rank(f[i], S) = Rank(e, S)
    BY <1>0, <1>1, <2>1
  <2>3. ~(f[i] < e) /\ ~(e < f[i])
    <3>1. /\ f[i] < e => Rank(f[i], S) < Rank(e, S)
          /\ e < f[i] => Rank(e, S) < Rank(f[i], S)
      BY <2>2, RankProperties, Zenon
    <3>2. QED
      BY <2>1, <2>2, <3>1
  <2>4. f[i] \in Nat /\ e \in Nat
    BY <2>2, Zenon
  <2>5. QED
    BY <2>2, <2>3, <2>4
<1>5. QED
  BY <1>2, <1>3, <1>4 DEF f, c

-----------------------------------------------------------------------------
(* Sequences in order.                                                     *)

Increasing(s) == \A i, j \in 1 .. Len(s) : i < j => s[i] < s[j]

\* The elements of two sequences, one after the other.
LEMMA ConcatMembers ==
    ASSUME NEW s \in Seq(Nat), NEW t \in Seq(Nat)
    PROVE  Range(s \o t) = Range(s) \cup Range(t)
<1>1. /\ s \o t \in Seq(Nat) /\ Len(s \o t) = Len(s) + Len(t)
      /\ \A i \in 1 .. Len(s) + Len(t) :
             (s \o t)[i] = IF i <= Len(s) THEN s[i] ELSE t[i - Len(s)]
  BY ConcatProperties
<1>2. Len(s) \in Nat /\ Len(t) \in Nat
  BY LenProperties
<1>3. ASSUME NEW x \in Range(s) PROVE x \in Range(s \o t)
  <2>1. PICK i \in 1 .. Len(s) : x = s[i]
    BY LenProperties DEF Range
  <2>2. i \in 1 .. Len(s) + Len(t) /\ (s \o t)[i] = s[i]
    BY <1>1, <1>2
  <2>3. QED
    BY <1>1, <2>1, <2>2, LenProperties, Zenon DEF Range
<1>4. ASSUME NEW x \in Range(t) PROVE x \in Range(s \o t)
  <2>1. PICK i \in 1 .. Len(t) : x = t[i]
    BY LenProperties DEF Range
  <2>2. Len(s) + i \in 1 .. Len(s) + Len(t) /\ (s \o t)[Len(s) + i] = t[i]
    BY <1>1, <1>2
  <2>3. QED
    BY <1>1, <2>1, <2>2, LenProperties, Zenon DEF Range
<1>5. ASSUME NEW x \in Range(s \o t) PROVE x \in Range(s) \cup Range(t)
  <2>1. PICK i \in 1 .. Len(s) + Len(t) : x = (s \o t)[i]
    BY <1>1, LenProperties DEF Range
  <2>2. CASE i <= Len(s)
    BY <1>1, <1>2, <2>1, <2>2, LenProperties DEF Range
  <2>3. CASE i > Len(s)
    <3>1. i - Len(s) \in 1 .. Len(t) /\ x = t[i - Len(s)]
      BY <1>1, <1>2, <2>1, <2>3
    <3>2. QED
      BY <3>1, LenProperties DEF Range
  <2>4. QED
    BY <1>2, <2>2, <2>3
<1>6. QED
  BY <1>3, <1>4, <1>5

\* Two sequences in order, all of the second after all of the first, are one.
LEMMA ConcatInOrder ==
    ASSUME NEW s \in Seq(Nat), NEW t \in Seq(Nat), NEW m \in Nat,
           Increasing(s), Increasing(t),
           \A x \in Range(s) : x <= m, \A x \in Range(t) : m < x
    PROVE  Increasing(s \o t)
<1>1. /\ s \o t \in Seq(Nat) /\ Len(s \o t) = Len(s) + Len(t)
      /\ \A i \in 1 .. Len(s) + Len(t) :
             (s \o t)[i] = IF i <= Len(s) THEN s[i] ELSE t[i - Len(s)]
  BY ConcatProperties
<1>2. Len(s) \in Nat /\ Len(t) \in Nat
  BY LenProperties
<1>3. \A i \in 1 .. Len(s) : s[i] \in Nat /\ s[i] <= m
  BY LenProperties DEF Range
<1>4. \A i \in 1 .. Len(t) : t[i] \in Nat /\ m < t[i]
  BY LenProperties DEF Range
<1>5. ASSUME NEW i \in 1 .. Len(s) + Len(t), NEW j \in 1 .. Len(s) + Len(t), i < j
      PROVE  (s \o t)[i] < (s \o t)[j]
  <2>1. CASE j <= Len(s)
    BY <1>1, <1>2, <1>5, <2>1 DEF Increasing
  <2>2. CASE i <= Len(s) /\ j > Len(s)
    <3>1. j - Len(s) \in 1 .. Len(t) /\ i \in 1 .. Len(s)
      BY <1>2, <2>2
    <3>2. (s \o t)[i] = s[i] /\ (s \o t)[j] = t[j - Len(s)]
      BY <1>1, <1>2, <2>2
    <3>3. s[i] \in Nat /\ s[i] <= m /\ t[j - Len(s)] \in Nat /\ m < t[j - Len(s)]
      BY <1>3, <1>4, <3>1, Zenon
    <3>4. QED
      BY <3>2, <3>3
  <2>3. CASE i > Len(s)
    <3>1. i - Len(s) \in 1 .. Len(t) /\ j - Len(s) \in 1 .. Len(t) /\ i - Len(s) < j - Len(s)
      BY <1>2, <1>5, <2>3
    <3>2. (s \o t)[i] = t[i - Len(s)] /\ (s \o t)[j] = t[j - Len(s)]
      BY <1>1, <1>2, <1>5, <2>3
    <3>3. QED
      BY <3>1, <3>2, Zenon DEF Increasing
  <2>4. QED
    BY <1>2, <1>5, <2>1, <2>2, <2>3
<1>6. QED
  BY <1>1, <1>5 DEF Increasing

\* The first m of a sequence in order: those up to its m-th.
LEMMA FirstInOrder ==
    ASSUME NEW s \in Seq(Nat), Increasing(s), NEW m \in 1 .. Len(s)
    PROVE  /\ SubSeq(s, 1, m) \in Seq(Nat) /\ Len(SubSeq(s, 1, m)) = m
           /\ SubSeq(s, 1, m)[m] = s[m]
           /\ Increasing(SubSeq(s, 1, m))
           /\ Range(SubSeq(s, 1, m)) = {x \in Range(s) : x <= s[m]}
<1> DEFINE f == SubSeq(s, 1, m)
<1>0. Len(s) \in Nat
  BY LenProperties
<1>1. f \in Seq(Nat) /\ Len(f) = m /\ \A i \in 1 .. m : f[i] = s[i]
  BY <1>0, SubSeqProperties
<1> HIDE DEF f
<1>2. Increasing(f)
  <2>1. ASSUME NEW i \in 1 .. m, NEW j \in 1 .. m, i < j PROVE f[i] < f[j]
    <3>1. i \in 1 .. Len(s) /\ j \in 1 .. Len(s)
      BY <1>0
    <3>2. QED
      BY <1>1, <2>1, <3>1 DEF Increasing
  <2>2. QED
    BY <1>1, <2>1 DEF Increasing
<1>3. \A i \in 1 .. Len(s) : s[i] \in Nat
  BY LenProperties
<1>4. ASSUME NEW x \in Range(f) PROVE x \in Range(s) /\ x <= s[m]
  <2>1. PICK i \in 1 .. m : x = s[i]
    BY <1>1, LenProperties DEF Range
  <2>2. i \in 1 .. Len(s) /\ (i < m => s[i] < s[m])
    BY <1>0, <2>1 DEF Increasing
  <2>3. QED
    BY <1>0, <1>3, <2>1, <2>2, LenProperties DEF Range
<1>5. ASSUME NEW x \in Range(s), x <= s[m] PROVE x \in Range(f)
  <2>1. PICK i \in 1 .. Len(s) : x = s[i]
    BY LenProperties DEF Range
  <2>2. m < i => s[m] < s[i]
    BY <1>0, <2>1 DEF Increasing
  <2>3. i \in 1 .. m
    BY <1>0, <1>3, <1>5, <2>1, <2>2
  <2>4. QED
    BY <1>1, <2>1, <2>3, LenProperties, Zenon DEF Range
<1>6. QED
  BY <1>0, <1>1, <1>2, <1>4, <1>5 DEF f

\* Three sequences, one after the other.
LEMMA ConcatThree ==
    ASSUME NEW s \in Seq(Nat), NEW t \in Seq(Nat), NEW u \in Seq(Nat)
    PROVE  s \o (t \o u) = (s \o t) \o u
<1> DEFINE a == s \o t
           b == t \o u
           f == a \o u
           g == s \o b
<1>0. Len(s) \in Nat /\ Len(t) \in Nat /\ Len(u) \in Nat
  BY LenProperties
<1>1. /\ a \in Seq(Nat) /\ Len(a) = Len(s) + Len(t)
      /\ \A i \in 1 .. Len(s) + Len(t) : a[i] = IF i <= Len(s) THEN s[i] ELSE t[i - Len(s)]
  BY ConcatProperties
<1>2. /\ b \in Seq(Nat) /\ Len(b) = Len(t) + Len(u)
      /\ \A i \in 1 .. Len(t) + Len(u) : b[i] = IF i <= Len(t) THEN t[i] ELSE u[i - Len(t)]
  BY ConcatProperties
<1> HIDE DEF a, b
<1>a. a \in Seq(Nat)
  BY <1>1
<1>b. b \in Seq(Nat)
  BY <1>2
<1>3. /\ f \in Seq(Nat) /\ Len(f) = Len(a) + Len(u)
      /\ \A i \in 1 .. Len(a) + Len(u) : f[i] = IF i <= Len(a) THEN a[i] ELSE u[i - Len(a)]
  BY <1>a, ConcatProperties
<1>4. /\ g \in Seq(Nat) /\ Len(g) = Len(s) + Len(b)
      /\ \A i \in 1 .. Len(s) + Len(b) : g[i] = IF i <= Len(s) THEN s[i] ELSE b[i - Len(s)]
  BY <1>b, ConcatProperties
<1> HIDE DEF f, g
<1>5. ASSUME NEW i \in 1 .. Len(f) PROVE f[i] = g[i]
  <2>1. i \in 1 .. Len(a) + Len(u) /\ i \in 1 .. Len(s) + Len(b) /\ i \in Nat
    BY <1>0, <1>1, <1>2, <1>3
  <2>2. f[i] = IF i <= Len(a) THEN a[i] ELSE u[i - Len(a)]
    BY <1>3, <2>1
  <2>3. g[i] = IF i <= Len(s) THEN s[i] ELSE b[i - Len(s)]
    BY <1>4, <2>1
  <2>4. CASE i <= Len(s)
    BY <1>0, <1>1, <2>1, <2>2, <2>3, <2>4, SMTT(60)
  <2>5. CASE i > Len(s) /\ i <= Len(a)
    <3>1. /\ i \in 1 .. Len(s) + Len(t) /\ i - Len(s) \in 1 .. Len(t) + Len(u)
          /\ i - Len(s) <= Len(t) /\ ~(i <= Len(s))
      BY <1>0, <1>1, <2>1, <2>5
    <3>2. a[i] = t[i - Len(s)] /\ b[i - Len(s)] = t[i - Len(s)]
      BY <1>1, <1>2, <3>1, Zenon
    <3>3. QED
      BY <2>2, <2>3, <2>5, <3>1, <3>2
  <2>6. CASE i > Len(a)
    <3>1. /\ i - Len(s) \in 1 .. Len(t) + Len(u) /\ ~(i - Len(s) <= Len(t))
          /\ ~(i <= Len(s)) /\ ~(i <= Len(a)) /\ (i - Len(s)) - Len(t) = i - Len(a)
      BY <1>0, <1>1, <1>2, <2>1, <2>6
    <3>2. b[i - Len(s)] = u[i - Len(a)]
      BY <1>2, <3>1, Zenon
    <3>3. QED
      BY <2>2, <2>3, <3>1, <3>2
  <2>7. QED
    BY <1>0, <1>1, <2>1, <2>4, <2>5, <2>6
<1>6. Len(f) = Len(g)
  BY <1>0, <1>1, <1>2, <1>3, <1>4
<1>7. f = g
  BY <1>3, <1>4, <1>5, <1>6, SeqEqual, Zenon
<1>8. QED
  BY <1>7 DEF a, b, f, g

\* The first of a concatenation, cut in its second part.
LEMMA ConcatFirst ==
    ASSUME NEW s \in Seq(Nat), NEW t \in Seq(Nat), NEW m \in 1 .. Len(t)
    PROVE  s \o SubSeq(t, 1, m) = SubSeq(s \o t, 1, Len(s) + m)
<1> DEFINE f == SubSeq(t, 1, m)
           c == s \o t
           d == s \o f
           g == SubSeq(c, 1, Len(s) + m)
<1>0. Len(s) \in Nat /\ Len(t) \in Nat
  BY LenProperties
<1>1. f \in Seq(Nat) /\ Len(f) = m /\ \A i \in 1 .. m : f[i] = t[i]
  BY <1>0, SubSeqProperties
<1>2. /\ c \in Seq(Nat) /\ Len(c) = Len(s) + Len(t)
      /\ \A i \in 1 .. Len(s) + Len(t) : c[i] = IF i <= Len(s) THEN s[i] ELSE t[i - Len(s)]
  BY ConcatProperties
<1>3. /\ d \in Seq(Nat) /\ Len(d) = Len(s) + m
      /\ \A i \in 1 .. Len(s) + m : d[i] = IF i <= Len(s) THEN s[i] ELSE f[i - Len(s)]
  <2> HIDE DEF f
  <2>1. QED
    BY <1>1, ConcatProperties, Zenon
<1>4. g \in Seq(Nat) /\ Len(g) = Len(s) + m /\ \A i \in 1 .. Len(s) + m : g[i] = c[i]
  <2> HIDE DEF c
  <2>1. 1 \in 1 .. Len(c) + 1 /\ Len(s) + m \in 0 .. Len(c)
    BY <1>0, <1>2
  <2>2. QED
    <3>1. \A i \in 1 .. Len(s) + m : c[i] \in Nat
      <4>1. \A i \in 1 .. Len(s) + m : i \in 1 .. Len(c)
        BY <1>0, <1>2
      <4>2. \A i \in 1 .. Len(c) : c[i] \in Nat
        BY <1>2, ElementOfSeq
      <4>3. QED
        BY <4>1, <4>2
    <3>2. Len(s) + m \in Nat
      BY <1>0
    <3>3. QED
      BY <3>1, <3>2, SubSeqProperties
<1> HIDE DEF c, d, f, g
<1>5. \A i \in 1 .. Len(s) + m : d[i] = g[i]
  <2>1. ASSUME NEW i \in 1 .. Len(s) + m PROVE d[i] = g[i]
    <3>1. i \in 1 .. Len(s) + Len(t)
      BY <1>0
    <3>2. i > Len(s) => i - Len(s) \in 1 .. m /\ f[i - Len(s)] = t[i - Len(s)]
      BY <1>0, <1>1
    <3>3. QED
      <4>1. g[i] = c[i]
        BY <1>4
      <4>2. d[i] = IF i <= Len(s) THEN s[i] ELSE f[i - Len(s)]
        BY <1>3
      <4>3. c[i] = IF i <= Len(s) THEN s[i] ELSE t[i - Len(s)]
        BY <1>2, <3>1
      <4>4. i <= Len(s) \/ i > Len(s)
        BY <1>0
      <4>5. QED
        BY <3>2, <4>1, <4>2, <4>3, <4>4
  <2>2. QED
    BY <2>1
<1>6. d = g
  BY <1>3, <1>4, <1>5, SeqEqual, Zenon
<1>7. QED
  BY <1>6 DEF c, d, f, g

-----------------------------------------------------------------------------
(* The inductive invariant.                                                *)

\* The names of the listing so far: returned, or in hand.
SoFar == IF pc = "list" THEN listed \o res ELSE listed

\* They are in order and none is after f.readdirLast ...
OrderOK == Increasing(SoFar) /\ \A x \in Range(SoFar) : x <= readdirLast

\* ... and unless a call has failed, none up to f.readdirLast was left out.
CoverOK == failures = 0 => \A e \in stable : e <= readdirLast => e \in Range(SoFar)

IndInv == TypeOK /\ failures \in Nat /\ OrderOK /\ CoverOK /\ AsDocumented

\* Names are natural numbers, and finitely many.
LEMMA NamesFinite == Names \in SUBSET Nat /\ IsFiniteSet(Names)
<1>1. 1 \in Int /\ NNames \in Int
  OBVIOUS
<1>2. QED
  BY <1>1, FS_Interval DEF Names

\* A sequence of names is one of numbers.
LEMMA NameSeqs == ASSUME NEW s \in Seq(Names) PROVE s \in Seq(Nat)
  BY NamesFinite, SeqMonotonic, Zenon

\* One answer of the namenode: the first of the entries after f.readdirLast.
LEMMA BatchProperties ==
    ASSUME TypeOK
    PROVE  /\ Batch(readdirLast) \in Seq(Names) /\ Increasing(Batch(readdirLast))
           /\ \A x \in Range(Batch(readdirLast)) :
                  readdirLast < x /\ x <= LastName(Batch(readdirLast))
           /\ LastName(Batch(readdirLast)) \in readdirLast .. NNames
           /\ \A e \in entries : readdirLast < e /\ e <= LastName(Batch(readdirLast)) =>
                  e \in Range(Batch(readdirLast))
           /\ Len(Listing(readdirLast)) - Len(Batch(readdirLast)) = 0 =>
                  \A e \in entries : readdirLast < e => e \in Range(Batch(readdirLast))
<1> DEFINE S == {e \in entries : e > readdirLast}
           L == Listing(readdirLast)
           k == IF Len(L) < Limit THEN Len(L) ELSE Limit
           batch == Batch(readdirLast)
           last == LastName(batch)
<1>1. S \in SUBSET Names /\ S \in SUBSET Nat /\ IsFiniteSet(S) /\ readdirLast \in 0 .. NNames
  <2>1. S \in SUBSET Names
    BY DEF TypeOK
  <2>2. QED
    BY <2>1, NamesFinite, FS_Subset, Zenon DEF TypeOK
<1>2. /\ L \in Seq(S) /\ Increasing(L) /\ Range(L) = S
  <2>1. L = Sorted(S)
    BY DEF Listing
  <2> HIDE DEF S, L
  <2>2. /\ L \in Seq(S)
        /\ \A i, j \in 1 .. Len(L) : i < j => L[i] < L[j]
        /\ \A e \in S : \E i \in 1 .. Len(L) : L[i] = e
    BY <1>1, <2>1, SortedProperties
  <2>3. Increasing(L)
    BY <2>2 DEF Increasing
  <2>4. Range(L) \in SUBSET S
    BY <2>2, LenProperties DEF Range
  <2>5. S \in SUBSET Range(L)
    BY <2>2, LenProperties DEF Range
  <2>6. QED
    BY <2>2, <2>3, <2>4, <2>5
<1>3. Len(L) \in Nat /\ L \in Seq(Nat) /\ L \in Seq(Names)
  BY <1>1, <1>2, LenProperties, SeqMonotonic
<1>4. batch = SubSeq(L, 1, k)
  BY DEF Batch
<1> HIDE DEF L, S, batch
<1>5. CASE Len(L) = 0
  <2>1. batch = <<>> /\ S = {}
    <3>1. k = 0
      BY <1>3, <1>5
    <3>2. batch = SubSeq(L, 1, 0)
      BY <1>4, <3>1
    <3>3. batch = <<>>
      BY <3>2, SubSeqEmpty
    <3>4. Range(L) = {}
      BY <1>3, <1>5, LenProperties DEF Range
    <3>5. QED
      BY <1>2, <3>3, <3>4
  <2>2. last = readdirLast /\ Range(batch) = {} /\ Increasing(batch) /\ batch \in Seq(Names)
    BY <2>1 DEF LastName, Range, Increasing
  <2>3. \A e \in entries : ~(readdirLast < e)
    BY <1>1, <2>1 DEF S, TypeOK
  <2>4. QED
    BY <1>1, <2>2, <2>3 DEF batch
<1>6. CASE Len(L) > 0
  <2>1. k \in 1 .. Len(L) /\ (Len(L) - k = 0 => k = Len(L))
    BY <1>3, <1>6
  <2> HIDE DEF k
  <2>2. /\ batch \in Seq(Nat) /\ Len(batch) = k /\ batch[k] = L[k] /\ Increasing(batch)
        /\ Range(batch) = {x \in Range(L) : x <= L[k]}
    BY <1>2, <1>3, <1>4, <2>1, FirstInOrder
  <2>3. last = L[k] /\ L[k] \in S
    <3>1. batch # <<>>
      BY <1>3, <2>1, <2>2, EmptySeq
    <3>2. QED
      BY <1>2, <2>1, <2>2, <3>1, ElementOfSeq DEF LastName
  <2>4. batch \in Seq(Names)
    <3>1. \A i \in 1 .. k : L[i] \in Names
      BY <1>3, <2>1, ElementOfSeq
    <3>2. k \in Int
      BY <1>3, <2>1
    <3>3. QED
      BY <1>4, <3>1, <3>2, SubSeqProperties
  <2>5. last \in readdirLast .. NNames
    <3>1. L[k] \in Names /\ L[k] > readdirLast
      BY <1>1, <2>3 DEF S
    <3>2. QED
      BY <1>1, <2>3, <3>1 DEF Names
  <2>6. \A x \in Range(batch) : readdirLast < x /\ x <= last
    BY <1>2, <2>2, <2>3, <1>1 DEF S
  <2>7. \A e \in entries : readdirLast < e /\ e <= last => e \in Range(batch)
    <3>1. ASSUME NEW e \in entries, readdirLast < e, e <= last PROVE e \in Range(batch)
      <4>1. e \in S
        BY <1>1, <3>1, NamesFinite DEF S, TypeOK
      <4>2. QED
        BY <1>2, <2>2, <2>3, <3>1, <4>1
    <3>2. QED
      BY <3>1
  <2>8. ASSUME Len(L) - Len(batch) = 0, NEW e \in entries, readdirLast < e
        PROVE  e \in Range(batch)
    <3>1. e \in S /\ k = Len(L)
      BY <1>1, <1>3, <2>1, <2>2, <2>8, NamesFinite DEF S, TypeOK
    <3>2. PICK i \in 1 .. Len(L) : e = L[i]
      BY <1>2, <1>3, <3>1, LenProperties DEF Range
    <3>3. i < k => L[i] < L[k]
      BY <1>2, <2>1, <3>1, <3>2 DEF Increasing
    <3>4. e <= L[k]
      <4>1. e \in Nat /\ L[k] \in Nat
        BY <1>1, <2>3, <3>1, Zenon
      <4>2. QED
        BY <1>3, <2>1, <3>1, <3>2, <3>3, <4>1
    <3>5. QED
      BY <1>2, <2>2, <3>1, <3>4
  <2>9. QED
    BY <2>2, <2>4, <2>5, <2>6, <2>7, <2>8 DEF batch, L
<1>7. QED
  BY <1>3, <1>5, <1>6

\* One round of the loop adds the batch to what there is so far.
LEMMA Round ==
    ASSUME IndInv, pc = "list",
           NEW batch, batch = Batch(readdirLast), NEW all, all = res \o batch,
           NEW last, last = LastName(batch)
    PROVE  /\ all \in Seq(Names) /\ listed \o all \in Seq(Nat) /\ last \in 0 .. NNames
           /\ Increasing(listed \o all) /\ \A x \in Range(listed \o all) : x <= last
           /\ failures = 0 =>
                  \A e \in stable : e <= last => e \in Range(listed \o all)
           /\ failures = 0 /\ Len(Listing(readdirLast)) - Len(batch) = 0 =>
                  stable \subseteq Range(listed \o all)
<1> DEFINE s == listed \o res
<1>1. /\ listed \in Seq(Nat) /\ res \in Seq(Nat) /\ res \in Seq(Names)
      /\ readdirLast \in 0 .. NNames /\ stable \subseteq entries /\ entries \subseteq Nat
  BY NameSeqs, NamesFinite DEF IndInv, TypeOK
<1>2. SoFar = s
  BY DEF SoFar
<1>3. s \in Seq(Nat)
  BY <1>1, ConcatProperties
<1>4. /\ batch \in Seq(Names) /\ Increasing(batch)
      /\ \A x \in Range(batch) : readdirLast < x /\ x <= last
      /\ last \in readdirLast .. NNames
      /\ \A e \in entries : readdirLast < e /\ e <= last => e \in Range(batch)
      /\ Len(Listing(readdirLast)) - Len(batch) = 0 =>
             \A e \in entries : readdirLast < e => e \in Range(batch)
  BY BatchProperties DEF IndInv
<1>5. batch \in Seq(Nat)
  BY <1>4, NameSeqs
<1>6. all \in Seq(Names)
  BY <1>1, <1>4, ConcatProperties
<1>7. listed \o all = s \o batch
  BY <1>1, <1>5, ConcatThree, Zenon
<1> HIDE DEF s
<1>8. Increasing(s) /\ \A x \in Range(s) : x <= readdirLast
  BY <1>2 DEF IndInv, OrderOK
<1>9. Range(s \o batch) = Range(s) \cup Range(batch)
  BY <1>3, <1>5, ConcatMembers
<1>10. Increasing(s \o batch)
  <2>1. readdirLast \in Nat /\ Increasing(batch) /\ \A x \in Range(batch) : readdirLast < x
    BY <1>1, <1>4
  <2>2. QED
    BY <1>3, <1>5, <1>8, <2>1, ConcatInOrder
<1>11. \A x \in Range(s \o batch) : x <= last
  <2>1. Range(s) \in SUBSET Nat
    BY <1>3, LenProperties DEF Range
  <2>2. QED
    BY <1>1, <1>4, <1>8, <1>9, <2>1
<1>12. failures = 0 => \A e \in stable : e <= readdirLast => e \in Range(s)
  BY <1>2 DEF IndInv, CoverOK
<1>13. \A e \in stable : e \in entries /\ (e <= readdirLast \/ readdirLast < e)
  BY <1>1
<1>14. failures = 0 => \A e \in stable : e <= last => e \in Range(s \o batch)
  BY <1>4, <1>9, <1>12, <1>13
<1>15. failures = 0 /\ Len(Listing(readdirLast)) - Len(batch) = 0 =>
           stable \subseteq Range(s \o batch)
  BY <1>4, <1>9, <1>12, <1>13
<1>16. s \o batch \in Seq(Nat)
  BY <1>3, <1>5, ConcatProperties
<1>17. last \in 0 .. NNames
  BY <1>1, <1>4
<1>18. QED
  BY <1>6, <1>7, <1>10, <1>11, <1>14, <1>15, <1>16, <1>17

\* The loop keeps the invariant, whether it goes on, ends, or throws away
\* what is more than asked for.
LEMMA LoopStep == ASSUME IndInv, ReaddirLoop PROVE IndInv'
<1> DEFINE batch == Batch(readdirLast)
           all == res \o batch
           last == LastName(batch)
           remaining == Len(Listing(readdirLast)) - Len(batch)
           s == listed \o all
<1>0. pc = "list" /\ UNCHANGED <<entries, n, stable, changes, failures>>
  BY DEF ReaddirLoop
<1>1. IF Enough(all, remaining)
      THEN /\ IF NoEntries(all)
              THEN readdirLast' = last /\ Return(<<>>, "EOF")
              ELSE Cut(all, last)
           /\ res' = <<>>
      ELSE res' = all /\ readdirLast' = last /\ UNCHANGED <<pc, ret, listed>>
  BY DEF ReaddirLoop
<1>2. /\ all \in Seq(Names) /\ s \in Seq(Nat) /\ last \in 0 .. NNames
      /\ Increasing(s) /\ \A x \in Range(s) : x <= last
      /\ failures = 0 => \A e \in stable : e <= last => e \in Range(s)
      /\ failures = 0 /\ remaining = 0 => stable \subseteq Range(s)
  BY <1>0, Round, Zenon
<1>3. /\ listed \in Seq(Names) /\ listed \in Seq(Nat) /\ all \in Seq(Nat) /\ n \in Int
      /\ stable \subseteq Nat /\ Len(all) \in Nat /\ TypeOK
  <2>1. listed \in Seq(Names) /\ n \in Int /\ stable \subseteq Names /\ TypeOK
    BY DEF IndInv, TypeOK
  <2>2. QED
    BY <1>2, <2>1, NameSeqs, NamesFinite, LenProperties
<1>4. s = listed \o all
  OBVIOUS
<1>5. failures' \in Nat
  BY <1>0 DEF IndInv
<1> HIDE DEF batch, all, last, remaining, s
\* What is left to show when names are returned.
<1>6. ASSUME NEW names \in Seq(Names), NEW err \in {"nil", "EOF"}, Return(names, err),
             readdirLast' \in 0 .. NNames, res' = <<>>,
             Increasing(listed \o names),
             \A x \in Range(listed \o names) : x <= readdirLast',
             failures = 0 =>
                 \A e \in stable : e <= readdirLast' => e \in Range(listed \o names),
             failures = 0 /\ (err = "EOF" \/ n <= 0) => stable \subseteq Range(listed \o names),
             n > 0 => Len(names) <= n /\ (names = <<>> => err # "nil")
      PROVE  IndInv'
  <2>1. pc' = "idle" /\ ret' = <<names, err>> /\ listed' = listed \o names
    BY <1>6 DEF Return
  <2>2. listed' \in Seq(Names)
    BY <1>3, <2>1, ConcatProperties
  <2>3. TypeOK'
    BY <1>0, <1>3, <1>6, <2>1, <2>2 DEF TypeOK
  <2>4. SoFar' = listed \o names
    BY <2>1 DEF SoFar
  <2>5. OrderOK' /\ CoverOK'
    BY <1>0, <1>6, <2>4 DEF OrderOK, CoverOK
  <2>6. AsDocumented'
    BY <1>0, <1>6, <2>1 DEF AsDocumented, Complete, AtMostN
  <2>7. QED
    BY <1>5, <2>3, <2>5, <2>6 DEF IndInv
<1>7. CASE ~Enough(all, remaining)
  <2>1. res' = all /\ readdirLast' = last /\ UNCHANGED <<pc, ret, listed>>
    BY <1>1, <1>7
  <2>2. SoFar' = s
    BY <1>0, <1>4, <2>1 DEF SoFar
  <2>3. TypeOK'
    BY <1>0, <1>2, <1>3, <2>1 DEF TypeOK
  <2>4. OrderOK' /\ CoverOK'
    BY <1>0, <1>2, <2>1, <2>2 DEF OrderOK, CoverOK
  <2>5. AsDocumented'
    BY <1>0, <2>1 DEF AsDocumented, Complete, AtMostN
  <2>6. QED
    BY <1>5, <2>3, <2>4, <2>5 DEF IndInv
<1>8. CASE Enough(all, remaining) /\ NoEntries(all)
  <2>1. all = <<>> /\ n > 0 /\ remaining = 0 /\ Len(all) <= n
    BY <1>3, <1>8 DEF NoEntries, Enough
  <2>2. readdirLast' = last /\ Return(all, "EOF") /\ res' = <<>>
    BY <1>1, <1>8, <2>1
  <2>3. QED
    BY <1>2, <1>4, <1>6, <2>1, <2>2, Zenon
<1>9. CASE Enough(all, remaining) /\ ~NoEntries(all) /\ ~(n > 0 /\ Len(all) > n)
  <2>1. readdirLast' = last /\ Return(all, "nil") /\ res' = <<>>
    BY <1>1, <1>9 DEF Cut
  <2>2. n <= 0 => remaining = 0
    BY <1>3, <1>9 DEF Enough
  <2>3. n > 0 => Len(all) <= n /\ all # <<>>
    BY <1>3, <1>9 DEF NoEntries
  <2>4. QED
    BY <1>2, <1>4, <1>6, <2>1, <2>2, <2>3
<1>10. CASE Enough(all, remaining) /\ ~NoEntries(all) /\ n > 0 /\ Len(all) > n
  <2> DEFINE names == SubSeq(all, 1, n)
             c == Len(listed) + n
  <2>1. readdirLast' = all[n] /\ Return(names, "nil") /\ res' = <<>>
    BY <1>1, <1>10 DEF Cut
  <2>2. n \in 1 .. Len(all)
    BY <1>3, <1>10
  <2>3. names \in Seq(Names) /\ Len(names) = n
    <3>1. \A i \in 1 .. n : all[i] \in Names
      BY <1>2, <1>3, <2>2, ElementOfSeq
    <3>2. QED
      BY <1>3, <2>2, <3>1, SubSeqProperties
  <2>4. listed \o names = SubSeq(s, 1, c)
    BY <1>3, <1>4, <2>2, ConcatFirst
  <2>5. c \in 1 .. Len(s) /\ s[c] = all[n]
    <3>1. /\ Len(s) = Len(listed) + Len(all) /\ Len(listed) \in Nat
          /\ \A i \in 1 .. Len(listed) + Len(all) :
                 s[i] = IF i <= Len(listed) THEN listed[i] ELSE all[i - Len(listed)]
      BY <1>3, <1>4, ConcatProperties, LenProperties
    <3>2. c \in 1 .. Len(listed) + Len(all) /\ ~(c <= Len(listed)) /\ c - Len(listed) = n
      BY <1>3, <2>2, <3>1
    <3>3. QED
      BY <3>1, <3>2
  <2> HIDE DEF c, names
  <2>6. /\ Increasing(SubSeq(s, 1, c))
        /\ Range(SubSeq(s, 1, c)) = {x \in Range(s) : x <= s[c]}
    BY <1>2, <2>5, FirstInOrder
  <2>7. all[n] \in Names /\ all[n] \in Range(s) /\ all[n] <= last
    <3>1. all[n] \in Range(s)
      BY <1>2, <2>5, LenProperties DEF Range
    <3>2. QED
      BY <1>2, <2>2, <3>1, ElementOfSeq
  <2>8. failures = 0 => \A e \in stable : e <= all[n] => e \in Range(listed \o names)
    <3>1. ASSUME failures = 0, NEW e \in stable, e <= all[n] PROVE e \in Range(s)
      <4>1. e <= last
        <5>a. e \in Nat /\ last \in Nat
          BY <1>2, <1>3
        <5>b. all[n] \in Nat
          BY <2>7, NamesFinite, Zenon
        <5>1. e \in Nat /\ all[n] \in Nat /\ last \in Nat
          BY <5>a, <5>b
        <5>2. QED
          BY <2>7, <3>1, <5>1
      <4>2. QED
        BY <1>2, <3>1, <4>1
    <3>2. QED
      BY <2>4, <2>5, <2>6, <3>1
  <2>9. names # <<>> /\ ~(n <= 0)
    BY <1>3, <2>2, <2>3
  <2>10. all[n] \in 0 .. NNames
    BY <2>7 DEF Names
  <2>11. \A x \in Range(listed \o names) : x <= readdirLast'
    BY <2>1, <2>4, <2>5, <2>6
  <2>12. n > 0 => Len(names) <= n /\ names # <<>>
    BY <1>3, <2>3, <2>9
  <2>13. QED
    BY <1>6, <2>1, <2>3, <2>4, <2>6, <2>8, <2>9, <2>10, <2>11, <2>12, Zenon
<1>11. QED
  BY <1>7, <1>8, <1>9, <1>10

\* Every step keeps the invariant.
LEMMA IndStep == ASSUME IndInv, [Next]_vars PROVE IndInv'
<1>1. ASSUME NEW k \in Counts, Readdir(k) PROVE IndInv'
  <2>1. /\ pc = "idle" /\ pc' = "list" /\ n' = k /\ res' = <<>>
        /\ readdirLast' = (IF k <= 0 THEN 0 ELSE readdirLast)
        /\ listed' = (IF k <= 0 THEN <<>> ELSE listed)
        /\ stable' = (IF k <= 0 THEN entries ELSE stable)
        /\ UNCHANGED <<entries, ret, changes, failures>>
    BY <1>1 DEF Readdir
  <2>2. TypeOK'
    BY <2>1 DEF IndInv, TypeOK
  <2>3. AsDocumented'
    BY <2>1 DEF AsDocumented, Complete, AtMostN
  <2>4. SoFar' = listed' /\ SoFar = listed
    <3>1. listed' \in Seq(Nat)
      BY <2>2, NameSeqs DEF TypeOK
    <3>2. listed' \o <<>> = listed'
      BY <3>1, ConcatEmptySeq
    <3>3. QED
      BY <2>1, <3>2 DEF SoFar
  <2>5. CASE k <= 0
    <3>1. listed' = <<>> /\ readdirLast' = 0 /\ stable' = entries /\ Range(listed') = {}
      BY <2>1, <2>5 DEF Range
    <3>2. OrderOK'
      BY <2>4, <3>1 DEF OrderOK, Increasing
    <3>3. \A e \in entries : ~(e <= 0)
      BY DEF IndInv, TypeOK, Names
    <3>4. CoverOK'
      BY <3>1, <3>3 DEF CoverOK
    <3>5. QED
      BY <2>1, <2>2, <2>3, <3>2, <3>4 DEF IndInv
  <2>6. CASE ~(k <= 0)
    <3>1. listed' = listed /\ readdirLast' = readdirLast /\ stable' = stable
      BY <2>1, <2>6
    <3>2. OrderOK' /\ CoverOK'
      BY <2>1, <2>4, <3>1 DEF IndInv, OrderOK, CoverOK
    <3>3. QED
      BY <2>1, <2>2, <2>3, <3>2 DEF IndInv
  <2>7. QED
    BY <2>5, <2>6
<1>2. CASE ReaddirFails
  <2>1. /\ pc = "list" /\ pc' = "idle" /\ ret' = <<<<>>, "error">> /\ listed' = listed \o <<>>
        /\ failures' = failures + 1
        /\ UNCHANGED <<entries, readdirLast, n, res, stable, changes>>
    BY <1>2 DEF ReaddirFails, Return
  <2>2. /\ listed \in Seq(Nat) /\ res \in Seq(Nat) /\ failures \in Nat
        /\ listed \in Seq(Names) /\ n \in Int /\ TypeOK
    BY NameSeqs DEF IndInv, TypeOK
  <2>3. listed' = listed
    BY <2>1, <2>2, ConcatEmptySeq
  <2>4. TypeOK'
    <3>1. <<>> \in Seq(Names)
      BY EmptySeq
    <3>2. ret' \in Seq(Names) \X {"none", "nil", "EOF", "error"}
      BY <2>1, <3>1, Zenon
    <3>3. QED
      BY <2>1, <2>2, <2>3, <3>2 DEF TypeOK
  <2>5. failures' \in Nat /\ failures' # 0
    BY <2>1, <2>2
  <2>6. AsDocumented'
    BY <2>1, <2>2, <2>5 DEF AsDocumented, Complete, AtMostN
  <2>7. OrderOK'
    <3>1. SoFar = listed \o res /\ SoFar' = listed
      BY <2>1, <2>3 DEF SoFar
    <3>2. /\ Len(listed) \in Nat /\ Len(res) \in Nat /\ Len(listed \o res) = Len(listed) + Len(res)
          /\ \A i \in 1 .. Len(listed) + Len(res) :
                 (listed \o res)[i] = IF i <= Len(listed) THEN listed[i] ELSE res[i - Len(listed)]
      BY <2>2, ConcatProperties, LenProperties
    <3>3. Increasing(listed \o res) /\ \A x \in Range(listed \o res) : x <= readdirLast
      BY <3>1 DEF IndInv, OrderOK
    <3>4. \A i \in 1 .. Len(listed) :
              i \in 1 .. Len(listed \o res) /\ (listed \o res)[i] = listed[i]
      BY <3>2
    <3>5. Increasing(listed)
      BY <3>3, <3>4 DEF Increasing
    <3>6. Range(listed) \subseteq Range(listed \o res)
      BY <2>2, ConcatMembers
    <3>7. QED
      BY <2>1, <3>1, <3>3, <3>5, <3>6 DEF OrderOK
  <2>8. CoverOK'
    BY <2>5 DEF CoverOK
  <2>9. QED
    BY <2>4, <2>5, <2>6, <2>7, <2>8 DEF IndInv
<1>3. ASSUME NEW e \in Names, Change(e) PROVE IndInv'
  <2>1. /\ entries' = (IF e \in entries THEN entries \ {e} ELSE entries \cup {e})
        /\ stable' = stable \ {e}
        /\ UNCHANGED <<readdirLast, pc, n, res, ret, listed, failures>>
    BY <1>3 DEF Change
  <2>2. TypeOK'
    BY <2>1 DEF IndInv, TypeOK
  <2>3. OrderOK' /\ CoverOK'
    BY <2>1 DEF IndInv, OrderOK, CoverOK, SoFar
  <2>4. AsDocumented'
    BY <2>1 DEF IndInv, AsDocumented, Complete, AtMostN
  <2>5. QED
    BY <2>1, <2>2, <2>3, <2>4 DEF IndInv
<1>4. CASE UNCHANGED vars
  BY <1>4 DEF vars, IndInv, TypeOK, OrderOK, CoverOK, SoFar, AsDocumented, Complete, AtMostN
<1>5. QED
  BY <1>1, <1>2, <1>3, <1>4, LoopStep DEF Next

\* The invariant holds of every behaviour.
LEMMA Invariance == Spec => []IndInv
<1>1. Init => IndInv
  <2> SUFFICES ASSUME Init PROVE IndInv
    OBVIOUS
  <2>2. TypeOK /\ failures = 0 /\ pc = "idle" /\ listed = <<>> /\ readdirLast = 0 /\ n = 0
    <3>1. <<>> \in Seq(Names)
      BY EmptySeq
    <3>2. ret \in Seq(Names) \X {"none", "nil", "EOF", "error"}
      BY <3>1, Zenon DEF Init
    <3>3. QED
      BY <3>1, <3>2 DEF Init, TypeOK
  <2>3. SoFar = <<>> /\ Range(SoFar) = {}
    BY <2>2 DEF SoFar, Range
  <2>4. OrderOK
    BY <2>3 DEF OrderOK, Increasing
  <2>5. CoverOK
    <3>1. \A e \in stable : ~(e <= 0)
      BY <2>2 DEF TypeOK, Names
    <3>2. QED
      BY <2>2, <3>1 DEF CoverOK
  <2>6. AsDocumented
    BY DEF Init, AsDocumented, Complete, AtMostN
  <2>7. QED
    BY <2>2, <2>4, <2>5, <2>6 DEF IndInv
<1>2. IndInv /\ [Next]_vars => IndInv'
  BY IndStep
<1>3. QED
  BY <1>1, <1>2, PTL DEF Spec

\* Every variable keeps its type.
THEOREM TypeCorrect == Spec => []TypeOK
<1>1. IndInv => TypeOK
  BY DEF IndInv
<1>2. QED
  BY <1>1, Invariance, PTL

\* Readdir returns names in order and none twice, over all the calls of a
\* listing: f.readdirLast is never before a name that was returned.
THEOREM NamesInOrder == Spec => []InOrder
<1>1. IndInv => InOrder
  <2> SUFFICES ASSUME IndInv PROVE Increasing(listed)
    BY DEF Increasing, InOrder
  <2>2. CASE pc # "list"
    BY <2>2 DEF IndInv, OrderOK, SoFar
  <2>3. CASE pc = "list"
    <3>1. listed \in Seq(Nat) /\ res \in Seq(Nat)
      BY NameSeqs DEF IndInv, TypeOK
    <3>2. /\ Len(listed) \in Nat /\ Len(res) \in Nat /\ Len(listed \o res) = Len(listed) + Len(res)
          /\ \A i \in 1 .. Len(listed) + Len(res) :
                 (listed \o res)[i] = IF i <= Len(listed) THEN listed[i] ELSE res[i - Len(listed)]
      BY <3>1, ConcatProperties, LenProperties
    <3>3. Increasing(listed \o res)
      BY <2>3 DEF IndInv, OrderOK, SoFar
    <3>4. \A i \in 1 .. Len(listed) :
              i \in 1 .. Len(listed \o res) /\ (listed \o res)[i] = listed[i]
      BY <3>2
    <3>5. QED
      BY <3>3, <3>4 DEF Increasing
  <2>4. QED
    BY <2>2, <2>3
<1>2. QED
  BY <1>1, Invariance, PTL

\* Readdir leaves out no name that was there all along, unless a call failed,
\* and returns no more than it was asked for.
THEOREM ReaddirAsDocumented == Spec => []AsDocumented
<1>1. IndInv => AsDocumented
  BY DEF IndInv
<1>2. QED
  BY <1>1, Invariance, PTL
=============================================================================
