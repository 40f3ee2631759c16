----------------------------- MODULE SequenceLemmas -----------------------------
(***************************************************************************)
(* What the proofs about the models need to know of natural numbers,       *)
(* finite sets and sequences: an induction principle over a set, and the   *)
(* facts about the operators of Picking.                                   *)
(***************************************************************************)
EXTENDS Picking, Integers, Sequences, SequencesExt, SequenceTheorems, FiniteSetTheorems,
        WellFoundedInduction, TLAPS

LEMMA LessWellFounded == IsWellFoundedOn({ss \in Nat \X Nat : ss[1] < ss[2]}, Nat)
BY NatLessThanWellFounded DEF OpToRel

(* Every set of natural numbers that is not empty has a least element. *)
LEMMA Least ==
  ASSUME NEW T, T \subseteq Nat, T # {}
  PROVE  \E n \in T : \A m \in T : n <= m
<1> DEFINE R == {ss \in Nat \X Nat : ss[1] < ss[2]}
<1>1. IsWellFoundedOn(R, Nat)
  BY LessWellFounded
<1> HIDE DEF R
<1>2. PICK n \in T : \A m \in T : ~ (<<m, n>> \in R)
  BY <1>1, WFMin
<1>3. \A m \in T : m \in Nat
  OBVIOUS
<1>4. \A m \in T : n <= m
  <2>1. TAKE m \in T
  <2>2. m \in Nat /\ n \in Nat /\ ~(<<m, n>> \in R)
    BY <1>2, <1>3
  <2>3. ~(m < n)
    BY <2>2 DEF R
  <2>4. QED
    BY <2>2, <2>3
<1>5. QED
  BY <1>4

(* Induction over the natural numbers, the property given as the set of the *)
(* numbers that have it.                                                    *)
LEMMA InductionOver ==
  ASSUME NEW S, 0 \in S, \A n \in Nat : n \in S => n + 1 \in S
  PROVE  \A n \in Nat : n \in S
<1> DEFINE T == {n \in Nat : n \notin S}
<1>1. CASE T = {}
  BY <1>1
<1>2. CASE T # {}
  <2>1. PICK n \in T : \A m \in T : n <= m
    <3> HIDE DEF T
    <3> QED
      BY <1>2, Least DEF T
  <2>2. n # 0
    OBVIOUS
  <2>3. n - 1 \in Nat /\ n - 1 \in S
    BY <2>1, <2>2
  <2>4. QED
    BY <2>3
<1>3. QED
  BY <1>1, <1>2

(* The rank of an element of K: how many of K it is not below. *)
Rank(K, i) == Cardinality({j \in K : j <= i})

LEMMA RankFacts ==
  ASSUME NEW K, K \subseteq Nat, IsFiniteSet(K)
  PROVE  /\ Cardinality(K) \in Nat
         /\ \A i \in K : Rank(K, i) \in 1 .. Cardinality(K)
         /\ \A i, j \in K : i < j => Rank(K, i) < Rank(K, j)
<1> DEFINE upto(i) == {j \in K : j <= i}
<1>1. Cardinality(K) \in Nat
  BY FS_CardinalityType
<1>2. ASSUME NEW i \in K
      PROVE  /\ IsFiniteSet(upto(i)) /\ Cardinality(upto(i)) \in Nat
             /\ Cardinality(upto(i)) <= Cardinality(K) /\ Cardinality(upto(i)) # 0
  <2>1. upto(i) \in SUBSET K
    OBVIOUS
  <2>2. IsFiniteSet(upto(i)) /\ Cardinality(upto(i)) <= Cardinality(K)
    BY <2>1, FS_Subset
  <2>3. i \in upto(i)
    OBVIOUS
  <2> HIDE DEF upto
  <2>4. QED
    BY <2>2, <2>3, FS_CardinalityType, FS_EmptySet
<1>3. ASSUME NEW i \in K, NEW j \in K, i < j
      PROVE  Cardinality(upto(i)) < Cardinality(upto(j))
  <2>1. upto(i) \in SUBSET upto(j)
    <3>1. i \in Nat /\ j \in Nat /\ \A k \in K : k \in Nat
      OBVIOUS
    <3>2. \A k \in K : k <= i => k <= j
      BY <1>3, <3>1
    <3>3. QED
      BY <3>2
  <2>2. j \in upto(j) /\ j \notin upto(i)
    BY <1>3
  <2>3. upto(i) # upto(j)
    BY <2>2
  <2>4. IsFiniteSet(upto(j)) /\ Cardinality(upto(j)) \in Nat /\ Cardinality(upto(i)) \in Nat
    BY <1>2
  <2> HIDE DEF upto
  <2>5. /\ Cardinality(upto(i)) <= Cardinality(upto(j))
        /\ Cardinality(upto(j)) = Cardinality(upto(i)) => upto(j) = upto(i)
    BY <2>1, <2>4, FS_Subset
  <2>6. QED
    BY <2>3, <2>4, <2>5
<1>4. \A i \in K : Rank(K, i) = Cardinality(upto(i))
  BY DEF Rank
<1> HIDE DEF upto
<1>5. QED
  BY <1>1, <1>2, <1>3, <1>4

(* Every number from 1 to the size of K is the rank of an element of K. *)
LEMMA RankOnto ==
  ASSUME NEW K, K \subseteq Nat, IsFiniteSet(K), NEW k \in 1 .. Cardinality(K)
  PROVE  \E i \in K : Rank(K, i) = k
<1> DEFINE n == Cardinality(K)
           f == [i \in K |-> Rank(K, i)]
<1>1. n \in Nat /\ \A i \in K : Rank(K, i) \in 1 .. n
  BY RankFacts
<1>2. f \in [K -> 1 .. n]
  BY <1>1
<1>r. \A i, j \in K : i < j => Rank(K, i) < Rank(K, j)
  BY RankFacts
<1>3. ASSUME NEW i \in K, NEW j \in K, f[i] = f[j]
      PROVE  i = j
  <2>1. Rank(K, i) = Rank(K, j)
    BY <1>3
  <2>2. Rank(K, i) \in Nat /\ Rank(K, j) \in Nat
    BY <1>1
  <2>3. i \in Nat /\ j \in Nat
    OBVIOUS
  <2>4. ~(i < j) /\ ~(j < i)
    BY <2>1, <2>2, <1>r
  <2>5. QED
    BY <2>3, <2>4
<1>4. IsFiniteSet(1 .. n) /\ Cardinality(1 .. n) = n
  <2>1. /\ IsFiniteSet(1 .. n)
        /\ Cardinality(1 .. n) = IF 1 > n THEN 0 ELSE n - 1 + 1
    BY <1>1, FS_Interval
  <2>2. QED
    BY <1>1, <2>1
<1>5. f \in Injection(K, 1 .. n)
  <2> HIDE DEF f, n
  <2>1. QED
    BY <1>2, <1>3 DEF Injection, IsInjective
<1>6. f \in Surjection(K, 1 .. n)
  <2>1. n = Cardinality(K)
    OBVIOUS
  <2> HIDE DEF f, n
  <2>2. QED
    BY <1>4, <1>5, <2>1, FS_Injection
<1>7. QED
  BY <1>6 DEF Surjection

LEMMA AscendingFacts ==
  ASSUME NEW K, K \subseteq Nat, IsFiniteSet(K)
  PROVE  /\ Cardinality(K) \in Nat
         /\ Ascending(K) \in [1 .. Cardinality(K) -> K]
         /\ \A k \in 1 .. Cardinality(K) : Rank(K, Ascending(K)[k]) = k
         /\ \A i \in K : Ascending(K)[Rank(K, i)] = i
         /\ \A i \in K : \E k \in 1 .. Cardinality(K) : Ascending(K)[k] = i
         /\ \A k, l \in 1 .. Cardinality(K) : k < l => Ascending(K)[k] < Ascending(K)[l]
<1> DEFINE n == Cardinality(K)
           a == Ascending(K)
<1>1. n \in Nat /\ \A i \in K : Rank(K, i) \in 1 .. n
  BY RankFacts
<1>r. \A i, j \in K : i < j => Rank(K, i) < Rank(K, j)
  BY RankFacts
<1>2. a = [k \in 1 .. n |-> CHOOSE i \in K : Rank(K, i) = k]
  BY DEF Ascending, Rank
<1>3. ASSUME NEW k \in 1 .. n
      PROVE  a[k] \in K /\ Rank(K, a[k]) = k
  <2>1. a[k] = CHOOSE i \in K : Rank(K, i) = k
    BY <1>2
  <2>2. \E i \in K : Rank(K, i) = k
    BY RankOnto
  <2> HIDE DEF a
  <2>3. QED
    BY <2>1, <2>2, Zenon
<1>4. ASSUME NEW i \in K, NEW j \in K, Rank(K, i) <= Rank(K, j)
      PROVE  i <= j
  <2>1. i \in Nat /\ j \in Nat
    OBVIOUS
  <2>2. Rank(K, i) \in Nat /\ Rank(K, j) \in Nat
    BY <1>1
  <2>3. ~(j < i)
    BY <1>4, <2>2, <1>r
  <2>4. QED
    BY <2>1, <2>3
<1>5. ASSUME NEW i \in K
      PROVE  Rank(K, i) \in 1 .. n /\ a[Rank(K, i)] = i
  <2>1. Rank(K, i) \in 1 .. n
    BY <1>1
  <2>2. a[Rank(K, i)] \in K /\ Rank(K, a[Rank(K, i)]) = Rank(K, i)
    BY <1>3, <2>1
  <2>3. a[Rank(K, i)] <= i /\ i <= a[Rank(K, i)]
    <3>1. Rank(K, i) \in Nat
      BY <2>1, <1>1
    <3> DEFINE b == a[Rank(K, i)]
    <3>2. b \in K /\ Rank(K, b) = Rank(K, i)
      BY <2>2
    <3> HIDE DEF a, b
    <3>3. Rank(K, b) <= Rank(K, i) /\ Rank(K, i) <= Rank(K, b)
      BY <3>1, <3>2
    <3>4. b <= i /\ i <= b
      BY <1>4, <3>2, <3>3
    <3>5. QED
      BY <3>4 DEF b
  <2>4. i \in Nat /\ a[Rank(K, i)] \in Nat
    BY <2>2
  <2>5. QED
    BY <2>1, <2>3, <2>4
<1>6. ASSUME NEW k \in 1 .. n, NEW l \in 1 .. n, k < l
      PROVE  a[k] < a[l]
  <2>1. a[k] \in K /\ a[l] \in K /\ Rank(K, a[k]) = k /\ Rank(K, a[l]) = l
    BY <1>3
  <2>2. a[k] <= a[l]
    <3>1. Rank(K, a[k]) <= Rank(K, a[l])
      BY <2>1, <1>6
    <3> HIDE DEF a
    <3>2. QED
      BY <1>4, <2>1, <3>1
  <2>3. a[k] # a[l]
    BY <2>1, <1>6
  <2>4. a[k] \in Nat /\ a[l] \in Nat
    BY <2>1
  <2>5. QED
    BY <2>2, <2>3, <2>4
<1>7. a \in [1 .. n -> K]
  <2>1. DOMAIN a = 1 .. n /\ a = [k \in 1 .. n |-> a[k]]
    BY <1>2
  <2> HIDE DEF a
  <2>2. QED
    BY <1>3, <2>1
<1> HIDE DEF a
<1>8. QED
  BY <1>1, <1>3, <1>5, <1>6, <1>7 DEF a

(* What Picked takes from a sequence: the elements at the positions K, all  *)
(* of them, in the order they had.                                          *)
LEMMA PickedFacts ==
  ASSUME NEW A, NEW s \in Seq(A), NEW K \in SUBSET (DOMAIN s)
  PROVE  /\ IsFiniteSet(K) /\ Cardinality(K) \in Nat
         /\ Picked(s, K) \in Seq(A)
         /\ Len(Picked(s, K)) = Cardinality(K)
         /\ DOMAIN Picked(s, K) = 1 .. Cardinality(K)
         /\ Ascending(K) \in [1 .. Cardinality(K) -> K]
         /\ \A k \in 1 .. Cardinality(K) : Picked(s, K)[k] = s[Ascending(K)[k]]
         /\ \A i \in K : \E k \in 1 .. Cardinality(K) : Ascending(K)[k] = i
         /\ \A k, l \in 1 .. Cardinality(K) : k < l => Ascending(K)[k] < Ascending(K)[l]
<1>1. K \subseteq Nat /\ IsFiniteSet(K)
  <2>1. Len(s) \in Nat /\ DOMAIN s = 1 .. Len(s)
    OBVIOUS
  <2>2. IsFiniteSet(1 .. Len(s))
    BY <2>1, FS_Interval
  <2>3. IsFiniteSet(K)
    BY <2>1, <2>2, FS_Subset
  <2>4. QED
    BY <2>1, <2>3
<1>2. /\ Cardinality(K) \in Nat
      /\ Ascending(K) \in [1 .. Cardinality(K) -> K]
      /\ \A i \in K : \E k \in 1 .. Cardinality(K) : Ascending(K)[k] = i
      /\ \A k, l \in 1 .. Cardinality(K) : k < l => Ascending(K)[k] < Ascending(K)[l]
  BY <1>1, AscendingFacts
<1>3. \A k \in 1 .. Cardinality(K) : s[Ascending(K)[k]] \in A
  BY <1>2
<1> DEFINE p == Picked(s, K)
<1>4. p = [k \in 1 .. Cardinality(K) |-> s[Ascending(K)[k]]]
  BY DEF Picked
<1>5. p \in Seq(A) /\ Len(p) = Cardinality(K) /\ DOMAIN p = 1 .. Cardinality(K)
  <2>1. p \in [1 .. Cardinality(K) -> A]
    BY <1>3, <1>4
  <2> HIDE DEF p
  <2>2. QED
    BY <1>2, <2>1
<1>6. \A k \in 1 .. Cardinality(K) : p[k] = s[Ascending(K)[k]]
  BY <1>4
<1> HIDE DEF p
<1>7. QED
  BY <1>1, <1>2, <1>5, <1>6 DEF p

(* An element that some position of K holds is picked, and no other is. *)
LEMMA PickedElements ==
  ASSUME NEW A, NEW s \in Seq(A), NEW K \in SUBSET (DOMAIN s)
  PROVE  /\ \A k \in DOMAIN Picked(s, K) : \E i \in K : Picked(s, K)[k] = s[i]
         /\ \A i \in K : \E k \in DOMAIN Picked(s, K) : Picked(s, K)[k] = s[i]
<1> DEFINE p == Picked(s, K)
<1>1. /\ DOMAIN p = 1 .. Cardinality(K) /\ Ascending(K) \in [1 .. Cardinality(K) -> K]
      /\ \A k \in 1 .. Cardinality(K) : p[k] = s[Ascending(K)[k]]
      /\ \A i \in K : \E k \in 1 .. Cardinality(K) : Ascending(K)[k] = i
  BY PickedFacts
<1> HIDE DEF p
<1>2. \A k \in DOMAIN p : \E i \in K : p[k] = s[i]
  BY <1>1
<1>3. \A i \in K : \E k \in DOMAIN p : p[k] = s[i]
  BY <1>1
<1>4. QED
  BY <1>2, <1>3 DEF p

(* The greatest position of K gives the last element. *)
LEMMA PickedLast ==
  ASSUME NEW A, NEW s \in Seq(A), NEW K \in SUBSET (DOMAIN s),
         NEW m \in K, \A i \in K : i <= m
  PROVE  /\ Picked(s, K) # <<>>
         /\ Picked(s, K)[Len(Picked(s, K))] = s[m]
<1> DEFINE n == Cardinality(K)
           a == Ascending(K)
<1>1. /\ n \in Nat /\ a \in [1 .. n -> K]
      /\ Picked(s, K) \in Seq(A) /\ Len(Picked(s, K)) = n
      /\ \A k \in 1 .. n : Picked(s, K)[k] = s[a[k]]
      /\ \A i \in K : \E k \in 1 .. n : a[k] = i
      /\ \A k, l \in 1 .. n : k < l => a[k] < a[l]
  BY PickedFacts
<1> HIDE DEF n, a
<1>2. PICK k \in 1 .. n : a[k] = m
  BY <1>1
<1>3. n \in 1 .. n
  BY <1>1, <1>2
<1>4. a[n] \in K /\ a[n] \in Nat /\ m \in Nat
  BY <1>1, <1>3
<1>5. k = n
  <2>1. a[n] <= m
    BY <1>4
  <2>2. ~(k < n)
    BY <1>1, <1>2, <1>3, <1>4, <2>1
  <2>3. QED
    BY <1>1, <1>2, <2>2
<1>6. QED
  BY <1>1, <1>2, <1>3, <1>5

-----------------------------------------------------------------------------
(* The elements of sequences. *)

LEMMA TailElements ==
  ASSUME NEW A, NEW s \in Seq(A), s # <<>>
  PROVE  /\ Head(s) \in A /\ Head(s) = s[1] /\ Tail(s) \in Seq(A)
         /\ DOMAIN s = 1 .. Len(s) /\ Len(s) \in Nat \ {0}
         /\ DOMAIN Tail(s) = 1 .. Len(s) - 1
         /\ \A i \in DOMAIN Tail(s) : i + 1 \in DOMAIN s /\ Tail(s)[i] = s[i + 1]
         /\ ToSet(s) = {Head(s)} \cup ToSet(Tail(s))
<1>1. /\ Head(s) = s[1] /\ Tail(s) \in Seq(A) /\ Len(s) \in Nat \ {0}
      /\ Len(Tail(s)) = Len(s) - 1
      /\ \A i \in 1 .. Len(s) - 1 : Tail(s)[i] = s[i + 1]
  OBVIOUS
<1>2. DOMAIN s = 1 .. Len(s) /\ DOMAIN Tail(s) = 1 .. Len(s) - 1
  BY <1>1
<1>3. Head(s) \in A
  BY <1>1
<1>4. \A i \in DOMAIN Tail(s) : i + 1 \in DOMAIN s /\ Tail(s)[i] = s[i + 1]
  BY <1>1, <1>2
<1> DEFINE t == Tail(s)
<1>5. ASSUME NEW x
      PROVE  x \in ToSet(s) <=> x = Head(s) \/ x \in ToSet(t)
  <2>1. ASSUME NEW i \in DOMAIN s, x = s[i], i # 1
        PROVE  x \in ToSet(t)
    <3>1. i - 1 \in DOMAIN t /\ t[i - 1] = x
      BY <1>1, <1>2, <2>1
    <3> HIDE DEF t
    <3>2. QED
      BY <3>1 DEF ToSet
  <2>2. 1 \in DOMAIN s
    BY <1>1, <1>2
  <2>3. ASSUME NEW i \in DOMAIN t, x = t[i]
        PROVE  x \in ToSet(s)
    BY <1>4, <2>3 DEF ToSet
  <2> HIDE DEF t
  <2>4. QED
    BY <1>1, <2>1, <2>2, <2>3 DEF ToSet
<1>6. ToSet(s) = {Head(s)} \cup ToSet(t)
  <2> HIDE DEF t
  <2>1. QED
    BY <1>5
<1>7. QED
  BY <1>1, <1>2, <1>3, <1>4, <1>6

LEMMA AppendElements ==
  ASSUME NEW A, NEW s \in Seq(A), NEW e \in A
  PROVE  /\ Append(s, e) \in Seq(A) /\ Append(s, e) # <<>>
         /\ Len(s) \in Nat /\ DOMAIN s = 1 .. Len(s)
         /\ Len(Append(s, e)) = Len(s) + 1
         /\ DOMAIN Append(s, e) = 1 .. Len(s) + 1
         /\ \A i \in DOMAIN s : Append(s, e)[i] = s[i]
         /\ Append(s, e)[Len(s) + 1] = e
         /\ ToSet(Append(s, e)) = ToSet(s) \cup {e}
<1> DEFINE t == Append(s, e)
<1>1. /\ t \in Seq(A) /\ t # <<>> /\ Len(s) \in Nat /\ DOMAIN s = 1 .. Len(s)
      /\ Len(t) = Len(s) + 1 /\ DOMAIN t = 1 .. Len(s) + 1
      /\ \A i \in DOMAIN s : t[i] = s[i]
      /\ t[Len(s) + 1] = e
  BY AppendProperties
<1> HIDE DEF t
<1>2. ASSUME NEW x
      PROVE  x \in ToSet(t) <=> x \in ToSet(s) \/ x = e
  <2>1. ASSUME NEW i \in DOMAIN t, x = t[i], x # e
        PROVE  x \in ToSet(s)
    <3>1. i \in DOMAIN s
      BY <1>1, <2>1
    <3>2. QED
      BY <1>1, <2>1, <3>1 DEF ToSet
  <2>2. ASSUME NEW i \in DOMAIN s, x = s[i]
        PROVE  x \in ToSet(t)
    <3>1. i \in DOMAIN t /\ t[i] = x
      BY <1>1, <2>2
    <3>2. QED
      BY <3>1 DEF ToSet
  <2>3. Len(s) + 1 \in DOMAIN t
    BY <1>1
  <2>4. QED
    BY <1>1, <2>1, <2>2, <2>3 DEF ToSet
<1>3. ToSet(t) = ToSet(s) \cup {e}
  BY <1>2
<1>4. QED
  BY <1>1, <1>3 DEF t

LEMMA ConcatElements ==
  ASSUME NEW A, NEW s \in Seq(A), NEW t \in Seq(A)
  PROVE  /\ s \o t \in Seq(A)
         /\ Len(s) \in Nat /\ Len(t) \in Nat
         /\ DOMAIN s = 1 .. Len(s) /\ DOMAIN t = 1 .. Len(t)
         /\ DOMAIN (s \o t) = 1 .. Len(s) + Len(t)
         /\ \A i \in DOMAIN s : (s \o t)[i] = s[i]
         /\ \A i \in DOMAIN t : (s \o t)[Len(s) + i] = t[i]
         /\ \A i \in DOMAIN (s \o t) :
              \/ i \in DOMAIN s /\ (s \o t)[i] = s[i]
              \/ i - Len(s) \in DOMAIN t /\ (s \o t)[i] = t[i - Len(s)]
         /\ ToSet(s \o t) = ToSet(s) \cup ToSet(t)
<1> DEFINE c == s \o t
<1>1. /\ c \in Seq(A) /\ Len(s) \in Nat /\ Len(t) \in Nat
      /\ DOMAIN s = 1 .. Len(s) /\ DOMAIN t = 1 .. Len(t)
      /\ Len(c) = Len(s) + Len(t)
      /\ \A i \in 1 .. Len(s) + Len(t) : c[i] = IF i <= Len(s) THEN s[i] ELSE t[i - Len(s)]
  BY ConcatProperties, LenProperties
<1> HIDE DEF c
<1>2. DOMAIN c = 1 .. Len(s) + Len(t)
  BY <1>1
<1>3. \A i \in DOMAIN s : i \in DOMAIN c /\ c[i] = s[i]
  BY <1>1, <1>2
<1>4. \A i \in DOMAIN t : Len(s) + i \in DOMAIN c /\ c[Len(s) + i] = t[i]
  BY <1>1, <1>2
<1>5. \A i \in DOMAIN c : \/ i \in DOMAIN s /\ c[i] = s[i]
                          \/ i - Len(s) \in DOMAIN t /\ c[i] = t[i - Len(s)]
  BY <1>1, <1>2
<1>6. ASSUME NEW x
      PROVE  x \in ToSet(c) <=> x \in ToSet(s) \/ x \in ToSet(t)
  BY <1>3, <1>4, <1>5 DEF ToSet
<1>7. ToSet(c) = ToSet(s) \cup ToSet(t)
  BY <1>6
<1>8. QED
  BY <1>1, <1>2, <1>3, <1>4, <1>5, <1>7 DEF c

(* The first elements of a sequence. *)
LEMMA FirstOnes ==
  ASSUME NEW A, NEW s \in Seq(A), NEW n \in 0 .. Len(s)
  PROVE  /\ SubSeq(s, 1, n) \in Seq(A)
         /\ DOMAIN SubSeq(s, 1, n) = 1 .. n
         /\ \A i \in DOMAIN SubSeq(s, 1, n) : i \in DOMAIN s /\ SubSeq(s, 1, n)[i] = s[i]
         /\ ToSet(SubSeq(s, 1, n)) \subseteq ToSet(s)
<1> DEFINE t == SubSeq(s, 1, n)
<1>1. Len(s) \in Nat /\ DOMAIN s = 1 .. Len(s) /\ n \in Nat /\ n <= Len(s)
  BY LenProperties
<1>2. t \in Seq(A) /\ Len(t) = n /\ \A i \in 1 .. n : t[i] = s[i]
  <2>1. 1 \in Int /\ n \in Int /\ \A i \in 1 .. n : s[i] \in A
    BY <1>1
  <2>2. /\ t \in Seq(A)
        /\ Len(t) = IF 1 <= n THEN n - 1 + 1 ELSE 0
        /\ \A i \in 1 .. n - 1 + 1 : t[i] = s[1 + i - 1]
    <3> HIDE <1>1
    <3>1. QED
      BY <2>1, SubSeqProperties
  <2> HIDE DEF t
  <2>3. n - 1 + 1 = n /\ \A i \in 1 .. n : 1 + i - 1 = i
    BY <1>1
  <2>4. Len(t) = n
    BY <1>1, <2>2
  <2>5. QED
    BY <2>2, <2>3, <2>4
<1> HIDE DEF t
<1>3. DOMAIN t = 1 .. n
  <2>1. DOMAIN t = 1 .. Len(t)
    BY <1>2, LenProperties
  <2>2. QED
    BY <1>2, <2>1
<1>4. \A i \in DOMAIN t : i \in DOMAIN s /\ t[i] = s[i]
  BY <1>1, <1>2, <1>3
<1>5. ToSet(t) \subseteq ToSet(s)
  BY <1>4 DEF ToSet
<1>6. QED
  BY <1>2, <1>3, <1>4, <1>5 DEF t

(* A sequence that is written from its beginning over another one, which    *)
(* was longer by what is left.                                              *)
LEMMA SubSeqElements ==
  ASSUME NEW A, NEW s \in Seq(A), NEW k \in 0 .. Len(s)
  PROVE  /\ SubSeq(s, k + 1, Len(s)) \in Seq(A)
         /\ DOMAIN SubSeq(s, k + 1, Len(s)) = 1 .. Len(s) - k
         /\ \A i \in DOMAIN SubSeq(s, k + 1, Len(s)) :
              k + i \in DOMAIN s /\ SubSeq(s, k + 1, Len(s))[i] = s[k + i]
         /\ ToSet(SubSeq(s, k + 1, Len(s))) \subseteq ToSet(s)
<1> DEFINE t == SubSeq(s, k + 1, Len(s))
<1>1. Len(s) \in Nat /\ DOMAIN s = 1 .. Len(s) /\ k \in Nat /\ k <= Len(s)
  BY LenProperties
<1>2. t \in Seq(A) /\ Len(t) = Len(s) - k /\ \A i \in 1 .. Len(s) - k : t[i] = s[k + i]
  <2>1. k + 1 \in Int /\ Len(s) \in Int /\ \A i \in k + 1 .. Len(s) : s[i] \in A
    BY <1>1
  <2>2. /\ t \in Seq(A)
        /\ Len(t) = IF k + 1 <= Len(s) THEN Len(s) - (k + 1) + 1 ELSE 0
        /\ \A i \in 1 .. Len(s) - (k + 1) + 1 : t[i] = s[k + 1 + i - 1]
    <3> HIDE <1>1
    <3>1. QED
      BY <2>1, SubSeqProperties
  <2> HIDE DEF t
  <2>3. Len(s) - (k + 1) + 1 = Len(s) - k /\ \A i \in 1 .. Len(s) - k : k + 1 + i - 1 = k + i
    BY <1>1
  <2>4. Len(t) = Len(s) - k
    <3> DEFINE n == Len(s)
    <3>1. n \in Nat /\ k \in Nat /\ k <= n /\ Len(t) = IF k + 1 <= n THEN n - (k + 1) + 1 ELSE 0
      BY <1>1, <2>2
    <3> HIDE DEF n
    <3>2. k + 1 <= n \/ k = n
      BY <3>1
    <3>3. Len(t) = n - k
      BY <3>1, <3>2
    <3>4. QED
      BY <3>3 DEF n
  <2>5. QED
    BY <2>2, <2>3, <2>4
<1> HIDE DEF t
<1>3. DOMAIN t = 1 .. Len(s) - k
  <2>1. DOMAIN t = 1 .. Len(t)
    BY <1>2, LenProperties
  <2>2. QED
    BY <1>2, <2>1
<1>4. \A i \in DOMAIN t : k + i \in DOMAIN s /\ t[i] = s[k + i]
  BY <1>1, <1>2, <1>3
<1>5. ToSet(t) \subseteq ToSet(s)
  BY <1>4 DEF ToSet
<1>6. QED
  BY <1>2, <1>3, <1>4, <1>5 DEF t

(* A sequence of one element is a suffix of those that end in it, and the   *)
(* empty sequence of all.                                                   *)
LEMMA ShortSuffix ==
  ASSUME NEW A, NEW s \in Seq(A), NEW t \in Seq(A),
         s = <<>> \/ (Len(s) = 1 /\ t # <<>> /\ t[Len(t)] = s[1])
  PROVE  IsSuffix(s, t)
<1> DEFINE rs == Reverse(s)
           rt == Reverse(t)
<1>1. /\ Len(s) \in Nat /\ Len(t) \in Nat
      /\ DOMAIN s = 1 .. Len(s) /\ DOMAIN t = 1 .. Len(t)
  BY LenProperties
<1>2. /\ rs = [i \in 1 .. Len(s) |-> s[(Len(s) - i) + 1]]
      /\ rt = [i \in 1 .. Len(t) |-> t[(Len(t) - i) + 1]]
  BY DEF Reverse
<1>3. /\ rs \in Seq(A) /\ Len(rs) = Len(s) /\ rt \in Seq(A) /\ Len(rt) = Len(t)
  <2>1. rs \in [1 .. Len(s) -> A] /\ rt \in [1 .. Len(t) -> A]
    BY <1>1, <1>2
  <2> HIDE DEF rs, rt
  <2>2. QED
    BY <1>1, <2>1
<1>4. CASE s = <<>>
  <2>1. Len(s) = 0
    BY <1>4
  <2> HIDE DEF rs, rt
  <2>2. SubSeq(rs, 1, 0) = <<>> /\ SubSeq(rt, 1, 0) = <<>>
    BY SubSeqEmpty
  <2>3. Len(rs) = 0 /\ 0 <= Len(rt)
    BY <1>1, <1>3, <2>1
  <2>4. IsPrefix(rs, rt)
    BY <2>2, <2>3 DEF IsPrefix
  <2>5. QED
    BY <2>4 DEF IsSuffix, rs, rt
<1>5. CASE Len(s) = 1 /\ t # <<>> /\ t[Len(t)] = s[1]
  <2>1. Len(t) >= 1
    BY <1>1, <1>5, EmptySeq
  <2>2. rs[1] = s[1] /\ rt[1] = t[Len(t)]
    BY <1>1, <1>2, <1>5, <2>1
  <2>3. rs[1] = rt[1]
    BY <1>5, <2>2
  <2> HIDE DEF rs, rt
  <2>4. Len(rs) = 1 /\ Len(rt) >= 1 /\ rs[1] \in A /\ rt[1] \in A
    BY <1>1, <1>3, <1>5, <2>1, ElementOfSeq
  <2>5. ASSUME NEW r \in Seq(A), r[1] \in A
        PROVE  SubSeq(r, 1, 1) \in Seq(A) /\ Len(SubSeq(r, 1, 1)) = 1 /\ SubSeq(r, 1, 1)[1] = r[1]
    <3>1. \A i \in 1 .. 1 : r[i] \in A
      BY <2>5
    <3>2. /\ SubSeq(r, 1, 1) \in Seq(A)
          /\ Len(SubSeq(r, 1, 1)) = IF 1 <= 1 THEN 1 - 1 + 1 ELSE 0
          /\ \A i \in 1 .. 1 - 1 + 1 : SubSeq(r, 1, 1)[i] = r[1 + i - 1]
      BY <3>1, SubSeqProperties
    <3>3. QED
      BY <3>2
  <2>6. SubSeq(rs, 1, 1) = SubSeq(rt, 1, 1)
    <3>1. /\ SubSeq(rs, 1, 1) \in Seq(A) /\ Len(SubSeq(rs, 1, 1)) = 1
          /\ SubSeq(rt, 1, 1) \in Seq(A) /\ Len(SubSeq(rt, 1, 1)) = 1
          /\ \A i \in 1 .. 1 : SubSeq(rs, 1, 1)[i] = SubSeq(rt, 1, 1)[i]
      BY <1>3, <2>3, <2>4, <2>5
    <3>2. QED
      BY <3>1, SeqEqual
  <2>7. IsPrefix(rs, rt)
    BY <2>4, <2>6 DEF IsPrefix
  <2>8. QED
    BY <2>7 DEF IsSuffix, rs, rt
<1>6. QED
  BY <1>4, <1>5

(* A set of numbers up to N that is not empty has a greatest element. *)
LEMMA MaxFacts ==
  ASSUME NEW N \in Nat, NEW T, T \subseteq 0 .. N, T # {}
  PROVE  Max(T) \in T /\ \A m \in T : m <= Max(T)
<1> DEFINE U == {N - m : m \in T}
<1>1. U \subseteq Nat /\ U # {}
  <2>1. \A m \in T : m \in Nat /\ m <= N
    OBVIOUS
  <2>2. \A m \in T : N - m \in Nat
    BY <2>1
  <2>3. PICK m \in T : TRUE
    OBVIOUS
  <2>4. N - m \in U
    OBVIOUS
  <2>5. QED
    BY <2>2, <2>4
<1>2. PICK u \in U : \A v \in U : u <= v
  <2> HIDE DEF U
  <2>1. QED
    BY <1>1, Least
<1>3. PICK n \in T : u = N - n
  OBVIOUS
<1>4. \A m \in T : m \in Int /\ N - m \in U
  OBVIOUS
<1>5. \A m \in T : n >= m
  <2>1. TAKE m \in T
  <2>2. u <= N - m /\ m \in Int /\ n \in Int
    BY <1>2, <1>4
  <2>3. QED
    BY <1>3, <2>2
<1>6. \E k \in T : \A m \in T : k >= m
  BY <1>5
<1>7. Max(T) \in T /\ \A m \in T : Max(T) >= m
  <2> DEFINE P(k) == \A m \in T : k >= m
  <2>1. Max(T) = CHOOSE k \in T : P(k)
    BY DEF Max
  <2>2. \E k \in T : P(k)
    BY <1>6
  <2> HIDE DEF P
  <2>3. Max(T) \in T /\ P(Max(T))
    BY <2>1, <2>2, Zenon
  <2>4. QED
    BY <2>3 DEF P
<1>8. QED
  BY <1>4, <1>7

(* A sequence of the elements of a finite set. *)
LEMMA SetToSeqFacts ==
  ASSUME NEW S, IsFiniteSet(S)
  PROVE  SetToSeq(S) \in Seq(S) /\ ToSet(SetToSeq(S)) = S
<1> DEFINE n == Cardinality(S)
           q == SetToSeq(S)
<1>1. n \in Nat
  BY FS_CardinalityType
<1>2. IsFiniteSet(1 .. n) /\ Cardinality(1 .. n) = n
  <2>1. /\ IsFiniteSet(1 .. n)
        /\ Cardinality(1 .. n) = IF 1 > n THEN 0 ELSE n - 1 + 1
    BY <1>1, FS_Interval
  <2>2. QED
    BY <1>1, <2>1
<1>3. \E f \in [1 .. n -> S] : IsInjective(f)
  <2>1. ExistsBijection(1 .. n, S)
    <3>1. n = Cardinality(S)
      OBVIOUS
    <3> HIDE DEF n
    <3>2. QED
      BY <1>2, <3>1, FS_SameCardinalityBij
  <2> HIDE DEF n
  <2>2. QED
    BY <2>1 DEF ExistsBijection, Bijection, Injection
<1>4. q \in [1 .. n -> S] /\ IsInjective(q)
  <2>1. q = CHOOSE f \in [1 .. n -> S] : IsInjective(f)
    BY DEF SetToSeq
  <2> HIDE DEF q, n
  <2>2. QED
    BY <1>3, <2>1, Zenon
<1>5. q \in Injection(1 .. n, S)
  <2> HIDE DEF q, n
  <2>1. QED
    BY <1>4 DEF Injection
<1>6. q \in Surjection(1 .. n, S)
  <2>1. n = Cardinality(S)
    OBVIOUS
  <2> HIDE DEF q, n
  <2>2. QED
    BY <1>2, <1>5, <2>1, FS_Injection
<1>7. \A x \in S : \E k \in 1 .. n : q[k] = x
  <2> HIDE DEF q, n
  <2>1. QED
    BY <1>6 DEF Surjection
<1>8. QED
  <2>1. q \in Seq(S) /\ DOMAIN q = 1 .. n
    <3> HIDE DEF q, n
    <3>1. QED
      BY <1>1, <1>4
  <2>2. ToSet(q) = S
    <3> HIDE DEF q, n
    <3>1. QED
      BY <1>4, <1>7, <2>1 DEF ToSet
  <2>3. QED
    BY <2>1, <2>2
(* Finitely many numbers have a bound. *)
LEMMA Bounded ==
  ASSUME NEW n \in Nat, NEW f \in [1 .. n -> Nat]
  PROVE  \E b \in Nat : \A i \in 1 .. n : f[i] <= b
<1> DEFINE S == {k \in Nat : \A g \in [1 .. k -> Nat] : \E b \in Nat : \A i \in 1 .. k : g[i] <= b}
<1>1. 0 \in S
  OBVIOUS
<1>2. ASSUME NEW k \in Nat, k \in S
      PROVE  k + 1 \in S
  <2>1. ASSUME NEW g \in [1 .. k + 1 -> Nat]
        PROVE  \E b \in Nat : \A i \in 1 .. k + 1 : g[i] <= b
    <3> DEFINE h == [i \in 1 .. k |-> g[i]]
    <3>1. h \in [1 .. k -> Nat] /\ \A i \in 1 .. k : h[i] = g[i]
      OBVIOUS
    <3> HIDE DEF h
    <3>2. PICK b \in Nat : \A i \in 1 .. k : h[i] <= b
      BY <1>2, <3>1
    <3>3. k + 1 \in 1 .. k + 1 /\ g[k + 1] \in Nat /\ b + g[k + 1] \in Nat
      OBVIOUS
    <3>4. ASSUME NEW i \in 1 .. k + 1
          PROVE  g[i] <= b + g[k + 1]
      <4>1. CASE i = k + 1
        BY <3>3, <4>1
      <4>2. CASE i # k + 1
        <5>1. i \in 1 .. k /\ g[i] \in Nat
          BY <4>2
        <5>2. g[i] <= b
          BY <3>1, <3>2, <5>1
        <5>3. QED
          BY <3>3, <5>1, <5>2
      <4>3. QED
        BY <4>1, <4>2
    <3>5. QED
      BY <3>3, <3>4
  <2>2. k + 1 \in Nat
    OBVIOUS
  <2>3. QED
    BY <2>1, <2>2, Zenon
<1> HIDE DEF S
<1>3. n \in S
  BY <1>1, <1>2, InductionOver
<1>4. QED
  BY <1>3 DEF S

(* A sequence without the element at position k. *)
LEMMA RemoveAtElements ==
  ASSUME NEW A, NEW s \in Seq(A), NEW k \in DOMAIN s
  PROVE  RemoveAt(s, k) \in Seq(A)
<1>1. Len(s) \in Nat /\ k \in 1 .. Len(s) /\ \A i \in 1 .. Len(s) : s[i] \in A
  BY LenProperties, ElementOfSeq
<1>2. SubSeq(s, 1, k - 1) \in Seq(A)
  <2>1. 1 \in Int /\ k - 1 \in Int /\ \A i \in 1 .. k - 1 : s[i] \in A
    BY <1>1
  <2>2. QED
    BY <2>1, SubSeqProperties
<1>3. SubSeq(s, k + 1, Len(s)) \in Seq(A)
  <2>1. k + 1 \in Int /\ Len(s) \in Int /\ \A i \in k + 1 .. Len(s) : s[i] \in A
    BY <1>1
  <2>2. QED
    BY <2>1, SubSeqProperties
<1>4. QED
  BY <1>2, <1>3, ConcatProperties DEF RemoveAt

(* A sequence with e at position k, before what was there. *)
LEMMA InsertAtElements ==
  ASSUME NEW A, NEW s \in Seq(A), NEW k \in DOMAIN s, NEW e \in A
  PROVE  /\ InsertAt(s, k, e) \in Seq(A)
         /\ DOMAIN InsertAt(s, k, e) = 1 .. Len(s) + 1
         /\ Len(s) \in Nat /\ DOMAIN s = 1 .. Len(s)
         /\ \A i \in 1 .. Len(s) + 1 :
              InsertAt(s, k, e)[i] = IF i < k THEN s[i] ELSE IF i = k THEN e ELSE s[i - 1]
         /\ ToSet(InsertAt(s, k, e)) = ToSet(s) \cup {e}
<1> DEFINE a == SubSeq(s, 1, k - 1)
           b == SubSeq(s, k, Len(s))
           l == Len(s)
           t == InsertAt(s, k, e)
<1>1. l \in Nat /\ DOMAIN s = 1 .. l /\ k \in 1 .. l /\ \A i \in 1 .. l : s[i] \in A
  BY LenProperties, ElementOfSeq
<1>2. a \in Seq(A) /\ Len(a) = k - 1 /\ \A i \in 1 .. k - 1 : a[i] = s[i]
  <2>1. 1 \in Int /\ k - 1 \in Int /\ \A i \in 1 .. k - 1 : s[i] \in A
    BY <1>1
  <2>2. /\ a \in Seq(A)
        /\ Len(a) = IF 1 <= k - 1 THEN k - 1 - 1 + 1 ELSE 0
        /\ \A i \in 1 .. k - 1 - 1 + 1 : a[i] = s[1 + i - 1]
    BY <2>1, SubSeqProperties
  <2> HIDE DEF a
  <2>3. QED
    BY <1>1, <2>2
<1>3. b \in Seq(A) /\ Len(b) = l - k + 1 /\ \A i \in 1 .. l - k + 1 : b[i] = s[k + i - 1]
  <2>1. k \in Int /\ Len(s) \in Int /\ \A i \in k .. Len(s) : s[i] \in A
    BY <1>1
  <2>2. /\ b \in Seq(A)
        /\ Len(b) = IF k <= l THEN l - k + 1 ELSE 0
        /\ \A i \in 1 .. l - k + 1 : b[i] = s[k + i - 1]
    BY <2>1, SubSeqProperties
  <2> HIDE DEF b, l
  <2>3. QED
    BY <1>1, <2>2
<1>4. t = a \o <<e>> \o b
  BY DEF InsertAt
<1> HIDE DEF a, b, l, t
<1>5. <<e>> \in Seq(A) /\ Len(<<e>>) = 1 /\ <<e>>[1] = e
  OBVIOUS
<1> DEFINE ae == a \o <<e>>
<1>6. ae \in Seq(A) /\ Len(ae) = k /\ \A i \in 1 .. k : ae[i] = IF i < k THEN s[i] ELSE e
  <2>1. /\ ae \in Seq(A) /\ Len(ae) = Len(a) + 1
        /\ \A i \in 1 .. Len(a) + 1 : ae[i] = IF i <= Len(a) THEN a[i] ELSE <<e>>[i - Len(a)]
    BY <1>2, <1>5, ConcatProperties
  <2> HIDE DEF ae
  <2>2. \A i \in 1 .. k : i < k => i \in 1 .. k - 1 /\ i <= Len(a)
    BY <1>1, <1>2
  <2>3. \A i \in 1 .. k : ~(i < k) => ~(i <= Len(a)) /\ i - Len(a) = 1
    BY <1>1, <1>2
  <2>4. Len(a) + 1 = k
    BY <1>1, <1>2
  <2>5. QED
    BY <1>2, <1>5, <2>1, <2>2, <2>3, <2>4
<1>7. t = ae \o b
  BY <1>4
<1> HIDE DEF ae
<1>8. /\ t \in Seq(A) /\ Len(t) = l + 1
      /\ \A i \in 1 .. l + 1 : t[i] = IF i <= k THEN ae[i] ELSE b[i - k]
  <2>1. /\ t \in Seq(A) /\ Len(t) = Len(ae) + Len(b)
        /\ \A i \in 1 .. Len(ae) + Len(b) : t[i] = IF i <= Len(ae) THEN ae[i] ELSE b[i - Len(ae)]
    BY <1>3, <1>6, <1>7, ConcatProperties
  <2>2. Len(ae) + Len(b) = l + 1
    BY <1>1, <1>3, <1>6
  <2>3. QED
    BY <1>6, <2>1, <2>2
<1>9. ASSUME NEW i \in 1 .. l + 1
      PROVE  t[i] = IF i < k THEN s[i] ELSE IF i = k THEN e ELSE s[i - 1]
  <2>1. CASE i <= k
    BY <1>1, <1>6, <1>8, <2>1
  <2>2. CASE ~(i <= k)
    <3>1. i - k \in 1 .. l - k + 1 /\ k + (i - k) - 1 = i - 1 /\ ~(i < k) /\ i # k
      BY <1>1, <2>2
    <3>2. QED
      BY <1>3, <1>8, <2>2, <3>1
  <2>3. QED
    BY <2>1, <2>2
<1>10. DOMAIN t = 1 .. l + 1
  BY <1>8, LenProperties
<1>11. ToSet(t) = ToSet(s) \cup {e}
  <2>1. \A i \in DOMAIN t : t[i] \in ToSet(s) \cup {e}
    <3>1. TAKE i \in DOMAIN t
    <3>2. i < k => i \in DOMAIN s /\ t[i] = s[i]
      BY <1>1, <1>9, <1>10
    <3>3. i = k => t[i] = e
      BY <1>1, <1>9, <1>10
    <3>4. ~(i < k) /\ i # k => i - 1 \in DOMAIN s /\ t[i] = s[i - 1]
      BY <1>1, <1>9, <1>10
    <3>5. QED
      BY <3>2, <3>3, <3>4 DEF ToSet
  <2>2. \A i \in DOMAIN s : s[i] \in ToSet(t)
    <3>1. TAKE i \in DOMAIN s
    <3>2. CASE i < k
      <4>1. i \in DOMAIN t /\ t[i] = s[i]
        BY <1>1, <1>9, <1>10, <3>2
      <4>2. QED
        BY <4>1 DEF ToSet
    <3>3. CASE ~(i < k)
      <4>1. i + 1 \in DOMAIN t /\ t[i + 1] = s[i]
        <5>1. i + 1 \in 1 .. l + 1 /\ ~(i + 1 < k) /\ i + 1 # k /\ i + 1 - 1 = i
          BY <1>1, <3>3
        <5>2. QED
          BY <1>9, <1>10, <5>1
      <4>2. QED
        BY <4>1 DEF ToSet
    <3>4. QED
      BY <3>2, <3>3
  <2>3. e \in ToSet(t)
    <3>1. k \in DOMAIN t /\ t[k] = e
      BY <1>1, <1>9, <1>10
    <3>2. QED
      BY <3>1 DEF ToSet
  <2>4. QED
    BY <2>1, <2>2, <2>3 DEF ToSet
<1>12. QED
  BY <1>1, <1>8, <1>9, <1>10, <1>11 DEF t, l

(* What a step function makes of x, done n times over: there is a function  *)
(* of n that says so.                                                       *)
Iterates(f, n, x, step) == f[0] = x /\ \A k \in 1 .. n : f[k] = step[<<k, f[k - 1]>>]

LEMMA Iteration ==
  ASSUME NEW S, NEW x \in S, NEW step \in [Nat \X S -> S]
  PROVE  \A n \in Nat : \E f \in [0 .. n -> S] : Iterates(f, n, x, step)
<1> DEFINE Does(n, f) == f[0] = x /\ \A k \in 1 .. n : f[k] = step[<<k, f[k - 1]>>]
           T == {n \in Nat : \E f \in [0 .. n -> S] : Does(n, f)}
<1>1. 0 \in T
  <2> DEFINE f == [k \in 0 .. 0 |-> x]
  <2>1. f \in [0 .. 0 -> S] /\ f[0] = x /\ 1 .. 0 = {}
    OBVIOUS
  <2>2. QED
    BY <2>1
<1>2. ASSUME NEW n \in Nat, n \in T
      PROVE  n + 1 \in T
  <2>1. PICK f \in [0 .. n -> S] : Does(n, f)
    BY <1>2
  <2> DEFINE y == step[<<n + 1, f[n]>>]
             g == [k \in 0 .. n + 1 |-> IF k = n + 1 THEN y ELSE f[k]]
  <2>2. y \in S
    <3>1. <<n + 1, f[n]>> \in Nat \X S
      OBVIOUS
    <3>2. QED
      BY <3>1
  <2> HIDE DEF y
  <2>3. /\ g \in [0 .. n + 1 -> S] /\ g[n + 1] = y
        /\ \A k \in 0 .. n : g[k] = f[k]
    BY <2>2
  <2> HIDE DEF g
  <2>4. g[0] = x
    BY <2>1, <2>3
  <2>5. ASSUME NEW k \in 1 .. n + 1
        PROVE  g[k] = step[<<k, g[k - 1]>>]
    <3>1. CASE k = n + 1
      <4>1. k - 1 = n /\ g[n] = f[n]
        BY <2>3, <3>1
      <4>2. QED
        BY <2>3, <3>1, <4>1 DEF y
    <3>2. CASE k # n + 1
      <4>1. k \in 1 .. n /\ k - 1 \in 0 .. n /\ k \in 0 .. n
        BY <3>2
      <4>2. QED
        BY <2>1, <2>3, <4>1
    <3>3. QED
      BY <3>1, <3>2
  <2>6. Does(n + 1, g)
    BY <2>4, <2>5
  <2>7. QED
    BY <2>3, <2>6
<1> HIDE DEF T
<1>3. \A n \in Nat : n \in T
  BY <1>1, <1>2, InductionOver
<1>4. QED
  BY <1>3 DEF T, Iterates
================================================================================
