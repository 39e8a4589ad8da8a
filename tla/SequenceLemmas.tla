---------------------------- MODULE SequenceLemmas ----------------------------
(***************************************************************************)
(* What the queues of this system need of sequences without repetitions:   *)
(* as many elements as entries, also after indexOf and splice took one     *)
(* out; and of finite sets: how many elements a union or a rest has.  Then *)
(* what ORDER BY and the recursive queries need: induction over the        *)
(* natural numbers, for the sets of them, and that a finite set has one    *)
(* sequence in a given order.                                              *)
(***************************************************************************)
EXTENDS Integers, SequencesExt, FiniteSetTheorems, SequenceTheorems,
        WellFoundedInduction, TLAPS

(* Sequences without repetitions                                            *)

(* A sequence without repetitions is as long as its set of elements is big, *)
(* and so is each of its prefixes.                                          *)
LEMMA PrefixCardinality ==
  ASSUME NEW T, NEW s \in Seq(T), IsInjective(s), NEW n \in 0..Len(s),
         NEW S, S = {s[i] : i \in 1..n}
  PROVE  IsFiniteSet(S) /\ Cardinality(S) = n
<1> DEFINE f == [i \in 1..n |-> s[i]]
<1>1. f \in Bijection(1..n, S)
  <2>1. DOMAIN s = 1..Len(s) /\ 1..n \subseteq DOMAIN s
    OBVIOUS
  <2>2. f \in Injection(1..n, S)
    BY <2>1 DEF Injection, IsInjective
  <2>3. f \in Surjection(1..n, S)
    BY DEF Surjection
  <2>4. QED
    BY <2>2, <2>3 DEF Bijection
<1>2. IsFiniteSet(1..n) /\ Cardinality(1..n) = n
  BY FS_Interval
<1>3. ExistsBijection(1..n, S)
  BY <1>1 DEF ExistsBijection
<1>4. QED
  BY <1>2, <1>3, FS_Bijection

(* How many elements a set has that is put together from two, and one that  *)
(* has lost an element.                                                     *)
LEMMA CardinalityOfUnion ==
  ASSUME NEW S, NEW T, NEW U, IsFiniteSet(S), IsFiniteSet(T), S \cap T = {}, U = S \cup T
  PROVE  Cardinality(U) = Cardinality(S) + Cardinality(T)
<1>1. Cardinality(S \cup T) = Cardinality(S) + Cardinality(T) - Cardinality(S \cap T)
  BY FS_Union
<1>2. Cardinality(S \cap T) = 0
  BY FS_EmptySet
<1>3. Cardinality(S) \in Nat /\ Cardinality(T) \in Nat
  BY FS_CardinalityType
<1>4. QED
  BY <1>1, <1>2, <1>3

LEMMA CardinalityWithout ==
  ASSUME NEW S, NEW e \in S, NEW U, IsFiniteSet(S), U = S \ {e}
  PROVE  Cardinality(U) = Cardinality(S) - 1
BY FS_RemoveElement

(* indexOf and splice take out one element and leave the others in place.   *)
LEMMA RemoveFirstTakesOut ==
  ASSUME NEW T, NEW s \in Seq(T), NEW j \in T, IsInjective(s)
  PROVE  /\ RemoveFirst(s, j) \in Seq(T)
         /\ IsInjective(RemoveFirst(s, j))
         /\ Range(RemoveFirst(s, j)) = Range(s) \ {j}
<1>1. CASE j \notin Range(s)
  <2>1. RemoveFirst(s, j) = s
    BY <1>1 DEF RemoveFirst, Range
  <2>2. QED
    BY <1>1, <2>1
<1>2. CASE j \in Range(s)
  <2> DEFINE I == {i \in 1..Len(s) : s[i] = j}
  <2>1. PICK i \in 1..Len(s) : s[i] = j
    BY <1>2 DEF Range
  <2>2. I = {i}
    BY <2>1 DEF IsInjective
  <2>3. SelectInSeq(s, LAMBDA v : v = j) = i
    BY <2>2 DEF SelectInSeq, Min
  <2>4. RemoveFirst(s, j) = SubSeq(s, 1, i - 1) \o SubSeq(s, i + 1, Len(s))
    BY <2>1, <2>3 DEF RemoveFirst, RemoveAt
  <2> DEFINE a == SubSeq(s, 1, i - 1)
             b == SubSeq(s, i + 1, Len(s))
  <2>5. /\ a \in Seq(T) /\ Len(a) = i - 1 /\ \A k \in 1..(i - 1) : a[k] = s[k]
        /\ b \in Seq(T) /\ Len(b) = Len(s) - i /\ \A k \in 1..(Len(s) - i) : b[k] = s[k + i]
    BY SubSeqProperties
  <2> DEFINE r == RemoveFirst(s, j)
  <2> HIDE DEF a, b
  <2>6. /\ r \in Seq(T) /\ Len(r) = Len(s) - 1
        /\ \A k \in 1..(Len(s) - 1) : r[k] = IF k < i THEN s[k] ELSE s[k + 1]
    <3>1. r = a \o b
      BY <2>4 DEF a, b
    <3>2. /\ a \o b \in Seq(T) /\ Len(a \o b) = Len(s) - 1
          /\ \A k \in 1..(Len(s) - 1) : (a \o b)[k] = IF k < i THEN a[k] ELSE b[k - (i - 1)]
      <4>1. /\ a \o b \in Seq(T) /\ Len(a \o b) = Len(a) + Len(b)
            /\ \A k \in 1..(Len(a) + Len(b)) :
                 (a \o b)[k] = IF k <= Len(a) THEN a[k] ELSE b[k - Len(a)]
        BY <2>5, ConcatProperties
      <4>2. Len(a) = i - 1 /\ Len(a) + Len(b) = Len(s) - 1
        BY <2>5
      <4>3. QED
        BY <4>1, <4>2
    <3>3. QED
      BY <2>5, <3>1, <3>2
  <2> HIDE DEF r
  <2>7. IsInjective(r)
    <3>1. ASSUME NEW k \in 1..(Len(s) - 1), NEW m \in 1..(Len(s) - 1), k < m PROVE r[k] # r[m]
      <4>1. \A x, y \in 1..Len(s) : s[x] = s[y] => x = y
        BY DEF IsInjective
      <4>2. PICK x \in 1..Len(s) : r[k] = s[x] /\ x = IF k < i THEN k ELSE k + 1
        BY <2>6
      <4>3. PICK y \in 1..Len(s) : r[m] = s[y] /\ y = IF m < i THEN m ELSE m + 1
        BY <2>6
      <4>4. QED
        BY <3>1, <4>1, <4>2, <4>3
    <3>2. DOMAIN r = 1..(Len(s) - 1) /\ 1..(Len(s) - 1) \subseteq Int
      BY <2>6
    <3>3. ASSUME NEW k \in DOMAIN r, NEW m \in DOMAIN r, r[k] = r[m] PROVE k = m
      BY <3>1, <3>2, <3>3
    <3>4. QED
      BY <3>3 DEF IsInjective
  <2>8. Range(r) = Range(s) \ {j}
    <3>1. ASSUME NEW e \in Range(s), e # j PROVE e \in Range(r)
      <4>1. PICK m \in 1..Len(s) : s[m] = e /\ m # i
        BY <2>1, <3>1 DEF Range
      <4>2. r[IF m < i THEN m ELSE m - 1] = e
        BY <2>6, <4>1
      <4>3. QED
        BY <2>6, <4>1, <4>2 DEF Range
    <3>2. ASSUME NEW e \in Range(r) PROVE e \in Range(s) \ {j}
      <4>1. PICK k \in 1..(Len(s) - 1) : e = r[k]
        BY <2>6, <3>2 DEF Range
      <4>2. PICK m \in 1..Len(s) : e = s[m] /\ m # i
        BY <2>6, <4>1
      <4>3. QED
        BY <2>1, <4>2 DEF Range, IsInjective
    <3>3. QED
      BY <3>1, <3>2
  <2>9. QED
    BY <2>6, <2>7, <2>8 DEF r
<1>3. QED
  BY <1>1, <1>2

(* A function on an interval from 1 on is a sequence.                        *)
LEMMA FunctionIsSequence ==
  ASSUME NEW S, NEW n \in Nat, NEW f \in [1..n -> S]
  PROVE  f \in Seq(S)
OBVIOUS

(* push puts in an element that was not there.                              *)
LEMMA AppendPutsIn ==
  ASSUME NEW T, NEW s \in Seq(T), NEW e \in T, IsInjective(s), e \notin Range(s)
  PROVE  /\ Append(s, e) \in Seq(T)
         /\ IsInjective(Append(s, e))
         /\ Range(Append(s, e)) = Range(s) \cup {e}
<1> DEFINE q == Append(s, e)
<1>1. q \in Seq(T) /\ Len(q) = Len(s) + 1 /\ q[Len(s) + 1] = e
      /\ \A i \in 1..Len(s) : q[i] = s[i]
  BY AppendProperties
<1> HIDE DEF q
<1>2. DOMAIN s = 1..Len(s) /\ DOMAIN q = 1..(Len(s) + 1) /\ Len(s) \in Nat
  BY <1>1
<1>3. /\ \A i \in DOMAIN q : i \in DOMAIN s \/ i = Len(s) + 1
      /\ \A i \in DOMAIN s : i \in DOMAIN q /\ q[i] = s[i] /\ q[i] # e
      /\ Len(s) + 1 \in DOMAIN q
  BY <1>1, <1>2 DEF Range
<1>4. Range(q) = Range(s) \cup {e}
  BY <1>1, <1>3 DEF Range
<1>5. IsInjective(q)
  <2>1. \A x, y \in DOMAIN s : s[x] = s[y] => x = y
    BY DEF IsInjective
  <2>2. ASSUME NEW x \in DOMAIN q, NEW y \in DOMAIN q, q[x] = q[y] PROVE x = y
    BY <1>1, <1>3, <2>1, <2>2
  <2>3. QED
    BY <2>2 DEF IsInjective
<1>6. QED
  BY <1>1, <1>4, <1>5 DEF q

(* shift takes out the first.                                               *)
LEMMA TailTakesOut ==
  ASSUME NEW T, NEW s \in Seq(T), IsInjective(s), s # <<>>
  PROVE  /\ Head(s) \in T /\ Head(s) \in Range(s)
         /\ Tail(s) \in Seq(T)
         /\ IsInjective(Tail(s))
         /\ Range(Tail(s)) = Range(s) \ {Head(s)}
<1> DEFINE q == Tail(s)
<1>1. /\ q \in Seq(T) /\ Len(q) = Len(s) - 1 /\ Head(s) = s[1] /\ Len(s) \in Nat \ {0}
      /\ \A i \in 1..Len(q) : q[i] = s[i + 1]
  BY HeadTailProperties, EmptySeq
<1> HIDE DEF q
<1>2. DOMAIN s = 1..Len(s) /\ DOMAIN q = 1..(Len(s) - 1)
  BY <1>1
<1>3. \A x, y \in DOMAIN s : s[x] = s[y] => x = y
  BY DEF IsInjective
<1>4. ASSUME NEW x \in DOMAIN q, NEW y \in DOMAIN q, q[x] = q[y] PROVE x = y
  BY <1>1, <1>2, <1>3, <1>4
<1>5. Range(q) = Range(s) \ {Head(s)}
  <2>1. ASSUME NEW i \in DOMAIN q PROVE q[i] \in Range(s) \ {Head(s)}
    BY <1>1, <1>2, <1>3 DEF Range
  <2>2. ASSUME NEW i \in DOMAIN s, s[i] # Head(s) PROVE s[i] \in Range(q)
    <3>1. i - 1 \in DOMAIN q /\ q[i - 1] = s[i]
      BY <1>1, <1>2, <2>2
    <3>2. QED
      BY <3>1 DEF Range
  <2>3. QED
    BY <2>1, <2>2 DEF Range
<1>6. Head(s) \in T /\ Head(s) \in Range(s)
  BY <1>1, <1>2 DEF Range
<1>7. QED
  BY <1>1, <1>4, <1>5, <1>6 DEF q, IsInjective

-----------------------------------------------------------------------------
(* Induction over the natural numbers, for sets of them                     *)

(* A set of numbers has a least one, if the order is well-founded.          *)
LEMMA WellFoundedSetHasLeast ==
  ASSUME NEW R, IsWellFoundedOn(R, Nat), \A x \in Nat, y \in Nat : x < y => <<x, y>> \in R,
         NEW S \in SUBSET Nat, S # {}
  PROVE  \E x \in S : \A y \in S : x <= y
<1>1. \A T : T \subseteq Nat /\ T # {} => \E x \in T : \A y \in T : ~(<<y, x>> \in R)
  BY ONLY IsWellFoundedOn(R, Nat), WFMin
<1>2. PICK x \in S : \A y \in S : ~(<<y, x>> \in R)
  BY <1>1
<1>3. ASSUME NEW y \in S PROVE x <= y
  <2>1. x \in Nat /\ y \in Nat /\ ~(y < x)
    BY <1>2
  <2> QED
    BY <2>1
<1> QED
  BY <1>3

(* A nonempty set of numbers has a least one.                               *)
LEMMA SetHasLeast ==
  ASSUME NEW S \in SUBSET Nat, S # {}
  PROVE  \E x \in S : \A y \in S : x <= y
<1> DEFINE R == OpToRel(<, Nat)
<1>1. IsWellFoundedOn(R, Nat)
  BY NatLessThanWellFounded
<1>2. \A x \in Nat, y \in Nat : x < y => <<x, y>> \in R
  BY DEF OpToRel
<1> HIDE DEF R
<1> QED
  BY <1>1, <1>2, WellFoundedSetHasLeast

(* A set with 0 and with the successor of each number in it has them all.   *)
LEMMA SetInduction ==
  ASSUME NEW S, 0 \in S, \A n \in Nat : n \in S => n + 1 \in S
  PROVE  Nat \subseteq S
<1> SUFFICES ASSUME Nat \ S # {} PROVE FALSE
  OBVIOUS
<1>1. PICK x \in Nat \ S : \A y \in Nat \ S : x <= y
  BY SetHasLeast
<1>2. x # 0 /\ x - 1 \in Nat /\ x - 1 \in S
  BY <1>1
<1> QED
  BY <1>1, <1>2

(* A sequence follows an order; an order never goes both ways.              *)
Follows(s, R) == \A i, j \in DOMAIN s : i < j => s[i] # s[j] /\ <<s[i], s[j]>> \in R
OneWay(R, S) == \A x, y \in S : <<x, y>> \in R => <<y, x>> \notin R

(* Such a sequence has no repetitions.                                      *)
LEMMA FollowsOnce ==
  ASSUME NEW S, NEW n \in Nat, NEW s \in [1..n -> S], NEW R, Follows(s, R)
  PROVE  s \in Seq(S) /\ Len(s) = n /\ IsInjective(s)
<1>1. ASSUME NEW i \in 1..n, NEW j \in 1..n, s[i] = s[j] PROVE i = j
  <2>1. i \in Int /\ j \in Int
    OBVIOUS
  <2>2. ~(i < j)
    BY <1>1 DEF Follows
  <2>3. ~(j < i)
    BY <1>1 DEF Follows
  <2> QED
    BY <2>1, <2>2, <2>3
<1> QED
  BY <1>1 DEF IsInjective

(* As many different elements as a set has are all of them.                 *)
LEMMA InjectiveIsOnto ==
  ASSUME NEW S, IsFiniteSet(S), NEW n \in Nat, n = Cardinality(S), NEW s \in [1..n -> S],
         IsInjective(s)
  PROVE  \A x \in S : \E i \in 1..n : s[i] = x
<1>1. IsFiniteSet(1..n) /\ Cardinality(1..n) = n
  BY FS_Interval
<1>2. s \in Injection(1..n, S)
  BY DEF Injection, IsInjective
<1>3. s \in Surjection(1..n, S)
  BY <1>1, <1>2, FS_Injection
<1> QED
  BY <1>3 DEF Surjection

(* The i-th element has i - 1 before it.                                    *)
LEMMA SortedByRank ==
  ASSUME NEW S, IsFiniteSet(S), NEW n \in Nat, n = Cardinality(S), NEW s \in [1..n -> S],
         NEW R, Follows(s, R), OneWay(R, S),
         NEW i \in 1..n, NEW B, B = {x \in S : <<x, s[i]>> \in R}
  PROVE  Cardinality(B) = i - 1
<1>1. s \in Seq(S) /\ Len(s) = n /\ IsInjective(s)
  BY FollowsOnce
<1>2. \A x \in S : \E j \in 1..n : s[j] = x
  BY <1>1, InjectiveIsOnto
<1>3. ASSUME NEW x \in B PROVE \E j \in 1..(i - 1) : x = s[j]
  <2>1. PICK j \in 1..n : s[j] = x
    BY <1>2
  <2>2. <<s[j], s[i]>> \in R /\ s[i] \in S /\ s[j] \in S
    BY <2>1
  <2>3. <<s[i], s[j]>> \notin R /\ ~(<<s[i], s[i]>> \in R)
    BY <2>2 DEF OneWay
  <2>4. ~(i < j) /\ i # j
    BY <2>2, <2>3 DEF Follows
  <2> QED
    BY <2>1, <2>4
<1>4. ASSUME NEW j \in 1..(i - 1) PROVE s[j] \in B
  <2>1. j \in 1..n /\ i \in 1..n /\ j < i
    OBVIOUS
  <2> QED
    BY <2>1 DEF Follows
<1>5. PICK m \in 0..Len(s) : m = i - 1
  BY <1>1
<1>6. B = {s[j] : j \in 1..m}
  BY <1>3, <1>4, <1>5
<1> DEFINE P == {s[j] : j \in 1..m}
<1>7. Cardinality(P) = m
  BY <1>1, PrefixCardinality
<1> QED
  BY <1>5, <1>6, <1>7

(* A finite set that R orders can be put in a sequence: each element at the *)
(* place that the number of elements before it leaves.                      *)
Orders(R, S) ==
  /\ \A x, y \in S : x = y \/ <<x, y>> \in R \/ <<y, x>> \in R
  /\ OneWay(R, S)
  /\ \A x, y, z \in S : <<x, y>> \in R /\ <<y, z>> \in R => <<x, z>> \in R

LEMMA SetCanBeSorted ==
  ASSUME NEW S, IsFiniteSet(S), NEW n \in Nat, n = Cardinality(S), NEW R, Orders(R, S)
  PROVE  \E s \in [1..n -> S] : Follows(s, R)
<1>1. PICK below : below = [x \in S |-> {y \in S : <<y, x>> \in R}]
  OBVIOUS
<1>2. \A x \in S : /\ below[x] \subseteq S /\ x \notin below[x]
                   /\ \A y \in S : y \in below[x] <=> <<y, x>> \in R
  BY <1>1 DEF Orders, OneWay
<1>3. ASSUME NEW x \in S
      PROVE  IsFiniteSet(below[x]) /\ Cardinality(below[x]) \in Nat /\ Cardinality(below[x]) < n
  <2>1. below[x] \in SUBSET S /\ below[x] # S
    BY <1>2
  <2>2. IsFiniteSet(below[x]) /\ Cardinality(below[x]) \in Nat
    BY <2>1, FS_Subset, FS_CardinalityType
  <2>3. Cardinality(below[x]) <= n /\ Cardinality(below[x]) # n
    BY <2>1, FS_Subset
  <2> QED
    BY <2>2, <2>3
<1>4. ASSUME NEW x \in S, NEW y \in S, <<x, y>> \in R
      PROVE  Cardinality(below[x]) < Cardinality(below[y])
  <2>1. below[x] \in SUBSET below[y] /\ below[x] # below[y]
    BY <1>2, <1>4 DEF Orders
  <2>2. Cardinality(below[x]) <= Cardinality(below[y])
        /\ Cardinality(below[x]) # Cardinality(below[y])
    BY <1>3, <2>1, FS_Subset
  <2> QED
    BY <1>3, <2>2
<1>5. PICK rank : rank = [x \in S |-> Cardinality(below[x]) + 1]
  OBVIOUS
<1>6. rank \in [S -> 1..n]
  <2>1. \A x \in S : Cardinality(below[x]) + 1 \in 1..n
    BY <1>3
  <2> QED
    BY <1>5, <2>1
<1>7. ASSUME NEW x \in S, NEW y \in S, <<x, y>> \in R PROVE rank[x] < rank[y]
  <2>1. Cardinality(below[x]) < Cardinality(below[y])
    BY <1>4, <1>7
  <2>2. rank[x] = Cardinality(below[x]) + 1 /\ rank[y] = Cardinality(below[y]) + 1
    BY <1>5
  <2> QED
    BY <1>3, <2>1, <2>2
<1>8. ASSUME NEW x \in S, NEW y \in S, rank[x] = rank[y] PROVE x = y
  <2>1. rank[x] \in Int /\ rank[y] \in Int
    BY <1>6
  <2>2. <<x, y>> \notin R /\ <<y, x>> \notin R
    BY <1>7, <1>8, <2>1
  <2> QED
    BY <2>2 DEF Orders
<1>9. \A i \in 1..n : \E x \in S : rank[x] = i
  <2>1. IsFiniteSet(1..n) /\ Cardinality(1..n) = n
    BY FS_Interval
  <2>2. rank \in Injection(S, 1..n)
    BY <1>6, <1>8 DEF Injection, IsInjective
  <2>3. rank \in Surjection(S, 1..n)
    BY <2>1, <2>2, FS_Injection
  <2> QED
    BY <2>3 DEF Surjection
<1>10. PICK s : s = [i \in 1..n |-> CHOOSE x \in S : rank[x] = i]
  OBVIOUS
<1>11. ASSUME NEW i \in 1..n PROVE s[i] \in S /\ rank[s[i]] = i
  <2>1. s[i] = CHOOSE x \in S : rank[x] = i
    BY <1>10
  <2> QED
    BY <1>9, <2>1
<1>12. s \in [1..n -> S]
  BY <1>10, <1>11
<1>13. ASSUME NEW i \in 1..n, NEW j \in 1..n, i < j PROVE s[i] # s[j] /\ <<s[i], s[j]>> \in R
  <2>1. s[i] \in S /\ s[j] \in S /\ rank[s[i]] = i /\ rank[s[j]] = j
    BY <1>11
  <2>2. s[i] # s[j] /\ ~(rank[s[j]] < rank[s[i]])
    BY <1>13, <2>1
  <2>3. <<s[j], s[i]>> \notin R
    BY <1>7, <2>1, <2>2
  <2> QED
    BY <2>1, <2>2, <2>3 DEF Orders
<1> QED
  BY <1>12, <1>13 DEF Follows
=============================================================================
