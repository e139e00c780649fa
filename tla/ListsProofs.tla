----------------------------- MODULE ListsProofs -----------------------------
(***************************************************************************)
(* What the operators of Lists do, for lists and sets of every size.       *)
(*                                                                         *)
(* Inductions run over sets of numbers: a set that holds zero and, with    *)
(* each number, the next one holds all of them.                            *)
(***************************************************************************)
EXTENDS Lists, FiniteSetTheorems, TLAPS

\* Every set of natural numbers that is not empty has a least element.
LEMMA LeastNatural ==
  ASSUME NEW T, T \subseteq Nat, T # {}
  PROVE  \E m \in T : \A n \in T : m <= n
<1> DEFINE R == OpToRel(<, Nat)
<1>1. \A x, y \in Nat : x < y => <<x, y>> \in R
  BY DEF OpToRel
<1>2. IsWellFoundedOn(R, Nat)
  BY NatLessThanWellFounded
<1> HIDE DEF R
<1>3. PICK m \in T : \A n \in T : <<n, m>> \notin R
  BY <1>2, WFMin
<1>4. ASSUME NEW n \in T PROVE m <= n
  <2>1. m \in Nat /\ n \in Nat
    OBVIOUS
  <2>2. ~ (n < m)
    BY <1>1, <1>3, <2>1
  <2>3. QED
    BY <2>1, <2>2
<1>5. QED
  BY <1>4

\* Induction, for sets in place of predicates.
LEMMA SetInduction ==
  ASSUME NEW T, 0 \in T, \A n \in Nat : n \in T => n + 1 \in T
  PROVE  Nat \subseteq T
<1> SUFFICES ASSUME Nat \ T # {} PROVE FALSE
  OBVIOUS
<1>1. PICK m \in Nat \ T : \A n \in Nat \ T : m <= n
  BY LeastNatural
<1>2. m - 1 \in Nat /\ m - 1 + 1 = m
  BY <1>1
<1>3. m - 1 \in T
  BY <1>1, <1>2
<1>4. QED
  BY <1>1, <1>2, <1>3

-----------------------------------------------------------------------------
\* Listings

\* R is a strict order on S, and a total one.
Precedes(R, S) ==
  /\ \A x \in S : <<x, x>> \notin R
  /\ \A x, y, z \in S : <<x, y>> \in R /\ <<y, z>> \in R => <<x, z>> \in R

Orders(R, S) == Precedes(R, S) /\ \A x, y \in S : x # y => <<x, y>> \in R \/ <<y, x>> \in R

\* What comes later in the order has the higher rank.
LEMMA RankRises ==
  ASSUME NEW S, IsFiniteSet(S), NEW R, Precedes(R, S),
         NEW x \in S, NEW y \in S, <<x, y>> \in R
  PROVE  /\ Rank(S, R, x) \in Nat /\ Rank(S, R, y) \in Nat
         /\ Rank(S, R, x) < Rank(S, R, y)
<1> DEFINE A == {z \in S : <<z, x>> \in R}
           B == {z \in S : <<z, y>> \in R}
<1>1. A \in SUBSET B /\ B \in SUBSET S
  BY DEF Precedes
<1>2. x \in B /\ x \notin A
  BY DEF Precedes
<1>3. IsFiniteSet(B) /\ Cardinality(B) \in Nat
  BY <1>1, FS_Subset, FS_CardinalityType
<1>4. IsFiniteSet(A) /\ Cardinality(A) \in Nat /\ Cardinality(A) <= Cardinality(B)
  BY <1>1, <1>3, FS_Subset, FS_CardinalityType
<1>5. Cardinality(A) # Cardinality(B)
  BY <1>1, <1>2, <1>3, FS_Subset
<1>6. QED
  BY <1>3, <1>4, <1>5 DEF Rank

\* What comes after another element comes after one that is behind none.
LEMMA FirstOnes ==
  ASSUME NEW S, IsFiniteSet(S), NEW R, Precedes(R, S), NEW x \in S, NEW y \in S, <<y, x>> \in R
  PROVE  \E z \in S : <<z, x>> \in R /\ \A w \in S : <<w, z>> \notin R
<1> DEFINE D == {z \in S : <<z, x>> \in R}
           T == {Rank(S, R, z) : z \in D}
<1>1. \A z \in S : Rank(S, R, z) \in Nat
  <2> TAKE z \in S
  <2>1. {w \in S : <<w, z>> \in R} \in SUBSET S
    OBVIOUS
  <2>2. QED
    BY <2>1, FS_Subset, FS_CardinalityType DEF Rank
<1>2. T \subseteq Nat /\ T # {}
  BY <1>1
<1>3. PICK m \in T : \A n \in T : m <= n
  BY <1>2, LeastNatural
<1>4. PICK z \in D : m = Rank(S, R, z)
  BY <1>3
<1>5. ASSUME NEW w \in S, <<w, z>> \in R PROVE FALSE
  <2>1. w \in D /\ z \in S
    BY <1>4, <1>5 DEF Precedes
  <2>2. Rank(S, R, w) \in Nat /\ Rank(S, R, z) \in Nat /\ Rank(S, R, w) < Rank(S, R, z)
    BY <1>5, <2>1, RankRises
  <2>3. m <= Rank(S, R, w)
    BY <1>3, <2>1
  <2>4. QED
    BY <1>4, <2>2, <2>3
<1>6. QED
  BY <1>4, <1>5

\* Every element has a rank of its own, and every number up to the size of the
\* set is the rank of one.
LEMMA RanksCount ==
  ASSUME NEW S, IsFiniteSet(S), NEW R, Orders(R, S)
  PROVE  /\ Cardinality(S) \in Nat
         /\ \A x \in S : Rank(S, R, x) + 1 \in 1..Cardinality(S)
         /\ \A k \in 1..Cardinality(S) : \E x \in S : Rank(S, R, x) = k - 1
         /\ \A x, y \in S : Rank(S, R, x) = Rank(S, R, y) => x = y
<1> DEFINE n == Cardinality(S)
           f == [x \in S |-> Rank(S, R, x) + 1]
<1>1. n \in Nat
  BY FS_CardinalityType
<1>2. ASSUME NEW x \in S PROVE Rank(S, R, x) \in Nat /\ Rank(S, R, x) < n
  <2> DEFINE A == {z \in S : <<z, x>> \in R}
  <2>1. A \in SUBSET S /\ x \notin A
    BY DEF Orders, Precedes
  <2>2. IsFiniteSet(A) /\ Cardinality(A) \in Nat /\ Cardinality(A) <= n
    BY <2>1, FS_Subset, FS_CardinalityType
  <2>3. Cardinality(A) # n
    BY <2>1, FS_Subset
  <2>4. QED
    BY <1>1, <2>2, <2>3 DEF Rank
<1>3. \A x, y \in S : Rank(S, R, x) = Rank(S, R, y) => x = y
  <2> TAKE x, y \in S
  <2>1. CASE <<x, y>> \in R
    BY <2>1, RankRises DEF Orders
  <2>2. CASE <<y, x>> \in R
    BY <2>2, RankRises DEF Orders
  <2>3. QED
    BY <2>1, <2>2 DEF Orders, Precedes
<1>4. f \in [S -> 1..n]
  BY <1>1, <1>2
<1>5. IsInjective(f)
  <2> SUFFICES ASSUME NEW x \in S, NEW y \in S, f[x] = f[y] PROVE x = y
    BY DEF IsInjective
  <2>1. Rank(S, R, x) = Rank(S, R, y)
    BY <1>2
  <2>2. QED
    BY <1>3, <2>1
<1>6. f \in Injection(S, 1..n)
  BY <1>4, <1>5 DEF Injection
<1>7. IsFiniteSet(1..n) /\ Cardinality(1..n) = n
  BY <1>1, FS_Interval
<1>8. f \in Surjection(S, 1..n)
  BY <1>6, <1>7, FS_Injection
<1>9. ASSUME NEW k \in 1..n PROVE \E x \in S : Rank(S, R, x) = k - 1
  <2>1. PICK x \in S : f[x] = k
    BY <1>8 DEF Surjection
  <2>2. QED
    BY <1>2, <2>1
<1>10. QED
  BY <1>1, <1>2, <1>3, <1>9

\* A listing holds every element once, in order.
LEMMA ListingLaw ==
  ASSUME NEW S, IsFiniteSet(S), NEW R, Orders(R, S)
  PROVE  /\ Cardinality(S) \in Nat
         /\ Listing(S, R) \in [1..Cardinality(S) -> S]
         /\ \A x \in S : \E k \in 1..Cardinality(S) : Listing(S, R)[k] = x
         /\ \A k, m \in 1..Cardinality(S) :
              k < m => <<Listing(S, R)[k], Listing(S, R)[m]>> \in R
<1> DEFINE n == Cardinality(S)
           at == Listing(S, R)
<1>1. n \in Nat
  BY RanksCount
<1>2. ASSUME NEW k \in 1..n PROVE at[k] \in S /\ Rank(S, R, at[k]) = k - 1
  <2>1. \E x \in S : Rank(S, R, x) = k - 1
    BY RanksCount
  <2>2. at[k] = CHOOSE x \in S : Rank(S, R, x) = k - 1
    BY DEF Listing
  <2>3. QED
    BY <2>1, <2>2
<1>3. at \in [1..n -> S]
  BY <1>2 DEF Listing
<1>4. ASSUME NEW x \in S PROVE \E k \in 1..n : at[k] = x
  <2> DEFINE k == Rank(S, R, x) + 1
  <2>1. k \in 1..n
    BY RanksCount
  <2>2. at[k] \in S /\ Rank(S, R, at[k]) = k - 1
    BY <1>2, <2>1
  <2>3. Rank(S, R, x) \in Int
    <3> DEFINE A == {z \in S : <<z, x>> \in R}
    <3>1. IsFiniteSet(A)
      BY FS_Subset, A \in SUBSET S
    <3>2. QED
      BY <3>1, FS_CardinalityType DEF Rank
  <2>4. at[k] = x
    BY <2>2, <2>3, RanksCount
  <2>5. QED
    BY <2>1, <2>4
<1>5. ASSUME NEW k \in 1..n, NEW m \in 1..n, k < m PROVE <<at[k], at[m]>> \in R
  <2>1. /\ at[k] \in S /\ Rank(S, R, at[k]) = k - 1
        /\ at[m] \in S /\ Rank(S, R, at[m]) = m - 1
    BY <1>2
  <2>2. at[k] # at[m]
    BY <1>5, <2>1
  <2>3. ~ (<<at[m], at[k]>> \in R)
    <3> SUFFICES ASSUME <<at[m], at[k]>> \in R PROVE FALSE
      OBVIOUS
    <3>1. Rank(S, R, at[m]) < Rank(S, R, at[k])
      BY <2>1, RankRises DEF Orders
    <3>2. QED
      BY <1>5, <2>1, <3>1
  <2>4. QED
    BY <2>1, <2>2, <2>3 DEF Orders, Precedes
<1>6. QED
  BY <1>1, <1>3, <1>4, <1>5

\* Numbers are ordered by their size.
LEMMA AscendingOrders ==
  ASSUME NEW S, S \subseteq Int
  PROVE  Orders(Ascending(S), S)
BY DEF Orders, Precedes, Ascending

\* Every rank is one of an element's.
LEMMA RankTaken ==
  ASSUME NEW S, IsFiniteSet(S), NEW R, Orders(R, S), NEW k \in 1..Cardinality(S)
  PROVE  \E x \in S : Rank(S, R, x) = k - 1
BY RanksCount

\* Every place in a set of numbers is taken by one of them.
LEMMA PlacesTaken ==
  ASSUME NEW S, IsFiniteSet(S), S \subseteq Int, NEW k \in 1..Cardinality(S)
  PROVE  \E x \in S : Cardinality({y \in S : y < x}) = k - 1
<1>1. Orders(Ascending(S), S)
  BY AscendingOrders
<1>2. PICK x \in S : Rank(S, Ascending(S), x) = k - 1
  BY <1>1, RankTaken
<1>3. {y \in S : <<y, x>> \in Ascending(S)} = {y \in S : y < x}
  BY DEF Ascending
<1>4. QED
  BY <1>2, <1>3 DEF Rank

\* A list of what is at the places S of another: each of them once, in their
\* order.
PickedAt(picked, list, S) ==
  \E at \in [DOMAIN picked -> S] :
    /\ \A k \in DOMAIN picked : picked[k] = list[at[k]]
    /\ \A i \in S : \E k \in DOMAIN picked : at[k] = i
    /\ \A k, m \in DOMAIN picked : k < m => at[k] < at[m]

LEMMA PickedLaw ==
  ASSUME NEW T, NEW list \in Seq(T), NEW S, S \subseteq DOMAIN list
  PROVE  Picked(list, S) \in Seq(T) /\ PickedAt(Picked(list, S), list, S)
<1> DEFINE n == Cardinality(S)
           at == Listing(S, Ascending(S))
           p  == Picked(list, S)
<1>1. DOMAIN list = 1..Len(list) /\ Len(list) \in Nat
  OBVIOUS
<1>2. IsFiniteSet(S) /\ S \subseteq Int
  <2>1. IsFiniteSet(1..Len(list))
    BY <1>1, FS_Interval
  <2>2. QED
    BY <1>1, <2>1, FS_Subset
<1>3. Orders(Ascending(S), S)
  BY <1>2, AscendingOrders
<1>4. /\ n \in Nat /\ at \in [1..n -> S]
      /\ \A i \in S : \E k \in 1..n : at[k] = i
      /\ \A k, m \in 1..n : k < m => <<at[k], at[m]>> \in Ascending(S)
  BY <1>2, <1>3, ListingLaw
<1>5. p = [k \in 1..n |-> list[at[k]]]
  BY DEF Picked
<1> HIDE DEF at, p
<1>6. \A k \in 1..n : list[at[k]] \in T
  BY <1>4
<1>7. p \in Seq(T) /\ DOMAIN p = 1..n
  BY <1>4, <1>5, <1>6, SMTT(60)
<1>8. \A k, m \in 1..n : k < m => at[k] < at[m]
  BY <1>4 DEF Ascending
<1>9. QED
  <2>1. /\ at \in [DOMAIN p -> S]
        /\ \A k \in DOMAIN p : p[k] = list[at[k]]
        /\ \A i \in S : \E k \in DOMAIN p : at[k] = i
        /\ \A k, m \in DOMAIN p : k < m => at[k] < at[m]
    BY <1>4, <1>5, <1>7, <1>8
  <2>2. QED
    BY <1>7, <2>1 DEF p, PickedAt
-----------------------------------------------------------------------------
\* Sums

\* The element a sum takes first from a set, and the parts of a set by size.
Pick(T) == CHOOSE x \in T : TRUE
Upto(S, n) == {T \in SUBSET S : Cardinality(T) <= n}

\* g sums f over every one of the sets.
Sums(g, f, Sets) ==
  \A T \in Sets : g[T] = IF T = {} THEN 0 ELSE f[Pick(T)] + g[T \ {Pick(T)}]

\* Whichever element is taken first.
SumsAny(g, f, Sets) == \A T \in Sets : \A x \in T : g[T] = f[x] + g[T \ {x}]

Agree(f, e, T) == \A x \in T : f[x] = e[x]

\* Taking an element from a set leaves a smaller one.
LEMMA Smaller ==
  ASSUME NEW S, IsFiniteSet(S), NEW n \in Nat, NEW T \in Upto(S, n + 1), NEW x \in T
  PROVE  T \ {x} \in Upto(S, n)
<1>1. IsFiniteSet(T) /\ Cardinality(T) \in Nat /\ Cardinality(T) <= n + 1
  BY FS_Subset, FS_CardinalityType DEF Upto
<1>2. Cardinality(T \ {x}) = Cardinality(T) - 1
  BY <1>1, FS_RemoveElement
<1>3. QED
  BY <1>1, <1>2 DEF Upto

\* What holds of the empty set, and of a set when it holds of the smaller ones,
\* holds of every part of a finite set.
LEMMA FiniteInduction ==
  ASSUME NEW S, IsFiniteSet(S), NEW H, {} \in H,
         \A T \in SUBSET S : \A x \in T : (\A y \in T : T \ {y} \in H) => T \in H
  PROVE  SUBSET S \subseteq H
<1> DEFINE N == {n \in Nat : Upto(S, n) \subseteq H}
<1>1. 0 \in N
  <2>1. ASSUME NEW T \in Upto(S, 0) PROVE T = {}
    <3>1. IsFiniteSet(T) /\ Cardinality(T) \in Nat /\ Cardinality(T) <= 0
      BY FS_Subset, FS_CardinalityType DEF Upto
    <3>2. QED
      BY <3>1, FS_EmptySet
  <2>2. QED
    BY <2>1
<1>2. \A n \in Nat : n \in N => n + 1 \in N
  <2> SUFFICES ASSUME NEW n \in Nat, n \in N, NEW T \in Upto(S, n + 1) PROVE T \in H
    OBVIOUS
  <2>1. \A y \in T : T \ {y} \in H
    BY Smaller
  <2>2. T \in SUBSET S
    BY DEF Upto
  <2>3. QED
    BY <2>1, <2>2
<1>3. Nat \subseteq N
  <2> HIDE DEF N
  <2> QED
    BY <1>1, <1>2, SetInduction
<1>4. Cardinality(S) \in N
  BY <1>3, FS_CardinalityType
<1>5. SUBSET S \subseteq Upto(S, Cardinality(S))
  BY FS_Subset DEF Upto
<1>6. QED
  BY <1>4, <1>5

\* Every finite set of numbers that is not empty has a greatest one.
LEMMA GreatestNumber ==
  ASSUME NEW S, IsFiniteSet(S), S \subseteq Int, S # {}
  PROVE  \E x \in S : \A y \in S : y <= x
<1> DEFINE H == {T \in SUBSET S : T # {} => \E x \in T : \A y \in T : y <= x}
<1>1. {} \in H
  OBVIOUS
<1>2. \A T \in SUBSET S : \A x \in T : (\A y \in T : T \ {y} \in H) => T \in H
  <2> SUFFICES ASSUME NEW T \in SUBSET S, NEW x \in T, T \ {x} \in H
               PROVE  \E z \in T : \A y \in T : y <= z
    OBVIOUS
  <2>1. CASE T \ {x} = {}
    <3>1. \A y \in T : y = x /\ y \in Int
      BY <2>1
    <3>2. QED
      BY <3>1
  <2>2. CASE T \ {x} # {}
    <3>1. PICK z \in T \ {x} : \A y \in T \ {x} : y <= z
      BY <2>2
    <3>2. x \in Int /\ z \in Int /\ T \subseteq Int
      OBVIOUS
    <3>3. CASE x <= z
      BY <3>1, <3>3
    <3>4. CASE z <= x
      <4>1. \A y \in T : y <= x
        BY <3>1, <3>2, <3>4
      <4>2. QED
        BY <4>1
    <3>5. QED
      BY <3>2, <3>3, <3>4
  <2>3. QED
    BY <2>1, <2>2
<1>3. SUBSET S \subseteq H
  <2> HIDE DEF H
  <2> QED
    BY <1>1, <1>2, FiniteInduction
<1>4. QED
  BY <1>3

\* There is a function that sums f over every part of its domain.
LEMMA SumsExist ==
  ASSUME NEW S, IsFiniteSet(S), NEW f \in [S -> Int]
  PROVE  \E g \in [SUBSET S -> Int] : Sums(g, f, SUBSET S)
<1> DEFINE N == {n \in Nat : \E g \in [Upto(S, n) -> Int] : Sums(g, f, Upto(S, n))}
<1>0. \A T \in SUBSET S : T # {} => Pick(T) \in T /\ f[Pick(T)] \in Int
  BY DEF Pick
<1>1. 0 \in N
  <2> DEFINE g == [T \in Upto(S, 0) |-> 0]
  <2>1. ASSUME NEW T \in Upto(S, 0) PROVE T = {}
    <3>1. IsFiniteSet(T) /\ Cardinality(T) \in Nat /\ Cardinality(T) <= 0
      BY FS_Subset, FS_CardinalityType DEF Upto
    <3>2. QED
      BY <3>1, FS_EmptySet
  <2>2. Sums(g, f, Upto(S, 0))
    BY <2>1 DEF Sums
  <2>3. QED
    BY <2>2
<1>2. \A n \in Nat : n \in N => n + 1 \in N
  <2> SUFFICES ASSUME NEW n \in Nat, NEW g \in [Upto(S, n) -> Int], Sums(g, f, Upto(S, n))
               PROVE  \E h \in [Upto(S, n + 1) -> Int] : Sums(h, f, Upto(S, n + 1))
    OBVIOUS
  <2> DEFINE h == [T \in Upto(S, n + 1) |-> IF T = {} THEN 0 ELSE f[Pick(T)] + g[T \ {Pick(T)}]]
  <2>1. \A T \in Upto(S, n + 1) : T # {} => T \ {Pick(T)} \in Upto(S, n)
    BY <1>0, Smaller DEF Upto
  <2>2. h \in [Upto(S, n + 1) -> Int]
    BY <1>0, <2>1 DEF Upto
  <2>3. ASSUME NEW T \in Upto(S, n) PROVE T \in Upto(S, n + 1) /\ h[T] = g[T]
    <3>1. Cardinality(T) \in Nat
      BY FS_Subset, FS_CardinalityType DEF Upto
    <3>2. T \in Upto(S, n + 1)
      BY <3>1 DEF Upto
    <3>3. QED
      BY <3>2 DEF Sums
  <2>4. Sums(h, f, Upto(S, n + 1))
    BY <2>1, <2>3 DEF Sums
  <2>5. QED
    BY <2>2, <2>4
<1>3. Nat \subseteq N
  <2> HIDE DEF N
  <2> QED
    BY <1>1, <1>2, SetInduction
<1>4. PICK g \in [Upto(S, Cardinality(S)) -> Int] : Sums(g, f, Upto(S, Cardinality(S)))
  BY <1>3, FS_CardinalityType
<1>5. SUBSET S = Upto(S, Cardinality(S))
  BY FS_Subset DEF Upto
<1>6. QED
  BY <1>4, <1>5

\* Two such functions agree on the parts that both sum.
LEMMA SumsAgree ==
  ASSUME NEW S, IsFiniteSet(S), NEW f, NEW g, NEW e, NEW h, NEW U \in SUBSET S,
         Sums(g, f, SUBSET S), Sums(h, e, SUBSET U), Agree(f, e, U)
  PROVE  Agree(g, h, SUBSET U)
<1> DEFINE H == {T \in SUBSET U : g[T] = h[T]}
<1>1. IsFiniteSet(U)
  BY FS_Subset
<1>2. {} \in H
  BY DEF Sums
<1>3. \A T \in SUBSET U : \A x \in T : (\A y \in T : T \ {y} \in H) => T \in H
  <2> SUFFICES ASSUME NEW T \in SUBSET U, T # {}, \A y \in T : T \ {y} \in H PROVE T \in H
    OBVIOUS
  <2>1. Pick(T) \in T /\ T \in SUBSET S
    BY DEF Pick
  <2>2. g[T \ {Pick(T)}] = h[T \ {Pick(T)}] /\ f[Pick(T)] = e[Pick(T)]
    BY <2>1 DEF Agree
  <2>3. QED
    BY <2>1, <2>2 DEF Sums
<1>4. SUBSET U \subseteq H
  <2> HIDE DEF H
  <2> QED
    BY <1>1, <1>2, <1>3, FiniteInduction
<1>5. QED
  BY <1>4 DEF Agree

\* The sum of a function is what those functions give for its whole domain.
LEMMA SumIsTally ==
  ASSUME NEW S, IsFiniteSet(S), NEW f \in [S -> Int],
         NEW g \in [SUBSET S -> Int], Sums(g, f, SUBSET S)
  PROVE  SumFunction(f) = g[S]
<1> DEFINE Eq(t) == t = [T \in SUBSET S |-> IF T = {} THEN 0 ELSE f[Pick(T)] + t[T \ {Pick(T)}]]
           t == CHOOSE t : Eq(t)
<1>1. Eq(g)
  <2>1. \A T \in SUBSET S : g[T] = IF T = {} THEN 0 ELSE f[Pick(T)] + g[T \ {Pick(T)}]
    BY DEF Sums
  <2>2. g = [T \in SUBSET S |-> g[T]]
    OBVIOUS
  <2>3. [T \in SUBSET S |-> g[T]]
          = [T \in SUBSET S |-> IF T = {} THEN 0 ELSE f[Pick(T)] + g[T \ {Pick(T)}]]
    BY <2>1
  <2>4. QED
    BY <2>2, <2>3
<1>2. Eq(t)
  <2> HIDE DEF Eq
  <2> QED
    BY <1>1
<1>3. Sums(t, f, SUBSET S)
  <2> HIDE DEF t
  <2> QED
    BY <1>2 DEF Sums
<1>4. SumFunction(f) = t[S]
  <2>1. DOMAIN f = S
    OBVIOUS
  <2>2. QED
    BY <2>1, Zenon DEF SumFunction, SumFunctionOnSet, MapThenFoldSet, FoldFunctionOnSet, Pick
<1>5. t[S] = g[S]
  <2> HIDE DEF t
  <2>1. Agree(f, f, S)
    BY DEF Agree
  <2>2. Agree(t, g, SUBSET S)
    BY <1>3, <2>1, SumsAgree, S \in SUBSET S
  <2>3. QED
    BY <2>2 DEF Agree
<1>6. QED
  BY <1>4, <1>5

\* A sum may be taken from any element on.
LEMMA AnyOrder ==
  ASSUME NEW S, IsFiniteSet(S), NEW f \in [S -> Int],
         NEW g \in [SUBSET S -> Int], Sums(g, f, SUBSET S)
  PROVE  SumsAny(g, f, SUBSET S)
<1> DEFINE H == {T \in SUBSET S : \A x \in T : g[T] = f[x] + g[T \ {x}]}
<1>1. {} \in H
  OBVIOUS
<1>2. \A T \in SUBSET S : \A x \in T : (\A y \in T : T \ {y} \in H) => T \in H
  <2> SUFFICES ASSUME NEW T \in SUBSET S, \A y \in T : T \ {y} \in H, NEW x \in T
               PROVE  g[T] = f[x] + g[T \ {x}]
    OBVIOUS
  <2> DEFINE p == Pick(T)
  <2>1. p \in T
    BY DEF Pick
  <2>2. g[T] = f[p] + g[T \ {p}]
    BY <2>1 DEF Sums
  <2> HIDE DEF p
  <2>3. CASE x = p
    BY <2>2, <2>3
  <2>4. CASE x # p
    <3>1. T \ {p} \in H /\ x \in T \ {p} /\ T \ {x} \in H /\ p \in T \ {x}
      BY <2>1, <2>4
    <3>2. g[T \ {p}] = f[x] + g[(T \ {p}) \ {x}] /\ g[T \ {x}] = f[p] + g[(T \ {x}) \ {p}]
      BY <3>1
    <3>3. (T \ {p}) \ {x} = (T \ {x}) \ {p}
      OBVIOUS
    <3>4. \A a, b, c \in Int : b + (a + c) = a + (b + c)
      OBVIOUS
    <3>5. (T \ {x}) \ {p} \in SUBSET S /\ x \in S /\ p \in S
      BY <2>1
    <3>6. f[x] \in Int /\ f[p] \in Int /\ g[(T \ {x}) \ {p}] \in Int
      BY <3>5
    <3>7. f[p] + (f[x] + g[(T \ {x}) \ {p}]) = f[x] + (f[p] + g[(T \ {x}) \ {p}])
      BY <3>4, <3>6
    <3>8. g[T] = f[p] + (f[x] + g[(T \ {x}) \ {p}])
      BY <2>2, <3>2, <3>3
    <3>9. QED
      BY <3>2, <3>7, <3>8
  <2>5. QED
    BY <2>3, <2>4
<1>3. SUBSET S \subseteq H
  <2> HIDE DEF H
  <2> QED
    BY <1>1, <1>2, FiniteInduction, SMTT(60)
<1>4. QED
  BY <1>3 DEF SumsAny

\* The sum over a part of the domain.
Part(f, T) == SumFunction([x \in T |-> f[x]])

\* A sum over numbers is a number, nothing for the empty set, and for any of
\* the elements that element and the sum over the others.
LEMMA SumLaw ==
  ASSUME NEW S, IsFiniteSet(S), NEW f \in [S -> Int]
  PROVE  /\ SumFunction(f) = Part(f, S)
         /\ Part(f, {}) = 0
         /\ \A T \in SUBSET S : /\ Part(f, T) \in Int
                                /\ \A x \in T : Part(f, T) = f[x] + Part(f, T \ {x})
<1>1. PICK g \in [SUBSET S -> Int] : Sums(g, f, SUBSET S)
  BY SumsExist
<1>2. ASSUME NEW T \in SUBSET S PROVE Part(f, T) = g[T]
  <2> DEFINE e == [x \in T |-> f[x]]
  <2>1. IsFiniteSet(T) /\ e \in [T -> Int]
    BY FS_Subset
  <2>2. PICK h \in [SUBSET T -> Int] : Sums(h, e, SUBSET T)
    <3> HIDE DEF e
    <3> QED
      BY <2>1, SumsExist
  <2>3. Agree(f, e, T)
    BY DEF Agree
  <2> HIDE DEF e
  <2>4. SumFunction(e) = h[T]
    BY <2>1, <2>2, SumIsTally
  <2>5. \A V \in SUBSET T : g[V] = h[V]
    <3>1. Sums(g, f, SUBSET S) /\ Sums(h, e, SUBSET T)
      BY <1>1, <2>2
    <3>2. Agree(g, h, SUBSET T)
      BY <3>1, <2>3, SumsAgree
    <3>3. QED
      BY <3>2 DEF Agree
  <2>6. QED
    BY <2>4, <2>5 DEF Part, e
<1>3. f = [x \in S |-> f[x]]
  OBVIOUS
<1>4. SumFunction(f) = Part(f, S)
  BY <1>3 DEF Part
<1>5. Part(f, {}) = 0
  BY <1>1, <1>2 DEF Sums
<1>6. ASSUME NEW T \in SUBSET S
      PROVE  Part(f, T) \in Int /\ \A x \in T : Part(f, T) = f[x] + Part(f, T \ {x})
  <2>1. \A U \in SUBSET S : \A x \in U : g[U] = f[x] + g[U \ {x}]
    <3>1. Sums(g, f, SUBSET S)
      BY <1>1
    <3>2. SumsAny(g, f, SUBSET S)
      BY <3>1, AnyOrder
    <3>3. QED
      BY <3>2 DEF SumsAny
  <2>2. Part(f, T) \in Int
    BY <1>1, <1>2
  <2>3. ASSUME NEW x \in T PROVE Part(f, T) = f[x] + Part(f, T \ {x})
    <3>1. T \ {x} \in SUBSET S
      OBVIOUS
    <3>2. g[T] = f[x] + g[T \ {x}]
      BY <2>1
    <3>3. Part(f, T) = g[T] /\ Part(f, T \ {x}) = g[T \ {x}]
      BY <1>2, <3>1
    <3>4. QED
      BY <3>2, <3>3
  <2>4. QED
    BY <2>2, <2>3
<1>7. QED
  BY <1>4, <1>5, <1>6

\* The same, for one element.
Takes(f, T, x) == Part(f, T) = f[x] + Part(f, T \ {x})

LEMMA SumTakes ==
  ASSUME NEW S, IsFiniteSet(S), NEW f \in [S -> Int], NEW T \in SUBSET S, NEW x \in T
  PROVE  Takes(f, T, x)
BY SumLaw DEF Takes

\* A sum of natural numbers is one.
LEMMA SumNat ==
  ASSUME NEW S, IsFiniteSet(S), NEW f \in [S -> Nat]
  PROVE  SumFunction(f) \in Nat
<1> DEFINE H == {T \in SUBSET S : Part(f, T) \in Nat}
<1>1. f \in [S -> Int]
  OBVIOUS
<1>2. {} \in H
  BY <1>1, SumLaw
<1>3. \A T \in SUBSET S : \A x \in T : (\A y \in T : T \ {y} \in H) => T \in H
  <2> SUFFICES ASSUME NEW T \in SUBSET S, NEW x \in T, T \ {x} \in H PROVE Part(f, T) \in Nat
    OBVIOUS
  <2>1. Part(f, T) = f[x] + Part(f, T \ {x})
    BY <1>1, SumLaw
  <2>2. QED
    BY <2>1
<1>4. SUBSET S \subseteq H
  <2> HIDE DEF H
  <2> QED
    BY <1>2, <1>3, FiniteInduction
<1>5. QED
  BY <1>1, <1>4, SumLaw

\* A member can be taken out of a sum.
LEMMA SumTakesOut ==
  ASSUME NEW S, IsFiniteSet(S), NEW f \in [S -> Int], NEW T \in SUBSET S, NEW x \in T
  PROVE  Part(f, T) = f[x] + Part(f, T \ {x})
BY SumLaw

\* A sum is the sum of those over two halves of its domain.
LEMMA SumSplits ==
  ASSUME NEW S, IsFiniteSet(S), NEW f \in [S -> Int], NEW A, NEW B, A \cup B = S, A \cap B = {}
  PROVE  /\ Part(f, A) \in Int /\ Part(f, B) \in Int
         /\ SumFunction(f) = Part(f, A) + Part(f, B)
<1> DEFINE H == {T \in SUBSET A : Part(f, T \cup B) = Part(f, T) + Part(f, B)}
<1>1. Part(f, B) \in Int /\ IsFiniteSet(A)
  BY SumLaw, FS_Subset
<1>2. {} \in H
  <2>1. {} \cup B = B
    OBVIOUS
  <2>2. QED
    BY <1>1, <2>1, SumLaw
<1>3. \A T \in SUBSET A : \A x \in T : (\A y \in T : T \ {y} \in H) => T \in H
  <2> SUFFICES ASSUME NEW T \in SUBSET A, NEW x \in T, T \ {x} \in H
               PROVE  Part(f, T \cup B) = Part(f, T) + Part(f, B)
    OBVIOUS
  <2>1. (T \cup B) \ {x} = (T \ {x}) \cup B
    OBVIOUS
  <2>2. T \in SUBSET S /\ T \cup B \in SUBSET S /\ T \ {x} \in SUBSET S
    OBVIOUS
  <2>3. Part(f, T \cup B) = f[x] + Part(f, (T \ {x}) \cup B)
    <3>1. x \in T \cup B
      OBVIOUS
    <3>2. Part(f, T \cup B) = f[x] + Part(f, (T \cup B) \ {x})
      BY <2>2, <3>1, SumTakesOut, SMTT(60)
    <3>3. QED
      BY <2>1, <3>2, Zenon
  <2>4. Part(f, T) = f[x] + Part(f, T \ {x})
    BY <2>2, SumLaw
  <2>5. Part(f, T \ {x}) \in Int
    BY <2>2, SumLaw
  <2>6. f[x] \in Int
    BY <2>2
  <2>7. Part(f, (T \ {x}) \cup B) = Part(f, T \ {x}) + Part(f, B)
    OBVIOUS
  <2>8. QED
    BY <1>1, <2>3, <2>4, <2>5, <2>6, <2>7
<1>4. SUBSET A \subseteq H
  <2> HIDE DEF H
  <2> QED
    BY <1>1, <1>2, <1>3, FiniteInduction
<1>5. Part(f, A) \in Int /\ SumFunction(f) = Part(f, A \cup B)
  BY SumLaw
<1>6. QED
  BY <1>1, <1>4, <1>5

\* The sum of one number, and the sum of a list as it grows.
LEMMA SumOfOne ==
  ASSUME NEW x, NEW S, S = {x}, NEW f \in [S -> Int]
  PROVE  SumFunction(f) = f[x]
<1>1. IsFiniteSet(S) /\ S \in SUBSET S /\ x \in S /\ f[x] \in Int
  BY FS_Singleton
<1>2. SumFunction(f) = Part(f, S) /\ Part(f, {}) = 0
  BY <1>1, SumLaw
<1>3. Part(f, S) = f[x] + Part(f, S \ {x})
  BY <1>1, SumLaw
<1>4. S \ {x} = {}
  OBVIOUS
<1>5. Part(f, S \ {x}) = 0
  BY <1>2, <1>4
<1>6. QED
  BY <1>1, <1>2, <1>3, <1>5

Grows(f, n) ==
  /\ SumFunction(f) = Part(f, 1..n)
  /\ \A m \in 1..n : /\ Part(f, 1..m) \in Int /\ Part(f, 1..(m - 1)) \in Int
                     /\ Part(f, 1..m) = f[m] + Part(f, 1..(m - 1))
  /\ n > 0 => Part(f, 1..1) = f[1]

LEMMA SumGrows ==
  ASSUME NEW n \in Nat, NEW f \in [1..n -> Int]
  PROVE  Grows(f, n)
<1>1. IsFiniteSet(1..n)
  BY FS_Interval
<1>2. SumFunction(f) = Part(f, 1..n) /\ Part(f, {}) = 0
  BY <1>1, SumLaw
<1>3. ASSUME NEW m \in 1..n
      PROVE  /\ Part(f, 1..m) \in Int /\ Part(f, 1..(m - 1)) \in Int
             /\ Part(f, 1..m) = f[m] + Part(f, 1..(m - 1))
  <2> DEFINE T == 1..m
             U == 1..(m - 1)
  <2>1. T \in SUBSET (1..n) /\ m \in T /\ U = T \ {m} /\ U \in SUBSET (1..n)
    OBVIOUS
  <2> HIDE DEF T, U
  <2>2. Part(f, T) \in Int /\ Part(f, U) \in Int
    BY <1>1, <2>1, SumLaw
  <2>3. Part(f, T) = f[m] + Part(f, T \ {m})
    <3>1. Takes(f, T, m)
      BY <1>1, <2>1, SumTakes
    <3>2. QED
      BY <3>1 DEF Takes
  <2>4. Part(f, T) = f[m] + Part(f, U)
    BY <2>1, <2>3
  <2>5. QED
    BY <2>2, <2>4 DEF T, U
<1>4. ASSUME n > 0 PROVE Part(f, 1..1) = f[1]
  <2> DEFINE T == 1..1
  <2>1. T = {1} /\ T \in SUBSET (1..n) /\ 1 \in T /\ f[1] \in Int
    BY <1>4
  <2> HIDE DEF T
  <2>2. Part(f, T) = f[1] + Part(f, T \ {1})
    BY <1>1, <2>1, SumTakesOut, SMTT(60)
  <2>3. T \ {1} = {}
    BY <2>1
  <2>4. Part(f, T \ {1}) = 0
    BY <1>2, <2>3
  <2>5. Part(f, T) = f[1]
    BY <2>1, <2>2, <2>4
  <2>6. QED
    BY <2>5 DEF T
<1>5. QED
  BY <1>2, <1>3, <1>4 DEF Grows
=============================================================================
