-------------------------- MODULE CoordinatorProofs --------------------------
(***************************************************************************)
(* Why a split never pays, and what a search request is answered with, for *)
(* all trains, distances and tables, any proposals of the two agents, any  *)
(* query and any order of the evaluations.                                 *)
(*                                                                         *)
(* The comment of src/fare_model.py gives two reasons why a split costs    *)
(* more than the direct fare it replaces: the base fare is telescopic and  *)
(* the charges are per ticket.  Both are proved first, with a third that   *)
(* it leaves out: the kilometres of tickets that follow each other are not *)
(* fewer than those of one, which is the triangle inequality of the        *)
(* distances a ticket is charged for.                                      *)
(***************************************************************************)
EXTENDS Coordinator, ListsProofs, TLAPS

-----------------------------------------------------------------------------
(* Fares *)

\* The base fare is a number of paise.
LEMMA BaseFareNat ==
  ASSUME NEW km \in Nat
  PROVE  BaseFare(km) \in Nat
BY DEF BaseFare, Within

\* Two short tickets each restart at the expensive inner bands: the base fare
\* of a journey is never more than those of its two parts (base_fare).
LEMMA Telescopic ==
  ASSUME NEW a \in Nat, NEW b \in Nat
  PROVE  BaseFare(a + b) <= BaseFare(a) + BaseFare(b)
<1> DEFINE Least(x, y) == IF x <= y THEN x ELSE y
           Cut(km) == 32 * km + 6 * Least(km, 1500) + 7 * Least(km, 700)
                        + 11 * Least(km, 300) + 16 * Least(km, 100)
<1>1. \A km \in Nat : BaseFare(km) = Cut(km)
  BY DEF BaseFare, Within
<1>2. \A n \in Nat : Least(a + b, n) <= Least(a, n) + Least(b, n)
  OBVIOUS
<1>3. \A n \in Nat : Least(a + b, n) \in Nat /\ Least(a, n) \in Nat /\ Least(b, n) \in Nat
  OBVIOUS
<1> HIDE DEF Least
<1>4. Cut(a + b) <= Cut(a) + Cut(b)
  BY <1>2, <1>3
<1>5. QED
  BY <1>1, <1>4

\* A longer journey never costs less.
LEMMA BaseFareMonotone ==
  ASSUME NEW a \in Nat, NEW b \in Nat, a <= b
  PROVE  BaseFare(a) <= BaseFare(b)
BY DEF BaseFare, Within

\* Every class has a factor, charges and a tax above zero.
LEMMA TariffType ==
  ASSUME NEW class \in Classes
  PROVE  /\ Tariff[class].factor \in Nat \ {0}
         /\ Tariff[class].charges \in Nat \ {0}
         /\ Tariff[class].tax \in Nat \ {0}
BY DEF Tariff, Classes

\* What a positive factor does to an order.
LEMMA Scaled ==
  ASSUME NEW x \in Int, NEW y \in Int, NEW n \in Nat \ {0}, x < y
  PROVE  x * n < y * n
OBVIOUS

\* The total of one fare, with its charges and tax, written out.
LEMMA FareOf ==
  ASSUME NEW km \in Nat, NEW class \in Classes, NEW n \in Nat \ {0}
  PROVE  Fare(km, class, n) =
           ((BaseFare(km) * Tariff[class].factor + Tariff[class].charges * 2000)
              * Tariff[class].tax) * n
<1>1. km # NoKm /\ ~ (n < 1)
  BY DEF NoKm
<1>2. QED
  BY <1>1 DEF Fare

\* A split ticket costs more than the direct fare it replaces, for every
\* class, party and way of splitting the distance (fare_breakdown,
\* fare_model.py:27-28; base_fare, fare_model.py:92-95).
THEOREM SplitCostsMore ==
  ASSUME NEW a \in Nat, NEW b \in Nat, NEW class \in Classes, NEW n \in Nat \ {0}
  PROVE  Fare(a + b, class, n) < Fare(a, class, n) + Fare(b, class, n)
<1> DEFINE f == Tariff[class].factor
           c == Tariff[class].charges * 2000
           t == Tariff[class].tax
           x == BaseFare(a)
           y == BaseFare(b)
           z == BaseFare(a + b)
<1>1. f \in Nat \ {0} /\ c \in Nat \ {0} /\ t \in Nat \ {0}
  BY TariffType
<1>2. x \in Nat /\ y \in Nat /\ z \in Nat /\ z <= x + y
  BY BaseFareNat, Telescopic, a + b \in Nat
<1>3. /\ Fare(a, class, n) = ((x * f + c) * t) * n
      /\ Fare(b, class, n) = ((y * f + c) * t) * n
      /\ Fare(a + b, class, n) = ((z * f + c) * t) * n
  BY FareOf, a + b \in Nat
<1> HIDE DEF f, c, t, x, y, z
<1>4. z * f <= x * f + y * f
  <2>1. z * f <= (x + y) * f
    BY <1>1, <1>2
  <2>2. (x + y) * f = x * f + y * f
    BY <1>1, <1>2
  <2>3. x * f \in Nat /\ y * f \in Nat /\ z * f \in Nat
    BY <1>1, <1>2
  <2>4. QED
    BY <2>1, <2>2, <2>3
<1>5. z * f + c < (x * f + c) + (y * f + c)
  <2>1. x * f \in Nat /\ y * f \in Nat /\ z * f \in Nat
    BY <1>1, <1>2
  <2>2. QED
    BY <2>1, <1>1, <1>4
<1> DEFINE p == x * f + c
           q == y * f + c
           r == z * f + c
<1>6. p \in Nat /\ q \in Nat /\ r \in Nat /\ r < p + q
  BY <1>1, <1>2, <1>5
<1> HIDE DEF p, q, r
<1>7. r * t < p * t + q * t
  <2>1. r * t < (p + q) * t
    BY <1>6, <1>1, Scaled
  <2>2. (p + q) * t = p * t + q * t
    BY <1>6, <1>1
  <2>3. QED
    BY <2>1, <2>2
<1>8. (r * t) * n < (p * t) * n + (q * t) * n
  <2>1. r * t \in Int /\ p * t \in Int /\ q * t \in Int
    BY <1>6, <1>1
  <2>2. (r * t) * n < (p * t + q * t) * n
    BY <2>1, <1>7, Scaled
  <2>3. (p * t + q * t) * n = (p * t) * n + (q * t) * n
    BY <2>1
  <2>4. QED
    BY <2>2, <2>3
<1>9. QED
  BY <1>3, <1>8 DEF p, q, r
-----------------------------------------------------------------------------
\* Distances

\* The stops of a train whose place is known.
OnMap(train) == {i \in DOMAIN Routes[train] : Routes[train][i] \in Located}

Straight(train, a, b) == Haversine[Routes[train][a], Routes[train][b]]
Hop(train, i)         == Between(Routes[train][i], Routes[train][Following(train, i)])
Along(train, a, b)    == SumFunction([i \in Placed(train, a, b - 1) |-> Hop(train, i)])

LEMMA StopsAreNumbered ==
  ASSUME NEW train \in DOMAIN Routes
  PROVE  Len(Routes[train]) \in Nat /\ DOMAIN Routes[train] = 1..Len(Routes[train])
<1>1. Routes[train] \in Seq(Range(Routes[train]))
  BY DistanceAssumption
<1>2. QED
  BY <1>1

\* The first stop with a code is one that has it.
LEMMA StopOfLaw ==
  ASSUME NEW train \in DOMAIN Routes, NEW code, CallsAt(train, code)
  PROVE  StopOf(train, code) \in DOMAIN Routes[train] /\ Routes[train][StopOf(train, code)] = code
<1> DEFINE T == {i \in DOMAIN Routes[train] : Routes[train][i] = code}
<1>1. T # {} /\ T \subseteq Nat
  BY StopsAreNumbered DEF CallsAt
<1>2. PICK m \in T : \A n \in T : m <= n
  BY <1>1, LeastNatural
<1>3. \A j \in 1..(m - 1) : Routes[train][j] # code
  BY <1>1, <1>2, StopsAreNumbered
<1>4. QED
  BY <1>2, <1>3 DEF StopOf

\* The places the hops go to.
LEMMA FollowingLaw ==
  ASSUME NEW train \in DOMAIN Routes, NEW a \in OnMap(train), NEW b \in OnMap(train), a < b
  PROVE  LET next == Following(train, a)
         IN  next \in OnMap(train) /\ a < next /\ next <= b /\ Placed(train, a + 1, next - 1) = {}
<1> DEFINE T == {j \in OnMap(train) : a < j}
           Is(j) == a < j /\ Routes[train][j] \in Located /\ Placed(train, a + 1, j - 1) = {}
           next == Following(train, a)
<1>1. T # {} /\ T \subseteq Nat /\ a \in Nat /\ b \in Nat
  BY StopsAreNumbered DEF OnMap
<1>2. PICK m \in T : \A n \in T : m <= n
  BY <1>1, LeastNatural
<1>3. Placed(train, a + 1, m - 1) = {}
  BY <1>1, <1>2, StopsAreNumbered, SMTT(60) DEF Placed, OnMap
<1>4. next \in DOMAIN Routes[train] /\ Is(next)
  BY <1>2, <1>3 DEF Following, OnMap
<1>5. next \in OnMap(train) /\ next \in Nat
  BY <1>4, StopsAreNumbered DEF OnMap
<1>6. ~ (b < next)
  BY <1>1, <1>4, <1>5 DEF Placed, OnMap
<1>7. QED
  BY <1>1, <1>4, <1>5, <1>6

\* Every hop is a number of kilometres.
LEMMA HopLaw ==
  ASSUME NEW train \in DOMAIN Routes, NEW a \in OnMap(train), NEW b \in OnMap(train), a < b
  PROVE  Hop(train, a) \in Nat /\ Hop(train, a) = Straight(train, a, Following(train, a))
<1>1. Routes[train][a] \in Located /\ Routes[train][Following(train, a)] \in Located
  BY FollowingLaw DEF OnMap
<1>2. QED
  BY <1>1, DistanceAssumption DEF Hop, Between, Straight

LEMMA StraightNat ==
  ASSUME NEW train, NEW a \in OnMap(train), NEW b \in OnMap(train)
  PROVE  Straight(train, a, b) \in Nat
BY DistanceAssumption DEF OnMap, Straight

\* A part of a route that ends at known places is a sum of known hops.
LEMMA HopsAlong ==
  ASSUME NEW train \in DOMAIN Routes, NEW a \in OnMap(train), NEW b \in OnMap(train), a < b
  PROVE  /\ IsFiniteSet(Placed(train, a, b - 1))
         /\ [i \in Placed(train, a, b - 1) |-> Hop(train, i)] \in [Placed(train, a, b - 1) -> Nat]
         /\ Along(train, a, b) \in Nat
<1> DEFINE S == Placed(train, a, b - 1)
           f == [i \in S |-> Hop(train, i)]
<1>1. a \in Nat /\ b \in Nat /\ a \in DOMAIN Routes[train] /\ b \in DOMAIN Routes[train]
  BY StopsAreNumbered DEF OnMap
<1>2. IsFiniteSet(a..(b - 1))
  BY <1>1, FS_Interval
<1>3. IsFiniteSet(S)
  BY <1>2, FS_Subset, S \in SUBSET (a..(b - 1)) DEF Placed
<1>4. ASSUME NEW i \in S PROVE i \in OnMap(train) /\ i < b
  BY <1>1, StopsAreNumbered DEF Placed, OnMap
<1>5. f \in [S -> Nat]
  BY <1>4, HopLaw
<1>6. QED
  <2> HIDE DEF S
  <2>1. SumFunction(f) \in Nat
    <3> HIDE DEF f
    <3> QED
      BY <1>3, <1>5, SumNat
  <2>2. QED
    BY <1>3, <1>5, <2>1 DEF Along, S

\* A route is as long as its parts.
LEMMA AlongSplits ==
  ASSUME NEW train \in DOMAIN Routes, NEW a \in OnMap(train), NEW b \in OnMap(train),
         NEW c \in OnMap(train), a < b, b < c
  PROVE  Along(train, a, c) = Along(train, a, b) + Along(train, b, c)
<1> DEFINE A == Placed(train, a, b - 1)
           B == Placed(train, b, c - 1)
           S == Placed(train, a, c - 1)
           f == [i \in S |-> Hop(train, i)]
<1>1. a \in Nat /\ b \in Nat /\ c \in Nat
  BY StopsAreNumbered DEF OnMap
<1>2. A \cup B = S /\ A \cap B = {}
  BY <1>1 DEF Placed
<1>3. IsFiniteSet(S) /\ f \in [S -> Nat]
  BY <1>1, HopsAlong
<1>4. [i \in A |-> f[i]] = [i \in A |-> Hop(train, i)] /\ [i \in B |-> f[i]] = [i \in B |-> Hop(train, i)]
  BY <1>2
<1>5. Part(f, A) = Along(train, a, b) /\ Part(f, B) = Along(train, b, c)
  BY <1>4 DEF Part, Along
<1>6. SumFunction(f) = Along(train, a, c)
  BY DEF Along
<1>7. SumFunction(f) = Part(f, A) + Part(f, B)
  <2> HIDE DEF A, B, S, f
  <2>1. f \in [S -> Int]
    BY <1>3
  <2>2. QED
    BY <1>2, <1>3, <2>1, SumSplits
<1>8. QED
  BY <1>5, <1>6, <1>7

\* No route is shorter than the straight line.
LEMMA StraightIsShortest ==
  ASSUME NEW train \in DOMAIN Routes, NEW a \in OnMap(train), NEW b \in OnMap(train), a < b
  PROVE  Straight(train, a, b) <= Along(train, a, b)
<1> DEFINE Holds(x, y) == Straight(train, x, y) <= Along(train, x, y)
           T == {n \in Nat : \E x, y \in OnMap(train) : x < y /\ n = y - x /\ ~ Holds(x, y)}
<1>1. OnMap(train) \subseteq Nat
  BY StopsAreNumbered DEF OnMap
<1> SUFFICES ASSUME T # {} PROVE FALSE
  <2>1. b - a \in Nat
    BY <1>1
  <2>2. QED
    BY <2>1
<1>2. PICK n \in T : \A m \in T : n <= m
  BY LeastNatural
<1>3. PICK x \in OnMap(train), y \in OnMap(train) : x < y /\ n = y - x /\ ~ Holds(x, y)
  BY <1>2
<1>4. \A u, v \in OnMap(train) : u < v /\ v - u < y - x => Holds(u, v)
  <2> SUFFICES ASSUME NEW u \in OnMap(train), NEW v \in OnMap(train), u < v, v - u < y - x, ~ Holds(u, v)
               PROVE  FALSE
    OBVIOUS
  <2>1. v - u \in Nat /\ v - u \in T
    BY <1>1
  <2>2. QED
    BY <1>1, <1>2, <1>3, <2>1
<1> DEFINE z == Following(train, x)
<1>5. z \in OnMap(train) /\ x < z /\ z <= y /\ Placed(train, x + 1, z - 1) = {}
  BY <1>3, FollowingLaw
<1>6. Along(train, x, z) = Straight(train, x, z)
  <2> DEFINE f == [i \in Placed(train, x, z - 1) |-> Hop(train, i)]
  <2>1. Placed(train, x, z - 1) = {x}
    BY <1>1, <1>5 DEF Placed, OnMap
  <2>2. IsFiniteSet({x}) /\ f \in [{x} -> Nat] /\ f[x] = Straight(train, x, z)
    <3>1. f \in [{x} -> Nat] /\ IsFiniteSet({x})
      BY <1>5, <2>1, HopsAlong, ZenonT(30)
    <3>2. f[x] = Straight(train, x, z)
      BY <1>5, <2>1, HopLaw
    <3>3. QED
      BY <3>1, <3>2
  <2>3. SumFunction(f) = f[x]
    <3> HIDE DEF f
    <3>1. f \in [{x} -> Int]
      BY <2>2
    <3>2. SumFunction(f) = Part(f, {x}) /\ Part(f, {}) = 0
      BY <2>2, <3>1, SumLaw
    <3>3. Part(f, {x}) = f[x] + Part(f, {x} \ {x})
      BY <2>2, <3>1, SumLaw
    <3>4. Part(f, {x} \ {x}) = 0
      <4>1. {x} \ {x} = {}
        OBVIOUS
      <4>2. QED
        BY <3>2, <4>1
    <3>5. f[x] \in Int
      BY <3>1
    <3>6. QED
      BY <3>2, <3>3, <3>4, <3>5
  <2>4. QED
    BY <2>2, <2>3 DEF Along
<1> HIDE DEF z
<1>7. CASE z = y
  BY <1>3, <1>6, <1>7, StraightNat
<1>8. CASE z < y
  <2>1. Along(train, x, y) = Along(train, x, z) + Along(train, z, y)
    BY <1>5, <1>8, AlongSplits
  <2>2. Straight(train, z, y) <= Along(train, z, y)
    BY <1>1, <1>4, <1>5, <1>8
  <2>3. Straight(train, x, y) <= Straight(train, x, z) + Straight(train, z, y)
    <3>1. \A u, v, w \in Located : Haversine[u, w] <= Haversine[u, v] + Haversine[v, w]
      BY DistanceAssumption
    <3>2. QED
      BY <1>5, <3>1 DEF Straight, OnMap
  <2>4. /\ Straight(train, x, y) \in Nat /\ Straight(train, x, z) \in Nat
        /\ Straight(train, z, y) \in Nat /\ Along(train, z, y) \in Nat
    BY <1>5, <1>8, StraightNat, HopsAlong
  <2>5. QED
    BY <1>3, <1>6, <2>1, <2>2, <2>3, <2>4
<1>9. QED
  BY <1>1, <1>5, <1>7, <1>8

-----------------------------------------------------------------------------
\* Tickets

\* The kilometres of a ticket from one station to another.
Km(train, from, to) == TicketKm([train |-> train, from |-> from, to |-> to])

\* A distance is known when both places are; it is the route's length in the
\* direction of travel and the straight line in the other.
LEMMA KmLaw ==
  ASSUME NEW train \in DOMAIN Routes, NEW from, NEW to, CallsAt(train, from), CallsAt(train, to)
  PROVE  /\ {from, to} \subseteq Located =>
              LET a == StopOf(train, from)
                  b == StopOf(train, to)
              IN  /\ a \in OnMap(train) /\ b \in OnMap(train)
                  /\ Km(train, from, to) = IF a < b THEN Along(train, a, b) ELSE Straight(train, a, b)
                  /\ Km(train, from, to) \in Nat
         /\ ~ {from, to} \subseteq Located => Km(train, from, to) = NoKm
<1> DEFINE a == StopOf(train, from)
           b == StopOf(train, to)
<1>1. /\ a \in DOMAIN Routes[train] /\ Routes[train][a] = from
      /\ b \in DOMAIN Routes[train] /\ Routes[train][b] = to
  BY StopOfLaw
<1>2. RouteKm(train, from, to) = IF a < b /\ {from, to} \subseteq Located THEN Along(train, a, b) ELSE NoKm
  BY DEF RouteKm, Along, Hop
<1>3. Km(train, from, to) = IF RouteKm(train, from, to) = NoKm THEN Between(from, to)
                            ELSE RouteKm(train, from, to)
  BY DEF Km, TicketKm
<1>4. ASSUME {from, to} \subseteq Located
      PROVE  /\ a \in OnMap(train) /\ b \in OnMap(train)
             /\ Km(train, from, to) = IF a < b THEN Along(train, a, b) ELSE Straight(train, a, b)
             /\ Km(train, from, to) \in Nat
  <2>1. a \in OnMap(train) /\ b \in OnMap(train)
    BY <1>1, <1>4 DEF OnMap
  <2>2. Between(from, to) = Straight(train, a, b)
    BY <1>1, <1>4 DEF Between, Straight
  <2> HIDE DEF a, b
  <2>3. CASE a < b
    <3>1. Along(train, a, b) \in Nat
      BY <2>1, <2>3, HopsAlong
    <3>2. Along(train, a, b) # NoKm
      BY <3>1 DEF NoKm
    <3>3. QED
      BY <1>2, <1>3, <1>4, <2>1, <2>3, <3>1, <3>2
  <2>4. CASE ~ (a < b)
    BY <1>2, <1>3, <2>1, <2>2, <2>4, StraightNat
  <2>5. QED
    BY <2>3, <2>4
<1>5. ASSUME ~ {from, to} \subseteq Located PROVE Km(train, from, to) = NoKm
  BY <1>2, <1>3, <1>5 DEF Between
<1>6. QED
  BY <1>4, <1>5

\* A detour is never shorter, whichever way its parts are measured
\* (src/distance.py, route_km and ticket_km).
LEMMA Detour ==
  ASSUME NEW train \in DOMAIN Routes, NEW x, NEW y, NEW z, {x, y, z} \subseteq Located,
         CallsAt(train, x), CallsAt(train, y), CallsAt(train, z)
  PROVE  Km(train, x, z) <= Km(train, x, y) + Km(train, y, z)
<1> DEFINE a == StopOf(train, x)
           b == StopOf(train, y)
           c == StopOf(train, z)
           L(i, j) == Straight(train, i, j)
           R(i, j) == Along(train, i, j)
<1>1. /\ a \in OnMap(train) /\ b \in OnMap(train) /\ c \in OnMap(train)
      /\ Km(train, x, z) = IF a < c THEN R(a, c) ELSE L(a, c)
      /\ Km(train, x, y) = IF a < b THEN R(a, b) ELSE L(a, b)
      /\ Km(train, y, z) = IF b < c THEN R(b, c) ELSE L(b, c)
  BY KmLaw
<1> HIDE DEF a, b, c
<1>2. a \in Nat /\ b \in Nat /\ c \in Nat
  BY <1>1, StopsAreNumbered DEF OnMap
<1>3. /\ L(a, b) \in Nat /\ L(b, c) \in Nat /\ L(a, c) \in Nat
      /\ L(a, c) <= L(a, b) + L(b, c)
  <2>1. \A u, v, w \in Located : Haversine[u, w] <= Haversine[u, v] + Haversine[v, w]
    BY DistanceAssumption
  <2>2. L(a, c) <= L(a, b) + L(b, c)
    BY <1>1, <2>1 DEF Straight, OnMap
  <2>3. QED
    BY <1>1, <2>2, StraightNat
<1>4. \A i, j \in OnMap(train) : i < j => R(i, j) \in Nat /\ L(i, j) <= R(i, j)
  BY HopsAlong, StraightIsShortest
<1>5. \A i, j, k \in OnMap(train) : i < j /\ j < k => R(i, k) = R(i, j) + R(j, k)
  BY AlongSplits
<1> HIDE DEF L, R
<1>6. CASE ~ (a < c)
  <2>1. Km(train, x, y) \in Nat /\ L(a, b) <= Km(train, x, y)
    BY <1>1, <1>3, <1>4
  <2>2. Km(train, y, z) \in Nat /\ L(b, c) <= Km(train, y, z)
    BY <1>1, <1>3, <1>4
  <2>3. QED
    BY <1>1, <1>3, <1>6, <2>1, <2>2
<1>7. CASE a < c
  <2>1. CASE a < b /\ b < c
    <3>1. R(a, c) = R(a, b) + R(b, c)
      BY <1>1, <1>5, <2>1
    <3>2. QED
      BY <1>1, <1>4, <1>7, <2>1, <3>1
  <2>2. CASE b <= a
    <3>1. b < c
      BY <1>2, <1>7, <2>2
    <3>2. R(a, c) <= R(b, c)
      <4>1. CASE b = a
        BY <1>1, <1>4, <1>7, <4>1
      <4>2. CASE b < a
        <5>1. R(b, c) = R(b, a) + R(a, c)
          BY <1>1, <1>5, <1>7, <4>2
        <5>2. R(b, a) \in Nat /\ R(a, c) \in Nat
          BY <1>1, <1>4, <1>7, <4>2
        <5>3. QED
          BY <5>1, <5>2
      <4>3. QED
        BY <1>2, <2>2, <4>1, <4>2
    <3>3. R(b, c) \in Nat /\ R(a, c) \in Nat
      BY <1>1, <1>4, <1>7, <3>1
    <3>4. ~ (a < b)
      BY <1>2, <2>2
    <3>5. QED
      BY <1>1, <1>3, <1>7, <3>1, <3>2, <3>3, <3>4
  <2>3. CASE c <= b
    <3>1. a < b
      BY <1>2, <1>7, <2>3
    <3>2. R(a, c) <= R(a, b)
      <4>1. CASE b = c
        BY <1>1, <1>4, <1>7, <4>1
      <4>2. CASE c < b
        <5>1. R(a, b) = R(a, c) + R(c, b)
          BY <1>1, <1>5, <1>7, <4>2
        <5>2. R(c, b) \in Nat /\ R(a, c) \in Nat
          BY <1>1, <1>4, <1>7, <4>2
        <5>3. QED
          BY <5>1, <5>2
      <4>3. QED
        BY <1>2, <2>3, <4>1, <4>2
    <3>3. R(a, b) \in Nat /\ R(a, c) \in Nat
      BY <1>1, <1>4, <1>7, <3>1
    <3>4. ~ (b < c)
      BY <1>2, <2>3
    <3>5. QED
      BY <1>1, <1>3, <1>7, <3>1, <3>2, <3>3, <3>4
  <2>4. QED
    BY <1>2, <2>1, <2>2, <2>3
<1>8. QED
  BY <1>6, <1>7

-----------------------------------------------------------------------------
\* Rides with changes of seats

\* The tickets take a train onward from station to station, in one class.
Rides(legs, train, class) ==
  /\ legs \in Seq(Range(legs)) /\ legs # <<>>
  /\ train \in DOMAIN Routes
  /\ \A i \in DOMAIN legs :
       /\ legs[i].train = train /\ legs[i].class = class
       /\ CallsAt(train, legs[i].from) /\ CallsAt(train, legs[i].to)
       /\ i > 1 => legs[i].from = legs[i - 1].to

FaresFor(legs, n) == [i \in DOMAIN legs |-> Fare(TicketKm(legs[i]), legs[i].class, n)]

\* A fare is a number or not known, and known only for a known class and
\* distance.
LEMMA FareType ==
  ASSUME NEW km \in Nat \cup {NoKm}, NEW class, NEW n \in Nat \ {0}
  PROVE  /\ Fare(km, class, n) \in Nat \cup {NoFare}
         /\ Fare(km, class, n) # NoFare => Fare(km, class, n) \in Nat /\ class \in Classes /\ km \in Nat
<1>1. CASE class \in Classes /\ km \in Nat
  <2>1. /\ BaseFare(km) \in Nat /\ Tariff[class].factor \in Nat /\ Tariff[class].charges \in Nat
        /\ Tariff[class].tax \in Nat
    BY <1>1, BaseFareNat, TariffType
  <2>2. Fare(km, class, n) = ((BaseFare(km) * Tariff[class].factor + Tariff[class].charges * 2000)
                                * Tariff[class].tax) * n
    BY <1>1, FareOf
  <2>3. \A f, c, t, b \in Nat : ((b * f + c * 2000) * t) * n \in Nat
    <3> TAKE f, c, t, b \in Nat
    <3>1. b * f \in Nat
      OBVIOUS
    <3>2. b * f + c * 2000 \in Nat
      BY <3>1
    <3>3. (b * f + c * 2000) * t \in Nat
      BY <3>2
    <3>4. QED
      BY <3>3
  <2>4. QED
    BY <1>1, <2>1, <2>2, <2>3
<1>2. CASE ~ (class \in Classes /\ km \in Nat)
  BY <1>2 DEF Fare
<1>3. QED
  BY <1>1, <1>2

\* A longer ride on one ticket never costs less.
LEMMA FareMonotone ==
  ASSUME NEW a \in Nat, NEW b \in Nat, a <= b, NEW class \in Classes, NEW n \in Nat \ {0}
  PROVE  Fare(a, class, n) <= Fare(b, class, n)
<1> DEFINE f == Tariff[class].factor
           c == Tariff[class].charges * 2000
           t == Tariff[class].tax
           x == BaseFare(a)
           y == BaseFare(b)
<1>1. f \in Nat /\ c \in Nat /\ t \in Nat
  BY TariffType
<1>2. x \in Nat /\ y \in Nat /\ x <= y
  BY BaseFareNat, BaseFareMonotone
<1>3. Fare(a, class, n) = ((x * f + c) * t) * n /\ Fare(b, class, n) = ((y * f + c) * t) * n
  BY FareOf
<1>4. \A u, v, w \in Nat : u <= v => u * w <= v * w /\ u * w \in Nat /\ v * w \in Nat
  OBVIOUS
<1> HIDE DEF f, c, t, x, y
<1>5. x * f <= y * f /\ x * f \in Nat /\ y * f \in Nat
  BY <1>1, <1>2, <1>4
<1>6. x * f + c <= y * f + c /\ x * f + c \in Nat /\ y * f + c \in Nat
  BY <1>1, <1>5
<1>7. (x * f + c) * t <= (y * f + c) * t /\ (x * f + c) * t \in Nat /\ (y * f + c) * t \in Nat
  BY <1>1, <1>4, <1>6
<1>8. ((x * f + c) * t) * n <= ((y * f + c) * t) * n
  BY <1>4, <1>7
<1>9. QED
  BY <1>3, <1>8

\* The distance of every ticket of a train is known or not.
LEMMA KmType ==
  ASSUME NEW train \in DOMAIN Routes, NEW from, NEW to, CallsAt(train, from), CallsAt(train, to)
  PROVE  Km(train, from, to) \in Nat \cup {NoKm}
BY KmLaw

\* What is known of a ride that has a fare.
IsPriced(legs, train, class, n) ==
  /\ Len(legs) \in Nat \ {0} /\ DOMAIN legs = 1..Len(legs)
  /\ class \in Classes
  /\ FaresFor(legs, n) \in [1..Len(legs) -> Nat]
  /\ TotalFare(legs, n) = SumFunction(FaresFor(legs, n))
  /\ \A i \in DOMAIN legs :
       /\ Km(train, legs[i].from, legs[i].to) \in Nat
       /\ {legs[i].from, legs[i].to} \subseteq Located
       /\ FaresFor(legs, n)[i] = Fare(Km(train, legs[i].from, legs[i].to), class, n)

LEMMA Priced ==
  ASSUME NEW legs, NEW train, NEW class, Rides(legs, train, class), NEW n \in Nat \ {0},
         TotalFare(legs, n) # NoFare
  PROVE  IsPriced(legs, train, class, n)
<1> DEFINE f == FaresFor(legs, n)
           km(i) == Km(train, legs[i].from, legs[i].to)
<1>1. Len(legs) \in Nat \ {0} /\ DOMAIN legs = 1..Len(legs) /\ legs # <<>>
  BY DEF Rides
<1>2. TotalFare(legs, n) = SumFunction(f) /\ NoFare \notin Range(f)
  BY DEF TotalFare, FaresFor
<1>3. ASSUME NEW i \in DOMAIN legs
      PROVE  /\ km(i) \in Nat /\ class \in Classes /\ f[i] = Fare(km(i), class, n) /\ f[i] \in Nat
             /\ {legs[i].from, legs[i].to} \subseteq Located
  <2>1. /\ legs[i].train = train /\ legs[i].class = class /\ train \in DOMAIN Routes
        /\ CallsAt(train, legs[i].from) /\ CallsAt(train, legs[i].to)
    BY DEF Rides
  <2>2. TicketKm(legs[i]) = km(i)
    BY <2>1 DEF Km, TicketKm
  <2>3. f[i] = Fare(km(i), class, n)
    BY <2>1, <2>2 DEF FaresFor
  <2>4. km(i) \in Nat \cup {NoKm}
    BY <2>1, KmType
  <2>5. f[i] # NoFare
    BY <1>2 DEF Range, FaresFor
  <2>6. km(i) \in Nat /\ class \in Classes /\ f[i] \in Nat
    BY <2>3, <2>4, <2>5, FareType
  <2>7. km(i) # NoKm
    BY <2>6 DEF NoKm
  <2>8. QED
    BY <2>1, <2>3, <2>6, <2>7, KmLaw
<1>4. f \in [1..Len(legs) -> Nat]
  BY <1>1, <1>3 DEF FaresFor
<1>5. class \in Classes
  <2>1. 1 \in DOMAIN legs
    BY <1>1
  <2>2. QED
    BY <1>3, <2>1
<1>6. QED
  BY <1>1, <1>2, <1>3, <1>4, <1>5 DEF IsPriced

\* The whole way on one ticket costs less than several tickets for its parts,
\* whatever the route, the class and the party (fare_model.py:27-28).
THEOREM RideCostsLess ==
  ASSUME NEW legs, NEW ride, NEW train, NEW class, NEW n \in Nat \ {0},
         Rides(legs, train, class), Len(legs) > 1, Rides(ride, train, class), Len(ride) = 1,
         ride[1].from = legs[1].from, ride[1].to = legs[Len(legs)].to,
         TotalFare(legs, n) # NoFare, TotalFare(ride, n) # NoFare
  PROVE  TotalFare(ride, n) < TotalFare(legs, n)
<1> DEFINE f == FaresFor(legs, n)
           way(m) == Km(train, legs[1].from, legs[m].to)
           own(m) == Km(train, legs[m].from, legs[m].to)
           last == Len(legs)
<1>1. /\ last \in Nat /\ last > 1 /\ DOMAIN legs = 1..last /\ class \in Classes
      /\ f \in [1..last -> Nat] /\ TotalFare(legs, n) = SumFunction(f)
      /\ \A i \in 1..last : /\ own(i) \in Nat /\ f[i] = Fare(own(i), class, n)
                            /\ {legs[i].from, legs[i].to} \subseteq Located
  <2>1. IsPriced(legs, train, class, n)
    BY Priced
  <2>2. QED
    BY <2>1 DEF IsPriced
<1>2. TotalFare(ride, n) = Fare(way(last), class, n)
  <2> DEFINE g == FaresFor(ride, n)
  <2>1. /\ g \in [1..1 -> Nat] /\ TotalFare(ride, n) = SumFunction(g)
        /\ g[1] = Fare(Km(train, ride[1].from, ride[1].to), class, n)
    <3>1. IsPriced(ride, train, class, n)
      BY Priced
    <3>2. QED
      BY <3>1 DEF IsPriced
  <2>2. SumFunction(g) = g[1]
    <3>1. 1..1 = {1} /\ g \in [1..1 -> Int]
      BY <2>1
    <3> HIDE DEF g
    <3>2. QED
      BY <3>1, SumOfOne
  <2>3. QED
    BY <2>1, <2>2
<1>3. IsFiniteSet(1..last) /\ f \in [1..last -> Int]
  BY <1>1, FS_Interval
<1>4. /\ Part(f, 1..1) = f[1]
      /\ \A m \in 1..(last - 1) : Part(f, 1..(m + 1)) = f[m + 1] + Part(f, 1..m)
      /\ \A m \in 1..last : Part(f, 1..m) \in Int
      /\ SumFunction(f) = Part(f, 1..last)
  <2>0. last \in Nat /\ last > 1
    BY <1>1
  <2> HIDE DEF f, last
  <2>1. /\ SumFunction(f) = Part(f, 1..last) /\ Part(f, 1..1) = f[1]
        /\ \A m \in 1..last : /\ Part(f, 1..m) \in Int
                              /\ Part(f, 1..m) = f[m] + Part(f, 1..(m - 1))
    <3>1. Grows(f, last)
      BY <1>3, <2>0, SumGrows
    <3>2. QED
      BY <2>0, <3>1 DEF Grows
  <2>2. \A m \in 1..(last - 1) : m + 1 \in 1..last /\ (m + 1) - 1 = m
    BY <2>0
  <2>3. ASSUME NEW m \in 1..(last - 1) PROVE Part(f, 1..(m + 1)) = f[m + 1] + Part(f, 1..m)
    <3>1. Part(f, 1..(m + 1)) = f[m + 1] + Part(f, 1..((m + 1) - 1))
      BY <2>1, <2>2
    <3>2. QED
      BY <2>2, <3>1
  <2>4. QED
    BY <2>1, <2>3
<1>5. \A m \in 1..last : way(m) \in Nat
  <2> TAKE m \in 1..last
  <2>1. 1 \in 1..last
    BY <1>1
  <2>2. CallsAt(train, legs[1].from) /\ CallsAt(train, legs[m].to) /\ train \in DOMAIN Routes
    BY <1>1, <2>1 DEF Rides
  <2>3. {legs[1].from, legs[m].to} \subseteq Located
    BY <1>1, <2>1
  <2>4. QED
    BY <2>2, <2>3, KmLaw
<1>6. \A m \in 1..(last - 1) : way(m + 1) <= way(m) + own(m + 1)
  <2> TAKE m \in 1..(last - 1)
  <2>1. 1 \in 1..last /\ m \in 1..last /\ m + 1 \in 1..last /\ m + 1 > 1 /\ (m + 1) - 1 = m
    BY <1>1
  <2>2. legs[m + 1].from = legs[m].to
    BY <1>1, <2>1 DEF Rides
  <2>3. /\ CallsAt(train, legs[1].from) /\ CallsAt(train, legs[m].to)
        /\ CallsAt(train, legs[m + 1].to) /\ train \in DOMAIN Routes
    BY <1>1, <2>1 DEF Rides
  <2>4. {legs[1].from, legs[m].to, legs[m + 1].to} \subseteq Located
    BY <1>1, <2>1
  <2>5. QED
    BY <2>2, <2>3, <2>4, Detour
<1> HIDE DEF f
<1> DEFINE Fits(m) == /\ m > 1 => Fare(way(m), class, n) < Part(f, 1..m)
                      /\ Fare(way(m), class, n) <= Part(f, 1..m)
           H == {k \in Nat : k + 1 \in 1..last => Fits(k + 1)}
<1>7. Fits(1)
  <2>1. 1 \in 1..last /\ f[1] = Fare(way(1), class, n) /\ f[1] \in Int
    BY <1>1, <1>3
  <2>2. QED
    BY <1>4, <2>1
<1>8. ASSUME NEW m \in 1..(last - 1), Fits(m) PROVE Fits(m + 1)
  <2>1. m \in 1..last /\ m + 1 \in 1..last
    BY <1>1
  <2>2. way(m) \in Nat /\ own(m + 1) \in Nat /\ way(m + 1) \in Nat
    BY <1>1, <1>5, <2>1
  <2>3. way(m + 1) <= way(m) + own(m + 1)
    BY <1>6
  <2> DEFINE u == way(m)
             v == own(m + 1)
             w == way(m + 1)
  <2>4. f[m + 1] = Fare(v, class, n)
    BY <1>1, <2>1
  <2>5. Fare(u, class, n) <= Part(f, 1..m) /\ Part(f, 1..m) \in Int
    BY <1>4, <1>8, <2>1
  <2>6. Part(f, 1..(m + 1)) = f[m + 1] + Part(f, 1..m)
    BY <1>4
  <2>7. m + 1 > 1
    BY <1>1
  <2> HIDE DEF u, v, w
  <2>8. Fare(w, class, n) <= Fare(u + v, class, n)
    BY <1>1, <2>2, <2>3, FareMonotone, u + v \in Nat DEF u, v, w
  <2>9. Fare(u + v, class, n) < Fare(u, class, n) + Fare(v, class, n)
    BY <1>1, <2>2, SplitCostsMore DEF u, v
  <2>10. \A km \in Nat : Fare(km, class, n) \in Int
    <3> SUFFICES ASSUME NEW km \in Nat PROVE Fare(km, class, n) \in Int
      OBVIOUS
    <3>1. Fare(km, class, n) \in Nat \cup {NoFare}
      BY FareType
    <3>2. QED
      BY <3>1 DEF NoFare
  <2>11. u \in Nat /\ v \in Nat /\ w \in Nat /\ u + v \in Nat
    BY <2>2 DEF u, v, w
  <2>12. Fare(w, class, n) < Part(f, 1..(m + 1))
    <3>1. /\ Fare(w, class, n) \in Int /\ Fare(u + v, class, n) \in Int
          /\ Fare(u, class, n) \in Int /\ Fare(v, class, n) \in Int
      BY <2>10, <2>11
    <3>2. Part(f, 1..(m + 1)) = Fare(v, class, n) + Part(f, 1..m)
      BY <2>4, <2>6
    <3>3. QED
      BY <2>5, <2>8, <2>9, <3>1, <3>2
  <2>13. QED
    <3>1. Part(f, 1..(m + 1)) \in Int /\ Fare(w, class, n) \in Int
      BY <1>4, <2>1, <2>10, <2>11
    <3>2. Fare(w, class, n) <= Part(f, 1..(m + 1))
      BY <2>12, <3>1
    <3>3. QED
      BY <2>12, <3>2 DEF w
<1>9. Nat \subseteq H
  <2>1. 0 \in H
    BY <1>7
  <2>2. \A k \in Nat : k \in H => k + 1 \in H
    <3> SUFFICES ASSUME NEW k \in Nat, k \in H, (k + 1) + 1 \in 1..last PROVE Fits((k + 1) + 1)
      OBVIOUS
    <3>1. k + 1 \in 1..(last - 1) /\ k + 1 \in 1..last
      BY <1>1
    <3> HIDE DEF Fits
    <3>2. QED
      BY <1>8, <3>1
  <2> HIDE DEF H
  <2>3. QED
    BY <2>1, <2>2, SetInduction
<1>10. Fits(last)
  <2>1. last - 1 \in Nat /\ (last - 1) + 1 = last /\ last \in 1..last
    BY <1>1
  <2> HIDE DEF Fits
  <2>2. last - 1 \in H
    <3> HIDE DEF H
    <3> QED
      BY <1>9, <2>1
  <2>3. QED
    BY <2>1, <2>2
<1>11. QED
  BY <1>1, <1>2, <1>4, <1>10

-----------------------------------------------------------------------------
(* The coordinator *)

Outcomes == Nat \cup {Pending, Failed, NoFare}

-----------------------------------------------------------------------------
\* The inductive invariant

Gathered == found["same"] \o found["diff"]

Tasks ==
  /\ pooled \in BOOLEAN /\ broken \in BOOLEAN /\ orphans \in 0..Workers
  /\ stage \in {"idle", "searching", "scoring", "closing", "answered", "failed"}
  /\ search \in [Agents -> {"idle", "running", "raised", "done"}]
  /\ found \in [Agents -> Seq(Plans)]

\* A search that runs beside one that has raised has a worker to itself.
RoomLeft ==
  stage = "searching" /\ (\E a, b \in Agents : search[a] = "raised" /\ search[b] = "running")
    => orphans < Workers

\* An evaluation is of the plan at its place.
Evaluated ==
  /\ survivors \in Seq(Plans)
  /\ evals \in [DOMAIN survivors -> [Stage2 -> Outcomes]]
  /\ \A i \in DOMAIN survivors : \A a \in Stage2 :
       evals[i][a] \in {Pending, Failed, Result[a][survivors[i]]}

\* The survivors are what merging and checking leave, and the counts say how
\* many went where.
Counted ==
  /\ answer = [found |-> answer.found, options |-> answer.options, total |-> answer.total,
               pruned |-> answer.pruned, merged |-> answer.merged]
  /\ stage \in {"scoring", "answered"} =>
       /\ survivors = Pruned(Deduplicated(Gathered))
       /\ answer.total = Len(Gathered)
       /\ answer.merged = Len(Gathered) - Len(Deduplicated(Gathered))
       /\ answer.pruned = Len(Deduplicated(Gathered)) - Len(survivors)

\* The options are the ranking of all survivors, all of them evaluated.
Offered ==
  /\ stage = "scoring" => survivors # <<>>
  /\ IF stage # "answered" \/ survivors = <<>> THEN answer.options = <<>>
     ELSE
       /\ \A i \in DOMAIN survivors : \A a \in Stage2 : evals[i][a] # Pending
       /\ answer.options =
            Ranked(Entries, Scores(Entries), Listing(DOMAIN Entries, Better(Entries, Scores(Entries))))

IInv == Tasks /\ RoomLeft /\ Evaluated /\ Counted /\ Offered

-----------------------------------------------------------------------------
\* Plans

\* What two agents propose are lists of plans, and so is all of it together.
LEMMA ProposedType ==
  ASSUME NEW a \in Agents, NEW plans \in Proposed[a]
  PROVE  plans \in Seq(Plans)
BY PlansAssumption DEF Agents, Proposed

LEMMA KeptType ==
  ASSUME NEW all \in Seq(Plans)
  PROVE  /\ Deduplicated(all) \in Seq(Plans)
         /\ Pruned(Deduplicated(all)) \in Seq(Plans)
<1>1. \A list \in Seq(Plans) : \A S \in SUBSET (DOMAIN list) : Picked(list, S) \in Seq(Plans)
  BY PickedLaw
<1>2. Deduplicated(all) \in Seq(Plans)
  BY <1>1 DEF Deduplicated
<1>3. QED
  BY <1>1, <1>2 DEF Pruned

\* What is known of a plan's tickets.
LEMMA LegsType ==
  ASSUME NEW plan \in Plans
  PROVE  /\ plan.moving \in Nat
         /\ Len(plan.legs) \in Nat \ {0} /\ DOMAIN plan.legs = 1..Len(plan.legs)
         /\ plan.legs \in Seq(Range(plan.legs)) /\ plan.legs # <<>>
         /\ \A i \in DOMAIN plan.legs :
              /\ plan.legs[i].train \in DOMAIN Routes /\ plan.legs[i].train \in DOMAIN Rakes
              /\ CallsAt(plan.legs[i].train, plan.legs[i].from)
              /\ CallsAt(plan.legs[i].train, plan.legs[i].to)
              /\ plan.legs[i].dep \in Nat /\ plan.legs[i].arr \in Nat
              /\ i > 1 => plan.legs[i].from = plan.legs[i - 1].to
<1>1. plan.moving \in Nat /\ plan.legs # <<>> /\ plan.legs \in Seq(Range(plan.legs))
  BY PlansAssumption
<1>2. \A i \in DOMAIN plan.legs :
        LET leg == plan.legs[i]
        IN  /\ leg.train \in DOMAIN Routes \cap DOMAIN Rakes
            /\ CallsAt(leg.train, leg.from) /\ CallsAt(leg.train, leg.to)
            /\ leg.dep \in Nat /\ leg.arr \in Nat
            /\ i > 1 => leg.from = plan.legs[i - 1].to
  BY PlansAssumption
<1>3. Len(plan.legs) \in Nat \ {0} /\ DOMAIN plan.legs = 1..Len(plan.legs)
  BY <1>1
<1>4. QED
  BY <1>1, <1>2, <1>3

\* A walk along a train is a number of coaches.
LEMMA WalkNat ==
  ASSUME NEW train \in DOMAIN Rakes, NEW a, NEW b
  PROVE  Walk(train, a, b) \in Nat
<1> DEFINE rake == Rakes[train]
<1>1. rake \in Seq(Range(rake))
  BY PlansAssumption
<1>2. DOMAIN rake = 1..Len(rake) /\ Len(rake) \in Nat
  BY <1>1
<1> HIDE DEF rake
<1>3. \A c : Known(rake, c) => Place(rake, c) \in Nat
  <2> SUFFICES ASSUME NEW c, Known(rake, c) PROVE Place(rake, c) \in Nat
    OBVIOUS
  <2> DEFINE T == {p \in DOMAIN rake : rake[p] = c}
  <2>1. T # {} /\ T \subseteq Nat
    BY <1>2 DEF Known
  <2>2. PICK m \in T : \A n \in T : m <= n
    BY <2>1, LeastNatural
  <2>3. \A q \in 1..(m - 1) : rake[q] # c
    BY <1>2, <2>1, <2>2
  <2>4. Place(rake, c) \in DOMAIN rake
    BY <2>2, <2>3 DEF Place
  <2>5. QED
    BY <1>2, <2>4
<1>4. CASE Known(rake, a) /\ Known(rake, b)
  <2>1. Place(rake, a) \in Nat /\ Place(rake, b) \in Nat
    BY <1>3, <1>4
  <2>2. Apart(rake, a, b) \in Nat
    BY <2>1 DEF Apart
  <2>3. QED
    BY <1>4, <2>2 DEF Walk, rake
<1>5. CASE ~ (Known(rake, a) /\ Known(rake, b))
  BY <1>5 DEF Walk, rake
<1>6. QED
  BY <1>4, <1>5

\* What the evaluators answer are minutes, and a fare or none.
LEMMA SeatPenaltyNat ==
  ASSUME NEW plan \in Plans
  PROVE  SeatPenalty(plan) \in Nat
<1> DEFINE S == 1..Transfers(plan)
           e == [i \in S |-> IF plan.legs[i].to = plan.legs[i + 1].from
                             THEN TransferPenalty(plan.legs[i], plan.legs[i + 1]) ELSE 0]
<1>1. Transfers(plan) \in Nat /\ IsFiniteSet(S)
  BY LegsType, FS_Interval DEF Transfers
<1>2. ASSUME NEW i \in S PROVE TransferPenalty(plan.legs[i], plan.legs[i + 1]) \in Nat
  <2>1. i \in DOMAIN plan.legs
    BY LegsType DEF Transfers
  <2>2. plan.legs[i].train \in DOMAIN Rakes
    BY <2>1, LegsType
  <2>3. Walk(plan.legs[i].train, plan.legs[i].coach, plan.legs[i + 1].coach) \in Nat
    BY <2>2, WalkNat
  <2>4. QED
    BY <2>3 DEF TransferPenalty
<1>3. e \in [S -> Nat]
  BY <1>2
<1>4. SeatPenalty(plan) = SumFunction(e)
  BY DEF SeatPenalty
<1> HIDE DEF e, S
<1>5. QED
  BY <1>1, <1>3, <1>4, SumNat

LEMMA TotalFareType ==
  ASSUME NEW plan \in Plans
  PROVE  TotalFare(plan.legs, Query.passengers) \in Nat \cup {NoFare}
<1> DEFINE n == Query.passengers
           S == DOMAIN plan.legs
           e == [i \in S |-> Fare(TicketKm(plan.legs[i]), plan.legs[i].class, n)]
<1>1. S = 1..Len(plan.legs) /\ Len(plan.legs) \in Nat /\ IsFiniteSet(S) /\ n \in Nat \ {0}
  <2>1. S = 1..Len(plan.legs) /\ Len(plan.legs) \in Nat
    BY LegsType
  <2>2. IsFiniteSet(S)
    BY <2>1, FS_Interval
  <2>3. QED
    BY <2>1, <2>2, QueryAssumption
<1>2. ASSUME NEW i \in S PROVE e[i] \in Nat \cup {NoFare}
  <2>1. /\ plan.legs[i].train \in DOMAIN Routes
        /\ CallsAt(plan.legs[i].train, plan.legs[i].from)
        /\ CallsAt(plan.legs[i].train, plan.legs[i].to)
    BY LegsType
  <2>2. TicketKm(plan.legs[i]) = Km(plan.legs[i].train, plan.legs[i].from, plan.legs[i].to)
    BY DEF Km, TicketKm
  <2>3. TicketKm(plan.legs[i]) \in Nat \cup {NoKm}
    BY <2>1, <2>2, KmType
  <2> HIDE DEF n
  <2>4. Fare(TicketKm(plan.legs[i]), plan.legs[i].class, n) \in Nat \cup {NoFare}
    BY <1>1, <2>3, FareType
  <2>5. QED
    BY <2>4
<1>3. TotalFare(plan.legs, n) = IF plan.legs = <<>> \/ NoFare \in Range(e) THEN NoFare ELSE SumFunction(e)
  BY DEF TotalFare
<1>4. CASE NoFare \in Range(e)
  BY <1>3, <1>4
<1>5. CASE NoFare \notin Range(e)
  <2>1. e \in [S -> Nat]
    BY <1>2, <1>5 DEF Range
  <2> HIDE DEF e, S
  <2>2. SumFunction(e) \in Nat
    BY <1>1, <2>1, SumNat
  <2>3. QED
    BY <1>3, <2>2
<1>6. QED
  BY <1>4, <1>5

LEMMA ResultType ==
  ASSUME NEW plan \in Plans, NEW a \in Stage2
  PROVE  Result[a][plan] \in Nat \cup {NoFare}
BY SeatPenaltyNat, TotalFareType DEF Result, Stage2

-----------------------------------------------------------------------------
\* The invariant holds

LEMMA InitHolds == Init => IInv
<1> SUFFICES ASSUME Init PROVE IInv
  OBVIOUS
<1>1. Tasks
  <2>1. [a \in Agents |-> <<>>] \in [Agents -> Seq(Plans)]
    OBVIOUS
  <2>2. [a \in Agents |-> "idle"] \in [Agents -> {"idle", "running", "raised", "done"}]
    OBVIOUS
  <2>3. 0 \in 0..Workers
    BY DEF Workers
  <2>4. QED
    BY <2>1, <2>2, <2>3 DEF Init, Tasks
<1>2. RoomLeft /\ Evaluated /\ Counted /\ Offered
  BY DEF Init, RoomLeft, Evaluated, Counted, Offered, NoAnswer
<1>3. QED
  BY <1>1, <1>2 DEF IInv

LEMMA AnnounceKeeps == IInv /\ Announce => IInv'
<1> SUFFICES ASSUME IInv, Announce PROVE IInv'
  OBVIOUS
<1>1. Tasks'
  BY DEF IInv, Announce, Tasks, Agents
<1>2. RoomLeft'
  BY DEF IInv, Announce, RoomLeft, Agents
<1>3. Evaluated' /\ Counted' /\ Offered'
  BY DEF Announce, Evaluated, Counted, Offered, NoAnswer
<1>4. QED
  BY <1>1, <1>2, <1>3 DEF IInv

\* The stages of a request in which it has found no answer yet.
LEMMA SearchKeeps ==
  ASSUME IInv, stage \in {"searching", "idle", "closing", "failed"},
         stage' \in {"searching", "closing", "failed", stage}, UNCHANGED <<survivors, evals, answer>>
  PROVE  Evaluated' /\ Counted' /\ Offered'
BY DEF IInv, Evaluated, Counted, Offered, Gathered

LEMMA ProposeKeeps == ASSUME NEW a \in Agents PROVE IInv /\ Propose(a) => IInv'
<1> SUFFICES ASSUME IInv, Propose(a) PROVE IInv'
  OBVIOUS
<1>1. Tasks'
  <2>1. PICK plans \in Proposed[a] : found' = [found EXCEPT ![a] = plans]
    BY DEF Propose
  <2>2. plans \in Seq(Plans)
    BY ProposedType
  <2>3. QED
    BY <2>1, <2>2 DEF IInv, Propose, Tasks
<1>2. RoomLeft'
  BY DEF IInv, Propose, RoomLeft, Tasks
<1>3. Evaluated' /\ Counted' /\ Offered'
  BY SearchKeeps DEF Propose
<1>4. QED
  BY <1>1, <1>2, <1>3 DEF IInv

LEMMA SearchRaisesKeeps == ASSUME NEW a \in Agents PROVE IInv /\ SearchRaises(a) => IInv'
<1> SUFFICES ASSUME IInv, SearchRaises(a) PROVE IInv'
  OBVIOUS
<1>1. Tasks' /\ RoomLeft'
  BY DEF IInv, SearchRaises, Tasks, RoomLeft
<1>2. Evaluated' /\ Counted' /\ Offered'
  BY SearchKeeps DEF SearchRaises
<1>3. QED
  BY <1>1, <1>2 DEF IInv

LEMMA WorkerDiesKeeps == IInv /\ WorkerDies => IInv'
<1> SUFFICES ASSUME IInv, WorkerDies PROVE IInv'
  OBVIOUS
<1>1. Tasks' /\ RoomLeft'
  BY DEF IInv, WorkerDies, Tasks, RoomLeft, Workers
<1>2. Evaluated' /\ Counted' /\ Offered'
  <2>1. Entries' = Entries /\ Gathered' = Gathered /\ UNCHANGED <<stage, survivors, evals, answer>>
    BY DEF WorkerDies, Entries, Gathered
  <2>2. QED
    BY <2>1 DEF IInv, Evaluated, Counted, Offered
<1>3. QED
  BY <1>1, <1>2 DEF IInv

\* A request that fails leaves at most its other search behind.
LEMMA GatherFailsKeeps == IInv /\ GatherFails => IInv'
<1> SUFFICES ASSUME IInv, GatherFails PROVE IInv'
  OBVIOUS
<1> DEFINE left == {a \in Agents : search[a] = "running"}
<1>1. PICK a \in Agents : search[a] = "raised"
  BY DEF GatherFails
<1>2. orphans' = orphans + Cardinality(left) /\ orphans' \in 0..Workers
  <2>1. orphans' = orphans + Cardinality(left)
    BY DEF GatherFails
  <2>2. CASE left = {}
    <3>1. Cardinality(left) = 0
      BY <2>2, FS_EmptySet
    <3>2. QED
      BY <2>1, <3>1 DEF IInv, Tasks, Workers
  <2>3. CASE left # {}
    <3>1. PICK b \in left : left = {b}
      BY <1>1, <2>3 DEF Agents
    <3>2. Cardinality(left) = 1
      BY <3>1, FS_Singleton
    <3>3. orphans < Workers
      BY <1>1, <3>1 DEF IInv, RoomLeft, GatherFails
    <3>4. QED
      BY <2>1, <3>2, <3>3 DEF IInv, Tasks, Workers
  <2>4. QED
    BY <2>2, <2>3
<1>3. stage' \in {"failed", "closing"}
  BY DEF GatherFails
<1>4. Tasks' /\ RoomLeft'
  BY <1>2, <1>3 DEF IInv, GatherFails, Tasks, RoomLeft
<1>5. Evaluated' /\ Counted' /\ Offered'
  BY <1>3, SearchKeeps DEF GatherFails
<1>6. QED
  BY <1>4, <1>5 DEF IInv

LEMMA OrphanEndsKeeps == IInv /\ OrphanEnds => IInv'
<1> SUFFICES ASSUME IInv, OrphanEnds PROVE IInv'
  OBVIOUS
<1>1. orphans' \in 0..Workers /\ orphans' < Workers
  BY DEF IInv, OrphanEnds, Tasks, Workers
<1>2. stage' = stage \/ (stage = "closing" /\ stage' = "failed")
  BY DEF OrphanEnds
<1>3. Tasks' /\ RoomLeft'
  BY <1>1, <1>2 DEF IInv, OrphanEnds, Tasks, RoomLeft
<1>4. Evaluated' /\ Counted'
  BY <1>2 DEF IInv, OrphanEnds, Evaluated, Counted, Gathered
<1>5. Offered'
  <2>1. Entries' = Entries /\ UNCHANGED <<survivors, evals, answer>>
    BY DEF OrphanEnds, Entries
  <2>2. QED
    BY <1>2, <2>1 DEF IInv, Offered
<1>6. QED
  BY <1>3, <1>4, <1>5 DEF IInv

LEMMA PoolKeeps == IInv /\ Pool => IInv'
<1> SUFFICES ASSUME IInv, Pool PROVE IInv'
  OBVIOUS
<1> DEFINE merged == Deduplicated(Gathered)
           kept == Pruned(merged)
<1>1. Gathered \in Seq(Plans) /\ Gathered' = Gathered
  BY DEF IInv, Tasks, Gathered, Agents, Pool
<1>2. kept \in Seq(Plans) /\ survivors' = kept
  BY <1>1, KeptType DEF Pool, Gathered
<1>3. /\ evals' = [i \in DOMAIN kept |-> NotEvaluated]
      /\ answer' = [NoAnswer EXCEPT !.total = Len(Gathered), !.merged = Len(Gathered) - Len(merged),
                                    !.pruned = Len(merged) - Len(kept)]
      /\ stage' = IF kept = <<>> THEN "answered" ELSE "scoring"
  BY DEF Pool, Gathered
<1> HIDE DEF merged, kept
<1>4. Tasks' /\ RoomLeft'
  BY <1>3 DEF IInv, Pool, Tasks, RoomLeft
<1>5. Evaluated'
  <2>1. NotEvaluated \in [Stage2 -> Outcomes] /\ \A a \in Stage2 : NotEvaluated[a] = Pending
    BY DEF NotEvaluated, Outcomes
  <2>2. QED
    BY <1>2, <1>3, <2>1 DEF Evaluated
<1>6. Counted'
  <2>1. /\ answer'.total = Len(Gathered) /\ answer'.merged = Len(Gathered) - Len(merged)
        /\ answer'.pruned = Len(merged) - Len(kept)
    BY <1>3 DEF NoAnswer
  <2>2. answer' = [found |-> answer'.found, options |-> answer'.options, total |-> answer'.total,
                   pruned |-> answer'.pruned, merged |-> answer'.merged]
    BY <1>3 DEF NoAnswer
  <2>3. QED
    BY <1>1, <1>2, <2>1, <2>2 DEF Counted, merged, kept
<1>7. Offered'
  <2>1. answer'.options = <<>>
    BY <1>3 DEF NoAnswer
  <2>2. (stage' # "answered" \/ survivors' = <<>>) /\ (stage' = "scoring" => survivors' # <<>>)
    BY <1>2, <1>3
  <2>3. QED
    BY <2>1, <2>2 DEF Offered
<1>8. QED
  BY <1>4, <1>5, <1>6, <1>7 DEF IInv

LEMMA EvaluateKeeps ==
  ASSUME NEW i \in DOMAIN evals, NEW a \in Stage2
  PROVE  IInv /\ Evaluate(i, a) => IInv'
<1> SUFFICES ASSUME IInv, Evaluate(i, a) PROVE IInv'
  OBVIOUS
<1>1. Tasks' /\ RoomLeft'
  BY DEF IInv, Evaluate, Tasks, RoomLeft
<1>2. Counted' /\ Offered'
  BY DEF IInv, Evaluate, Counted, Offered, Gathered
<1>3. Evaluated'
  <2>1. PICK outcome \in {Result[a][survivors[i]], Failed} : evals' = [evals EXCEPT ![i][a] = outcome]
    BY DEF Evaluate
  <2>2. i \in DOMAIN survivors /\ survivors[i] \in Plans
    BY DEF IInv, Evaluated
  <2>3. outcome \in Outcomes
    BY <2>2, ResultType DEF Outcomes
  <2>4. QED
    BY <2>1, <2>2, <2>3 DEF IInv, Evaluate, Evaluated
<1>4. QED
  BY <1>1, <1>2, <1>3 DEF IInv

LEMMA RecommendKeeps == IInv /\ Recommend => IInv'
<1> SUFFICES ASSUME IInv, Recommend PROVE IInv'
  OBVIOUS
<1> DEFINE ranking == Ranked(Entries, Scores(Entries), Listing(DOMAIN Entries, Better(Entries, Scores(Entries))))
<1>1. answer' = [answer EXCEPT !.found = TRUE, !.options = ranking] /\ stage' = "answered"
  BY DEF Recommend
<1>2. Entries' = Entries
  BY DEF Recommend, Entries
<1>3. Tasks' /\ RoomLeft' /\ Evaluated'
  BY DEF IInv, Recommend, Tasks, RoomLeft, Evaluated
<1>4. answer'.options = ranking
  BY <1>1 DEF IInv, Counted
<1>5. Counted'
  <2> HIDE DEF ranking
  <2> QED
    BY <1>1 DEF IInv, Recommend, Counted, Gathered
<1>6. Offered'
  <2>1. \A j \in DOMAIN survivors' : \A a \in Stage2 : evals'[j][a] # Pending
    BY DEF IInv, Recommend, Evaluated
  <2>2. survivors' # <<>>
    BY DEF IInv, Offered, Recommend
  <2>3. stage' = "answered"
    BY <1>1
  <2>4. answer'.options =
          Ranked(Entries', Scores(Entries'), Listing(DOMAIN Entries', Better(Entries', Scores(Entries'))))
    BY <1>2, <1>4
  <2>5. QED
    BY <2>1, <2>2, <2>3, <2>4 DEF Offered
<1>7. QED
  BY <1>3, <1>5, <1>6 DEF IInv

LEMMA StutterKeeps == IInv /\ UNCHANGED vars => IInv'
<1> SUFFICES ASSUME IInv, UNCHANGED vars PROVE IInv'
  OBVIOUS
<1>1. Entries' = Entries /\ Gathered' = Gathered
  BY DEF vars, Entries, Gathered
<1>2. Tasks' /\ RoomLeft' /\ Evaluated' /\ Counted'
  BY <1>1 DEF IInv, vars, Tasks, RoomLeft, Evaluated, Counted
<1>3. Offered'
  BY <1>1 DEF IInv, vars, Offered
<1>4. QED
  BY <1>2, <1>3 DEF IInv

\* The invariant holds of every request, with any number of requests before it.
THEOREM Invariance == Spec => []IInv
<1>1. Init => IInv
  BY InitHolds
<1>2. IInv /\ [Next]_vars => IInv'
  <2> SUFFICES ASSUME IInv, [Next]_vars PROVE IInv'
    OBVIOUS
  <2>1. CASE Announce
    BY <2>1, AnnounceKeeps
  <2>2. ASSUME NEW a \in Agents, Propose(a) PROVE IInv'
    BY <2>2, ProposeKeeps
  <2>3. ASSUME NEW a \in Agents, SearchRaises(a) PROVE IInv'
    BY <2>3, SearchRaisesKeeps
  <2>4. CASE OrphanEnds
    BY <2>4, OrphanEndsKeeps
  <2>5. CASE WorkerDies
    BY <2>5, WorkerDiesKeeps
  <2>6. CASE GatherFails
    BY <2>6, GatherFailsKeeps
  <2>7. CASE Pool
    BY <2>7, PoolKeeps
  <2>8. ASSUME NEW i \in DOMAIN evals, NEW a \in Stage2, Evaluate(i, a) PROVE IInv'
    BY <2>8, EvaluateKeeps
  <2>9. CASE Recommend
    BY <2>9, RecommendKeeps
  <2>10. CASE UNCHANGED vars
    BY <2>10, StutterKeeps
  <2>11. QED
    BY <2>1, <2>2, <2>3, <2>4, <2>5, <2>6, <2>7, <2>8, <2>9, <2>10 DEF Next
<1>3. QED
  BY <1>1, <1>2, PTL DEF Spec

\* Every variable has its type; in particular no more searches run on for
\* requests that have failed than there are workers.
THEOREM TypeCorrect == Spec => []TypeOK
<1>1. IInv => TypeOK
  BY DEF IInv, Tasks, Evaluated, TypeOK, Outcomes
<1>2. QED
  BY <1>1, Invariance, PTL

-----------------------------------------------------------------------------
\* Entries

\* What is known of an entry and of a list of them.
Entry(e) ==
  /\ e.plan \in Plans /\ e.fare \in Int /\ e.penalty \in Int /\ e.layover \in Int

IsListed(entries, n) ==
  n \in Nat /\ DOMAIN entries = 1..n /\ \A i \in 1..n : Entry(entries[i])

LEMMA WallInt ==
  ASSUME NEW plan \in Plans
  PROVE  /\ Wall(plan) \in Int /\ Transfers(plan) \in Nat /\ Risk(plan) \in Int /\ plan.moving \in Nat
<1>1. Len(plan.legs) \in Nat \ {0} /\ DOMAIN plan.legs = 1..Len(plan.legs) /\ plan.moving \in Nat
  BY LegsType
<1>2. 1 \in DOMAIN plan.legs /\ Len(plan.legs) \in DOMAIN plan.legs
  BY <1>1
<1>3. plan.legs[1].dep \in Nat /\ plan.legs[Len(plan.legs)].arr \in Nat
  BY <1>2, LegsType
<1>4. \A status : LegsHeld(plan, status) \in Nat
  <2> TAKE status
  <2>1. IsFiniteSet(1..Len(plan.legs))
    BY <1>1, FS_Interval
  <2>2. IsFiniteSet({i \in DOMAIN plan.legs : plan.legs[i].status = status})
    BY <1>1, <2>1, FS_Subset
  <2>3. QED
    BY <2>2, FS_CardinalityType DEF LegsHeld
<1>5. Risk(plan) \in Int
  <2>1. LegsHeld(plan, "RAC") \in Nat /\ LegsHeld(plan, "WAITLIST") \in Nat
    BY <1>4
  <2>2. QED
    BY <2>1 DEF Risk, Rupee
<1>6. Wall(plan) \in Int
  BY <1>3 DEF Wall, Last
<1>7. QED
  BY <1>1, <1>5, <1>6 DEF Transfers

LEMMA EntriesListed ==
  ASSUME IInv
  PROVE  IsListed(Entries, Len(survivors))
<1> DEFINE n == Len(survivors)
<1>1. n \in Nat /\ DOMAIN survivors = 1..n /\ DOMAIN Entries = 1..n
  BY DEF IInv, Evaluated, Entries
<1>2. ASSUME NEW i \in 1..n PROVE Entry(Entries[i])
  <2> DEFINE plan == survivors[i]
             eval == evals[i]
             layover == Wall(plan) - plan.moving
  <2>1. plan \in Plans /\ eval \in [Stage2 -> Outcomes]
    BY <1>1 DEF IInv, Evaluated
  <2>2. eval.seat \in Int /\ eval.fare \in Int
    BY <2>1 DEF Stage2, Outcomes, Pending, Failed, NoFare
  <2>3. layover \in Int /\ FailedPenalty(plan) \in Int
    BY <2>1, WallInt DEF FailedPenalty
  <2>4. Entries[i] = Scored(plan, eval)
    BY <1>1 DEF Entries
  <2> HIDE DEF plan, eval
  <2>5. QED
    BY <2>1, <2>2, <2>3, <2>4 DEF Scored, Entry, NoFare
<1>3. QED
  BY <1>1, <1>2 DEF IsListed

\* A fare that stands in for the missing ones is a number.
LEMMA ImputedInt ==
  ASSUME NEW F, IsFiniteSet(F), F \subseteq Int
  PROVE  ImputedFare(F) \in Int
<1> DEFINE G == F \ {NoFare}
<1>1. IsFiniteSet(G) /\ G \subseteq Int
  BY FS_Subset
<1>2. CASE G = {}
  BY <1>2 DEF ImputedFare, Greatest
<1>3. CASE G # {}
  <2>1. \E x \in G : \A y \in G : y <= x
    BY <1>1, <1>3, GreatestNumber
  <2> HIDE DEF G
  <2>2. Greatest(G) \in G
    BY <1>3, <2>1 DEF Greatest
  <2>3. QED
    BY <1>1, <2>2 DEF ImputedFare, G
<1>4. QED
  BY <1>2, <1>3

LEMMA ImputedOf ==
  ASSUME NEW entries, NEW n, IsListed(entries, n), NEW S \in SUBSET (1..n)
  PROVE  ImputedFare({entries[i].fare : i \in S}) \in Int
<1> DEFINE F == {entries[i].fare : i \in S}
<1>1. IsFiniteSet(S)
  <2>1. IsFiniteSet(1..n)
    BY FS_Interval DEF IsListed
  <2>2. QED
    BY <2>1, FS_Subset
<1>2. IsFiniteSet(F)
  <2> DEFINE f == [i \in S |-> entries[i].fare]
  <2>1. f \in Surjection(S, F)
    BY DEF Surjection
  <2> HIDE DEF f, F
  <2>2. QED
    BY <1>1, <2>1, FS_Surjection
<1>3. F \subseteq Int
  BY DEF IsListed, Entry
<1> HIDE DEF F
<1>4. ImputedFare(F) \in Int
  BY <1>2, <1>3, ImputedInt
<1>5. QED
  BY <1>4 DEF F

-----------------------------------------------------------------------------
\* The ranking

\* Keys of one length are totally ordered.
LEMMA LessOrders ==
  ASSUME NEW n \in Nat, NEW a \in [1..n -> Int], NEW b \in [1..n -> Int]
  PROVE  /\ ~ Less(a, a)
         /\ \A c \in [1..n -> Int] : Less(a, b) /\ Less(b, c) => Less(a, c)
         /\ a # b => Less(a, b) \/ Less(b, a)
<1>1. ~ Less(a, a)
  BY DEF Less
<1>2. ASSUME NEW c \in [1..n -> Int], Less(a, b), Less(b, c) PROVE Less(a, c)
  <2>1. PICK k \in 1..n : a[k] < b[k] /\ \A m \in 1..(k - 1) : a[m] = b[m]
    BY <1>2 DEF Less
  <2>2. PICK l \in 1..n : b[l] < c[l] /\ \A m \in 1..(l - 1) : b[m] = c[m]
    BY <1>2 DEF Less
  <2>3. CASE k <= l
    <3>1. a[k] < c[k]
      <4>1. CASE k = l
        BY <2>1, <2>2, <4>1
      <4>2. CASE k < l
        BY <2>1, <2>2, <4>2
      <4>3. QED
        BY <2>3, <4>1, <4>2
    <3>2. \A m \in 1..(k - 1) : a[m] = c[m]
      BY <2>1, <2>2, <2>3
    <3>3. QED
      BY <3>1, <3>2 DEF Less
  <2>4. CASE l < k
    <3>1. a[l] < c[l]
      BY <2>1, <2>2, <2>4
    <3>2. \A m \in 1..(l - 1) : a[m] = c[m]
      BY <2>1, <2>2, <2>4
    <3>3. QED
      BY <3>1, <3>2 DEF Less
  <2>5. QED
    BY <2>3, <2>4
<1>3. ASSUME a # b PROVE Less(a, b) \/ Less(b, a)
  <2> DEFINE T == {k \in 1..n : a[k] # b[k]}
  <2>1. T # {} /\ T \subseteq Nat
    BY <1>3, SMTT(60)
  <2>2. PICK k \in T : \A m \in T : k <= m
    BY <2>1, LeastNatural
  <2>3. \A m \in 1..(k - 1) : a[m] = b[m]
    BY <2>2
  <2>4. a[k] < b[k] \/ b[k] < a[k]
    BY <2>2
  <2>5. QED
    BY <2>2, <2>3, <2>4 DEF Less
<1>4. QED
  BY <1>1, <1>2, <1>3

LEMMA KeyType ==
  ASSUME NEW e, Entry(e), NEW score \in Int, NEW i \in Int
  PROVE  /\ SortKey(score, e, i) \in [1..7 -> Int]
         /\ SortKey(score, e, i)[1] = IF e.degraded = {} THEN 0 ELSE 1
         /\ SortKey(score, e, i)[7] = i
<1>1. Transfers(e.plan) \in Int /\ Wall(e.plan) \in Int /\ e.fare \in Int
  BY WallInt DEF Entry
<1>2. QED
  BY <1>1 DEF SortKey

LEMMA ScoresInt ==
  ASSUME NEW entries, NEW n, IsListed(entries, n), NEW i \in 1..n
  PROVE  Scores(entries)[i] \in Int
<1> DEFINE imputed == ImputedFare(FaresOf(entries))
           e == entries[i]
<1>1. imputed \in Int
  <2>1. FaresOf(entries) = {entries[j].fare : j \in 1..n}
    BY DEF FaresOf, IsListed
  <2>2. ImputedFare({entries[j].fare : j \in 1..n}) \in Int
    BY ImputedOf
  <2>3. QED
    BY <2>1, <2>2
<1>2. Entry(e)
  BY DEF IsListed
<1>3. Scores(entries)[i] = FinalScore(imputed, e)
  BY DEF Scores, IsListed
<1> HIDE DEF imputed, e
<1>4. FareIn(imputed, e) \in Int
  BY <1>1, <1>2 DEF FareIn, Entry
<1>5. Risk(e.plan) \in Int /\ e.plan.moving \in Int /\ e.penalty \in Int /\ e.layover \in Int
  BY <1>2, WallInt DEF Entry
<1>6. FinalScore(imputed, e) \in Int
  BY <1>4, <1>5 DEF FinalScore, Rupee
<1>7. QED
  BY <1>3, <1>6

\* The sort key puts the entries into one order: no two of them are equal.
LEMMA BetterOrders ==
  ASSUME NEW entries, NEW n, IsListed(entries, n)
  PROVE  Orders(Better(entries, Scores(entries)), 1..n)
<1> DEFINE key(i) == SortKey(Scores(entries)[i], entries[i], i)
           R == Better(entries, Scores(entries))
<1>1. \A i \in 1..n : key(i) \in [1..7 -> Int] /\ key(i)[7] = i
  <2> TAKE i \in 1..n
  <2>1. Entry(entries[i]) /\ i \in Int
    BY DEF IsListed
  <2>2. Scores(entries)[i] \in Int
    BY ScoresInt
  <2>3. QED
    BY <2>1, <2>2, KeyType
<1>2. \A i, j \in 1..n : <<i, j>> \in R <=> Less(key(i), key(j))
  BY DEF Better, IsListed
<1> HIDE DEF key, R
<1>3. \A i \in 1..n : <<i, i>> \notin R
  BY <1>1, <1>2, LessOrders
<1>4. \A i, j, k \in 1..n : <<i, j>> \in R /\ <<j, k>> \in R => <<i, k>> \in R
  <2> SUFFICES ASSUME NEW i \in 1..n, NEW j \in 1..n, NEW k \in 1..n,
                      Less(key(i), key(j)), Less(key(j), key(k))
               PROVE  Less(key(i), key(k))
    BY <1>2
  <2>1. key(i) \in [1..7 -> Int] /\ key(j) \in [1..7 -> Int] /\ key(k) \in [1..7 -> Int]
    BY <1>1
  <2>2. QED
    BY <2>1, LessOrders
<1>5. \A i, j \in 1..n : i # j => <<i, j>> \in R \/ <<j, i>> \in R
  <2> SUFFICES ASSUME NEW i \in 1..n, NEW j \in 1..n, i # j PROVE Less(key(i), key(j)) \/ Less(key(j), key(i))
    BY <1>2
  <2>1. key(i) # key(j)
    BY <1>1
  <2>2. QED
    BY <1>1, <2>1, LessOrders
<1>6. Orders(R, 1..n)
  BY <1>3, <1>4, <1>5 DEF Orders, Precedes
<1>7. QED
  BY <1>6 DEF R

\* The options are the entries in an order of their own: every entry once,
\* the better one first, each with its mark.
InOrder(order, n) ==
  /\ n \in Nat /\ n = Len(survivors)
  /\ order \in [1..n -> 1..n]
  /\ DOMAIN answer.options = 1..n /\ Len(answer.options) = n
  /\ \A i \in 1..n : \E p \in 1..n : order[p] = i
  /\ \A p, q \in 1..n : p < q => <<order[p], order[q]>> \in Better(Entries, Scores(Entries))
  /\ \A p \in 1..n : /\ answer.options[p].entry = Entries[order[p]]
                     /\ answer.options[p].pareto = (order[p] \in ParetoFront(Entries))

LEMMA OptionsInOrder ==
  ASSUME IInv, stage = "answered"
  PROVE  \E n, order : InOrder(order, n)
<1>1. CASE survivors = <<>>
  <2> DEFINE order == [p \in 1..0 |-> p]
  <2>1. answer.options = <<>> /\ 1..0 = {} /\ Len(survivors) = 0
    BY <1>1 DEF IInv, Offered
  <2>2. DOMAIN answer.options = 1..0 /\ Len(answer.options) = 0 /\ order \in [1..0 -> 1..0]
    BY <2>1
  <2>3. InOrder(order, 0)
    BY <2>1, <2>2 DEF InOrder
  <2>4. QED
    BY <2>3
<1>2. CASE survivors # <<>>
  <2> DEFINE n == Len(survivors)
             R == Better(Entries, Scores(Entries))
             order == Listing(1..n, R)
  <2>1. n \in Nat /\ DOMAIN Entries = 1..n /\ IsListed(Entries, n)
    BY EntriesListed DEF IsListed
  <2>2. answer.options = Ranked(Entries, Scores(Entries), order)
    BY <1>2, <2>1 DEF IInv, Offered
  <2>3. IsFiniteSet(1..n) /\ Cardinality(1..n) = n /\ Orders(R, 1..n)
    <3>1. IsFiniteSet(1..n) /\ Cardinality(1..n) = n
      BY <2>1, FS_Interval, SMTT(60)
    <3>2. Orders(R, 1..n)
      BY <2>1, BetterOrders
    <3>3. QED
      BY <3>1, <3>2
  <2>4. /\ order \in [1..n -> 1..n]
        /\ \A i \in 1..n : \E p \in 1..n : order[p] = i
        /\ \A p, q \in 1..n : p < q => <<order[p], order[q]>> \in R
    <3> HIDE DEF R, n
    <3> QED
      BY <2>3, ListingLaw
  <2> HIDE DEF order
  <2>5. answer.options =
          [p \in 1..n |-> [entry |-> Entries[order[p]], score |-> Scores(Entries)[order[p]],
                           pareto |-> order[p] \in ParetoFront(Entries)]]
    BY <2>2, <2>4 DEF Ranked
  <2>6. /\ DOMAIN answer.options = 1..n
        /\ \A p \in 1..n : /\ answer.options[p].entry = Entries[order[p]]
                           /\ answer.options[p].pareto = (order[p] \in ParetoFront(Entries))
    BY <2>5
  <2>7. Len(answer.options) = n
    BY <2>1, <2>6
  <2>8. InOrder(order, n)
    BY <2>1, <2>4, <2>6, <2>7 DEF InOrder
  <2>9. QED
    BY <2>8
<1>3. QED
  BY <1>1, <1>2

\* Without an answer there are no options.
LEMMA NoOptions ==
  ASSUME IInv, stage # "answered"
  PROVE  DOMAIN Options = {}
BY DEF IInv, Offered, Options

-----------------------------------------------------------------------------
\* Failed evaluations

\* An option whose evaluation failed is listed behind all that have complete
\* evidence and is never marked as Pareto-optimal (rank_candidates).
THEOREM FailedComeLast == Spec => []EvidenceFirst
<1>1. IInv => EvidenceFirst
  <2> SUFFICES ASSUME IInv, NEW p \in DOMAIN Options, NEW q \in DOMAIN Options,
                      Options[p].entry.degraded # {}
               PROVE  /\ ~ Options[p].pareto
                      /\ Options[q].entry.degraded = {} => q < p
    BY DEF EvidenceFirst
  <2>1. stage = "answered"
    BY NoOptions
  <2>2. PICK n, order : InOrder(order, n)
    BY <2>1, OptionsInOrder
  <2>3. p \in 1..n /\ q \in 1..n /\ n \in Nat /\ order[p] \in 1..n /\ order[q] \in 1..n
    BY <2>2 DEF InOrder, Options
  <2>4. Options[p].entry = Entries[order[p]] /\ Options[q].entry = Entries[order[q]]
    BY <2>2, <2>3 DEF InOrder, Options
  <2>5. ~ Options[p].pareto
    BY <2>2, <2>3, <2>4 DEF InOrder, Options, ParetoFront, Complete
  <2>6. ASSUME Options[q].entry.degraded = {} PROVE q < p
    <3> DEFINE key(i) == SortKey(Scores(Entries)[i], Entries[i], i)
    <3>1. IsListed(Entries, n)
      BY <2>2, EntriesListed DEF InOrder
    <3>2. ASSUME NEW i \in 1..n
          PROVE  key(i) \in [1..7 -> Int] /\ key(i)[1] = IF Entries[i].degraded = {} THEN 0 ELSE 1
      <4>1. Entry(Entries[i])
        BY <3>1 DEF IsListed
      <4>2. Scores(Entries)[i] \in Int
        BY <3>1, ScoresInt
      <4>3. QED
        BY <4>1, <4>2, KeyType
    <3>3. key(order[p])[1] = 1 /\ key(order[q])[1] = 0
      BY <2>3, <2>4, <2>6, <3>2
    <3>4. ~ Less(key(order[p]), key(order[q]))
      <4> DEFINE a == key(order[p])
                 b == key(order[q])
      <4>1. a \in [1..7 -> Int] /\ a[1] = 1 /\ b[1] = 0
        BY <2>3, <3>2, <3>3
      <4> HIDE DEF a, b
      <4>2. ~ Less(a, b)
        BY <4>1 DEF Less
      <4>3. QED
        BY <4>2 DEF a, b
    <3>5. ~ (p < q)
      <4> SUFFICES ASSUME p < q PROVE FALSE
        OBVIOUS
      <4>1. <<order[p], order[q]>> \in Better(Entries, Scores(Entries))
        BY <2>2, <2>3 DEF InOrder
      <4>2. QED
        BY <3>4, <4>1 DEF Better
    <3>6. p # q
      BY <2>6
    <3>7. QED
      BY <2>3, <3>5, <3>6
  <2>7. QED
    BY <2>5, <2>6
<1>2. QED
  BY <1>1, Invariance, PTL

-----------------------------------------------------------------------------
\* The front

LEMMA ObjectivesType ==
  ASSUME NEW e, Entry(e), NEW imputed \in Int
  PROVE  Objectives(imputed, e) \in [1..4 -> Int]
<1>1. FareIn(imputed, e) \in Int /\ Wall(e.plan) \in Int /\ e.penalty \in Int /\ Risk(e.plan) \in Int
  BY WallInt DEF Entry, FareIn
<1>2. QED
  BY <1>1 DEF Objectives

LEMMA DominatesPrecedes ==
  ASSUME NEW a \in [1..4 -> Int], NEW b \in [1..4 -> Int]
  PROVE  /\ ~ Dominates(a, a)
         /\ \A c \in [1..4 -> Int] : Dominates(a, b) /\ Dominates(b, c) => Dominates(a, c)
<1>1. ~ Dominates(a, a)
  BY DEF Dominates
<1>2. ASSUME NEW c \in [1..4 -> Int], Dominates(a, b), Dominates(b, c) PROVE Dominates(a, c)
  <2>1. \A k \in 1..4 : a[k] <= b[k] /\ b[k] <= c[k]
    BY <1>2 DEF Dominates
  <2>2. PICK k \in 1..4 : a[k] < b[k]
    BY <1>2 DEF Dominates
  <2>3. \A m \in 1..4 : a[m] <= c[m]
    BY <2>1
  <2>4. a[k] < c[k]
    BY <2>1, <2>2
  <2>5. QED
    BY <2>3, <2>4 DEF Dominates
<1>3. QED
  BY <1>1, <1>2

\* Who is not on the front is dominated by one who is.
LEMMA FrontDominates ==
  ASSUME NEW entries, NEW n, IsListed(entries, n), NEW i \in Complete(entries),
         i \notin ParetoFront(entries)
  PROVE  LET imputed == ImputedFare({entries[k].fare : k \in Complete(entries)})
         IN  \E j \in ParetoFront(entries) :
               Dominates(Objectives(imputed, entries[j]), Objectives(imputed, entries[i]))
<1> DEFINE C == Complete(entries)
           imputed == ImputedFare({entries[k].fare : k \in C})
           vector(k) == Objectives(imputed, entries[k])
           R == {p \in C \X C : Dominates(vector(p[1]), vector(p[2]))}
<1>1. C \in SUBSET (1..n)
  BY DEF Complete, IsListed
<1>2. imputed \in Int
  BY <1>1, ImputedOf
<1>3. \A k \in C : vector(k) \in [1..4 -> Int]
  <2> TAKE k \in C
  <2>1. Entry(entries[k])
    BY <1>1 DEF IsListed
  <2> HIDE DEF imputed
  <2>2. QED
    BY <1>2, <2>1, ObjectivesType
<1>4. ParetoFront(entries) = {k \in C : ~ \E j \in C \ {k} : Dominates(vector(j), vector(k))}
  BY DEF ParetoFront
<1>5. IsFiniteSet(C)
  <2>1. IsFiniteSet(1..n)
    BY FS_Interval DEF IsListed
  <2>2. QED
    BY <1>1, <2>1, FS_Subset
<1> HIDE DEF C, imputed, vector
<1>6. Precedes(R, C)
  <2>1. \A k \in C : <<k, k>> \notin R
    BY <1>3, DominatesPrecedes
  <2>2. \A k, l, m \in C : <<k, l>> \in R /\ <<l, m>> \in R => <<k, m>> \in R
    BY <1>3, DominatesPrecedes
  <2>3. QED
    BY <2>1, <2>2 DEF Precedes
<1>7. i \in C
  BY DEF C
<1>8. PICK k \in C : <<k, i>> \in R
  BY <1>4, <1>7
<1>9. PICK j \in C : <<j, i>> \in R /\ \A w \in C : <<w, j>> \notin R
  <2> HIDE DEF R
  <2> QED
    BY <1>5, <1>6, <1>7, <1>8, FirstOnes
<1>10. j \in ParetoFront(entries) /\ Dominates(vector(j), vector(i))
  BY <1>4, <1>9
<1>11. QED
  BY <1>10 DEF vector, imputed, C

\* The front leaves nobody without an answer: every option with complete
\* evidence is on it or is dominated by one that is (pareto_front).
THEOREM FrontIsEnough == Spec => []FrontCovers
<1>1. IInv => FrontCovers
  <2> DEFINE entries == [p \in DOMAIN Options |-> Options[p].entry]
             imputed == ImputedFare({entries[p].fare : p \in Complete(entries)})
  <2> SUFFICES ASSUME IInv, NEW p \in Complete(entries), ~ Options[p].pareto
               PROVE  \E q \in Complete(entries) :
                        /\ Options[q].pareto
                        /\ Dominates(Objectives(imputed, entries[q]), Objectives(imputed, entries[p]))
    BY DEF FrontCovers
  <2>1. p \in DOMAIN Options
    BY DEF Complete
  <2>2. stage = "answered"
    BY <2>1, NoOptions
  <2>3. PICK n, order : InOrder(order, n)
    BY <2>2, OptionsInOrder
  <2>4. IsListed(Entries, n)
    BY <2>3, EntriesListed DEF InOrder
  <2>5. /\ DOMAIN entries = 1..n /\ DOMAIN Entries = 1..n /\ order \in [1..n -> 1..n]
        /\ \A q \in 1..n : entries[q] = Entries[order[q]]
        /\ \A q \in 1..n : Options[q].pareto = (order[q] \in ParetoFront(Entries))
        /\ \A i \in 1..n : \E q \in 1..n : order[q] = i
    BY <2>3, <2>4 DEF InOrder, IsListed, Options
  <2> HIDE DEF entries
  <2>6. \A q \in 1..n : q \in Complete(entries) <=> order[q] \in Complete(Entries)
    BY <2>5 DEF Complete
  <2>7. {entries[q].fare : q \in Complete(entries)} = {Entries[i].fare : i \in Complete(Entries)}
    <3>1. Complete(entries) \subseteq 1..n /\ Complete(Entries) \subseteq 1..n
      BY <2>5 DEF Complete
    <3>2. ASSUME NEW q \in Complete(entries) PROVE entries[q].fare \in {Entries[i].fare : i \in Complete(Entries)}
      <4>1. order[q] \in Complete(Entries) /\ entries[q].fare = Entries[order[q]].fare
        BY <2>5, <2>6, <3>1
      <4>2. QED
        BY <4>1
    <3>3. ASSUME NEW i \in Complete(Entries) PROVE Entries[i].fare \in {entries[q].fare : q \in Complete(entries)}
      <4>1. PICK q \in 1..n : order[q] = i
        BY <2>5, <3>1
      <4>2. q \in Complete(entries) /\ entries[q].fare = Entries[i].fare
        BY <2>5, <2>6, <4>1
      <4>3. QED
        BY <4>2
    <3>4. QED
      BY <3>2, <3>3
  <2>8. p \in 1..n /\ order[p] \in Complete(Entries) /\ order[p] \notin ParetoFront(Entries)
    BY <2>5, <2>6 DEF Complete
  <2>9. imputed = ImputedFare({Entries[i].fare : i \in Complete(Entries)})
    BY <2>7
  <2> HIDE DEF imputed
  <2>10. PICK j \in ParetoFront(Entries) :
           Dominates(Objectives(imputed, Entries[j]), Objectives(imputed, Entries[order[p]]))
    BY <2>4, <2>8, <2>9, FrontDominates
  <2>11. j \in Complete(Entries) /\ j \in 1..n
    BY <2>5 DEF ParetoFront, Complete
  <2>12. PICK q \in 1..n : order[q] = j
    BY <2>5, <2>11
  <2>13. q \in Complete(entries) /\ Options[q].pareto
    BY <2>5, <2>6, <2>11, <2>12
  <2>14. Dominates(Objectives(imputed, entries[q]), Objectives(imputed, entries[p]))
    BY <2>5, <2>8, <2>10, <2>12
  <2>15. QED
    BY <2>13, <2>14
<1>2. QED
  BY <1>1, Invariance, PTL

-----------------------------------------------------------------------------
\* Merging and checking again

\* The hard constraints are about what the signature tells.
LEMMA SignatureDecides ==
  ASSUME NEW p \in Plans, NEW q \in Plans, Signature(p) = Signature(q), MeetsHardConstraints(p)
  PROVE  MeetsHardConstraints(q)
<1>1. DOMAIN p.legs = DOMAIN q.legs
  BY DEF Signature
<1>2. Transfers(p) = Transfers(q)
  <2>1. /\ Len(p.legs) \in Nat \ {0} /\ DOMAIN p.legs = 1..Len(p.legs)
        /\ Len(q.legs) \in Nat \ {0} /\ DOMAIN q.legs = 1..Len(q.legs)
    BY LegsType
  <2>2. \A m, n \in Nat \ {0} : 1..m = 1..n => m = n
    <3> SUFFICES ASSUME NEW m \in Nat \ {0}, NEW n \in Nat \ {0}, 1..m = 1..n PROVE m = n
      OBVIOUS
    <3>1. m \in 1..n /\ n \in 1..m
      OBVIOUS
    <3>2. QED
      BY <3>1
  <2>3. Len(p.legs) = Len(q.legs)
    BY <1>1, <2>1, <2>2
  <2>4. QED
    BY <2>3 DEF Transfers
<1>3. ASSUME NEW i \in DOMAIN q.legs
      PROVE  /\ p.legs[i].train = q.legs[i].train /\ p.legs[i].from = q.legs[i].from
             /\ p.legs[i].to = q.legs[i].to /\ p.legs[i].run = q.legs[i].run
             /\ p.legs[i].class = q.legs[i].class
  <2>1. Signature(p)[i] = Signature(q)[i] /\ i \in DOMAIN p.legs
    BY <1>1
  <2>2. <<p.legs[i].train, p.legs[i].from, p.legs[i].to, p.legs[i].run, p.legs[i].class, p.legs[i].status>>
          = <<q.legs[i].train, q.legs[i].from, q.legs[i].to, q.legs[i].run, q.legs[i].class, q.legs[i].status>>
    BY <2>1 DEF Signature
  <2>3. QED
    BY <2>2
<1>4. QED
  BY <1>1, <1>2, <1>3 DEF MeetsHardConstraints, OnItsDays, InRegion

\* The list has one plan with the signature.
OnceIn(list, s) ==
  \E m \in DOMAIN list :
    /\ Signature(list[m]) = s
    /\ \A l \in DOMAIN list : Signature(list[l]) = s => l = m

LEMMA MergedOnce ==
  ASSUME NEW all \in Seq(Plans), NEW i \in DOMAIN all
  PROVE  OnceIn(Deduplicated(all), Signature(all[i]))
<1> DEFINE S == {j \in DOMAIN all : \A k \in 1..(j - 1) : Signature(all[k]) # Signature(all[j])}
           T == {j \in DOMAIN all : Signature(all[j]) = Signature(all[i])}
           list == Deduplicated(all)
<1>1. DOMAIN all = 1..Len(all) /\ Len(all) \in Nat /\ T # {} /\ T \subseteq Nat
  OBVIOUS
<1>2. PICK first \in T : \A j \in T : first <= j
  BY <1>1, LeastNatural
<1>3. first \in S
  BY <1>1, <1>2
<1>4. PICK at \in [DOMAIN list -> S] :
        /\ \A k \in DOMAIN list : list[k] = all[at[k]]
        /\ \A j \in S : \E k \in DOMAIN list : at[k] = j
        /\ \A k, m \in DOMAIN list : k < m => at[k] < at[m]
  <2>1. S \subseteq DOMAIN all /\ list = Picked(all, S)
    BY DEF Deduplicated
  <2> HIDE DEF S, list
  <2>2. PickedAt(list, all, S)
    BY <2>1, PickedLaw
  <2>3. QED
    BY <2>2 DEF PickedAt
<1>5. list \in Seq(Plans)
  BY KeptType
<1>6. DOMAIN list = 1..Len(list) /\ Len(list) \in Nat
  BY <1>5
<1> HIDE DEF list
<1>7. PICK m \in DOMAIN list : at[m] = first
  BY <1>3, <1>4
<1>8. Signature(list[m]) = Signature(all[i])
  BY <1>2, <1>4, <1>7
<1>9. ASSUME NEW l \in DOMAIN list, Signature(list[l]) = Signature(all[i]) PROVE l = m
  <2>1. at[l] \in S /\ at[l] \in T
    BY <1>4, <1>9
  <2>2. at[l] = first
    <3>1. first <= at[l] /\ first \in Nat /\ at[l] \in Nat
      BY <1>1, <1>2, <2>1
    <3>2. ~ (first \in 1..(at[l] - 1))
      BY <1>2, <2>1
    <3>3. QED
      BY <1>1, <1>2, <3>1, <3>2
  <2>3. ~ (l < m) /\ ~ (m < l)
    <3>1. at[l] \in Nat /\ at[m] \in Nat
      BY <1>1, <1>2, <1>7, <2>2
    <3>2. QED
      BY <1>4, <1>7, <2>2, <3>1
  <2>4. QED
    BY <1>6, <2>3
<1>10. QED
  BY <1>8, <1>9 DEF OnceIn, list

LEMMA KeptOnce ==
  ASSUME NEW all \in Seq(Plans), NEW i \in DOMAIN all, MeetsHardConstraints(all[i])
  PROVE  OnceIn(Pruned(Deduplicated(all)), Signature(all[i]))
<1> DEFINE merged == Deduplicated(all)
           S == {k \in DOMAIN merged : MeetsHardConstraints(merged[k])}
           list == Pruned(merged)
           s == Signature(all[i])
<1>1. merged \in Seq(Plans) /\ list \in Seq(Plans)
  BY KeptType
<1>2. DOMAIN list = 1..Len(list) /\ Len(list) \in Nat
  BY <1>1
<1>3. PICK k \in DOMAIN merged : /\ Signature(merged[k]) = s
                                 /\ \A l \in DOMAIN merged : Signature(merged[l]) = s => l = k
  <2>1. OnceIn(merged, s)
    BY MergedOnce
  <2>2. QED
    BY <2>1 DEF OnceIn
<1>4. k \in S
  <2>1. merged[k] \in Plans /\ all[i] \in Plans
    BY <1>1
  <2>2. QED
    BY <1>3, <2>1, SignatureDecides
<1>5. PICK at \in [DOMAIN list -> S] :
        /\ \A j \in DOMAIN list : list[j] = merged[at[j]]
        /\ \A j \in S : \E m \in DOMAIN list : at[m] = j
        /\ \A j, m \in DOMAIN list : j < m => at[j] < at[m]
  <2>1. S \subseteq DOMAIN merged /\ list = Picked(merged, S)
    BY DEF Pruned
  <2> HIDE DEF S, list, merged
  <2>2. PickedAt(list, merged, S)
    BY <1>1, <2>1, PickedLaw
  <2>3. QED
    BY <2>2 DEF PickedAt
<1>6. S \subseteq Nat
  BY <1>1
<1> HIDE DEF list, merged
<1>7. PICK m \in DOMAIN list : at[m] = k
  BY <1>4, <1>5
<1>8. Signature(list[m]) = s
  BY <1>3, <1>5, <1>7
<1>9. ASSUME NEW l \in DOMAIN list, Signature(list[l]) = s PROVE l = m
  <2>1. at[l] \in DOMAIN merged /\ at[l] = k
    BY <1>3, <1>5, <1>9
  <2>2. at[l] \in Nat /\ at[m] \in Nat
    BY <1>5, <1>6
  <2>3. ~ (l < m) /\ ~ (m < l)
    BY <1>5, <1>7, <2>1, <2>2
  <2>4. QED
    BY <1>2, <2>3
<1>10. QED
  BY <1>8, <1>9 DEF OnceIn, list, merged

\* Every plan that either agent found and that keeps the limits of the query
\* is offered, once, whatever evaluation fails, and the counts account for the
\* rest (resolve).
THEOREM EveryPlanOffered == Spec => []NothingLost
<1>1. IInv => NothingLost
  <2> SUFFICES ASSUME IInv, stage = "answered"
               PROVE  /\ \A i \in DOMAIN Gathered : MeetsHardConstraints(Gathered[i]) =>
                           Cardinality({p \in DOMAIN Options :
                             Signature(Options[p].entry.plan) = Signature(Gathered[i])}) = 1
                      /\ answer.total = Len(Gathered)
                      /\ answer.total = Len(Options) + answer.merged + answer.pruned
    BY DEF NothingLost, Gathered
  <2>1. Gathered \in Seq(Plans)
    BY DEF IInv, Tasks, Gathered, Agents
  <2>2. /\ survivors = Pruned(Deduplicated(Gathered))
        /\ answer.total = Len(Gathered)
        /\ answer.merged = Len(Gathered) - Len(Deduplicated(Gathered))
        /\ answer.pruned = Len(Deduplicated(Gathered)) - Len(survivors)
    BY DEF IInv, Counted
  <2>3. PICK n, order : InOrder(order, n)
    BY OptionsInOrder
  <2>4. answer.total = Len(Options) + answer.merged + answer.pruned
    <3>1. Len(Options) = Len(survivors) /\ Len(survivors) \in Nat
      BY <2>3 DEF InOrder, Options
    <3>2. Len(Gathered) \in Nat /\ Len(Deduplicated(Gathered)) \in Nat
      BY <2>1, KeptType
    <3>3. QED
      BY <2>2, <3>1, <3>2
  <2>5. ASSUME NEW i \in DOMAIN Gathered, MeetsHardConstraints(Gathered[i])
        PROVE  Cardinality({p \in DOMAIN Options :
                 Signature(Options[p].entry.plan) = Signature(Gathered[i])}) = 1
    <3> DEFINE s == Signature(Gathered[i])
               P == {p \in DOMAIN Options : Signature(Options[p].entry.plan) = s}
    <3>1. OnceIn(survivors, s)
      BY <2>1, <2>2, <2>5, KeptOnce
    <3>2. PICK m \in DOMAIN survivors :
            /\ Signature(survivors[m]) = s
            /\ \A l \in DOMAIN survivors : Signature(survivors[l]) = s => l = m
      BY <3>1 DEF OnceIn
    <3>3. /\ n \in Nat /\ DOMAIN survivors = 1..n /\ DOMAIN Options = 1..n
          /\ order \in [1..n -> 1..n]
      BY <2>3 DEF InOrder, Options, IInv, Evaluated
    <3>4. ASSUME NEW p \in 1..n PROVE Options[p].entry.plan = survivors[order[p]]
      <4>1. Options[p].entry = Entries[order[p]] /\ order[p] \in DOMAIN survivors
        BY <2>3, <3>3 DEF InOrder, Options
      <4>2. QED
        BY <4>1 DEF Entries, Scored
    <3>5. PICK p \in 1..n : order[p] = m
      BY <2>3, <3>2, <3>3 DEF InOrder
    <3>6. ASSUME NEW q \in 1..n, order[q] = m PROVE q = p
      <4>1. IsListed(Entries, n)
        BY <2>3, EntriesListed DEF InOrder
      <4>2. <<m, m>> \notin Better(Entries, Scores(Entries))
        BY <3>2, <3>3, <4>1, BetterOrders DEF Orders, Precedes
      <4>3. ~ (p < q) /\ ~ (q < p)
        BY <2>3, <3>5, <3>6, <4>2 DEF InOrder
      <4>4. QED
        BY <3>3, <4>3
    <3> HIDE DEF s
    <3>7. P = {p}
      <4>1. P = {q \in 1..n : Signature(survivors[order[q]]) = s}
        BY <3>3, <3>4
      <4>2. \A q \in 1..n : Signature(survivors[order[q]]) = s <=> order[q] = m
        BY <3>2, <3>3
      <4>3. P = {q \in 1..n : order[q] = m}
        BY <4>1, <4>2
      <4>4. QED
        BY <3>5, <3>6, <4>3
    <3>8. QED
      <4>1. Cardinality({p}) = 1
        BY FS_Singleton
      <4>2. QED
        BY <3>7, <4>1 DEF s
  <2>6. QED
    BY <2>2, <2>4, <2>5
<1>2. QED
  BY <1>1, Invariance, PTL

-----------------------------------------------------------------------------
\* What a change of seats costs

\* An entry's fare is that of its tickets, where there is one.
LEMMA EntryFare ==
  ASSUME IInv, stage = "answered", NEW p \in DOMAIN Options
  PROVE  /\ Options[p].entry.plan \in Plans
         /\ Options[p].entry.fare # NoFare =>
              Options[p].entry.fare = TotalFare(Options[p].entry.plan.legs, Query.passengers)
<1>1. PICK n, order : InOrder(order, n)
  BY OptionsInOrder
<1> DEFINE i == order[p]
<1>2. p \in 1..n /\ i \in 1..n /\ DOMAIN survivors = 1..n /\ n \in Nat
  BY <1>1 DEF InOrder, Options, IInv, Evaluated
<1>3. Options[p].entry = Scored(survivors[i], evals[i])
  BY <1>1, <1>2 DEF InOrder, Options, Entries
<1>4. survivors # <<>>
  BY <1>2
<1>5. /\ survivors[i] \in Plans
      /\ evals[i].fare \in {Failed, TotalFare(survivors[i].legs, Query.passengers)}
  <2>1. survivors[i] \in Plans
    BY <1>2 DEF IInv, Evaluated
  <2>2. "fare" \in Stage2 /\ Result["fare"][survivors[i]] = TotalFare(survivors[i].legs, Query.passengers)
    BY <2>1 DEF Result, Stage2
  <2>3. evals[i]["fare"] \in {Pending, Failed, Result["fare"][survivors[i]]}
    BY <1>2, <2>2 DEF IInv, Evaluated
  <2>4. evals[i]["fare"] # Pending
    BY <1>2, <1>4, <2>2, SMTT(60) DEF IInv, Offered
  <2>5. QED
    BY <2>1, <2>2, <2>3, <2>4
<1> HIDE DEF i
<1>6. QED
  BY <1>3, <1>5 DEF Scored

\* What the legs of a plan are, whatever the plan.
Lawful(legs) ==
  /\ Len(legs) \in Nat \ {0} /\ DOMAIN legs = 1..Len(legs)
  /\ legs \in Seq(Range(legs)) /\ legs # <<>>
  /\ \A i \in DOMAIN legs :
       /\ legs[i].train \in DOMAIN Routes
       /\ CallsAt(legs[i].train, legs[i].from) /\ CallsAt(legs[i].train, legs[i].to)
       /\ i > 1 => legs[i].from = legs[i - 1].to

LEMMA PlanLawful ==
  ASSUME NEW plan \in Plans
  PROVE  Lawful(plan.legs)
BY LegsType DEF Lawful

\* Lawful legs of one train and class are rides on it.
LEMMA LawfulRides ==
  ASSUME NEW legs, Lawful(legs), NEW train, NEW class,
         \A i \in DOMAIN legs : legs[i].train = train /\ legs[i].class = class
  PROVE  Rides(legs, train, class)
<1>1. 1 \in DOMAIN legs
  BY DEF Lawful
<1>2. train \in DOMAIN Routes
  BY <1>1, Zenon DEF Lawful
<1>3. QED
  BY <1>2, Zenon DEF Lawful, Rides

\* Several legs along one train cost more than one leg between the same ends.
LEMMA SplitDearer ==
  ASSUME NEW ride, Lawful(ride), Len(ride) = 1, NEW legs, Lawful(legs), Len(legs) > 1,
         Head(legs).from = ride[1].from, Last(legs).to = ride[1].to,
         \A i \in DOMAIN legs : legs[i].train = ride[1].train /\ legs[i].class = ride[1].class,
         NEW n \in Nat \ {0}, TotalFare(ride, n) # NoFare, TotalFare(legs, n) # NoFare
  PROVE  TotalFare(ride, n) < TotalFare(legs, n)
<1>1. \A i \in DOMAIN ride : i = 1
  BY DEF Lawful
<1>2. PICK train, class : train = ride[1].train /\ class = ride[1].class
  BY Zenon
<1>3. Rides(ride, train, class)
  <2>1. \A i \in DOMAIN ride : ride[i].train = train /\ ride[i].class = class
    BY <1>1, <1>2, Zenon
  <2>2. QED
    BY <2>1, LawfulRides, Zenon
<1>4. Rides(legs, train, class)
  BY <1>2, LawfulRides, Zenon
<1>5. Head(legs) = legs[1] /\ Last(legs) = legs[Len(legs)]
  <2>1. legs \in Seq(Range(legs)) /\ legs # <<>>
    BY Zenon DEF Lawful
  <2>2. QED
    BY <2>1 DEF Last
<1>6. ride[1].from = legs[1].from /\ ride[1].to = legs[Len(legs)].to
  BY <1>5, Zenon
<1>7. /\ Len(ride) \in Nat /\ DOMAIN ride = 1..Len(ride)
      /\ Len(legs) \in Nat /\ DOMAIN legs = 1..Len(legs)
  BY DEF Lawful
<1>8. QED
  BY <1>3, <1>4, <1>6, <1>7, RideCostsLess

\* A change of seats on one train never costs less than the ride it replaces,
\* on any train and route (fare_model.py:27-28, fare_breakdown).
THEOREM SplitsNeverPay == Spec => []SplitsCostMore
<1>1. IInv => SplitsCostMore
  <2> SUFFICES ASSUME IInv, NEW p \in DOMAIN Options, NEW q \in DOMAIN Options,
                      Transfers(Options[p].entry.plan) = 0,
                      Head(Options[q].entry.plan.legs).from = Options[p].entry.plan.legs[1].from,
                      Last(Options[q].entry.plan.legs).to = Options[p].entry.plan.legs[1].to,
                      Transfers(Options[q].entry.plan) > 0,
                      \A i \in DOMAIN Options[q].entry.plan.legs :
                        /\ Options[q].entry.plan.legs[i].train = Options[p].entry.plan.legs[1].train
                        /\ Options[q].entry.plan.legs[i].class = Options[p].entry.plan.legs[1].class,
                      NoFare \notin {Options[p].entry.fare, Options[q].entry.fare}
               PROVE  Options[p].entry.fare < Options[q].entry.fare
    BY Zenon DEF SplitsCostMore
  <2> DEFINE one  == Options[p].entry.plan
             two  == Options[q].entry.plan
             n    == Query.passengers
  <2>1. stage = "answered"
    BY NoOptions, Zenon
  <2>2. /\ one \in Plans /\ Options[p].entry.fare = TotalFare(one.legs, n)
        /\ two \in Plans /\ Options[q].entry.fare = TotalFare(two.legs, n)
    BY <2>1, EntryFare, Zenon
  <2>3. TotalFare(one.legs, n) # NoFare /\ TotalFare(two.legs, n) # NoFare
    BY <2>2, Zenon
  <2>4. n \in Nat \ {0}
    BY QueryAssumption
  <2>5. Lawful(one.legs) /\ Lawful(two.legs)
    BY <2>2, PlanLawful, Zenon
  <2>6. Len(one.legs) = 1 /\ Len(two.legs) > 1
    <3>1. Transfers(one) = 0 /\ Transfers(two) > 0
      OBVIOUS
    <3> HIDE DEF one, two
    <3>2. Len(one.legs) \in Nat /\ Len(two.legs) \in Nat
      BY <2>5 DEF Lawful
    <3>3. QED
      BY <3>1, <3>2 DEF Transfers
  <2>7. TotalFare(one.legs, n) < TotalFare(two.legs, n)
    BY <2>3, <2>4, <2>5, <2>6, SplitDearer, Zenon
  <2>8. QED
    BY <2>2, <2>7, Zenon
<1>2. QED
  BY <1>1, Invariance, PTL
=============================================================================
