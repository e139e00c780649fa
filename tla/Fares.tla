-------------------------------- MODULE Fares --------------------------------
(***************************************************************************)
(* What a ticket costs (src/fare_model.py): a base fare by telescopic      *)
(* bands, a factor for the class, two charges per ticket and tax on the    *)
(* air-conditioned classes.                                                *)
(*                                                                         *)
(* Money is counted in units of 1/400 of a paisa, in which every rate of   *)
(* the tables is whole; rounding to the paisa is left out.  The distance   *)
(* between two points of the earth is a parameter: all that matters of it  *)
(* is that a detour is never shorter.                                      *)
(***************************************************************************)
EXTENDS Lists

CONSTANTS
  Routes,    \* the scheduled stops of a train, pass-through stops included
  Located,   \* the stations whose coordinates are known
  Haversine  \* kilometres between two of them

NoKm   == -1
NoFare == -1
Rupee  == 40000

ASSUME DistanceAssumption ==
  /\ \A train \in DOMAIN Routes : Routes[train] \in Seq(Range(Routes[train]))
  /\ Haversine \in [Located \X Located -> Nat]
  /\ \A a, b, c \in Located : Haversine[a, c] <= Haversine[a, b] + Haversine[b, c]

-----------------------------------------------------------------------------
\* Distances

Between(a, b) == IF {a, b} \subseteq Located THEN Haversine[a, b] ELSE NoKm

CallsAt(train, code) == \E i \in DOMAIN Routes[train] : Routes[train][i] = code

\* The first of the stops that has the code.
StopOf(train, code) ==
  CHOOSE i \in DOMAIN Routes[train] :
    Routes[train][i] = code /\ \A j \in 1..(i - 1) : Routes[train][j] # code

\* The stops numbered from a to b whose place is known.
Placed(train, a, b) == {i \in a..b : Routes[train][i] \in Located}

Following(train, i) ==
  CHOOSE j \in DOMAIN Routes[train] :
    i < j /\ Routes[train][j] \in Located /\ Placed(train, i + 1, j - 1) = {}

\* Along the route, straight past stops whose place is not known.
RouteKm(train, from, to) ==
  LET a == StopOf(train, from)
      b == StopOf(train, to)
      Hop(i) == Between(Routes[train][i], Routes[train][Following(train, i)])
  IN  IF /\ CallsAt(train, from) /\ CallsAt(train, to)
         /\ a < b /\ {from, to} \subseteq Located
      THEN SumFunction([i \in Placed(train, a, b - 1) |-> Hop(i)])
      ELSE NoKm

\* Straight across where the route does not tell.
TicketKm(t) ==
  LET km == RouteKm(t.train, t.from, t.to)
  IN  IF km = NoKm THEN Between(t.from, t.to) ELSE km

-----------------------------------------------------------------------------
\* Fares

\* Kilometres of a journey that fall into a band.
Within(km, lower, upper) ==
  IF km <= lower THEN 0 ELSE IF km <= upper THEN km - lower ELSE upper - lower

\* Paise: the marginal rate falls as the journey lengthens.
BaseFare(km) ==
    72 * Within(km, 0, 100)   + 56 * Within(km, 100, 300)
  + 45 * Within(km, 300, 700) + 38 * Within(km, 700, 1500)
  + 32 * Within(km, 1500, km)

Classes == {"2S", "SL", "CC", "3A", "2A", "EC", "1A"}

\* Twentieths of the sleeper fare, rupees of reservation and of superfast
\* charge, and twentieths that the tax makes of the sum.
Tariff ==
  [c \in Classes |->
     CASE c = "2S" -> [factor |-> 11,  charges |-> 15 + 15, tax |-> 20]
       [] c = "SL" -> [factor |-> 20,  charges |-> 20 + 30, tax |-> 20]
       [] c = "CC" -> [factor |-> 46,  charges |-> 40 + 45, tax |-> 21]
       [] c = "3A" -> [factor |-> 52,  charges |-> 40 + 45, tax |-> 21]
       [] c = "2A" -> [factor |-> 74,  charges |-> 50 + 45, tax |-> 21]
       [] c = "EC" -> [factor |-> 88,  charges |-> 50 + 45, tax |-> 21]
       [] OTHER    -> [factor |-> 126, charges |-> 60 + 75, tax |-> 21]]

\* Fault: the fare is the distance times a rate, as it once was.
FareByDistance(km, class, passengers) ==
  IF class \notin Classes \/ passengers < 1 \/ km = NoKm THEN NoFare
  ELSE km * 45 * Tariff[class].factor * Tariff[class].tax * passengers

Fare(km, class, passengers) ==
  IF class \notin Classes \/ passengers < 1 \/ km = NoKm THEN NoFare
  ELSE (BaseFare(km) * Tariff[class].factor + Tariff[class].charges * 2000)
         * Tariff[class].tax * passengers

\* The tickets of a journey together, and no part of the sum when one of
\* them cannot be priced.
TotalFare(tickets, passengers) ==
  LET fares == [i \in DOMAIN tickets |-> Fare(TicketKm(tickets[i]), tickets[i].class, passengers)]
  IN  IF tickets = <<>> \/ NoFare \in Range(fares) THEN NoFare
      ELSE SumFunction(fares)
=============================================================================
