--------------------------- MODULE MCBookingLedger ---------------------------
(***************************************************************************)
(* A small ledger for TLC: one train with two coaches and an onward train, *)
(* each with three halts, two seats to a coach and a seed that fragments   *)
(* them, and requests that meet each way a booking can go.                 *)
(***************************************************************************)
EXTENDS BookingLedger, TLC

MCRuns    == {"r1", "r2"}
MCCoaches == {"A1", "A2", "B1"}
MCRunOf   == [k \in MCCoaches |-> IF k = "B1" THEN "r2" ELSE "r1"]
MCSeats   == {1, 2}

\* A1: seat 2 is taken beyond the middle halt.  A2: seat 1 is free beyond it.
\* B1: seat 2 is taken up to the middle halt.
MCSeed ==
  [k \in MCCoaches |->
     CASE k = "A1" -> (1 :> {} @@ 2 :> {1})
       [] k = "A2" -> (1 :> {0} @@ 2 :> {0, 1})
       [] OTHER    -> (1 :> {} @@ 2 :> {0})]

\* r1 runs P 100 - Q 150/160 - R 220, r2 runs Q 175 - R 225/230 - T 300: the
\* change from r1 to r2 can be made at Q (25 minutes) and not at R (10).
MCStationAt == [r \in MCRuns |-> IF r = "r1" THEN (0 :> "P" @@ 1 :> "Q" @@ 2 :> "R")
                                 ELSE (0 :> "Q" @@ 1 :> "R" @@ 2 :> "T")]
MCDepartAt  == [r \in MCRuns |-> IF r = "r1" THEN (0 :> 100 @@ 1 :> 160 @@ 2 :> 225)
                                 ELSE (0 :> 175 @@ 1 :> 230 @@ 2 :> 305)]
MCArriveAt  == [r \in MCRuns |-> IF r = "r1" THEN (0 :> 95 @@ 1 :> 150 @@ 2 :> 220)
                                 ELSE (0 :> 170 @@ 1 :> 225 @@ 2 :> 300)]
MCSellable  == MCCoaches \X {<<0, 1>>, <<1, 2>>, <<0, 2>>}
MCSellables == {<<t[1], t[2][1], t[2][2]>> : t \in MCSellable}

AnySeat(k, a, b)   == [coach |-> k, from |-> a, to |-> b, auto |-> TRUE, seats |-> <<>>]
Seat(k, a, b, s)   == [coach |-> k, from |-> a, to |-> b, auto |-> FALSE, seats |-> <<s>>]
Single(leg, n)     == [kind |-> "single", legs |-> <<leg>>, count |-> n]
Itinerary(legs, n) == [kind |-> "itinerary", legs |-> legs, count |-> n]

MCRequests ==
  { Single(Seat("A1", 0, 1, 2), 1),
    Itinerary(<<AnySeat("A1", 0, 1), AnySeat("A2", 1, 2)>>, 1),   \* change of coach
    Itinerary(<<AnySeat("A1", 0, 1), AnySeat("B1", 0, 2)>>, 1),   \* change of train
    Itinerary(<<AnySeat("A1", 0, 2), AnySeat("B1", 1, 2)>>, 1),   \* too short a change
    Itinerary(<<Seat("A1", 0, 1, 1), Seat("A1", 1, 2, 1)>>, 1) }  \* no change of seat

\* For the retry: one leg, and two legs that need not both be sold.
MCFewRequests ==
  { Single(AnySeat("A1", 0, 2), 1),
    Itinerary(<<AnySeat("A1", 0, 1), AnySeat("A2", 1, 2)>>, 1) }

MCCounts == {2}

Symmetry == Permutations(Conns) \cup Permutations(Ids) \cup Permutations(Journeys)
=============================================================================
