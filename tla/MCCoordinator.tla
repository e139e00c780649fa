---------------------------- MODULE MCCoordinator ----------------------------
(***************************************************************************)
(* Plans from P to R: a direct ride, the same on a waiting list, a change  *)
(* of coach, changes of train, two of them alike and one by night, one     *)
(* that cannot be priced, and one in a class that was not asked for.       *)
(***************************************************************************)
EXTENDS Coordinator

Leg(train, from, to, coach, class, status, dep, arr) ==
  [train |-> train, run |-> 1, from |-> from, to |-> to, coach |-> coach, class |-> class,
   status |-> status, dep |-> dep, arr |-> arr]

Direct  == [moving |-> 100, legs |-> <<Leg("t1", "P", "R", "A1", "SL", "CONFIRMED", 600, 710)>>]
Queue   == [moving |-> 90,  legs |-> <<Leg("t2", "P", "R", "B1", "SL", "WAITLIST", 600, 700)>>]
Seats   == [moving |-> 100, legs |-> <<Leg("t1", "P", "Q", "A1", "SL", "CONFIRMED", 600, 650),
                                       Leg("t1", "Q", "R", "A3", "SL", "CONFIRMED", 660, 710)>>]
Change  == [moving |-> 80,  legs |-> <<Leg("t2", "P", "Q", "B1", "SL", "CONFIRMED", 600, 640),
                                       Leg("t3", "Q", "R", "C1", "SL", "CONFIRMED", 700, 740)>>]
ByNight == [moving |-> 70,  legs |-> <<Leg("t2", "P", "Q", "B1", "SL", "CONFIRMED", 1260, 1300),
                                       Leg("t3", "Q", "R", "C1", "SL", "RAC", 1330, 1360)>>]
Twin    == [moving |-> 80,  legs |-> <<Leg("t2", "P", "Q", "B1", "SL", "CONFIRMED", 600, 640),
                                       Leg("t1", "Q", "R", "A1", "SL", "CONFIRMED", 700, 740)>>]
NoPrice == [moving |-> 85,  legs |-> <<Leg("t2", "P", "U", "B1", "SL", "CONFIRMED", 600, 640),
                                       Leg("t3", "U", "R", "C1", "SL", "CONFIRMED", 690, 735)>>]
Class3A == [moving |-> 80,  legs |-> <<Leg("t2", "P", "R", "B2", "3A", "CONFIRMED", 600, 690)>>]

MCSame == { <<>>, <<Direct, Seats>>, <<Queue, Direct>> }
MCDiff == { <<>>, <<Change>>, <<NoPrice, Direct>>, <<Class3A, ByNight>>, <<Change, Twin>> }

MCQuery == [maxTransfers |-> 1, class |-> "SL", hard |-> TRUE, region |-> TRUE, passengers |-> 1]
MCRoutes  == [t \in {"t1", "t2", "t3"} |-> <<"P", "V", "Q", "U", "R">>]
\* A line, on which V and U lie off the way.
Kilometre == [s \in {"P", "Q", "R", "V"} |->
                CASE s = "P" -> 0 [] s = "V" -> 90 [] s = "Q" -> 70 [] OTHER -> 150]
MCLocated   == DOMAIN Kilometre
MCHaversine ==
  [w \in MCLocated \X MCLocated |->
     LET a == Kilometre[w[1]]
         b == Kilometre[w[2]]
     IN  IF a <= b THEN b - a ELSE a - b]
MCRunDays == [t \in {"t1", "t2", "t3"} |-> {1}]
MCRakes == [t \in {"t1", "t2", "t3"} |-> IF t = "t1" THEN <<"A1", "A2", "A3">> ELSE <<>>]
=============================================================================
