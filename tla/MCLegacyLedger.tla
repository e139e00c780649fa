--------------------------- MODULE MCLegacyLedger ---------------------------
(***************************************************************************)
(* A coach with two seats on a route of three halts, and an empty seed.    *)
(***************************************************************************)
EXTENDS LegacyLedger

MCCoaches == {"S1"}
MCRunOf   == [k \in MCCoaches |-> "r1"]
MCSeats   == {1, 2}
MCSeed    == [k \in MCCoaches |-> [s \in MCSeats |-> {}]]
MCTrips   == {<<0, 1>>, <<0, 2>>, <<1, 2>>}
=============================================================================
