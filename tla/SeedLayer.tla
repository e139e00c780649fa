------------------------------ MODULE SeedLayer ------------------------------
(***************************************************************************)
(* The seats that are taken before anybody books (src/inventory.py,        *)
(* profile busy-v2).  The hash of the code is a parameter: what it draws   *)
(* for a run and a class (a tier and a spacing) or a coach (an order of    *)
(* its seats and a quota of free ones) is any value in its range.          *)
(*                                                                         *)
(* Segment k joins halts k and k + 1, counted from 0.                      *)
(***************************************************************************)
EXTENDS Integers, Sequences

\* Seven to eleven in the code; the spacing here is a parameter of each draw.
Tiers == 0..9

\* Halts at which the free stretches of a class end: spaced, and long enough
\* for a change of seats.
Boundaries(halts, spacing, minSeatChange) ==
  LET last == Len(halts) - 1
      ends[i \in 0..(last - 1)] ==
        IF i = 0 THEN <<0>>
        ELSE IF i - ends[i - 1][Len(ends[i - 1])] >= spacing /\ halts[i + 1].halt >= minSeatChange
             THEN Append(ends[i - 1], i) ELSE ends[i - 1]
  IN  Append(ends[last - 1], last)

\* Fault: the same seats are free in every block.
FreeInBlockAlways(order, quota, b) ==
  {order[offset + 1] : offset \in 0..(quota - 1)}

\* The seats of block b, counted from 0, that are free over it.
FreeInBlock(order, quota, b) ==
  {order[((b * quota + offset) % Len(order)) + 1] : offset \in 0..(quota - 1)}

BusyMasks(halts, draw, minSeatChange) ==
  LET all    == 0..(Len(halts) - 2)
      ends   == Boundaries(halts, draw.spacing, minSeatChange)
      blocks == 0..(Len(ends) - 2)
      seats  == {draw.order[i] : i \in DOMAIN draw.order}
      free(s) == UNION {ends[b + 1]..(ends[b + 2] - 1) :
                          b \in {b \in blocks : s \in FreeInBlock(draw.order, draw.quota, b)}}
  IN  [s \in seats |->
         IF draw.tier = 9 THEN all
         ELSE IF draw.tier < 3
              THEN IF s \in {draw.order[i] : i \in 1..draw.quota} THEN {} ELSE all
         ELSE all \ free(s)]
=============================================================================
