---------------------------- MODULE SeatInventory ----------------------------
(***************************************************************************)
(* The physical seat inventory of the simulation (src/inventory.py): which *)
(* seats of a coach are free over a stretch of its route, given the seed   *)
(* layer and the rows of the booking ledger.                               *)
(*                                                                         *)
(* A "coach" here is one coach of one train on one run date, the key       *)
(* (train, run_date, coach) of the code.  The bit mask the code keeps for  *)
(* a seat is the set of route segments whose bit is set; segment k joins   *)
(* the real halts k and k+1.                                               *)
(*                                                                         *)
(* Rows of a ledger that this version of the program wrote always carry    *)
(* their seat numbers; the count-only rows of older ledgers are modelled   *)
(* in LegacyLedger.                                                        *)
(***************************************************************************)
EXTENDS Integers, Sequences, FiniteSets

CONSTANTS
  Coaches,   \* coaches of dated runs
  Runs,      \* (train, run date) pairs
  RunOf,     \* the run a coach belongs to
  Seats,     \* seat numbers of a coach, 1..capacity
  LastStop,  \* index of the last real halt of a route
  Seed       \* segments occupied by the seed layer, per coach and seat

Stops    == 0..LastStop
Segments == 0..(LastStop - 1)

ASSUME InventoryAssumption ==
  /\ LastStop \in Nat \ {0}
  /\ RunOf \in [Coaches -> Runs]
  /\ Seats \subseteq Nat
  /\ Seed \in [Coaches -> [Seats -> SUBSET Segments]]

\* ((1 << b) - 1) ^ ((1 << a) - 1): the segments between halts a and b.
Span(a, b) == {k \in Segments : a <= k /\ k < b}

SeatsOf(row) == {row.seats[i] : i \in DOMAIN row.seats}
SpanOf(row)  == Span(row.from, row.to)

\* The rows active_for_run returns, narrowed to one coach as occupied() does.
ActiveIn(rows, coach) ==
  {i \in DOMAIN rows : rows[i].status = "ACTIVE" /\ rows[i].coach = coach}

\* The seed mask of a seat with the span of every active row holding it added.
Occupied(rows, coach, seat) ==
  Seed[coach][seat]
    \cup UNION {SpanOf(rows[i]) :
                  i \in {k \in ActiveIn(rows, coach) : seat \in SeatsOf(rows[k])}}

Available(rows, coach, a, b) ==
  {s \in Seats : Occupied(rows, coach, s) \cap Span(a, b) = {}}

\* The n lowest free seat numbers, in order: tuple(free[:n]).
FirstFree(free, n) ==
  [k \in 1..n |-> CHOOSE s \in free : Cardinality({t \in free : t < s}) = k - 1]

-----------------------------------------------------------------------------
(***************************************************************************)
(* What a set of rows must satisfy for the allocation to be one that a     *)
(* train could carry.                                                      *)
(***************************************************************************)

\* No active row sits on a segment the seed layer has already given away.
OutsideSeed(rows) ==
  \A c \in Coaches : \A i \in ActiveIn(rows, c) :
    \A s \in SeatsOf(rows[i]) : Seed[c][s] \cap SpanOf(rows[i]) = {}

\* No two active rows share a seat of a coach on a segment.
Disjoint(rows) ==
  \A c \in Coaches : \A i, k \in ActiveIn(rows, c) :
    /\ i # k
    /\ SeatsOf(rows[i]) \cap SeatsOf(rows[k]) # {}
    => SpanOf(rows[i]) \cap SpanOf(rows[k]) = {}

Exclusive(rows) == OutsideSeed(rows) /\ Disjoint(rows)
=============================================================================
