---------------------------- MODULE LegacyLedger ----------------------------
(***************************************************************************)
(* A ledger upgraded from the count-only format: its old rows say how many *)
(* berths of a coach they take and not which.  InventoryService.occupied   *)
(* (src/inventory.py) lets each of them consume the first seats that the   *)
(* rows before it leave free, anew at every read.                          *)
(*                                                                         *)
(* The rows of one coach, in the order SQLite returns them: that of their  *)
(* insertion.  Allocation is atomic here; BookingLedger shows that it is.  *)
(***************************************************************************)
EXTENDS SeatInventory, SequencesExt

CONSTANTS
  Coach,     \* the coach
  Trips,     \* <<from, to>> that are asked for
  OldRows,   \* bound on the count-only rows
  MaxRows    \* bound on all rows

VARIABLE rows   \* seats = <<>> marks a count-only row

Active(row) == row.status = "ACTIVE"

\* Booking.overlaps
Overlaps(row, a, b) == row.from < b /\ a < row.to

Passengers(held) == FoldLeft(LAMBDA n, row : n + row.count, 0, held)

\* seats_taken: what the old program counted.
SeatsTaken(held, a, b) ==
  Passengers(SelectSeq(held, LAMBDA row : Active(row) /\ Overlaps(row, a, b)))

-----------------------------------------------------------------------------
\* The seats a row holds, given the masks that the rows before it left: the
\* ones it names or the first that are free on its stretch, in seat order.
Holds(row, masks) ==
  IF row.seats # <<>> THEN SeatsOf(row)
  ELSE LET free == {s \in Seats : masks[s] \cap SpanOf(row) = {}}
       IN  {s \in free : Cardinality({t \in free : t < s}) < row.count}

Take(masks, row) ==
  [s \in Seats |-> IF s \in Holds(row, masks) THEN masks[s] \cup SpanOf(row) ELSE masks[s]]

\* InventoryService.occupied over the active rows
Masks(held) == FoldLeft(Take, Seed[Coach], SelectSeq(held, Active))

FreeSeats(held, a, b) == {s \in Seats : Masks(held)[s] \cap Span(a, b) = {}}

-----------------------------------------------------------------------------
CountOnly == {[from |-> t[1], to |-> t[2], seats |-> <<>>, count |-> 1, status |-> "ACTIVE"] :
                t \in Trips}

\* What the old program accepted: room by its own count, row after row.
Accepted(old) ==
  \A k \in DOMAIN old :
    SeatsTaken(SubSeq(old, 1, k - 1), old[k].from, old[k].to) + old[k].count
      <= Cardinality(Seats)

Init == rows \in {old \in UNION {[1..n -> CountOnly] : n \in 0..OldRows} : Accepted(old)}

\* BookingService.book for one passenger who names a seat or takes the first.
Book(trip, seat) ==
  /\ Len(rows) < MaxRows
  /\ seat \in FreeSeats(rows, trip[1], trip[2])
  /\ rows' = Append(rows, [from |-> trip[1], to |-> trip[2], seats |-> <<seat>>,
                           count |-> 1, status |-> "ACTIVE"])

Cancel(k) == rows' = [rows EXCEPT ![k].status = "CANCELLED"]

\* BookingService.rebook: the row is freed, and gets the first free seats.
Rebook(k) ==
  LET freed == [rows EXCEPT ![k].status = "CANCELLED"]
      free  == FreeSeats(freed, rows[k].from, rows[k].to)
  IN  /\ Cardinality(free) >= rows[k].count
      /\ rows' = [rows EXCEPT ![k].status = "ACTIVE",
                              ![k].seats = FirstFree(free, rows[k].count)]

Next ==
  \/ \E trip \in Trips, seat \in Seats : Book(trip, seat)
  \/ \E k \in DOMAIN rows : Cancel(k) \/ Rebook(k)

Spec == Init /\ [][Next]_rows
-----------------------------------------------------------------------------
\* An old count-only row goes on consuming its berths: no segment of the coach
\* ever carries more passengers than it has berths left by the seed.
NeverOversold ==
  \A k \in Segments :
    Passengers(SelectSeq(rows, LAMBDA row : Active(row) /\ k \in SpanOf(row)))
      <= Cardinality({s \in Seats : k \notin Seed[Coach][s]})
=============================================================================
