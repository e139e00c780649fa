---------------------------- MODULE SeatRegister ----------------------------
(***************************************************************************)
(* What the booking ledger promises its clients, with no connections,      *)
(* locks, copies or order of checks: a set of rows that changes by whole   *)
(* operations only.  An itinerary is sold in one step, a booking is moved  *)
(* in one step, bookings are cancelled, the register is wiped in one step, *)
(* and selling and moving leave every seat with one passenger at most.     *)
(***************************************************************************)
EXTENDS SeatInventory

CONSTANTS Requests, NoJourney

VARIABLE rows

Init == rows = <<>>

Run(row) == RunOf[row.coach]

\* All the legs of r appear together, under a reference of their own.
Sell(r) ==
  LET new == DOMAIN rows' \ DOMAIN rows
  IN  /\ DOMAIN rows \subseteq DOMAIN rows'
      /\ \A i \in DOMAIN rows : rows'[i] = rows[i]
      /\ Cardinality(new) = Len(r.legs)
      /\ {<<Run(rows'[i]), rows'[i].from, rows'[i].to>> : i \in new}
           = {<<Run(r.legs[k]), r.legs[k].from, r.legs[k].to>> : k \in 1..Len(r.legs)}
      /\ \A i, k \in new : rows'[i].journey = rows'[k].journey
      /\ \A i \in new :
           /\ rows'[i].status = "ACTIVE"
           /\ Len(rows'[i].seats) = r.count
           /\ (rows'[i].journey = NoJourney) <=> (r.kind = "single")
           /\ r.kind = "itinerary" =>
                \A k \in DOMAIN rows : rows[k].journey # rows'[i].journey
      /\ Exclusive(rows')

\* One booking or several at once; nothing else about them changes.
Cancel ==
  /\ DOMAIN rows' = DOMAIN rows
  /\ \A i \in DOMAIN rows : rows'[i] \in {rows[i], [rows[i] EXCEPT !.status = "CANCELLED"]}

\* Other seats, perhaps of another coach of the run, for the same stretch.
Move(i) ==
  /\ DOMAIN rows' = DOMAIN rows
  /\ \A k \in DOMAIN rows \ {i} : rows'[k] = rows[k]
  /\ Run(rows'[i]) = Run(rows[i])
  /\ rows'[i] = [rows[i] EXCEPT !.coach = rows'[i].coach,
                                !.seats = rows'[i].seats,
                                !.status = "ACTIVE"]
  /\ Exclusive(rows')

Wipe == rows' = <<>>

Next ==
  \/ \E r \in Requests : Sell(r)
  \/ Cancel
  \/ \E i \in DOMAIN rows : Move(i)
  \/ Wipe

Spec == Init /\ [][Next]_rows
=============================================================================
