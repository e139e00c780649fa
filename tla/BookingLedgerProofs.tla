------------------------- MODULE BookingLedgerProofs -------------------------
(***************************************************************************)
(* Proofs about BookingLedger, for any number of connections, coaches,     *)
(* seats, stops, requests and rows.                                        *)
(*                                                                         *)
(* The second half shows that it implements SeatRegister: what a           *)
(* transaction does to its copy of the rows, statement by statement, is    *)
(* for everybody else one whole sale, cancellation or move.  From that     *)
(* follow the properties of saved itineraries.                             *)
(***************************************************************************)
EXTENDS BookingLedger, FiniteSetTheorems, FunctionTheorems, TLAPS

-----------------------------------------------------------------------------
(* Lemmas about the inventory *)

\* An exclusive set of rows stays exclusive when each of its active rows is
\* matched, one to one, by an active row with the same seats and stretch
\* (cancelling, deleting and copying rows, booking_store.py:423-431, 576-579).
LEMMA ExclusiveEmbeds ==
  ASSUME NEW rows, NEW other, NEW f \in [DOMAIN other -> DOMAIN rows],
         Exclusive(rows),
         \A i, k \in DOMAIN other : f[i] = f[k] => i = k,
         \A i \in DOMAIN other : other[i].status = "ACTIVE" =>
           /\ rows[f[i]].status = "ACTIVE"
           /\ rows[f[i]].coach = other[i].coach
           /\ rows[f[i]].seats = other[i].seats
           /\ rows[f[i]].from = other[i].from
           /\ rows[f[i]].to = other[i].to
  PROVE  Exclusive(other)
<1>1. ASSUME NEW c \in Coaches, NEW i \in ActiveIn(other, c)
      PROVE  /\ f[i] \in ActiveIn(rows, c)
             /\ SeatsOf(rows[f[i]]) = SeatsOf(other[i])
             /\ SpanOf(rows[f[i]]) = SpanOf(other[i])
  BY DEF ActiveIn, SeatsOf, SpanOf
<1>2. OutsideSeed(other)
  BY <1>1 DEF Exclusive, OutsideSeed
<1>3. Disjoint(other)
  <2> SUFFICES ASSUME NEW c \in Coaches, NEW i \in ActiveIn(other, c),
                      NEW k \in ActiveIn(other, c),
                      i # k, SeatsOf(other[i]) \cap SeatsOf(other[k]) # {}
               PROVE  SpanOf(other[i]) \cap SpanOf(other[k]) = {}
    BY DEF Disjoint
  <2>1. f[i] # f[k]
    BY DEF ActiveIn
  <2> QED
    BY <1>1, <2>1, SMTT(30) DEF Exclusive, Disjoint
<1> QED
  BY <1>2, <1>3 DEF Exclusive

\* Inserting a row whose seats inventory.available() reports free over its
\* stretch keeps the rows exclusive (booking_store.py:500-524).
LEMMA InsertKeepsExclusive ==
  ASSUME NEW rows, NEW id, NEW row,
         id \notin DOMAIN rows,
         Exclusive(rows),
         row.coach \in Coaches,
         \A s \in SeatsOf(row) : s \in Available(rows, row.coach, row.from, row.to)
  PROVE  Exclusive(Insert(rows, id, row))
<1> DEFINE more == Insert(rows, id, row)
<1>1. /\ DOMAIN more = DOMAIN rows \cup {id}
      /\ more[id] = row
      /\ \A i \in DOMAIN rows : more[i] = rows[i]
  BY DEF Insert
<1> HIDE DEF more
<1>2. ASSUME NEW c \in Coaches, NEW i \in ActiveIn(more, c), i # id
      PROVE  i \in ActiveIn(rows, c) /\ more[i] = rows[i]
  BY <1>1, <1>2 DEF ActiveIn
<1>3. ASSUME NEW s \in SeatsOf(row)
      PROVE  /\ Seed[row.coach][s] \cap SpanOf(row) = {}
             /\ \A i \in ActiveIn(rows, row.coach) :
                  s \in SeatsOf(rows[i]) => SpanOf(rows[i]) \cap SpanOf(row) = {}
  BY DEF Available, Occupied, SpanOf
<1>4. OutsideSeed(more)
  BY <1>1, <1>2, <1>3 DEF Exclusive, OutsideSeed, ActiveIn
<1>5. Disjoint(more)
  <2> SUFFICES ASSUME NEW c \in Coaches, NEW i \in ActiveIn(more, c),
                      NEW k \in ActiveIn(more, c),
                      i # k, NEW s \in SeatsOf(more[i]), s \in SeatsOf(more[k])
               PROVE  SpanOf(more[i]) \cap SpanOf(more[k]) = {}
    BY DEF Disjoint
  <2>1. CASE i # id /\ k # id
    BY <2>1, <1>2 DEF Exclusive, Disjoint
  <2>2. CASE i = id
    <3>1. row.coach = c /\ more[i] = row
      BY <2>2, <1>1 DEF ActiveIn
    <3> QED
      BY <2>2, <3>1, <1>2, <1>3
  <2>3. CASE k = id
    <3>1. row.coach = c /\ more[k] = row
      BY <2>3, <1>1 DEF ActiveIn
    <3> QED
      BY <2>3, <3>1, <1>2, <1>3
  <2> QED
    BY <2>1, <2>2, <2>3
<1> QED
  BY <1>4, <1>5 DEF Exclusive, more

\* What a leg that can be allocated gets: valid seat numbers, each of them free.
LEMMA AllocatedSeats ==
  ASSUME NEW rows, NEW leg \in Leg, NEW n \in Nat, Allocatable(rows, leg, n)
  PROVE  /\ Selected(rows, leg, n) \in Seq(Seats)
         /\ \A s \in SeatsOf([seats |-> Selected(rows, leg, n)]) :
              s \in Available(rows, leg.coach, leg.from, leg.to)
<1> DEFINE seats == Selected(rows, leg, n)
<1>1. /\ Len(seats) = n
      /\ \A i \in DOMAIN seats :
           seats[i] \in Seats /\ seats[i] \in Available(rows, leg.coach, leg.from, leg.to)
  BY DEF Allocatable
<1>2. seats \in Seq(Seats)
  <2>1. CASE ~leg.auto
    <3>1. seats = leg.seats /\ leg.seats \in Seq(Nat)
      BY <2>1 DEF Selected, Leg
    <3> QED
      BY <3>1, <1>1
  <2>2. CASE leg.auto
    <3> DEFINE free == Available(rows, leg.coach, leg.from, leg.to)
    <3>1. CASE Cardinality(free) < n
      BY <2>2, <3>1 DEF Selected
    <3>2. CASE ~(Cardinality(free) < n)
      <4>1. seats = FirstFree(free, n)
        BY <2>2, <3>2 DEF Selected
      <4>2. DOMAIN seats = 1..n /\ seats = [k \in 1..n |-> seats[k]]
        BY <4>1 DEF FirstFree
      <4> HIDE DEF seats
      <4> QED
        BY <4>2, <1>1
    <3> QED
      BY <3>1, <3>2
  <2> QED
    BY <2>1, <2>2
<1> QED
  BY <1>1, <1>2 DEF SeatsOf

\* The row that book() inserts is well formed and takes free seats only.
LEMMA NewRowAllocated ==
  ASSUME NEW rows, NEW leg \in Leg, NEW n \in Nat,
         NEW journey \in Journeys \cup {NoJourney},
         Bookable(rows, leg, n, journey)
  PROVE  LET row == NewRow(rows, leg, n, journey)
         IN  /\ row \in Row
             /\ \A s \in SeatsOf(row) : s \in Available(rows, row.coach, row.from, row.to)
<1> DEFINE row == NewRow(rows, leg, n, journey)
<1>1. Allocatable(rows, leg, n)
  BY DEF Bookable
<1>2. /\ Selected(rows, leg, n) \in Seq(Seats)
      /\ \A s \in SeatsOf([seats |-> Selected(rows, leg, n)]) :
           s \in Available(rows, leg.coach, leg.from, leg.to)
  BY <1>1, AllocatedSeats
<1>3. row.seats = Selected(rows, leg, n) /\ row.coach = leg.coach
      /\ row.from = leg.from /\ row.to = leg.to
  BY DEF NewRow
<1>4. SeatsOf(row) = SeatsOf([seats |-> Selected(rows, leg, n)])
  BY <1>3 DEF SeatsOf
<1>5. row \in Row
  BY <1>2 DEF NewRow, Row, Leg
<1> QED
  BY <1>2, <1>3, <1>4, <1>5

\* A set of rows as bookings.db can hold it.
Rows(rows) == DOMAIN rows \subseteq Ids /\ \A i \in DOMAIN rows : rows[i] \in Row

\* Inserting a row adds its id and leaves bookings.db well formed.
LEMMA InsertKeepsRows ==
  ASSUME NEW rows, Rows(rows), NEW id \in Ids, NEW row \in Row
  PROVE  Rows(Insert(rows, id, row)) /\ DOMAIN Insert(rows, id, row) = DOMAIN rows \cup {id}
BY DEF Rows, Insert

\* Cancelling frees seats and never takes one (booking_store.py:423-425).
LEMMA CancelKeeps ==
  ASSUME NEW rows, NEW id, Rows(rows)
  PROVE  /\ Rows(Cancelled(rows, id))
         /\ DOMAIN Cancelled(rows, id) = DOMAIN rows
         /\ Exclusive(rows) => Exclusive(Cancelled(rows, id))
<1> DEFINE other == Cancelled(rows, id)
           f == [i \in DOMAIN other |-> i]
<1>1. Rows(other) /\ DOMAIN other = DOMAIN rows
  BY DEF Rows, Cancelled, Row
<1>2. ASSUME NEW i \in DOMAIN other, other[i].status = "ACTIVE"
      PROVE  other[i] = rows[i]
  BY <1>2 DEF Rows, Cancelled, Row
<1>3. ASSUME Exclusive(rows) PROVE Exclusive(other)
  <2>1. f \in [DOMAIN other -> DOMAIN rows] /\ \A i \in DOMAIN other : f[i] = i
    BY <1>1
  <2> HIDE DEF f, other
  <2> QED
    BY <1>2, <1>3, <2>1, ExclusiveEmbeds
<1> QED
  BY <1>1, <1>3

\* after is rows with the booking id on other seats, in the given coach.
Reseated(rows, after, id, coach) ==
  /\ DOMAIN after = DOMAIN rows
  /\ \A i \in DOMAIN rows \ {id} : after[i] = rows[i]
  /\ after[id].coach = coach
  /\ after[id] = [rows[id] EXCEPT !.coach = coach, !.seats = after[id].seats,
                                  !.status = "ACTIVE"]

\* A rebooking changes one row, keeps its stretch and journey, and leaves the
\* rows exclusive (booking_store.py:571-580).
LEMMA RebookKeeps ==
  ASSUME NEW rows, Rows(rows), Exclusive(rows),
         NEW id \in DOMAIN rows, NEW new \in Ids \ DOMAIN rows,
         NEW coach \in Coaches, NEW n \in Nat,
         CanRebook(rows, id, coach, n)
  PROVE  LET after == Rebooked(rows, id, coach, n, new)
         IN  Rows(after) /\ Exclusive(after) /\ Reseated(rows, after, id, coach)
<1> DEFINE freed    == Cancelled(rows, id)
           leg      == RebookLeg(rows[id], coach)
           row      == NewRow(freed, leg, n, rows[id].journey)
           replaced == Insert(freed, new, row)
           copied   == [replaced EXCEPT ![id].seats  = replaced[new].seats,
                                        ![id].coach  = replaced[new].coach,
                                        ![id].status = "ACTIVE"]
           after    == Delete(copied, new)
           f        == [i \in DOMAIN after |-> IF i = id THEN new ELSE i]
<1>1. rows[id] \in Row /\ leg \in Leg
  <2>1. rows[id] \in Row
    BY DEF Rows
  <2>2. rows[id].from \in Stops /\ rows[id].to \in Stops
    BY <2>1 DEF Row
  <2> QED
    BY <2>1, <2>2 DEF RebookLeg, Leg
<1>2. Rows(freed) /\ DOMAIN freed = DOMAIN rows /\ Exclusive(freed)
  BY CancelKeeps
<1>3. /\ row \in Row
      /\ \A s \in SeatsOf(row) : s \in Available(freed, row.coach, row.from, row.to)
  <2>1. Bookable(freed, leg, n, rows[id].journey)
    BY DEF CanRebook
  <2>2. rows[id].journey \in Journeys \cup {NoJourney}
    BY <1>1 DEF Row
  <2> QED
    BY <1>1, <2>1, <2>2, NewRowAllocated
<1>4. /\ row.coach = coach /\ row.from = rows[id].from /\ row.to = rows[id].to
      /\ row.status = "ACTIVE"
  BY DEF NewRow, RebookLeg
<1>5. /\ Rows(replaced) /\ DOMAIN replaced = DOMAIN rows \cup {new}
      /\ Exclusive(replaced)
  <2> HIDE DEF freed, row
  <2>1. new \notin DOMAIN freed /\ new \in Ids /\ row.coach \in Coaches
    BY <1>2, <1>3 DEF Row
  <2>2. Rows(replaced) /\ DOMAIN replaced = DOMAIN freed \cup {new}
    BY <1>2, <1>3, <2>1, InsertKeepsRows
  <2>3. Exclusive(replaced)
    BY <1>2, <1>3, <2>1, InsertKeepsExclusive
  <2> QED
    BY <1>2, <2>2, <2>3
<1>6. /\ replaced[new] = row
      /\ \A i \in DOMAIN rows : replaced[i] = freed[i]
  BY <1>2 DEF Insert
<1>7. /\ DOMAIN after = DOMAIN rows
      /\ \A i \in DOMAIN rows : i # id => after[i] = replaced[i]
      /\ after[id] = [[[replaced[id] EXCEPT !.seats = row.seats]
                                      EXCEPT !.coach = row.coach]
                                      EXCEPT !.status = "ACTIVE"]
  BY <1>5, <1>6 DEF Delete
<1>8. freed[id].from = rows[id].from /\ freed[id].to = rows[id].to
  BY <1>1 DEF Cancelled, Row
<1> HIDE DEF after, copied, replaced, row, freed, leg
<1>9. /\ after[id] \in Row
      /\ after[id].seats = row.seats /\ after[id].coach = row.coach
      /\ after[id].from = row.from /\ after[id].to = row.to
  <2>1. freed[id] \in Row /\ replaced[id] = freed[id]
    BY <1>2, <1>6 DEF Rows
  <2>2. PICK old \in Row : old = replaced[id]
    BY <2>1
  <2>3. after[id] = [coach |-> row.coach, from |-> old.from, to |-> old.to,
                     seats |-> row.seats, journey |-> old.journey, status |-> "ACTIVE"]
    BY <1>7, <2>2 DEF Row
  <2> QED
    BY <1>3, <1>4, <1>8, <2>1, <2>2, <2>3 DEF Row
<1>10. Rows(after)
  BY <1>5, <1>7, <1>9 DEF Rows
<1>11. Exclusive(after)
  <2>1. f \in [DOMAIN after -> DOMAIN replaced]
    BY <1>5, <1>7
  <2>2. \A i, k \in DOMAIN after : f[i] = f[k] => i = k
    BY <1>7
  <2>3. ASSUME NEW i \in DOMAIN after, after[i].status = "ACTIVE"
        PROVE  /\ replaced[f[i]].status = "ACTIVE"
               /\ replaced[f[i]].coach = after[i].coach
               /\ replaced[f[i]].seats = after[i].seats
               /\ replaced[f[i]].from = after[i].from
               /\ replaced[f[i]].to = after[i].to
    BY <1>4, <1>6, <1>7, <1>9, <2>3
  <2> HIDE DEF f
  <2> QED
    BY <1>5, <2>1, <2>2, <2>3, ExclusiveEmbeds
<1>12. after = Rebooked(rows, id, coach, n, new)
  BY DEF Rebooked, after, copied, replaced, row, freed, leg
<1>13. \A i \in DOMAIN rows \ {id} : after[i] = rows[i]
  BY <1>2, <1>6, <1>7 DEF freed, Cancelled
<1>14. after[id] = [rows[id] EXCEPT !.coach = coach, !.seats = after[id].seats,
                                    !.status = "ACTIVE"]
  <2>1. replaced[id] = [rows[id] EXCEPT !.status = "CANCELLED"]
    BY <1>6 DEF freed, Cancelled
  <2>2. PICK old \in Row : old = rows[id]
    BY <1>1
  <2> QED
    BY <1>4, <1>7, <1>9, <2>1, <2>2, ZenonT(60) DEF Row
<1> QED
  BY <1>4, <1>7, <1>9, <1>10, <1>11, <1>12, <1>13, <1>14 DEF Reseated

-----------------------------------------------------------------------------
(* The inductive invariant *)

IInv == TypeOK /\ LedgerInv

\* A job of a booking kind is one of the requests; the other kinds are the
\* changes, which name a row.
LEMMA JobKinds ==
  ASSUME NEW j \in Jobs
  PROVE  /\ j.kind \in {"single", "itinerary"} => j \in Requests
         /\ j.kind \in {"cancel", "drop", "rebook"} => j \in Changes /\ j.id \in Ids
         /\ j # NoJob
<1>1. CASE j \in Requests
  BY <1>1, LedgerAssumption, SMTT(30) DEF NoJob
<1>2. CASE j \in Changes
  BY <1>2 DEF Changes, NoJob
<1>3. CASE j = Clear \/ j = Look
  BY <1>3 DEF Clear, Look, NoJob
<1> QED
  BY <1>1, <1>2, <1>3 DEF Jobs

\* The next leg of a booking under way, and the reference it will carry.
LEMMA NextLegTyped ==
  ASSUME IInv, NEW c \in Conns, phase[c] = "txn",
         job[c].kind \in {"single", "itinerary"}
  PROVE  /\ NextLeg(c) \in Leg
         /\ job[c].count \in Nat
         /\ JourneyRefs(c) \subseteq Journeys \cup {NoJourney}
         /\ Len(made[c]) + 1 <= Len(job[c].legs)
<1>1. job[c] \in Jobs /\ made[c] \in Seq(Ids) /\ Len(made[c]) < Len(job[c].legs)
  BY DEF IInv, TypeOK, LedgerInv, LegsInserted
<1>2. job[c] \in Requests
  BY <1>1, JobKinds
<1>3. job[c].legs \in Seq(Leg) /\ job[c].count \in Nat
  BY <1>2, LedgerAssumption
<1>4. Len(made[c]) + 1 \in 1..Len(job[c].legs)
  BY <1>1, <1>3
<1>5. NextLeg(c) \in Leg
  BY <1>3, <1>4 DEF NextLeg
<1>6. JourneyRefs(c) \subseteq Journeys \cup {NoJourney}
  <2>1. CASE job[c].kind = "single"
    BY <2>1 DEF JourneyRefs
  <2>2. CASE job[c].kind # "single" /\ made[c] = <<>>
    BY <2>2 DEF JourneyRefs, FreshJourneys
  <2>3. CASE job[c].kind # "single" /\ made[c] # <<>>
    <3>1. made[c][1] \in DOMAIN work
      BY <1>1, <2>3 DEF IInv, LedgerInv, LegsInserted
    <3>2. work[made[c][1]].journey \in Journeys \cup {NoJourney}
      BY <3>1 DEF IInv, TypeOK, Row
    <3> QED
      BY <2>3, <3>2 DEF JourneyRefs
  <2> QED
    BY <2>1, <2>2, <2>3
<1> QED
  BY <1>3, <1>4, <1>5, <1>6

\* Inserting a leg takes free seats of the transaction's copy only.
LEMMA InsertLegInv ==
  ASSUME IInv, NEW c \in Conns, InsertLeg(c)
  PROVE  IInv'
<1>1. PICK journey \in JourneyRefs(c), id \in FreshIds(work) :
        /\ CanAdd(c, journey)
        /\ work' = Insert(work, id, NewRow(work, NextLeg(c), job[c].count, journey))
        /\ made' = [made EXCEPT ![c] = Append(@, id)]
  BY DEF InsertLeg
<1> DEFINE row == NewRow(work, NextLeg(c), job[c].count, journey)
<1>2. /\ phase[c] = "txn" /\ job[c].kind \in {"single", "itinerary"}
      /\ phase' = [phase EXCEPT ![c] = IF Len(made[c]) + 1 = Len(job[c].legs)
                                       THEN "commit" ELSE "txn"]
      /\ UNCHANGED <<ledger, lock, open, job, retired>>
  BY DEF InsertLeg
<1>3. /\ NextLeg(c) \in Leg /\ job[c].count \in Nat
      /\ journey \in Journeys \cup {NoJourney}
      /\ Len(made[c]) + 1 <= Len(job[c].legs)
  BY <1>2, NextLegTyped
<1>4. id \in Ids /\ id \notin DOMAIN work
  BY DEF FreshIds
<1>5. /\ row \in Row
      /\ \A s \in SeatsOf(row) : s \in Available(work, row.coach, row.from, row.to)
  BY <1>1, <1>3, NewRowAllocated DEF CanAdd
<1> HIDE DEF row
<1>6. Rows(work) /\ Exclusive(work) /\ row.coach \in Coaches
  BY <1>5 DEF IInv, TypeOK, LedgerInv, Rows, Row
<1>7. Rows(work') /\ DOMAIN work' = DOMAIN work \cup {id}
  <2>1. work' = Insert(work, id, row)
    BY <1>1 DEF row
  <2> QED
    BY <2>1, <1>4, <1>5, <1>6, InsertKeepsRows
<1>8. Exclusive(work)'
  <2>1. work' = Insert(work, id, row)
    BY <1>1 DEF row
  <2>2. Exclusive(Insert(work, id, row))
    BY <1>4, <1>5, <1>6, InsertKeepsExclusive
  <2> QED
    BY <2>1, <2>2 DEF Exclusive, OutsideSeed, Disjoint, ActiveIn
<1>9. made[c] \in Seq(Ids) /\ made' \in [Conns -> Seq(Ids)] /\ made'[c] = Append(made[c], id)
      /\ \A d \in Conns \ {c} : made'[d] = made[d]
  BY <1>1, <1>4 DEF IInv, TypeOK
<1>10. TypeOK'
  BY <1>2, <1>7, <1>9 DEF IInv, TypeOK, Rows, Phases
<1>11. LockHeld'
  BY <1>2 DEF IInv, TypeOK, LedgerInv, LockHeld
<1>12. LegsInserted'
  <2> SUFFICES ASSUME NEW d \in Conns
               PROVE  /\ phase'[d] # "idle" => job[d] \in Jobs
                      /\ phase'[d] \in {"txn", "commit"} =>
                           \A k \in DOMAIN made'[d] : made'[d][k] \in DOMAIN work'
                      /\ phase'[d] = "txn" /\ job[d].kind \in {"single", "itinerary"} =>
                           Len(made'[d]) < Len(job[d].legs)
    BY <1>2 DEF LegsInserted
  <2>1. CASE d # c
    BY <2>1, <1>2, <1>7, <1>9 DEF IInv, TypeOK, LedgerInv, LegsInserted
  <2>2. CASE d = c
    <3>1. job[c] \in Jobs /\ phase \in [Conns -> Phases]
      BY <1>2 DEF IInv, TypeOK, LedgerInv, LegsInserted
    <3>2. /\ Len(made'[c]) = Len(made[c]) + 1
          /\ DOMAIN made'[c] = 1..(Len(made[c]) + 1)
          /\ \A k \in DOMAIN made[c] : made'[c][k] = made[c][k]
          /\ made'[c][Len(made[c]) + 1] = id
      BY <1>9
    <3>3. \A k \in DOMAIN made'[c] : made'[c][k] \in DOMAIN work'
      BY <1>2, <1>7, <1>9, <3>1, <3>2 DEF IInv, LedgerInv, LegsInserted
    <3>4. job[c] \in Requests /\ Len(job[c].legs) \in Nat
      BY <1>2, <3>1, JobKinds, LedgerAssumption
    <3>5. phase'[c] = "txn" => Len(made'[c]) < Len(job[c].legs)
      BY <1>2, <1>3, <1>9, <3>1, <3>2, <3>4
    <3> QED
      BY <2>2, <3>1, <3>3, <3>5
  <2> QED
    BY <2>1, <2>2
<1>13. Exclusive(ledger)'
  BY <1>2 DEF IInv, LedgerInv, Exclusive, OutsideSeed, Disjoint, ActiveIn
<1> QED
  BY <1>8, <1>10, <1>11, <1>12, <1>13 DEF IInv, LedgerInv

\* Rebooking moves a booking to free seats and keeps the rows it found.
LEMMA RebookInv ==
  ASSUME IInv, NEW c \in Conns, Rebook(c)
  PROVE  IInv'
<1>1. /\ phase[c] = "txn" /\ phase' = [phase EXCEPT ![c] = "commit"]
      /\ job[c].id \in DOMAIN work
      /\ UNCHANGED <<ledger, lock, open, job, made, retired>>
  BY DEF Rebook, Goto
<1> DEFINE id == job[c].id
<1>2. PICK coach \in CoachesOfRun(work[id]), n \in PassengerCounts(work[id]),
           new \in FreshIds(work) :
        /\ CanRebook(work, id, coach, n)
        /\ work' = Rebooked(work, id, coach, n, new)
  BY DEF Rebook
<1>3. coach \in Coaches /\ new \in Ids \ DOMAIN work
  BY DEF CoachesOfRun, FreshIds
<1>4. Rows(work) /\ Exclusive(work) /\ work[id] \in Row
  BY <1>1 DEF IInv, TypeOK, LedgerInv, Rows
<1>5. n \in Nat
  BY <1>4, LedgerAssumption DEF PassengerCounts, Row
<1> HIDE DEF id
<1>6. /\ Rows(Rebooked(work, id, coach, n, new))
      /\ DOMAIN Rebooked(work, id, coach, n, new) = DOMAIN work
      /\ Exclusive(Rebooked(work, id, coach, n, new))
  <2>1. id \in DOMAIN work
    BY <1>1 DEF id
  <2>2. CanRebook(work, id, coach, n) /\ Exclusive(work)
    BY <1>2, <1>4
  <2>3. /\ Rows(Rebooked(work, id, coach, n, new))
        /\ Exclusive(Rebooked(work, id, coach, n, new))
        /\ Reseated(work, Rebooked(work, id, coach, n, new), id, coach)
    BY <2>1, <2>2, <1>3, <1>4, <1>5, RebookKeeps
  <2> QED
    BY <2>3 DEF Reseated
<1>7. Rows(work') /\ DOMAIN work' = DOMAIN work
  BY <1>2, <1>6
<1>8. Exclusive(work)'
  BY <1>2, <1>6 DEF Exclusive, OutsideSeed, Disjoint, ActiveIn
<1>9. TypeOK'
  BY <1>1, <1>7 DEF IInv, TypeOK, Rows, Phases
<1>10. LockHeld' /\ LegsInserted'
  BY <1>1, <1>7 DEF IInv, TypeOK, LedgerInv, LockHeld, LegsInserted
<1>11. Exclusive(ledger)'
  BY <1>1 DEF IInv, LedgerInv, Exclusive, OutsideSeed, Disjoint, ActiveIn
<1> QED
  BY <1>8, <1>9, <1>10, <1>11 DEF IInv, LedgerInv

\* A PATCH to CANCELLED only frees seats of the copy.
LEMMA DropInv ==
  ASSUME IInv, NEW c \in Conns, Drop(c)
  PROVE  IInv'
<1>1. /\ phase[c] = "txn" /\ phase' = [phase EXCEPT ![c] = "commit"]
      /\ work' = Cancelled(work, job[c].id)
      /\ UNCHANGED <<ledger, lock, open, job, made, retired>>
  BY DEF Drop, Goto
<1>2. Rows(work) /\ Exclusive(work)
  BY DEF IInv, TypeOK, LedgerInv, Rows
<1>3. /\ Rows(Cancelled(work, job[c].id))
      /\ DOMAIN Cancelled(work, job[c].id) = DOMAIN work
      /\ Exclusive(Cancelled(work, job[c].id))
  BY <1>2, CancelKeeps
<1>4. Rows(work') /\ DOMAIN work' = DOMAIN work
  BY <1>1, <1>3
<1>5. Exclusive(work)'
  BY <1>1, <1>3 DEF Exclusive, OutsideSeed, Disjoint, ActiveIn
<1>6. TypeOK'
  BY <1>1, <1>4 DEF IInv, TypeOK, Rows, Phases
<1>7. LockHeld' /\ LegsInserted'
  BY <1>1, <1>4 DEF IInv, TypeOK, LedgerInv, LockHeld, LegsInserted
<1>8. Exclusive(ledger)'
  BY <1>1 DEF IInv, LedgerInv, Exclusive, OutsideSeed, Disjoint, ActiveIn
<1> QED
  BY <1>5, <1>6, <1>7, <1>8 DEF IInv, LedgerInv

\* No rows, no conflict.
LEMMA NoRows == Rows(<<>>) /\ DOMAIN <<>> = {} /\ Exclusive(<<>>)
BY DEF Rows, Exclusive, OutsideSeed, Disjoint, ActiveIn

\* What somebody holds in the way of a lock, nobody else holds.
LEMMA OneHolder ==
  ASSUME IInv, NEW c \in Conns, lock \in {NoConn, c}, NEW d \in Conns, d # c
  PROVE  phase[d] \notin {"txn", "commit"} /\ open[d] \notin {"writing", "unsaved"}
BY LedgerAssumption DEF IInv, LedgerInv, LockHeld

\* The rows a connection sees, and the rows after its UPDATE, are well formed
\* and exclusive, whatever it has left open (booking_store.py:414-416).
LEMMA SeenSound ==
  ASSUME IInv, NEW c \in Conns
  PROVE  /\ Rows(Seen(c)) /\ Exclusive(Seen(c))
         /\ Rows(Updated(c)) /\ Exclusive(Updated(c))
<1>1. Rows(Seen(c)) /\ Exclusive(Seen(c))
  BY DEF IInv, TypeOK, LedgerInv, Rows, Seen
<1>2. Updated(c) \in {Seen(c), Cancelled(Seen(c), job[c].id)}
  BY DEF Updated
<1> QED
  BY <1>1, <1>2, CancelKeeps

\* The steps of a transaction that only open or close it.
LEMMA TransactionInv ==
  ASSUME IInv, NEW c \in Conns, Begin(c) \/ Commit(c) \/ CommitBusy(c) \/ Rollback(c)
  PROVE  IInv'
<1>1. CASE Begin(c)
  <2>1. /\ phase' = [phase EXCEPT ![c] = "txn"] /\ phase[c] = "asked" /\ lock = NoConn
        /\ lock' = c /\ work' = ledger /\ made' = [made EXCEPT ![c] = <<>>]
        /\ open[c] = "no"
        /\ UNCHANGED <<ledger, open, job, retired>>
    BY <1>1 DEF Begin, Goto
  <2>2. TypeOK'
    BY <2>1 DEF IInv, TypeOK, Phases
  <2>3. \A d \in Conns \ {c} : /\ phase'[d] = phase[d]
                               /\ phase[d] \notin {"txn", "commit"}
                               /\ open[d] \notin {"writing", "unsaved"}
    BY <2>1, OneHolder DEF IInv, TypeOK
  <2>4. LockHeld'
    BY <2>1, <2>3 DEF IInv, TypeOK, LockHeld
  <2>5. LegsInserted'
    <3>1. job[c] \in Jobs
      BY <2>1 DEF IInv, LedgerInv, LegsInserted
    <3>2. ASSUME job[c].kind \in {"single", "itinerary"} PROVE 0 < Len(job[c].legs)
      <4>1. job[c] \in Requests
        BY <3>1, <3>2, JobKinds
      <4>2. Len(job[c].legs) \in 1..3
        BY <4>1, LedgerAssumption
      <4> QED
        BY <4>2, SMTT(30)
    <3>3. made'[c] = <<>>
      BY <2>1 DEF IInv, TypeOK
    <3> QED
      BY <2>1, <2>3, <3>1, <3>2, <3>3 DEF IInv, LedgerInv, LegsInserted
  <2>6. Exclusive(ledger)' /\ Exclusive(work)'
    BY <2>1 DEF IInv, LedgerInv, Exclusive, OutsideSeed, Disjoint, ActiveIn
  <2> QED
    BY <2>2, <2>4, <2>5, <2>6 DEF IInv, LedgerInv
<1>2. CASE Commit(c) \/ CommitBusy(c) \/ Rollback(c)
  <2>1. PICK end \in {"ok", "refused"} : phase' = [phase EXCEPT ![c] = end]
    BY <1>2 DEF Commit, CommitBusy, Rollback, Goto
  <2>2. /\ phase[c] \in {"txn", "commit"}
        /\ lock' = NoConn /\ work' = <<>> /\ made' = [made EXCEPT ![c] = <<>>]
        /\ ledger' \in {ledger, work}
        /\ UNCHANGED <<open, job, retired>>
    BY <1>2 DEF Commit, CommitBusy, Rollback, Discard, Goto
  <2>3. TypeOK'
    BY <2>1, <2>2, NoRows DEF IInv, TypeOK, Phases
  <2>4. lock = c /\ open[c] = "no"
    BY <2>2 DEF IInv, LedgerInv, LockHeld
  <2>5. /\ phase'[c] \notin {"txn", "commit"}
        /\ \A d \in Conns \ {c} : /\ phase'[d] = phase[d]
                                  /\ phase[d] \notin {"txn", "commit"}
                                  /\ open[d] \notin {"writing", "unsaved"}
    BY <2>1, <2>4, OneHolder DEF IInv, TypeOK
  <2>6. LockHeld'
    BY <2>2, <2>4, <2>5, LedgerAssumption DEF LockHeld
  <2>7. LegsInserted'
    BY <2>2, <2>5 DEF IInv, LedgerInv, LegsInserted
  <2>8. Exclusive(ledger')
    BY <2>2 DEF IInv, LedgerInv
  <2>9. Exclusive(work')
    BY <2>2, NoRows
  <2>10. Exclusive(ledger)' /\ Exclusive(work)'
    BY <2>8, <2>9 DEF Exclusive, OutsideSeed, Disjoint, ActiveIn
  <2> QED
    BY <2>3, <2>6, <2>7, <2>10 DEF IInv, LedgerInv
<1> QED
  BY <1>1, <1>2

\* A step that leaves the lock, the copy and the phases "txn" and "commit"
\* alone and gives no connection a job that is none keeps the bookkeeping.
LEMMA OutsideTransactionInv ==
  ASSUME IInv, NEW c \in Conns, NEW to \in Phases \ {"txn", "commit"},
         phase[c] \notin {"txn", "commit"},
         phase' = [phase EXCEPT ![c] = to],
         \/ job' = job /\ phase[c] # "idle"
         \/ \E j \in Jobs : job' = [job EXCEPT ![c] = j]
         \/ job' = [job EXCEPT ![c] = NoJob] /\ to = "idle",
         NEW left \in Open, open' = [open EXCEPT ![c] = left],
         left = open[c] \/ {left, open[c]} \subseteq {"no", "begun", "reading"},
         UNCHANGED <<ledger, work, lock, made, retired>>
  PROVE  IInv'
<1>1. TypeOK'
  BY DEF IInv, TypeOK
<1>2. LockHeld'
  <2>1. \A d \in Conns \ {c} : phase'[d] = phase[d] /\ open'[d] = open[d]
    BY DEF IInv, TypeOK
  <2>2. phase'[c] = to /\ open'[c] = left
    BY DEF IInv, TypeOK
  <2>3. left \in {"writing", "unsaved"} <=> open[c] \in {"writing", "unsaved"}
    OBVIOUS
  <2> QED
    BY <2>1, <2>2, <2>3 DEF IInv, LedgerInv, LockHeld
<1>3. LegsInserted'
  <2>1. \A d \in Conns : d # c => phase'[d] = phase[d] /\ job'[d] = job[d]
    BY DEF IInv, TypeOK
  <2>2. phase'[c] = to
    BY DEF IInv, TypeOK
  <2>3. to # "idle" => job'[c] \in Jobs
    BY DEF IInv, TypeOK, LedgerInv, LegsInserted
  <2> QED
    BY <2>1, <2>2, <2>3 DEF IInv, LedgerInv, LegsInserted
<1>4. Exclusive(ledger)' /\ Exclusive(work)'
  BY DEF IInv, LedgerInv, Exclusive, OutsideSeed, Disjoint, ActiveIn
<1> QED
  BY <1>1, <1>2, <1>3, <1>4 DEF IInv, LedgerInv

\* So does one that takes the write lock outside transaction(), keeps it or
\* gives it back, and leaves exclusive rows behind.
LEMMA LockOutsideInv ==
  ASSUME IInv, NEW c \in Conns, NEW to \in Phases \ {"idle", "txn", "commit"},
         phase[c] \notin {"idle", "txn", "commit"},
         phase' = [phase EXCEPT ![c] = to],
         lock \in {NoConn, c},
         NEW left \in Open, open' = [open EXCEPT ![c] = left],
         lock' = IF left \in {"writing", "unsaved"} THEN c ELSE NoConn,
         UNCHANGED <<job, made>>,
         Rows(work'), Exclusive(work'),
         Rows(ledger'), Exclusive(ledger'), retired' \subseteq Ids
  PROVE  IInv'
<1>1. TypeOK'
  BY DEF IInv, TypeOK, Rows
<1>2. /\ phase'[c] = to /\ open'[c] = left
      /\ \A d \in Conns \ {c} : /\ phase'[d] = phase[d] /\ open'[d] = open[d]
                                /\ phase[d] \notin {"txn", "commit"}
                                /\ open[d] \notin {"writing", "unsaved"}
  BY OneHolder DEF IInv, TypeOK
<1>3. LockHeld'
  BY <1>2, LedgerAssumption DEF LockHeld
<1>4. LegsInserted'
  BY <1>2 DEF IInv, LedgerInv, LegsInserted
<1>5. Exclusive(ledger)' /\ Exclusive(work)'
  BY DEF Exclusive, OutsideSeed, Disjoint, ActiveIn
<1> QED
  BY <1>1, <1>3, <1>4, <1>5 DEF IInv, LedgerInv

\* What c does without touching any rows, in or out of a transaction of its own.
Quiet(c) ==
  \/ \E j \in Jobs : Ask(c, j)
  \/ Busy(c) \/ CancelFind(c) \/ CancelBusy(c) \/ CancelReread(c)
  \/ LookUp(c) \/ ReadBusy(c) \/ Return(c)

\* It is outside transaction() and stays there; it may begin a transaction of
\* Python's own or begin to share the file in it, which takes no write lock.
LEMMA QuietSteps ==
  ASSUME IInv, NEW c \in Conns, Quiet(c)
  PROVE  /\ phase[c] \notin {"txn", "commit"}
         /\ \E to \in Phases \ {"txn", "commit"} :
              /\ phase' = [phase EXCEPT ![c] = to]
              /\ \/ job' = job /\ phase[c] # "idle"
                 \/ \E j \in Jobs : job' = [job EXCEPT ![c] = j]
                 \/ job' = [job EXCEPT ![c] = NoJob] /\ to = "idle"
         /\ \E left \in Open :
              /\ open' = [open EXCEPT ![c] = left]
              /\ left = open[c] \/ {left, open[c]} \subseteq {"no", "begun", "reading"}
         /\ UNCHANGED <<ledger, work, lock, made, retired>>
<1> open \in [Conns -> Open] /\ [open EXCEPT ![c] = open[c]] = open /\ open[c] \in Open
  BY DEF IInv, TypeOK
<1>1. ASSUME NEW j \in Jobs, Ask(c, j)
      PROVE  /\ phase[c] = "idle" /\ phase' = [phase EXCEPT ![c] = "asked"]
             /\ job' = [job EXCEPT ![c] = j]
             /\ UNCHANGED <<ledger, work, lock, open, made, retired>>
  BY <1>1 DEF Ask, Goto
<1>2. ASSUME Return(c)
      PROVE  /\ phase[c] \in {"ok", "refused", "asserted"}
             /\ phase' = [phase EXCEPT ![c] = "idle"]
             /\ job' = [job EXCEPT ![c] = NoJob]
             /\ UNCHANGED <<ledger, work, lock, open, made, retired>>
  BY <1>2 DEF Return
<1>3. ASSUME Busy(c) \/ CancelReread(c) \/ ReadBusy(c)
      PROVE  /\ phase[c] \in {"asked", "written"}
             /\ \E to \in {"ok", "refused", "asserted"} : phase' = [phase EXCEPT ![c] = to]
             /\ UNCHANGED <<ledger, work, lock, open, job, made, retired>>
  BY <1>3 DEF Busy, CancelReread, ReadBusy, Goto
<1>4. ASSUME CancelFind(c) \/ LookUp(c) \/ CancelBusy(c)
      PROVE  /\ phase[c] \in {"asked", "found"}
             /\ \E to \in {"found", "ok", "refused"} : phase' = [phase EXCEPT ![c] = to]
             /\ UNCHANGED <<ledger, work, lock, job, made, retired>>
  BY <1>4 DEF CancelFind, LookUp, CancelBusy, Goto
<1>5. ASSUME CancelFind(c) \/ LookUp(c) \/ CancelBusy(c)
      PROVE  \E left \in Open :
               /\ open' = [open EXCEPT ![c] = left]
               /\ left = open[c] \/ {left, open[c]} \subseteq {"no", "begun", "reading"}
  <2>1. CASE CancelFind(c) \/ LookUp(c)
    <3>1. open' = [open EXCEPT ![c] = IF open[c] = "begun" THEN "reading" ELSE open[c]]
      BY <2>1 DEF CancelFind, LookUp, AfterRead
    <3> QED
      BY <3>1 DEF Open
  <2>2. CASE CancelBusy(c)
    <3>1. open' = [open EXCEPT ![c] = IF open[c] = "no" THEN "begun" ELSE open[c]]
      BY <2>2 DEF CancelBusy
    <3> QED
      BY <3>1 DEF Open
  <2> QED
    BY <1>5, <2>1, <2>2
<1> QED
  <2>1. CASE \E j \in Jobs : Ask(c, j)
    BY <1>1, <2>1 DEF Phases
  <2>2. CASE Return(c)
    BY <1>2, <2>2 DEF Phases
  <2>3. CASE Busy(c) \/ CancelReread(c) \/ ReadBusy(c)
    BY <1>3, <2>3 DEF Phases
  <2>4. CASE CancelFind(c) \/ LookUp(c) \/ CancelBusy(c)
    <3>1. PICK to \in {"found", "ok", "refused"} : phase' = [phase EXCEPT ![c] = to]
      BY <1>4, <2>4
    <3> QED
      BY <1>4, <1>5, <2>4, <3>1 DEF Phases
  <2> QED
    BY <2>1, <2>2, <2>3, <2>4 DEF Quiet

\* Asking, reading, being refused and answering keep the invariant.
LEMMA QuietInv ==
  ASSUME IInv, NEW c \in Conns, Quiet(c)
  PROVE  IInv'
<1>1. PICK to \in Phases \ {"txn", "commit"} :
        /\ phase' = [phase EXCEPT ![c] = to]
        /\ \/ job' = job /\ phase[c] # "idle"
           \/ \E j \in Jobs : job' = [job EXCEPT ![c] = j]
           \/ job' = [job EXCEPT ![c] = NoJob] /\ to = "idle"
  BY QuietSteps
<1>2. PICK left \in Open :
        /\ open' = [open EXCEPT ![c] = left]
        /\ left = open[c] \/ {left, open[c]} \subseteq {"no", "begun", "reading"}
  BY QuietSteps
<1>3. phase[c] \notin {"txn", "commit"} /\ UNCHANGED <<ledger, work, lock, made, retired>>
  BY QuietSteps
<1> QED
  BY <1>1, <1>2, <1>3, OutsideTransactionInv

\* A BEGIN within an open transaction, an UPDATE or DELETE outside
\* transaction(), saved or not (booking_store.py:249, 414-437).
LEMMA WriteInv ==
  ASSUME IInv, NEW c \in Conns,
         BeginWithin(c) \/ CancelWrite(c) \/ CancelUnsaved(c) \/ ClearAll(c)
  PROVE  IInv'
<1>1. /\ Rows(ledger) /\ Exclusive(ledger) /\ retired \subseteq Ids /\ open[c] \in Open
      /\ open \in [Conns -> Open]
  BY DEF IInv, TypeOK, LedgerInv, Rows
<1>2. /\ lock \in {NoConn, c} /\ UNCHANGED <<job, made>>
      /\ phase[c] \in {"asked", "found"}
  BY DEF BeginWithin, CancelWrite, CancelUnsaved, ClearAll, Waits, Goto
<1>3. PICK to \in {"refused", "written", "ok"} : phase' = [phase EXCEPT ![c] = to]
  BY DEF BeginWithin, CancelWrite, CancelUnsaved, ClearAll, Goto
<1>4. to \in Phases \ {"idle", "txn", "commit"} /\ phase[c] \notin {"idle", "txn", "commit"}
  BY <1>2 DEF Phases
<1>5. CASE BeginWithin(c)
  <2>1. PICK left \in {"writing", "unsaved"} : open' = [open EXCEPT ![c] = left]
    BY <1>5 DEF BeginWithin
  <2>2. lock' = c /\ work' = Seen(c) /\ UNCHANGED <<ledger, retired>> /\ left \in Open
    BY <1>5, <2>1 DEF BeginWithin, Open
  <2> QED
    BY <1>1, <1>2, <1>3, <1>4, <2>1, <2>2, SeenSound, LockOutsideInv
<1>6. CASE CancelUnsaved(c)
  <2>1. /\ lock' = c /\ work' = Updated(c) /\ UNCHANGED <<ledger, retired>>
        /\ open' = [open EXCEPT ![c] = "unsaved"] /\ "unsaved" \in Open
    BY <1>6 DEF CancelUnsaved, Open
  <2> QED
    BY <1>1, <1>2, <1>3, <1>4, <2>1, SeenSound, LockOutsideInv
<1>7. CASE CancelWrite(c) \/ ClearAll(c)
  <2>1. /\ lock' = NoConn /\ work' = <<>>
        /\ open' = [open EXCEPT ![c] = "no"] /\ "no" \in Open
        /\ "no" \notin {"writing", "unsaved"}
    BY <1>7 DEF CancelWrite, ClearAll, Open
  <2>2. Rows(ledger') /\ Exclusive(ledger') /\ retired' \subseteq Ids
    <3>1. CASE CancelWrite(c)
      BY <1>1, <3>1, SeenSound DEF CancelWrite
    <3>2. CASE ClearAll(c)
      BY <1>1, <3>2, NoRows DEF ClearAll, Rows
    <3> QED
      BY <1>7, <3>1, <3>2
  <2>3. Rows(work') /\ Exclusive(work')
    BY <2>1, NoRows
  <2> QED
    BY <1>1, <1>2, <1>3, <1>4, <2>1, <2>2, <2>3, LockOutsideInv
<1> QED
  BY <1>5, <1>6, <1>7

\* A program that ends discards its copy and frees the lock, or touches
\* neither.
LEMMA RestartInv ==
  ASSUME IInv, NEW c \in Conns, Restart(c)
  PROVE  IInv'
<1>1. /\ phase' = [phase EXCEPT ![c] = "idle"]
      /\ job' = [job EXCEPT ![c] = NoJob]
      /\ made' = [made EXCEPT ![c] = <<>>]
      /\ open' = [open EXCEPT ![c] = "no"]
      /\ lock' = IF lock = c THEN NoConn ELSE lock
      /\ work' = IF lock = c THEN <<>> ELSE work
      /\ UNCHANGED <<ledger, retired>>
  BY DEF Restart
<1>2. Rows(work') /\ Exclusive(work')
  <2>1. Rows(work) /\ Exclusive(work)
    BY DEF IInv, TypeOK, LedgerInv, Rows
  <2> QED
    BY <1>1, <2>1, NoRows
<1>3. TypeOK'
  BY <1>1, <1>2 DEF IInv, TypeOK, Rows, Phases, Open
<1>4. /\ phase'[c] = "idle" /\ open'[c] = "no"
      /\ \A d \in Conns \ {c} : /\ phase'[d] = phase[d] /\ open'[d] = open[d]
                                /\ job'[d] = job[d] /\ made'[d] = made[d]
  BY <1>1 DEF IInv, TypeOK
<1>5. LockHeld'
  <2>1. lock' # c /\ \A d \in Conns \ {c} : lock' = d <=> lock = d
    BY <1>1, LedgerAssumption
  <2> QED
    BY <1>4, <2>1 DEF IInv, LedgerInv, LockHeld
<1>6. LegsInserted'
  <2>1. \A d \in Conns \ {c} : phase[d] \in {"txn", "commit"} => work' = work
    BY <1>1 DEF IInv, LedgerInv, LockHeld
  <2> QED
    BY <1>4, <2>1 DEF IInv, LedgerInv, LegsInserted
<1>7. Exclusive(ledger)' /\ Exclusive(work)'
  BY <1>1, <1>2 DEF IInv, LedgerInv, Exclusive, OutsideSeed, Disjoint, ActiveIn
<1> QED
  BY <1>3, <1>5, <1>6, <1>7 DEF IInv, LedgerInv

\* An empty ledger with nobody connected to it satisfies the invariant.
LEMMA InitInv == Init => IInv
<1> SUFFICES ASSUME Init PROVE IInv
  OBVIOUS
<1>1. TypeOK
  BY NoRows DEF Init, TypeOK, Phases, Open
<1>2. LockHeld /\ LegsInserted
  BY LedgerAssumption DEF Init, LockHeld, LegsInserted
<1>3. Exclusive(ledger) /\ Exclusive(work)
  BY NoRows DEF Init
<1> QED
  BY <1>1, <1>2, <1>3 DEF IInv, LedgerInv

\* Every step of every program keeps the invariant.
LEMMA InductiveStep == IInv /\ [Next]_vars => IInv'
<1> SUFFICES ASSUME IInv, [Next]_vars PROVE IInv'
  OBVIOUS
<1>1. CASE UNCHANGED vars
  <2>1. UNCHANGED <<ledger, work, lock, open, phase, job, made, retired>>
    BY <1>1 DEF vars
  <2>2. TypeOK'
    BY <2>1 DEF IInv, TypeOK
  <2>3. LockHeld' /\ LegsInserted'
    BY <2>1 DEF IInv, LedgerInv, LockHeld, LegsInserted
  <2>4. Exclusive(ledger)' /\ Exclusive(work)'
    BY <2>1 DEF IInv, LedgerInv, Exclusive, OutsideSeed, Disjoint, ActiveIn
  <2> QED
    BY <2>2, <2>3, <2>4 DEF IInv, LedgerInv
<1>2. CASE Next
  <2> PICK c \in Conns : Step(c) \/ Crash(c) \/ \E j \in Jobs : Ask(c, j)
    BY <1>2 DEF Next
  <2>1. CASE Begin(c) \/ Commit(c) \/ CommitBusy(c) \/ Rollback(c)
    BY <2>1, TransactionInv
  <2>2. CASE InsertLeg(c)
    BY <2>2, InsertLegInv
  <2>3. CASE Rebook(c)
    BY <2>3, RebookInv
  <2>4. CASE Drop(c)
    BY <2>4, DropInv
  <2>5. CASE Quiet(c)
    BY <2>5, QuietInv
  <2>6. CASE BeginWithin(c) \/ CancelWrite(c) \/ CancelUnsaved(c) \/ ClearAll(c)
    BY <2>6, WriteInv
  <2>7. CASE Crash(c) \/ ClearBusy(c)
    BY <2>7, RestartInv DEF Crash, ClearBusy
  <2> QED
    BY <2>1, <2>2, <2>3, <2>4, <2>5, <2>6, <2>7 DEF Step, Quiet
<1> QED
  BY <1>1, <1>2

-----------------------------------------------------------------------------
(* The theorems *)

\* The inductive invariant holds of every behaviour: one holder of the write
\* lock, its bookkeeping right, and its copy exclusive at every moment.
THEOREM Invariance == Spec => []IInv
BY InitInv, InductiveStep, PTL DEF Spec

\* Every value the program keeps in the ledger and its connections is well
\* formed (booking_store.py:60-133).
THEOREM TypeCorrect == Spec => []TypeOK
<1>1. IInv => TypeOK
  BY DEF IInv
<1> QED
  BY <1>1, Invariance, PTL

\* The write lock, the bookkeeping of an itinerary under construction, and
\* exclusivity before and after the commit, for any number of connections.
THEOREM LedgerSound == Spec => []LedgerInv
<1>1. IInv => LedgerInv
  BY DEF IInv
<1> QED
  BY <1>1, Invariance, PTL

\* No two active bookings share a seat on a segment, and none takes a seat the
\* seed gave away, whatever the connections, requests, layouts and crashes
\* (booking_store.py:463-580, inventory.py:190-219).
THEOREM NoDoubleBooking == Spec => []SeatExclusive
<1>1. IInv => SeatExclusive
  BY DEF IInv, LedgerInv, SeatExclusive
<1> QED
  BY <1>1, Invariance, PTL

-----------------------------------------------------------------------------
(* Times *)

Buffer(a, b) == IF RunOf[a.coach] = RunOf[b.coach] THEN MinSeatChange ELSE MinTrainChange

\* The defaults are 5 and 20 minutes; an environment may set others
\* (config.py:13-14), so this is a hypothesis and no assumption.
Ordered == MinSeatChange <= MinTrainChange

\* A passenger of a can change to b.
InTime(a, b) == Arrival(a) + Buffer(a, b) <= Departure(b)

OnRoute(a) == a.coach \in Coaches /\ a.from \in Stops /\ a.to \in Stops

\* Times of rows are numbers.
LEMMA Minutes ==
  ASSUME NEW a, NEW b, OnRoute(a)
  PROVE  Departure(a) \in Nat /\ Arrival(a) \in Nat /\ Buffer(a, b) \in Nat
<1>1. RunOf[a.coach] \in Runs
  BY InventoryAssumption DEF OnRoute
<1>2. MinSeatChange \in Nat /\ MinTrainChange \in Nat
  BY LedgerAssumption
<1>3. DepartAt \in [Runs -> [Stops -> Nat]] /\ ArriveAt \in [Runs -> [Stops -> Nat]]
  BY LedgerAssumption
<1> QED
  BY <1>1, <1>2, <1>3 DEF OnRoute, Departure, Arrival, Buffer

\* Who can change from a to b and, having travelled, from b to d, could change
\* from a to d: a change of train takes no less than a change of seat.
LEMMA InTimeOn ==
  ASSUME Ordered, NEW a, NEW b, NEW d, OnRoute(a), OnRoute(b), OnRoute(d),
         InTime(a, b), Departure(b) < Arrival(b), InTime(b, d)
  PROVE  InTime(a, d)
<1>1. /\ Departure(a) \in Nat /\ Arrival(a) \in Nat /\ Departure(b) \in Nat
      /\ Arrival(b) \in Nat /\ Departure(d) \in Nat /\ Arrival(d) \in Nat
      /\ Buffer(a, b) \in Nat /\ Buffer(b, d) \in Nat /\ Buffer(a, d) \in Nat
  BY Minutes
<1>2. Buffer(a, d) <= Buffer(a, b) \/ Buffer(a, d) <= Buffer(b, d)
  BY LedgerAssumption DEF Buffer, Ordered
<1>3. Arrival(a) + Buffer(a, b) <= Departure(b) /\ Arrival(b) + Buffer(b, d) <= Departure(d)
  BY DEF InTime
<1>4. Arrival(a) + Buffer(a, d) <= Departure(d)
  BY <1>1, <1>2, <1>3
<1> QED
  BY <1>4 DEF InTime

\* Changing seats on the same run changes no times.
LEMMA SameTimes ==
  ASSUME NEW a, NEW b, NEW x, NEW y, Trip(a) = Trip(x), Trip(b) = Trip(y)
  PROVE  InTime(a, b) <=> InTime(x, y)
<1>1. /\ RunOf[a.coach] = RunOf[x.coach] /\ a.from = x.from /\ a.to = x.to
      /\ RunOf[b.coach] = RunOf[y.coach] /\ b.from = y.from /\ b.to = y.to
  BY DEF Trip
<1> QED
  BY <1>1 DEF InTime, Buffer, Arrival, Departure

-----------------------------------------------------------------------------
(* What a transaction does to the rows *)

\* The row carries the leg, for all passengers.
Carries(row, leg, n) ==
  /\ row.coach = leg.coach /\ row.from = leg.from /\ row.to = leg.to
  /\ row.status = "ACTIVE"
  /\ Len(row.seats) = n
  /\ OnRoute(row)
  /\ Departure(row) < Arrival(row)

\* A reference the journey of r may use.
RefOf(rows, r, journey) ==
  /\ journey = NoJourney <=> r.kind = "single"
  /\ r.kind = "itinerary" => \A i \in DOMAIN rows : rows[i].journey # journey

\* after is rows with the first legs of r added, under the given ids.
Sold(rows, after, r, ids) ==
  /\ ids \in Seq(Ids)
  /\ \A k, l \in DOMAIN ids : ids[k] = ids[l] => k = l
  /\ \A k \in DOMAIN ids : ids[k] \notin DOMAIN rows
  /\ DOMAIN after = DOMAIN rows \cup {ids[k] : k \in DOMAIN ids}
  /\ \A i \in DOMAIN rows : after[i] = rows[i]
  /\ Len(ids) <= Len(r.legs)
  /\ \A k \in DOMAIN ids : /\ Carries(after[ids[k]], r.legs[k], r.count)
                           /\ RefOf(rows, r, after[ids[k]].journey)
  /\ \A k, l \in DOMAIN ids : after[ids[k]].journey = after[ids[l]].journey
  /\ r.kind = "itinerary" /\ Ordered =>
       \A k, l \in DOMAIN ids : k < l => InTime(after[ids[k]], after[ids[l]])

\* after is rows with the booking id on other seats of its run.
Moved(rows, after, id) ==
  /\ DOMAIN after = DOMAIN rows
  /\ \A k \in DOMAIN rows \ {id} : after[k] = rows[k]
  /\ RunOf[after[id].coach] = RunOf[rows[id].coach]
  /\ after[id] = [rows[id] EXCEPT !.coach = after[id].coach,
                                  !.seats = after[id].seats,
                                  !.status = "ACTIVE"]

\* One more leg of an itinerary or of a single booking.
LEMMA SoldGrows ==
  ASSUME NEW rows, NEW after, NEW r \in Requests, NEW ids, Sold(rows, after, r, ids),
         Len(ids) < Len(r.legs),
         NEW id \in Ids, id \notin DOMAIN rows, id \notin DOMAIN after,
         NEW row, Carries(row, r.legs[Len(ids) + 1], r.count),
         RefOf(rows, r, row.journey),
         \A k \in DOMAIN ids : after[ids[k]].journey = row.journey,
         r.kind = "itinerary" /\ ids # <<>> => InTime(after[ids[Len(ids)]], row)
  PROVE  Sold(rows, Insert(after, id, row), r, Append(ids, id))
<1> DEFINE more == Insert(after, id, row)
           n == Len(ids)
           new == Append(ids, id)
<1>1. ids \in Seq(Ids) /\ n \in Nat /\ DOMAIN ids = 1..n
  BY DEF Sold
<1>2. /\ new \in Seq(Ids) /\ Len(new) = n + 1 /\ DOMAIN new = 1..(n + 1)
      /\ \A k \in 1..n : new[k] = ids[k]
      /\ new[n + 1] = id
  BY <1>1
<1>3. /\ DOMAIN more = DOMAIN after \cup {id}
      /\ more[id] = row
      /\ \A i \in DOMAIN after : more[i] = after[i]
  BY DEF Insert
<1>4. Len(r.legs) \in Nat
  BY LedgerAssumption
<1>5. \A k \in 1..n : ids[k] \in DOMAIN after /\ ids[k] # id /\ more[new[k]] = after[ids[k]]
  BY <1>1, <1>2, <1>3, SMTT(30) DEF Sold
<1>6. more[new[n + 1]] = row
  BY <1>2, <1>3
<1>7. \A k \in 1..(n + 1) : k \in 1..n \/ k = n + 1
  BY <1>1
<1> HIDE DEF more, n, new
<1>8. \A k, l \in DOMAIN new : new[k] = new[l] => k = l
  BY <1>1, <1>2, <1>5, <1>7 DEF Sold
<1>9. \A k \in DOMAIN new : new[k] \notin DOMAIN rows
  BY <1>1, <1>2, <1>7 DEF Sold
<1>10. DOMAIN more = DOMAIN rows \cup {new[k] : k \in DOMAIN new}
  <2>1. {new[k] : k \in DOMAIN new} = {ids[k] : k \in DOMAIN ids} \cup {id}
    BY <1>1, <1>2, <1>7
  <2> QED
    BY <2>1, <1>3 DEF Sold
<1>11. \A i \in DOMAIN rows : more[i] = rows[i]
  BY <1>3 DEF Sold
<1>12. Len(new) <= Len(r.legs)
  BY <1>1, <1>2, <1>4 DEF n
<1>13. \A k \in DOMAIN new : /\ Carries(more[new[k]], r.legs[k], r.count)
                             /\ RefOf(rows, r, more[new[k]].journey)
  <2>1. ASSUME NEW k \in 1..n PROVE /\ Carries(more[new[k]], r.legs[k], r.count)
                                    /\ RefOf(rows, r, more[new[k]].journey)
    BY <1>1, <1>5 DEF Sold
  <2>2. Carries(row, r.legs[n + 1], r.count)
    BY DEF n
  <2> QED
    BY <2>1, <2>2, <1>2, <1>6, <1>7
<1>14. \A k \in DOMAIN new : more[new[k]].journey = row.journey
  BY <1>1, <1>2, <1>5, <1>6, <1>7
<1>15. ASSUME r.kind = "itinerary", Ordered, NEW k \in DOMAIN new, NEW l \in DOMAIN new, k < l
       PROVE  InTime(more[new[k]], more[new[l]])
  <2>1. CASE l \in 1..n
    <3>1. k \in 1..n
      BY <1>1, <1>2, <1>15, <2>1
    <3> QED
      BY <1>1, <1>5, <1>15, <2>1, <3>1 DEF Sold
  <2>2. CASE l = n + 1
    <3>1. k \in 1..n /\ n \in 1..n
      BY <1>1, <1>2, <1>15, <2>2
    <3>2. ids # <<>>
      BY <1>1, <3>1
    <3>3. InTime(after[ids[n]], row)
      BY <1>15, <3>2 DEF n
    <3>4. CASE k = n
      BY <1>5, <1>6, <2>2, <3>1, <3>3, <3>4
    <3>5. CASE k # n
      <4>1. k < n
        BY <1>1, <3>1, <3>5
      <4>2. InTime(after[ids[k]], after[ids[n]])
        BY <1>1, <1>15, <3>1, <4>1 DEF Sold
      <4>3. /\ OnRoute(after[ids[k]]) /\ OnRoute(after[ids[n]]) /\ OnRoute(row)
            /\ Departure(after[ids[n]]) < Arrival(after[ids[n]])
        BY <1>1, <3>1 DEF Sold, Carries
      <4>4. InTime(after[ids[k]], row)
        BY <1>15, <3>3, <4>2, <4>3, InTimeOn
      <4> QED
        BY <4>4, <1>5, <1>6, <2>2, <3>1
    <3> QED
      BY <3>4, <3>5
  <2> QED
    BY <1>2, <1>7, <2>1, <2>2
<1>16. Sold(rows, more, r, new)
  BY <1>2, <1>8, <1>9, <1>10, <1>11, <1>12, <1>13, <1>14, <1>15 DEF Sold
<1> QED
  BY <1>16 DEF more, new
-----------------------------------------------------------------------------
(* What a whole sale shows *)

\* The rows of a sale that is complete: as many as the request has legs, one
\* for each, under one reference.
LEMMA NewRows ==
  ASSUME NEW rows, NEW after, NEW r \in Requests, NEW ids, Sold(rows, after, r, ids),
         Len(ids) = Len(r.legs)
  PROVE  LET new == DOMAIN after \ DOMAIN rows
         IN  /\ Cardinality(new) = Len(r.legs)
             /\ {Trip(after[i]) : i \in new} = {Trip(r.legs[k]) : k \in 1..Len(r.legs)}
             /\ \A i, k \in new : after[i].journey = after[k].journey
             /\ \A i \in new : /\ after[i].status = "ACTIVE"
                              /\ Len(after[i].seats) = r.count
                              /\ RefOf(rows, r, after[i].journey)
<1> DEFINE new == DOMAIN after \ DOMAIN rows
           n == Len(r.legs)
<1>1. ids \in Seq(Ids) /\ n \in Nat /\ DOMAIN ids = 1..n
  BY DEF Sold
<1>2. new = {ids[k] : k \in 1..n}
  BY <1>1 DEF Sold
<1> HIDE DEF new, n
<1>3. Cardinality(new) = n
  <2>1. ids \in [1..n -> new]
    BY <1>1, <1>2
  <2>2. \A k, l \in 1..n : ids[k] = ids[l] => k = l
    BY <1>1 DEF Sold
  <2>3. \A i \in new : \E k \in 1..n : ids[k] = i
    BY <1>2
  <2>4. ids \in Bijection(1..n, new)
    BY <2>1, <2>2, <2>3, Fun_IsBij
  <2>5. ExistsBijection(1..n, new)
    BY <2>4, Fun_ExistsBij
  <2> QED
    BY <1>1, <2>5, FS_CountingElements
<1>4. \A k \in 1..n : /\ Trip(after[ids[k]]) = Trip(r.legs[k])
                      /\ after[ids[k]].status = "ACTIVE"
                      /\ Len(after[ids[k]].seats) = r.count
                      /\ RefOf(rows, r, after[ids[k]].journey)
  BY <1>1 DEF Sold, Carries, Trip
<1>5. \A k, l \in 1..n : after[ids[k]].journey = after[ids[l]].journey
  BY <1>1 DEF Sold
<1>6. {Trip(after[i]) : i \in new} = {Trip(r.legs[k]) : k \in 1..n}
  BY <1>2, <1>4
<1>7. \A i, k \in new : after[i].journey = after[k].journey
  BY <1>2, <1>5
<1>8. \A i \in new : /\ after[i].status = "ACTIVE"
                     /\ Len(after[i].seats) = r.count
                     /\ RefOf(rows, r, after[i].journey)
  BY <1>2, <1>4
<1> QED
  BY <1>3, <1>6, <1>7, <1>8 DEF new, n

\* WholeItineraries and ChangesCanBeMade of any rows.
LegsOf(rows, g) == {i \in DOMAIN rows : rows[i].journey = g}
Trips(rows, ids) == {Trip(rows[i]) : i \in ids}

\* The rows ids are the legs of some itinerary asked for.
Complete(rows, ids) ==
  \E r \in Requests : /\ r.kind = "itinerary"
                      /\ Cardinality(ids) = Len(r.legs)
                      /\ Trips(rows, ids) = {Trip(r.legs[k]) : k \in 1..Len(r.legs)}

Whole(rows) ==
  \A i \in DOMAIN rows :
    rows[i].journey # NoJourney => Complete(rows, LegsOf(rows, rows[i].journey))

Timely(rows) ==
  \A i, k \in DOMAIN rows :
    i # k /\ rows[i].journey = rows[k].journey /\ rows[i].journey # NoJourney
    => InTime(rows[i], rows[k]) \/ InTime(rows[k], rows[i])

\* What keeps every row's run, stretch and journey keeps both.
LEMMA KeptRows ==
  ASSUME NEW rows, NEW after, DOMAIN after = DOMAIN rows,
         \A i \in DOMAIN rows : /\ Trip(after[i]) = Trip(rows[i])
                                /\ after[i].journey = rows[i].journey
  PROVE  (Whole(rows) => Whole(after)) /\ (Timely(rows) => Timely(after))
<1>1. ASSUME Whole(rows) PROVE Whole(after)
  <2> SUFFICES ASSUME NEW j \in DOMAIN after, after[j].journey # NoJourney
               PROVE  Complete(after, LegsOf(after, after[j].journey))
    BY DEF Whole
  <2> DEFINE mine == LegsOf(rows, rows[j].journey)
  <2>1. LegsOf(after, after[j].journey) = mine
    BY DEF LegsOf
  <2>2. Trips(after, mine) = Trips(rows, mine)
    BY DEF LegsOf, Trips
  <2>3. Complete(rows, mine)
    BY <1>1 DEF Whole
  <2> HIDE DEF mine
  <2>4. Complete(after, mine)
    BY <2>2, <2>3 DEF Complete
  <2> QED
    BY <2>1, <2>4
<1>2. ASSUME Timely(rows) PROVE Timely(after)
  BY <1>2, SameTimes DEF Timely
<1> QED
  BY <1>1, <1>2

\* A whole sale adds one itinerary, whole, whose changes can be made.
LEMMA SoldRows ==
  ASSUME NEW rows, NEW after, NEW r \in Requests, NEW ids, Sold(rows, after, r, ids),
         Len(ids) = Len(r.legs)
  PROVE  /\ Whole(rows) => Whole(after)
         /\ Ordered /\ Timely(rows) => Timely(after)
<1> DEFINE new == DOMAIN after \ DOMAIN rows
<1>1. /\ Cardinality(new) = Len(r.legs)
      /\ {Trip(after[i]) : i \in new} = {Trip(r.legs[k]) : k \in 1..Len(r.legs)}
      /\ \A i, k \in new : after[i].journey = after[k].journey
      /\ \A i \in new : RefOf(rows, r, after[i].journey)
  <2> HIDE DEF new
  <2>1. /\ Cardinality(new) = Len(r.legs)
        /\ {Trip(after[i]) : i \in new} = {Trip(r.legs[k]) : k \in 1..Len(r.legs)}
        /\ \A i, k \in new : after[i].journey = after[k].journey
        /\ \A i \in new : /\ after[i].status = "ACTIVE"
                         /\ Len(after[i].seats) = r.count
                         /\ RefOf(rows, r, after[i].journey)
    BY NewRows DEF new
  <2> QED
    BY <2>1
<1>2. /\ DOMAIN after = DOMAIN rows \cup new
      /\ \A i \in DOMAIN rows : i \notin new /\ after[i] = rows[i]
  BY DEF Sold
<1>3. r.kind \in {"single", "itinerary"}
  BY LedgerAssumption
<1>4. \A i \in new : /\ after[i].journey # NoJourney => r.kind = "itinerary"
                     /\ r.kind = "itinerary" =>
                          \A k \in DOMAIN rows : rows[k].journey # after[i].journey
  BY <1>1, <1>3 DEF RefOf
<1>5. \A i \in new : \E k \in DOMAIN ids : ids[k] = i
  BY DEF Sold
<1> HIDE DEF new
<1>6. ASSUME Whole(rows) PROVE Whole(after)
  <2> SUFFICES ASSUME NEW j \in DOMAIN after, after[j].journey # NoJourney
               PROVE  Complete(after, LegsOf(after, after[j].journey))
    BY DEF Whole
  <2>1. CASE j \in new
    <3>1. LegsOf(after, after[j].journey) = new
      BY <1>1, <1>2, <1>4, <2>1 DEF LegsOf
    <3>2. Complete(after, new)
      BY <1>1, <1>4, <2>1 DEF Complete, Trips
    <3> QED
      BY <3>1, <3>2
  <2>2. CASE j \in DOMAIN rows
    <3> DEFINE mine == LegsOf(rows, rows[j].journey)
    <3>1. LegsOf(after, after[j].journey) = mine
      <4>1. \A i \in new : after[i].journey # after[j].journey
        BY <1>2, <1>4, <2>2
      <4> QED
        BY <1>2, <2>2, <4>1 DEF LegsOf
    <3>2. Trips(after, mine) = Trips(rows, mine)
      BY <1>2 DEF LegsOf, Trips
    <3>3. Complete(rows, mine)
      BY <1>2, <1>6, <2>2 DEF Whole
    <3> HIDE DEF mine
    <3>4. Complete(after, mine)
      BY <3>2, <3>3 DEF Complete
    <3> QED
      BY <3>1, <3>4
  <2> QED
    BY <1>2, <2>1, <2>2
<1>7. ASSUME Ordered, Timely(rows) PROVE Timely(after)
  <2> SUFFICES ASSUME NEW i \in DOMAIN after, NEW k \in DOMAIN after, i # k,
                      after[i].journey = after[k].journey, after[i].journey # NoJourney
               PROVE  InTime(after[i], after[k]) \/ InTime(after[k], after[i])
    BY DEF Timely
  <2>1. CASE i \in DOMAIN rows /\ k \in DOMAIN rows
    BY <1>2, <1>7, <2>1 DEF Timely
  <2>2. CASE i \in new /\ k \in new
    <3>1. PICK x \in DOMAIN ids, y \in DOMAIN ids : ids[x] = i /\ ids[y] = k
      BY <1>5, <2>2
    <3>2. DOMAIN ids \subseteq Int /\ x # y
      BY <3>1 DEF Sold
    <3>3. x < y \/ y < x
      BY <3>2
    <3>4. r.kind = "itinerary"
      BY <1>4, <2>2
    <3> QED
      BY <1>7, <3>1, <3>3, <3>4 DEF Sold
  <2>3. CASE ~(i \in new <=> k \in new)
    BY <1>2, <1>4, <2>3
  <2> QED
    BY <1>2, <2>1, <2>2, <2>3
<1> QED
  BY <1>6, <1>7

-----------------------------------------------------------------------------
(* The connection inside a transaction is carrying out one whole change *)

\* How far c has come with its copy, measured against the ledger.
Building(c) ==
  /\ job[c].kind \in {"single", "itinerary", "rebook", "drop"}
  /\ job[c].kind \in {"single", "itinerary"} =>
       /\ Sold(ledger, work, job[c], made[c])
       /\ phase[c] = "commit" => Len(made[c]) = Len(job[c].legs)
  /\ job[c].kind \in {"rebook", "drop"} /\ phase[c] = "txn" => work = ledger
  /\ job[c].kind \in {"rebook", "drop"} /\ phase[c] = "commit" =>
       job[c].id \in DOMAIN ledger
  /\ job[c].kind = "rebook" /\ phase[c] = "commit" => Moved(ledger, work, job[c].id)
  /\ job[c].kind = "drop" /\ phase[c] = "commit" => work = Cancelled(ledger, job[c].id)

\* after is rows with some of them cancelled.
Cancellations(rows, after) ==
  /\ DOMAIN after = DOMAIN rows
  /\ \A i \in DOMAIN rows : after[i] \in {rows[i], [rows[i] EXCEPT !.status = "CANCELLED"]}

\* What a connection holds outside transaction() are cancellations it could not
\* save, if anything.
Underway ==
  \A c \in Conns : /\ phase[c] \in {"txn", "commit"} => Building(c)
                   /\ open[c] \in {"writing", "unsaved"} => Cancellations(ledger, work)

\* Cancelling once more is still nothing but cancelling.
LEMMA CancelledAgain ==
  ASSUME NEW rows, Rows(rows), NEW after, Rows(after), Cancellations(rows, after), NEW id
  PROVE  Cancellations(rows, Cancelled(after, id))
<1> DEFINE more == Cancelled(after, id)
<1>1. /\ DOMAIN more = DOMAIN after
      /\ \A i \in DOMAIN after :
           more[i] = IF i = id THEN [after[i] EXCEPT !.status = "CANCELLED"] ELSE after[i]
  BY DEF Cancelled
<1> HIDE DEF more
<1>2. ASSUME NEW i \in DOMAIN rows
      PROVE  more[i] \in {rows[i], [rows[i] EXCEPT !.status = "CANCELLED"]}
  <2>1. rows[i] \in Row /\ i \in DOMAIN after
    BY DEF Rows, Cancellations
  <2>2. PICK old \in Row : old = rows[i]
    BY <2>1
  <2>3. after[i] \in {old, [old EXCEPT !.status = "CANCELLED"]}
    BY <2>2 DEF Cancellations
  <2>4. [[old EXCEPT !.status = "CANCELLED"] EXCEPT !.status = "CANCELLED"]
          = [old EXCEPT !.status = "CANCELLED"]
    BY DEF Row
  <2> QED
    BY <1>1, <2>1, <2>2, <2>3, <2>4
<1>3. DOMAIN more = DOMAIN rows
  BY <1>1 DEF Cancellations
<1> QED
  BY <1>2, <1>3 DEF Cancellations, more

\* So whatever a connection sees outside transaction(), and whatever it makes of
\* it with an UPDATE, differs from the ledger in cancellations only.
LEMMA SeenUnderway ==
  ASSUME IInv, Underway, NEW c \in Conns, phase[c] \notin {"txn", "commit"}
  PROVE  Cancellations(ledger, Seen(c)) /\ Cancellations(ledger, Updated(c))
<1>1. Rows(ledger) /\ Rows(Seen(c))
  BY SeenSound DEF IInv, TypeOK, Rows
<1>2. Cancellations(ledger, Seen(c))
  <2>1. CASE lock = c
    <3>1. open[c] \in {"writing", "unsaved"}
      BY <2>1 DEF IInv, LedgerInv, LockHeld
    <3> QED
      BY <2>1, <3>1 DEF Underway, Seen
  <2>2. CASE lock # c
    BY <2>2 DEF Seen, Cancellations
  <2> QED
    BY <2>1, <2>2
<1>3. Updated(c) \in {Seen(c), Cancelled(Seen(c), job[c].id)}
  BY DEF Updated
<1> QED
  BY <1>1, <1>2, <1>3, CancelledAgain

\* A transaction begins with a copy of the ledger.
LEMMA BeginUnderway ==
  ASSUME IInv, Underway, NEW c \in Conns, Begin(c)
  PROVE  Underway'
<1>1. /\ phase[c] = "asked" /\ phase' = [phase EXCEPT ![c] = "txn"]
      /\ job[c].kind \in {"single", "itinerary", "rebook", "drop"}
      /\ lock = NoConn
      /\ lock' = c /\ work' = ledger /\ made' = [made EXCEPT ![c] = <<>>]
      /\ open[c] = "no"
      /\ UNCHANGED <<ledger, open, job, retired>>
  BY DEF Begin, Transactional, Goto
<1>2. phase'[c] = "txn" /\ made'[c] = <<>>
  BY <1>1 DEF IInv, TypeOK
<1>3. ASSUME job[c].kind \in {"single", "itinerary"}
      PROVE  Sold(ledger, ledger, job[c], <<>>)
  <2>1. job[c] \in Requests
    BY <1>1, <1>3, JobKinds DEF IInv, LedgerInv, LegsInserted
  <2>2. Len(job[c].legs) \in Nat
    BY <2>1, LedgerAssumption
  <2>3. PICK ids : ids = <<>>
    OBVIOUS
  <2>4. ids \in Seq(Ids) /\ DOMAIN ids = {} /\ Len(ids) = 0
    BY <2>3
  <2>5. {ids[k] : k \in DOMAIN ids} = {}
    BY <2>4
  <2>6. Len(ids) <= Len(job[c].legs)
    BY <2>2, <2>4
  <2>7. DOMAIN ledger = DOMAIN ledger \cup {ids[k] : k \in DOMAIN ids}
    BY <2>5
  <2>8. Sold(ledger, ledger, job[c], ids)
    BY <2>4, <2>6, <2>7 DEF Sold
  <2> QED
    BY <2>3, <2>8
<1>4. Building(c)'
  BY <1>1, <1>2, <1>3 DEF Building
<1>5. \A d \in Conns \ {c} : phase'[d] \notin {"txn", "commit"}
                            /\ open'[d] \notin {"writing", "unsaved"}
  BY <1>1, OneHolder DEF IInv, TypeOK
<1> QED
  BY <1>1, <1>4, <1>5 DEF Underway

\* Each leg inserted is the next of the sale.
LEMMA InsertUnderway ==
  ASSUME IInv, Underway, NEW c \in Conns, InsertLeg(c)
  PROVE  Underway'
<1>1. PICK journey \in JourneyRefs(c), id \in FreshIds(work) :
        /\ CanAdd(c, journey)
        /\ work' = Insert(work, id, NewRow(work, NextLeg(c), job[c].count, journey))
        /\ made' = [made EXCEPT ![c] = Append(@, id)]
  BY DEF InsertLeg
<1>2. /\ phase[c] = "txn" /\ job[c].kind \in {"single", "itinerary"}
      /\ phase' = [phase EXCEPT ![c] = IF Len(made[c]) + 1 = Len(job[c].legs)
                                       THEN "commit" ELSE "txn"]
      /\ UNCHANGED <<ledger, lock, open, job, retired>>
  BY DEF InsertLeg
<1>3. /\ job[c] \in Requests /\ Sold(ledger, work, job[c], made[c])
      /\ lock = c /\ open[c] = "no"
  BY <1>2, JobKinds DEF IInv, LedgerInv, LockHeld, LegsInserted, Underway, Building
<1> DEFINE r   == job[c]
           ids == made[c]
           leg == NextLeg(c)
           row == NewRow(work, leg, r.count, journey)
<1>4. /\ leg \in Leg /\ r.count \in Nat /\ Len(ids) + 1 <= Len(r.legs)
      /\ ids \in Seq(Ids) /\ Len(r.legs) \in Nat
  BY <1>2, <1>3, NextLegTyped, LedgerAssumption, SMTT(60) DEF IInv, TypeOK
<1>5. id \in Ids /\ id \notin DOMAIN ledger /\ id \notin DOMAIN work
  BY <1>1 DEF FreshIds
<1>6. /\ Bookable(work, leg, r.count, journey)
      /\ r.kind = "itinerary" => Follows(work, ids, row)
  BY <1>1 DEF CanAdd
<1>7. /\ row.coach = leg.coach /\ row.from = leg.from /\ row.to = leg.to
      /\ row.status = "ACTIVE" /\ row.journey = journey
      /\ row.seats = Selected(work, leg, r.count)
      /\ leg = r.legs[Len(ids) + 1]
  BY SMTT(60) DEF NewRow, NextLeg
<1>8. OnRoute(row)
  BY <1>4, <1>7, SMTT(60) DEF OnRoute, Leg
<1>9. Carries(row, r.legs[Len(ids) + 1], r.count)
  <2>1. Arrival(leg) > Departure(leg) /\ Len(row.seats) = r.count
    BY <1>6, <1>7, ZenonT(60) DEF Bookable, Allocatable
  <2>2. Departure(row) = Departure(leg) /\ Arrival(row) = Arrival(leg)
    BY <1>7 DEF Departure, Arrival
  <2>3. Departure(row) < Arrival(row)
    BY <1>8, <2>1, <2>2, Minutes
  <2> QED
    BY <1>7, <1>8, <2>1, <2>3, SMTT(60) DEF Carries
<1> HIDE DEF row, leg, r, ids
<1>10. RefOf(ledger, r, journey) /\ \A k \in DOMAIN ids : work[ids[k]].journey = journey
  <2>1. \A k \in DOMAIN ids : RefOf(ledger, r, work[ids[k]].journey)
    BY <1>3 DEF Sold, r, ids
  <2>2. CASE r.kind = "single"
    <3>1. journey = NoJourney
      BY <1>1, <2>2 DEF JourneyRefs, r
    <3> QED
      BY <2>1, <2>2, <3>1 DEF RefOf
  <2>3. CASE r.kind = "itinerary" /\ ids = <<>>
    <3>1. journey \in FreshJourneys
      BY <1>1, <2>3 DEF JourneyRefs, r, ids
    <3> QED
      BY <2>3, <3>1, LedgerAssumption DEF FreshJourneys, RefOf
  <2>4. CASE r.kind = "itinerary" /\ ids # <<>>
    <3>1. journey = work[ids[1]].journey /\ 1 \in DOMAIN ids
      BY <1>1, <1>4, <2>4 DEF JourneyRefs, r, ids
    <3>2. \A k, l \in DOMAIN ids : work[ids[k]].journey = work[ids[l]].journey
      BY <1>3 DEF Sold, r, ids
    <3> QED
      BY <2>1, <3>1, <3>2
  <2> QED
    BY <1>2, <2>2, <2>3, <2>4 DEF r
<1>11. ASSUME r.kind = "itinerary", ids # <<>>
       PROVE  InTime(work[ids[Len(ids)]], row)
  <2> DEFINE last == work[ids[Len(ids)]]
  <2>1. Len(ids) \in DOMAIN ids
    BY <1>4, <1>11
  <2>2. OnRoute(last)
    BY <1>3, <2>1 DEF Sold, Carries, r, ids
  <2>3. Departure(row) >= Arrival(last) + Buffer(last, row)
    BY <1>6, <1>11 DEF Follows, Connects, Buffer
  <2> HIDE DEF last
  <2>4. Arrival(last) + Buffer(last, row) <= Departure(row)
    BY <1>8, <2>2, <2>3, Minutes
  <2> QED
    BY <2>4 DEF InTime, last
<1>12. Sold(ledger, Insert(work, id, row), r, Append(ids, id))
  <2>1. r \in Requests /\ Sold(ledger, work, r, ids)
    BY <1>3 DEF r, ids
  <2>2. Len(ids) < Len(r.legs)
    BY <1>4
  <2> QED
    BY <1>5, <1>7, <1>9, <1>10, <1>11, <2>1, <2>2, SoldGrows
<1>13. /\ made'[c] = Append(ids, id) /\ Len(Append(ids, id)) = Len(ids) + 1
       /\ phase'[c] = IF Len(ids) + 1 = Len(r.legs) THEN "commit" ELSE "txn"
       /\ work' = Insert(work, id, row)
  BY <1>1, <1>2, <1>4, <1>5 DEF IInv, TypeOK, r, ids, row, leg
<1>14. Building(c)'
  <2>1. job'[c] = r /\ ledger' = ledger /\ r.kind \in {"single", "itinerary"}
    BY <1>2 DEF r
  <2>2. Sold(ledger', work', job'[c], made'[c])
    BY <1>12, <1>13, <2>1
  <2>3. phase'[c] = "commit" => Len(made'[c]) = Len(job'[c].legs)
    BY <1>13, <2>1
  <2> QED
    BY <2>1, <2>2, <2>3 DEF Building
<1>15. \A d \in Conns \ {c} : phase'[d] \notin {"txn", "commit"}
                             /\ open'[d] \notin {"writing", "unsaved"}
  BY <1>2, <1>3, OneHolder DEF IInv, TypeOK
<1> QED
  BY <1>2, <1>3, <1>14, <1>15 DEF Underway

\* A rebooking or a PATCH to CANCELLED changes the copy in one step.
LEMMA ChangeUnderway ==
  ASSUME IInv, Underway, NEW c \in Conns, Rebook(c) \/ Drop(c)
  PROVE  Underway'
<1>1. /\ phase[c] = "txn" /\ phase' = [phase EXCEPT ![c] = "commit"]
      /\ job[c].kind \in {"rebook", "drop"}
      /\ job[c].id \in DOMAIN work
      /\ UNCHANGED <<ledger, lock, open, job, made, retired>>
  BY DEF Rebook, Drop, Goto
<1>2. lock = c /\ open[c] = "no" /\ work = ledger /\ phase'[c] = "commit"
  BY <1>1 DEF IInv, TypeOK, LedgerInv, LockHeld, Underway, Building
<1>5. \A d \in Conns \ {c} : phase'[d] \notin {"txn", "commit"}
                            /\ open'[d] \notin {"writing", "unsaved"}
  BY <1>1, <1>2, OneHolder DEF IInv, TypeOK
<1> DEFINE id == job[c].id
<1>3. CASE Rebook(c)
  <2>1. PICK coach \in CoachesOfRun(work[id]), n \in PassengerCounts(work[id]),
             new \in FreshIds(work) :
          /\ CanRebook(work, id, coach, n)
          /\ work' = Rebooked(work, id, coach, n, new)
    BY <1>3 DEF Rebook
  <2>2. /\ coach \in Coaches /\ RunOf[coach] = RunOf[work[id].coach]
        /\ new \in Ids \ DOMAIN work /\ id \in DOMAIN work
    BY <1>1, <2>1 DEF CoachesOfRun, FreshIds
  <2>3. Rows(work) /\ Exclusive(work) /\ work[id] \in Row
    BY <2>2 DEF IInv, TypeOK, LedgerInv, Rows
  <2>4. n \in Nat
    BY <2>1, <2>3, LedgerAssumption DEF PassengerCounts, Row
  <2>5. job[c].kind = "rebook"
    BY <1>3 DEF Rebook
  <2> HIDE DEF id
  <2>6. CanRebook(work, id, coach, n)
    BY <2>1
  <2>7. Reseated(work, Rebooked(work, id, coach, n, new), id, coach)
    BY <2>2, <2>3, <2>4, <2>6, RebookKeeps
  <2>8. Reseated(ledger, work', id, coach)
    BY <1>2, <2>1, <2>7
  <2>9. Moved(ledger, work', id)
    BY <1>2, <2>2, <2>8 DEF Reseated, Moved
  <2>10. Moved(ledger', work', job'[c].id) /\ job'[c].id \in DOMAIN ledger'
    BY <1>1, <1>2, <2>9 DEF id
  <2>11. Building(c)'
    BY <1>1, <1>2, <2>5, <2>10 DEF Building
  <2> QED
    BY <1>1, <1>2, <1>5, <2>11 DEF Underway
<1>4. CASE Drop(c)
  <2>1. job[c].kind = "drop" /\ work' = Cancelled(ledger, job[c].id)
    BY <1>2, <1>4 DEF Drop
  <2>2. Building(c)'
    BY <1>1, <1>2, <2>1 DEF Building, Cancelled
  <2> QED
    BY <1>1, <1>2, <1>5, <2>2 DEF Underway
<1> QED
  BY <1>3, <1>4

\* What a connection does outside transaction() without touching any rows
\* leaves the holder of the write lock and its copy alone.
LEMMA OthersUnderway ==
  ASSUME IInv, Underway, NEW c \in Conns,
         \A d \in Conns \ {c} : /\ phase'[d] = phase[d] /\ open'[d] = open[d]
                                /\ job'[d] = job[d] /\ made'[d] = made[d],
         phase'[c] \notin {"txn", "commit"},
         open'[c] \in {"writing", "unsaved"} => open[c] \in {"writing", "unsaved"},
         UNCHANGED <<ledger, work>>
  PROVE  Underway'
<1>1. ASSUME NEW d \in Conns, phase'[d] \in {"txn", "commit"} PROVE Building(d)'
  <2>1. /\ phase'[d] = phase[d] /\ job'[d] = job[d] /\ made'[d] = made[d]
        /\ work' = work /\ ledger' = ledger
    BY <1>1
  <2>2. Building(d)
    BY <1>1, <2>1 DEF Underway
  <2> QED
    BY <2>1, <2>2 DEF Building
<1>2. ASSUME NEW d \in Conns, open'[d] \in {"writing", "unsaved"}
      PROVE  Cancellations(ledger', work')
  BY <1>2 DEF Underway
<1> QED
  BY <1>1, <1>2 DEF Underway, Cancellations

\* Every step of every program keeps to its change.
LEMMA StepUnderway ==
  ASSUME IInv, Underway, [Next]_vars
  PROVE  Underway'
<1>1. CASE UNCHANGED vars
  BY <1>1 DEF vars, Underway, Building, Cancellations
<1>2. CASE Next
  <2> PICK c \in Conns : Step(c) \/ Crash(c) \/ \E j \in Jobs : Ask(c, j)
    BY <1>2 DEF Next
  <2>1. CASE Begin(c)
    BY <2>1, BeginUnderway
  <2>2. CASE InsertLeg(c)
    BY <2>2, InsertUnderway
  <2>3. CASE Rebook(c) \/ Drop(c)
    BY <2>3, ChangeUnderway
  <2>4. CASE Commit(c) \/ CommitBusy(c) \/ Rollback(c) \/ CancelWrite(c) \/ ClearAll(c)
    <3>1. lock' = NoConn
      BY <2>4 DEF Commit, CommitBusy, Rollback, Discard, CancelWrite, ClearAll
    <3>2. IInv'
      BY InductiveStep
    <3> QED
      BY <3>1, <3>2, LedgerAssumption DEF IInv, LedgerInv, LockHeld, Underway
  <2>5. CASE Quiet(c)
    <3>1. PICK to \in Phases \ {"txn", "commit"} :
            /\ phase' = [phase EXCEPT ![c] = to]
            /\ \/ job' = job /\ phase[c] # "idle"
               \/ \E j \in Jobs : job' = [job EXCEPT ![c] = j]
               \/ job' = [job EXCEPT ![c] = NoJob] /\ to = "idle"
      BY <2>5, QuietSteps
    <3>2. PICK left \in Open :
            /\ open' = [open EXCEPT ![c] = left]
            /\ left = open[c] \/ {left, open[c]} \subseteq {"no", "begun", "reading"}
      BY <2>5, QuietSteps
    <3>3. UNCHANGED <<ledger, work, lock, made, retired>>
      BY <2>5, QuietSteps
    <3>4. \A d \in Conns \ {c} : /\ phase'[d] = phase[d] /\ open'[d] = open[d]
                                 /\ job'[d] = job[d] /\ made'[d] = made[d]
      BY <3>1, <3>2, <3>3 DEF IInv, TypeOK
    <3>5. phase'[c] = to /\ open'[c] = left
      BY <3>1, <3>2 DEF IInv, TypeOK
    <3> QED
      BY <3>1, <3>2, <3>3, <3>4, <3>5, OthersUnderway
  <2>6. CASE BeginWithin(c) \/ CancelUnsaved(c)
    <3>1. /\ phase[c] \in {"asked", "found"} /\ lock \in {NoConn, c}
          /\ work' \in {Seen(c), Updated(c)} /\ ledger' = ledger
      BY <2>6 DEF BeginWithin, CancelUnsaved, Waits, Goto
    <3>2. /\ phase'[c] = "refused"
          /\ \A d \in Conns \ {c} : phase'[d] = phase[d] /\ open'[d] = open[d]
      BY <2>6 DEF BeginWithin, CancelUnsaved, Goto, IInv, TypeOK
    <3>3. Cancellations(ledger', work')
      BY <3>1, SeenUnderway
    <3>4. \A d \in Conns : phase'[d] \notin {"txn", "commit"}
      BY <3>1, <3>2, OneHolder
    <3> QED
      BY <3>3, <3>4 DEF Underway, Cancellations
  <2>7. CASE Crash(c) \/ ClearBusy(c)
    <3>1. Restart(c)
      BY <2>7 DEF Crash, ClearBusy
    <3>2. CASE lock = c
      <4>1. lock' = NoConn
        BY <3>1, <3>2 DEF Restart
      <4>2. IInv'
        BY InductiveStep
      <4> QED
        BY <4>1, <4>2, LedgerAssumption DEF IInv, LedgerInv, LockHeld, Underway
    <3>3. CASE lock # c
      <4>1. /\ phase'[c] = "idle" /\ open'[c] = "no" /\ UNCHANGED <<ledger, work>>
            /\ \A d \in Conns \ {c} : /\ phase'[d] = phase[d] /\ open'[d] = open[d]
                                      /\ job'[d] = job[d] /\ made'[d] = made[d]
        BY <3>1, <3>3 DEF Restart, IInv, TypeOK
      <4> QED
        BY <4>1, OthersUnderway
    <3> QED
      BY <3>2, <3>3
  <2> QED
    BY <2>1, <2>2, <2>3, <2>4, <2>5, <2>6, <2>7 DEF Step, Quiet
<1> QED
  BY <1>1, <1>2

-----------------------------------------------------------------------------
(* One step, one change *)

\* after is rows, with some bookings cancelled perhaps, or with one whole
\* change made to them.
OneChange(rows, after) ==
  \/ Cancellations(rows, after)
  \/ \E id \in DOMAIN rows : Moved(rows, after, id)
  \/ \E r \in Requests, ids \in Seq(Ids) :
       Sold(rows, after, r, ids) /\ Len(ids) = Len(r.legs)

\* A step of any connection changes the committed rows by one whole change, or
\* wipes them (booking_store.py:415-431, 500-580).
LEMMA StepChanges ==
  ASSUME IInv, Underway, [Next]_vars
  PROVE  OneChange(ledger, ledger') \/ \E c \in Conns : ClearAll(c)
<1>1. CASE UNCHANGED vars
  BY <1>1 DEF vars, OneChange, Cancellations
<1>2. CASE Next
  <2> PICK c \in Conns : Step(c) \/ Crash(c) \/ \E j \in Jobs : Ask(c, j)
    BY <1>2 DEF Next
  <2>1. CASE Commit(c)
    <3>1. phase[c] = "commit" /\ ledger' = work
      BY <2>1 DEF Commit, Goto
    <3>2. Building(c)
      BY <3>1 DEF Underway
    <3>3. CASE job[c].kind \in {"single", "itinerary"}
      <4>1. job[c] \in Requests
        BY <3>1, <3>3, JobKinds DEF IInv, LedgerInv, LegsInserted
      <4>2. Sold(ledger, ledger', job[c], made[c]) /\ Len(made[c]) = Len(job[c].legs)
        BY <3>1, <3>2, <3>3 DEF Building
      <4>3. made[c] \in Seq(Ids)
        BY DEF IInv, TypeOK
      <4> QED
        BY <4>1, <4>2, <4>3 DEF OneChange
    <3>4. CASE job[c].kind = "rebook"
      <4>1. Moved(ledger, ledger', job[c].id) /\ job[c].id \in DOMAIN ledger
        BY <3>1, <3>2, <3>4 DEF Building
      <4> QED
        BY <4>1 DEF OneChange
    <3>5. CASE job[c].kind = "drop"
      <4>1. ledger' = Cancelled(ledger, job[c].id) /\ job[c].id \in DOMAIN ledger
        BY <3>1, <3>2, <3>5 DEF Building
      <4> QED
        BY <4>1 DEF OneChange, Cancellations, Cancelled
    <3> QED
      BY <3>2, <3>3, <3>4, <3>5 DEF Building
  <2>2. CASE CancelWrite(c)
    <3>1. phase[c] \notin {"txn", "commit"} /\ ledger' = Updated(c)
      BY <2>2 DEF CancelWrite, Goto
    <3>2. Cancellations(ledger, ledger')
      BY <3>1, SeenUnderway
    <3> QED
      BY <3>2 DEF OneChange
  <2>3. CASE ClearAll(c)
    BY <2>3
  <2>4. CASE \/ Quiet(c) \/ Begin(c) \/ BeginWithin(c) \/ InsertLeg(c) \/ Rebook(c)
             \/ Drop(c) \/ Rollback(c) \/ CommitBusy(c) \/ CancelUnsaved(c)
             \/ Crash(c) \/ ClearBusy(c)
    <3>1. ledger' = ledger
      <4>1. CASE Quiet(c)
        BY <4>1, QuietSteps
      <4> QED
        BY <2>4, <4>1 DEF Begin, BeginWithin, InsertLeg, Rebook, Drop, Rollback, CommitBusy,
                          CancelUnsaved, Crash, ClearBusy, Restart
    <3> QED
      BY <3>1 DEF OneChange, Cancellations
  <2> QED
    BY <2>1, <2>2, <2>3, <2>4 DEF Step, Quiet
<1> QED
  BY <1>1, <1>2

\* Cancelling and moving keep run, stretch and journey of every row.
LEMMA ChangeKeepsTrips ==
  ASSUME NEW rows, Rows(rows), NEW after,
         Cancellations(rows, after) \/ \E id \in DOMAIN rows : Moved(rows, after, id)
  PROVE  /\ DOMAIN after = DOMAIN rows
         /\ \A i \in DOMAIN rows : /\ Trip(after[i]) = Trip(rows[i])
                                  /\ after[i].journey = rows[i].journey
<1>1. CASE Cancellations(rows, after)
  <2>1. ASSUME NEW i \in DOMAIN rows
        PROVE  Trip(after[i]) = Trip(rows[i]) /\ after[i].journey = rows[i].journey
    <3>1. PICK old \in Row : old = rows[i]
      BY DEF Rows
    <3>2. after[i] = old \/ after[i] = [old EXCEPT !.status = "CANCELLED"]
      BY <1>1, <3>1 DEF Cancellations
    <3> QED
      BY <3>1, <3>2 DEF Row, Trip
  <2> QED
    BY <1>1, <2>1 DEF Cancellations
<1>2. ASSUME NEW id \in DOMAIN rows, Moved(rows, after, id)
      PROVE  /\ DOMAIN after = DOMAIN rows
             /\ \A i \in DOMAIN rows : /\ Trip(after[i]) = Trip(rows[i])
                                      /\ after[i].journey = rows[i].journey
  <2>1. DOMAIN after = DOMAIN rows /\ \A i \in DOMAIN rows \ {id} : after[i] = rows[i]
    BY ONLY <1>2, Zenon DEF Moved
  <2>2. PICK old \in Row : old = rows[id]
    BY DEF Rows
  <2>3. /\ after[id] = [rows[id] EXCEPT !.coach = after[id].coach,
                                       !.seats = after[id].seats, !.status = "ACTIVE"]
        /\ RunOf[after[id].coach] = RunOf[rows[id].coach]
    BY ONLY <1>2, Zenon DEF Moved
  <2>4. after[id] = [coach |-> after[id].coach, from |-> old.from, to |-> old.to,
                     seats |-> after[id].seats, journey |-> old.journey,
                     status |-> "ACTIVE"]
    BY ONLY <2>2, <2>3 DEF Row
  <2>5. Trip(after[id]) = Trip(old) /\ after[id].journey = old.journey
    BY <2>2, <2>3, <2>4 DEF Trip
  <2> QED
    BY <2>1, <2>2, <2>5
<1> QED
  BY <1>1, <1>2

-----------------------------------------------------------------------------
(* The theorems *)

RegInv == IInv /\ Underway /\ Whole(ledger) /\ (Ordered => Timely(ledger))

\* A change keeps itineraries whole and their changes possible.
LEMMA OneChangeKeeps ==
  ASSUME NEW rows, Rows(rows), NEW after, OneChange(rows, after)
  PROVE  /\ Whole(rows) => Whole(after)
         /\ Ordered /\ Timely(rows) => Timely(after)
<1>1. CASE Cancellations(rows, after) \/ \E id \in DOMAIN rows : Moved(rows, after, id)
  BY <1>1, ChangeKeepsTrips, KeptRows
<1>2. CASE \E r \in Requests, ids \in Seq(Ids) :
             Sold(rows, after, r, ids) /\ Len(ids) = Len(r.legs)
  BY <1>2, SoldRows
<1> QED
  BY <1>1, <1>2 DEF OneChange

\* The inductive invariant, with the transactions measured against the ledger.
THEOREM RegisterInvariance == Spec => []RegInv
<1>1. Init => RegInv
  <2> SUFFICES ASSUME Init PROVE RegInv
    OBVIOUS
  <2>1. IInv
    BY InitInv
  <2>2. Underway
    BY LedgerAssumption DEF Init, Underway
  <2>3. Whole(ledger) /\ Timely(ledger)
    BY NoRows DEF Init, Whole, Timely
  <2> QED
    BY <2>1, <2>2, <2>3 DEF RegInv
<1>2. RegInv /\ [Next]_vars => RegInv'
  <2> SUFFICES ASSUME RegInv, [Next]_vars PROVE RegInv'
    OBVIOUS
  <2>1. IInv' /\ Underway'
    BY InductiveStep, StepUnderway DEF RegInv
  <2>2. Rows(ledger)
    BY DEF RegInv, IInv, TypeOK, Rows
  <2>3. Whole(ledger') /\ (Ordered => Timely(ledger'))
    <3>1. CASE OneChange(ledger, ledger')
      BY <2>2, <3>1, OneChangeKeeps DEF RegInv
    <3>2. CASE \E c \in Conns : ClearAll(c)
      BY <3>2, NoRows DEF ClearAll, Whole, Timely
    <3> QED
      BY <3>1, <3>2, StepChanges DEF RegInv
  <2> QED
    BY <2>1, <2>3 DEF RegInv, Whole, Timely, Complete, LegsOf, Trips
<1> QED
  BY <1>1, <1>2, PTL DEF Spec

\* An itinerary is in the ledger with all of its legs or with none, whatever
\* was refused, crashed or written beside it (booking_store.py:526-559).
THEOREM ItinerariesWhole == Spec => []WholeItineraries
<1>1. RegInv => WholeItineraries
  <2> SUFFICES ASSUME Whole(ledger) PROVE WholeItineraries
    BY DEF RegInv
  <2> SUFFICES ASSUME NEW j \in DOMAIN ledger, ledger[j].journey # NoJourney
               PROVE  \E r \in Requests :
                        /\ r.kind = "itinerary"
                        /\ Cardinality(RowsOf(ledger[j].journey)) = Len(r.legs)
                        /\ {Trip(ledger[i]) : i \in RowsOf(ledger[j].journey)}
                             = {Trip(r.legs[k]) : k \in 1..Len(r.legs)}
    BY DEF WholeItineraries
  <2>1. Complete(ledger, LegsOf(ledger, ledger[j].journey))
    BY DEF Whole
  <2>2. LegsOf(ledger, ledger[j].journey) = RowsOf(ledger[j].journey)
    BY DEF LegsOf, RowsOf
  <2>3. Complete(ledger, RowsOf(ledger[j].journey))
    BY <2>1, <2>2
  <2> QED
    BY <2>3 DEF Complete, Trips
<1> QED
  BY <1>1, RegisterInvariance, PTL

\* Where a change of train takes no less than a change of seat, every change of
\* a saved journey can be made, after any rebooking (booking_store.py:545-552).
THEOREM ChangesPossible ==
  ASSUME MinSeatChange <= MinTrainChange
  PROVE  Spec => []ChangesCanBeMade
<1>1. Ordered
  BY DEF Ordered
<1>2. RegInv => ChangesCanBeMade
  BY <1>1 DEF RegInv, Timely, ChangesCanBeMade, InTime, Buffer
<1> QED
  BY <1>2, RegisterInvariance, PTL

\* A row leaves the ledger only by clear() and keeps its run, stretch and
\* journey until then (booking_store.py:415-431, 561-580).
THEOREM HistoryIsKept == Spec => HistoryKept
<1> DEFINE Kept ==
      \A i \in DOMAIN ledger :
        \/ \E c \in Conns : job[c].kind = "clear" /\ phase[c] = "asked" /\ phase'[c] = "ok"
        \/ /\ i \in DOMAIN ledger'
           /\ Trip(ledger'[i]) = Trip(ledger[i])
           /\ ledger'[i].journey = ledger[i].journey
<1>1. RegInv /\ [Next]_vars => [Kept]_ledger
  <2> SUFFICES ASSUME RegInv, [Next]_vars PROVE Kept
    OBVIOUS
  <2>1. Rows(ledger)
    BY DEF RegInv, IInv, TypeOK, Rows
  <2>2. CASE \E c \in Conns : ClearAll(c)
    <3>1. PICK c \in Conns : ClearAll(c)
      BY <2>2
    <3>2. job[c].kind = "clear" /\ phase[c] = "asked" /\ phase'[c] = "ok"
      BY <3>1 DEF ClearAll, Goto, RegInv, IInv, TypeOK
    <3> QED
      BY <3>2
  <2>3. CASE \/ Cancellations(ledger, ledger')
             \/ \E id \in DOMAIN ledger : Moved(ledger, ledger', id)
    BY <2>1, <2>3, ChangeKeepsTrips
  <2>4. CASE \E r \in Requests, ids \in Seq(Ids) :
               Sold(ledger, ledger', r, ids) /\ Len(ids) = Len(r.legs)
    BY <2>4 DEF Sold
  <2> QED
    BY <2>2, <2>3, <2>4, StepChanges DEF RegInv, OneChange
<1> QED
  BY <1>1, RegisterInvariance, PTL DEF Spec, HistoryKept

\* The connections together implement the register: whatever a transaction does
\* to its copy, and however steps interleave and programs die, everybody else
\* sees whole sales, cancellations, moves and wipes that keep seats exclusive.
THEOREM LedgerImplementsRegister == Spec => ImplementsRegister
<1>1. Init => Register!Init
  BY DEF Init, Register!Init
<1>2. RegInv /\ [Next]_vars => [Register!Next]_ledger
  <2> SUFFICES ASSUME RegInv, [Next]_vars, ledger' # ledger PROVE Register!Next
    OBVIOUS
  <2>1. Rows(ledger)
    BY DEF RegInv, IInv, TypeOK, Rows
  <2>2. Exclusive(ledger)'
    BY InductiveStep DEF RegInv, IInv, LedgerInv
  <2>3. CASE \E c \in Conns : ClearAll(c)
    BY <2>3 DEF ClearAll, Register!Next, Register!Wipe
  <2>4. CASE Cancellations(ledger, ledger')
    BY <2>4 DEF Cancellations, Register!Next, Register!Cancel
  <2>5. ASSUME NEW id \in DOMAIN ledger, Moved(ledger, ledger', id)
        PROVE  Register!Next
    <3>1. Register!Move(id)
      BY <2>2, <2>5 DEF Moved, Register!Move, Register!Run, Exclusive, OutsideSeed,
                        Disjoint, ActiveIn, SeatsOf, SpanOf, Span, Register!Exclusive,
                        Register!OutsideSeed, Register!Disjoint, Register!ActiveIn,
                        Register!SeatsOf, Register!SpanOf, Register!Span, Segments,
                        Register!Segments
    <3> QED
      BY <3>1 DEF Register!Next
  <2>6. ASSUME NEW r \in Requests, NEW ids \in Seq(Ids), Sold(ledger, ledger', r, ids),
               Len(ids) = Len(r.legs)
        PROVE  Register!Next
    <3> DEFINE new == DOMAIN ledger' \ DOMAIN ledger
    <3>1. /\ Cardinality(new) = Len(r.legs)
          /\ {Trip(ledger'[i]) : i \in new} = {Trip(r.legs[k]) : k \in 1..Len(r.legs)}
          /\ \A i, k \in new : ledger'[i].journey = ledger'[k].journey
          /\ \A i \in new : /\ ledger'[i].status = "ACTIVE"
                           /\ Len(ledger'[i].seats) = r.count
                           /\ RefOf(ledger, r, ledger'[i].journey)
      BY <2>6, NewRows
    <3>2. /\ DOMAIN ledger \subseteq DOMAIN ledger'
          /\ \A i \in DOMAIN ledger : ledger'[i] = ledger[i]
      BY <2>6 DEF Sold
    <3>3. Register!Exclusive(ledger')
      BY <2>2 DEF Exclusive, OutsideSeed, Disjoint, ActiveIn, SeatsOf, SpanOf, Span,
                  Register!Exclusive, Register!OutsideSeed, Register!Disjoint,
                  Register!ActiveIn, Register!SeatsOf, Register!SpanOf, Register!Span,
                  Segments, Register!Segments
    <3> HIDE DEF new
    <3>4. \A i \in new :
            /\ ledger'[i].status = "ACTIVE"
            /\ Len(ledger'[i].seats) = r.count
            /\ (ledger'[i].journey = NoJourney) <=> (r.kind = "single")
            /\ r.kind = "itinerary" =>
                 \A k \in DOMAIN ledger : ledger[k].journey # ledger'[i].journey
      BY <3>1 DEF RefOf
    <3>5. {<<RunOf[ledger'[i].coach], ledger'[i].from, ledger'[i].to>> : i \in new}
            = {<<RunOf[r.legs[k].coach], r.legs[k].from, r.legs[k].to>> : k \in 1..Len(r.legs)}
      BY <3>1 DEF Trip
    <3>6. Register!Cardinality(new) = Cardinality(new)
      BY DEF Cardinality, Register!Cardinality
    <3>7. Register!Sell(r)
      BY <3>1, <3>2, <3>3, <3>4, <3>5, <3>6 DEF Register!Sell, Register!Run, new
    <3> QED
      BY <3>7 DEF Register!Next
  <2> QED
    BY <2>3, <2>4, <2>5, <2>6, StepChanges DEF RegInv, OneChange
<1> QED
  BY <1>1, <1>2, RegisterInvariance, PTL DEF Spec, ImplementsRegister, Register!Spec
=============================================================================
