------------------------------ MODULE StopMoves ------------------------------
(***************************************************************************)
(* How a journey is extended halt by halt (src/successors.py and           *)
(* src/successors_different_train.py, over src/constraint_checks.py): the  *)
(* generators the algorithms fall back on.  A passenger boards, rides on   *)
(* to the next halt, changes coach or changes train; a ticket is closed,   *)
(* at its status then, when its coach is left.  Every train is the one     *)
(* that starts on the date of the query.                                   *)
(***************************************************************************)
EXTENDS SeatLegs

Origin(j, q) == IF j.tickets = <<>> THEN q.origin ELSE Last(j.tickets).to

\* A halt to ride on to: the one after the first call at the journey's place.
HasNext(j, q, train) ==
  /\ Calls(train, j.at) # {}
  /\ IndexOf(train, j.at) < Len(Halts[train])
  /\ Code(train, IndexOf(train, j.at) + 1) \notin Visited(j)

\* Trains that start on the date and call at the place.
RunningThrough(j, q) == {t \in Trains : Calls(t, j.at) # {} /\ RunsOnDate(t, q.date)}

-----------------------------------------------------------------------------
\* Availability, for one passenger

PairStatus(masks, q, train, code, i, k) ==
  IF Code(train, i) = Code(train, k) THEN "UNAVAILABLE"
  ELSE Status(masks, <<train, q.date, code>>, i, k, 1)

\* Halts from i where a ticket could be closed: none past the destination.
ClosingPoints(q, train, i) ==
  {k \in i..Len(Halts[train]) : \A g \in i..(k - 1) : Code(train, g) # q.destination}

\* Some point ahead can be booked from halt i in the coach.
CanClose(masks, q, train, code, i, points) ==
  \E k \in points : PairStatus(masks, q, train, code, i, k) # "UNAVAILABLE"

BestStatus(masks, q, train, code, i, points) ==
  Least({Priority(PairStatus(masks, q, train, code, i, k)) : k \in points})

\* The best coach of each class: status, then nearness, then place in the rake.
BestCoaches(masks, q, train, i, points, exclude) ==
  LET open    == {c \in Reservable(train) \ {exclude} :
                    Operates(train, q.date) /\ CanClose(masks, q, train, c, i, points)}
      away(c) == IF exclude = None THEN 0 ELSE CoachDistance(train, exclude, c)
      rank(c) == 10000 * BestStatus(masks, q, train, c, i, points) + 100 * away(c) + Position(train, c)
  IN  {c \in open : Allowed(q, c) /\ \A d \in open : ClassOf[d] = ClassOf[c] => rank(c) <= rank(d)}

\* The ticket ridden so far, ending at the journey's place.
Closing(masks, j, q) ==
  LET from == IndexOf(j.train, Origin(j, q))
      to   == IndexOf(j.train, j.at)
      left == Departs(Halt(j.train, from), q.date)
  IN  [train |-> j.train, run |-> q.date, from |-> Origin(j, q), to |-> j.at, coach |-> j.coach,
       dep |-> IF left = Missing THEN j.arrives ELSE left, arr |-> j.arrives,
       status |-> IF from < to THEN PairStatus(masks, q, j.train, j.coach, from, to) ELSE None,
       seats |-> <<>>]

Leaves(masks, j, q) == Closing(masks, j, q).status \notin {"UNAVAILABLE", None}

-----------------------------------------------------------------------------
\* The moves

Onboard(j, train, coach, time) ==
  [j EXCEPT !.train = train, !.coach = coach, !.arrives = time]

Boarding(masks, j, q, mode) ==
  UNION {LET i == IndexOf(t, j.at)
         IN  {Onboard(j, t, c, Departs(Halt(t, i), q.date)) :
                c \in BestCoaches(masks, q, t, i, ClosingPoints(q, t, i + 1), None)} :
           t \in {t \in RunningThrough(j, q) :
                    /\ HasNext(j, q, t)
                    /\ mode = "same_train" => Reaches(t, q.destination, IndexOf(t, j.at))
                    /\ Departs(Halt(t, IndexOf(t, j.at)), q.date) # Missing}}

Continuing(masks, j, q) ==
  LET i == IndexOf(j.train, j.at)
  IN  IF /\ RunsOnDate(j.train, q.date) /\ Allowed(q, j.coach) /\ HasNext(j, q, j.train)
         /\ Segment(j.train, i) > 0
         /\ Arrives(Halt(j.train, i + 1), q.date) # Missing
         /\ CanClose(masks, q, j.train, j.coach, IndexOf(j.train, Origin(j, q)),
                     ClosingPoints(q, j.train, i + 1))
      THEN {[j EXCEPT !.at = Code(j.train, i + 1), !.moving = @ + Segment(j.train, i),
                      !.arrives = Arrives(Halt(j.train, i + 1), q.date)]}
      ELSE {}

\* Fault: the changes made are compared with the budget, not the one to make.
MayChangeOnceMore(masks, j, q) ==
  /\ j.transfers <= q.maxTransfers
  /\ Allowed(q, j.coach) /\ RunsOnDate(j.train, q.date)
  /\ Origin(j, q) # j.at
  /\ Leaves(masks, j, q)

\* A change is only made after riding, within the budget, from a ticket that
\* can be booked.
MayChange(masks, j, q) ==
  /\ j.transfers + 1 <= q.maxTransfers
  /\ Allowed(q, j.coach) /\ RunsOnDate(j.train, q.date)
  /\ Origin(j, q) # j.at
  /\ Leaves(masks, j, q)

Changed(masks, j, q) ==
  [j EXCEPT !.tickets = Append(@, Closing(masks, j, q)), !.transfers = @ + 1]

ChangingCoach(masks, j, q) ==
  LET i == IndexOf(j.train, j.at)
  IN  IF /\ q.tolerance # "none" /\ HasNext(j, q, j.train)
         /\ Halt(j.train, i).halt >= MinSeatChange
         /\ MayChange(masks, j, q)
      THEN {Onboard(Changed(masks, j, q), j.train, c, j.arrives) :
              c \in {c \in BestCoaches(masks, q, j.train, i, ClosingPoints(q, j.train, i + 1), j.coach) :
                       q.tolerance = "short_walk" => CoachDistance(j.train, j.coach, c) <= MaxShortWalk}}
      ELSE {}

\* Fault: a connection that leaves before the arrival is not noticed.
InTimeAlways(j, time) == time # Missing

InTime(j, time) == time # Missing /\ time - j.arrives >= MinTrainChange

ChangingTrain(masks, j, q) ==
  IF ~MayChange(masks, j, q) THEN {}
  ELSE UNION {LET i == IndexOf(t, j.at)
              IN  {Onboard(Changed(masks, j, q), t, c, Departs(Halt(t, i), q.date)) :
                     c \in BestCoaches(masks, q, t, i, ClosingPoints(q, t, i + 1), None)} :
                t \in {t \in RunningThrough(j, q) \ {j.train} :
                         /\ HasNext(j, q, t)
                         /\ Reaches(t, q.destination, IndexOf(t, j.at))
                         /\ InTime(j, Departs(Halt(t, IndexOf(t, j.at)), q.date))}}

\* A goal's last ticket.
Finished(masks, j, q) ==
  IF j.closed \/ j.train = None THEN j
  ELSE [j EXCEPT !.tickets = Append(@, Closing(masks, j, q))]
=============================================================================
