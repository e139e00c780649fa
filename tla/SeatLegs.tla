------------------------------ MODULE SeatLegs ------------------------------
(***************************************************************************)
(* How a journey is extended, leg by leg, in the searches of the running   *)
(* program (src/seat_search.py): one step is a whole ticket between two    *)
(* halts, with a coach and its seats.                                      *)
(*                                                                         *)
(* A coach of the inventory is <<train, run, code>>.  `masks' is the       *)
(* occupation a cached inventory holds, per coach and seat.                *)
(***************************************************************************)
EXTENDS Timetable, SeatInventory

CONSTANTS
  Region,          \* station codes of the region a query may be restricted to
  Alphabet,        \* coach codes in alphabetical order
  MinSeatChange, MinTrainChange, MaxJourneyDays, MaxShortWalk

InitialState(q) ==
  [at |-> q.origin, arrives |-> q.date * Day, train |-> None, coach |-> None,
   tickets |-> <<>>, transfers |-> 0, moving |-> 0, closed |-> FALSE]

IsGoal(j, q)   == j.at = q.destination /\ j.train # None
Visited(j)     == UNION {{j.tickets[i].from, j.tickets[i].to} : i \in DOMAIN j.tickets}
InRegion(q, s) == q.region => s \in Region
Allowed(q, c)  == q.hard => ClassOf[c] = q.class
Halt(train, i) == Halts[train][i]
Code(train, i) == Halts[train][i].code

\* Days a train has been under way when its halt i comes.
DaysBefore(train, i) == IF Halt(train, i).day = Missing THEN 0 ELSE Halt(train, i).day - 1

\* Every coach a journey begun within the window can be on is in the inventory.
ASSUME SearchAssumption ==
  /\ MinSeatChange \in Nat /\ MinTrainChange \in Nat /\ MaxShortWalk \in Nat /\ MaxJourneyDays \in Nat
  /\ IsFiniteSet(Seats)
  /\ \A c \in Coaches : RunOf[c] = <<c[1], c[2]>>
  /\ \A t \in Trains :
       /\ Len(Halts[t]) <= LastStop + 1
       /\ \A c \in Reservable(t) :
            /\ \A i \in Route(t) : \A d \in (FirstDay - DaysBefore(t, i))..(LastDay + MaxJourneyDays) :
                 Operates(t, d) => <<t, d, c>> \in Coaches
            /\ \A i, k \in Route(t) : Queue[<<c, Code(t, i), Code(t, k)>>] \in {"RAC", "WAITLIST", "UNAVAILABLE"}

\* Every coach has its place in the alphabet, and ranks by status, walk and
\* place do not run into each other.
ASSUME AlphabetAssumption ==
  /\ DOMAIN Alphabet = 1..Len(Alphabet) /\ Len(Alphabet) \in 0..99
  /\ \A t \in Trains : Reservable(t) \subseteq Range(Alphabet) /\ Len(Rakes[t]) \in 0..99

-----------------------------------------------------------------------------
\* What the inventory answers: it is asked by station.

LastCalls == [t \in Trains |-> [i \in Route(t) |-> LastCall(t, Code(t, i))]]

Between(train, i, k) == Span(LastCalls[train][i] - 1, LastCalls[train][k] - 1)

FreeOver(mask, span)     == {s \in Seats : mask[s] \cap span = {}}
Free(masks, coach, i, k) == FreeOver(masks[coach], Between(coach[1], i, k))

\* A full coach has a queue, but none where this ledger's rows have filled it.
Status(masks, coach, i, k, n) ==
  LET span == Between(coach[1], i, k)
      free == FreeOver(masks[coach], span)
  IN  IF Cardinality(free) >= n THEN "CONFIRMED"
      ELSE IF free = {} /\ FreeOver(Seed[coach], span) # {} THEN "UNAVAILABLE"
      ELSE Queue[<<coach[3], Code(coach[1], i), Code(coach[1], k)>>]

FirstSeats(seats, n) == IF Cardinality(seats) < n THEN <<>> ELSE FirstFree(seats, n)

Priority(status) ==
  CASE status = "CONFIRMED" -> 0 [] status = "RAC" -> 1 [] status = "WAITLIST" -> 2 [] OTHER -> 9

-----------------------------------------------------------------------------
\* Leg by leg

Previous(j)       == Last(j.tickets)
Continues(j, train) == j.tickets # <<>> /\ Previous(j).train = train

\* Where a train gets to the destination, or 0.
EndOf(train, q) == IF Calls(train, q.destination) = {} THEN 0 ELSE IndexOf(train, q.destination)

\* The passenger may board the train at its halt i.
Boards(j, q, mode, train, i) ==
  /\ i < Len(Halts[train]) /\ Code(train, i) = j.at /\ InRegion(q, j.at)
  /\ j.tickets # <<>> => Continues(j, train) = (mode = "same_train")
  /\ mode = "same_train" => EndOf(train, q) > i
  /\ Continues(j, train) => q.tolerance # "none" /\ Halt(train, i).halt >= MinSeatChange

\* The query's date is the day of boarding; a connection may wait for the next day.
RunDates(j, q, train, i) ==
  IF Continues(j, train) THEN {Previous(j).run}
  ELSE IF j.tickets # <<>> THEN {DateOf(j.arrives) + wait - DaysBefore(train, i) : wait \in {0, 1}}
  ELSE {q.date - DaysBefore(train, i)}

\* Fault: the time for a change of seats is taken to do for every change.
CatchesAnyChange(j, train, i, run) ==
  /\ Operates(train, run)
  /\ Departs(Halt(train, i), run) # Missing
  /\ j.tickets # <<>> => Departs(Halt(train, i), run) - j.arrives >= MinSeatChange

Catches(j, train, i, run) ==
  /\ Operates(train, run)
  /\ Departs(Halt(train, i), run) # Missing
  /\ j.tickets # <<>> =>
       Departs(Halt(train, i), run) - j.arrives
         >= (IF Continues(j, train) THEN MinSeatChange ELSE MinTrainChange)

\* The journey may be continued from halt k: by another seat, or another train.
MaySplit(j, q, mode, train, k) ==
  /\ Len(j.tickets) < q.maxTransfers
  /\ IF mode = "same_train" THEN q.tolerance # "none" /\ Halt(train, k).halt >= MinSeatChange
     ELSE \E t \in Trains \ {train}, i \in 1..(LastStop + 1) :
            /\ i < Len(Halts[t]) /\ Code(t, i) = Code(train, k) /\ EndOf(t, q) > i

Alights(j, q, mode, train, i, run, k) ==
  LET arrival == Arrives(Halt(train, k), run)
  IN  /\ InRegion(q, Code(train, k)) /\ Code(train, k) \notin Visited(j)
      /\ Code(train, k) # q.destination => MaySplit(j, q, mode, train, k)
      /\ arrival > Departs(Halt(train, i), run)
      /\ arrival < (q.date + MaxJourneyDays + 1) * Day

\* Rides from halt i: over segments whose times make sense, not past the goal.
Stretches(j, q, mode, train, i, run) ==
  {k \in (i + 1)..Len(Halts[train]) :
     /\ \A s \in i..(k - 1) : Segment(train, s) > 0
     /\ Alights(j, q, mode, train, i, run, k)
     /\ \A g \in (i + 1)..(k - 1) :
          Code(train, g) = q.destination => ~Alights(j, q, mode, train, i, run, g)}

\* Fault: the passenger may be sent to the seat he sits on.
SeatsInStaying(masks, j, q, coach, i, k) == FirstSeats(Free(masks, coach, i, k), q.count)

\* The seats offered in a coach: not the ones the passenger is to leave.
SeatsIn(masks, j, q, coach, i, k) ==
  LET free  == Free(masks, coach, i, k)
      first == FirstSeats(free, q.count)
  IN  IF Continues(j, coach[1]) /\ Previous(j).coach = coach[3] /\ Previous(j).seats = first
      THEN FirstSeats(free \ Range(Previous(j).seats), q.count) ELSE first

\* Only a direct journey is offered without seats.
Offers(masks, j, q, coach, i, k) ==
  LET status == Status(masks, coach, i, k, q.count)
      walk   == IF Continues(j, coach[1]) THEN CoachDistance(coach[1], Previous(j).coach, coach[3]) ELSE 0
  IN  /\ Allowed(q, coach[3])
      /\ q.tolerance = "short_walk" => walk <= MaxShortWalk
      /\ IF j.tickets # <<>> \/ Code(coach[1], k) # q.destination
         THEN status = "CONFIRMED" /\ SeatsIn(masks, j, q, coach, i, k) # <<>>
         ELSE status # "UNAVAILABLE"

\* Fault: the nearest coach is taken, whatever its status.
RankByWalk(masks, j, q, coach, i, k) ==
  LET walk == IF Continues(j, coach[1]) THEN CoachDistance(coach[1], Previous(j).coach, coach[3]) ELSE 0
  IN  100 * walk + (CHOOSE p \in DOMAIN Alphabet : Alphabet[p] = coach[3])

\* Better status first, then a shorter walk, then the coach code.
CoachRank(masks, j, q, coach, i, k) ==
  LET walk == IF Continues(j, coach[1]) THEN CoachDistance(coach[1], Previous(j).coach, coach[3]) ELSE 0
  IN  10000 * Priority(Status(masks, coach, i, k, q.count)) + 100 * walk
        + (CHOOSE p \in DOMAIN Alphabet : Alphabet[p] = coach[3])

\* One coach of each class.
Chosen(masks, j, q, train, run, i, k) ==
  LET offering == {c \in {<<train, run, code>> : code \in Reservable(train)} :
                     Offers(masks, j, q, c, i, k)}
  IN  {c \in offering : \A d \in offering :
         ClassOf[d[3]] = ClassOf[c[3]] => CoachRank(masks, j, q, c, i, k) <= CoachRank(masks, j, q, d, i, k)}

LegTo(masks, j, q, coach, i, k) ==
  LET train  == coach[1]
      run    == coach[2]
      ticket == [train |-> train, run |-> run, from |-> j.at, to |-> Code(train, k),
                 coach |-> coach[3], dep |-> Departs(Halt(train, i), run),
                 arr |-> Arrives(Halt(train, k), run),
                 status |-> Status(masks, coach, i, k, q.count),
                 seats |-> SeatsIn(masks, j, q, coach, i, k)]
  IN  [at |-> ticket.to, arrives |-> ticket.arr, train |-> train, coach |-> coach[3],
       tickets |-> Append(j.tickets, ticket), transfers |-> Len(j.tickets),
       moving |-> j.moving + SumFunction([s \in i..(k - 1) |-> Segment(train, s)]),
       closed |-> TRUE]

\* The dated runs a journey may be continued on: <<train, halt, run>>.
Departures(j, q, mode) ==
  IF j.tickets # <<>> /\ j.transfers >= q.maxTransfers THEN {}
  ELSE UNION {UNION {{<<t, i, run>> : run \in {d \in RunDates(j, q, t, i) : Catches(j, t, i, d)}} :
                       i \in {k \in Calls(t, j.at) : Boards(j, q, mode, t, k)}} : t \in Trains}

SeatSuccessors(masks, j, q, mode) ==
  UNION {UNION {{LegTo(masks, j, q, c, d[2], k) : c \in Chosen(masks, j, q, d[1], d[3], d[2], k)} :
                  k \in Stretches(j, q, mode, d[1], d[2], d[3])} :
           d \in Departures(j, q, mode)}
=============================================================================
