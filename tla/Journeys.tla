------------------------------ MODULE Journeys ------------------------------
(***************************************************************************)
(* A passenger's search and booking while other programs sell and cancel   *)
(* (src/seat_search.py, src/inventory.py, src/data_store.py, web.py).      *)
(*                                                                         *)
(* A search follows one branch of its tree: a journey grows by what the    *)
(* generators give until it arrives.  A leg-by-leg search reads each coach *)
(* once, when it first needs it, into an inventory of its own; a halt-by-  *)
(* halt search, and the availability page, ask the store's inventory,      *)
(* which is kept between calls while SQLite's data_version agrees.  Rows   *)
(* that are committed in between make both a mixture of old and new.       *)
(*                                                                         *)
(* What the ledger accepts is taken from BookingLedger, operator by        *)
(* operator, over one committed table.                                     *)
(***************************************************************************)
EXTENDS StopMoves, SeedLayer, Lists

CONSTANTS
  Queries,     \* what the form can ask
  Catalogue,   \* the coaches by train number, date and place in the rake
  Draws,       \* what the hash draws for the seed layer of each coach
  OthersLegs,  \* what other programs try to sell
  MaxCommits   \* bound: commits to the ledger

ASSUME CatalogueAssumption ==
  Catalogue \in Seq(Coaches) /\ \A c \in Coaches : \E i \in DOMAIN Catalogue : Catalogue[i] = c

\* Two different stations the data know, and a party of passengers.
ASSUME QueriesAssumption ==
  /\ MaxCommits \in Nat /\ Queries # {}
  /\ \A q \in Queries :
       /\ q.origin # q.destination /\ q.date \in Int
       /\ q.maxTransfers \in Nat /\ q.count \in Nat \ {0}

\* What the ledger is asked to sell is not too far from the booking window for
\* it, the search's limit being another constant.
ASSUME WindowAssumption ==
  /\ MaxJourneyDays <= 4
  /\ \A t \in Trains : \A i \in Route(t) : DaysBefore(t, i) <= 7

\* The seed layer of a coach with free stretches: all its seats are ordered, and
\* the quota is at most a sixteenth of them, or one.
ASSUME DrawsAssumption ==
  \A c \in Coaches :
    LET draw == Draws[c]
    IN  draw.tier \in 3..8 =>
          /\ Seed[c] = BusyMasks(Halts[c[1]], draw, MinSeatChange)
          /\ draw.spacing \in Nat \ {0} /\ draw.quota \in Nat \ {0}
          /\ DOMAIN draw.order = 1..Len(draw.order) /\ Range(draw.order) = Seats
          /\ Len(draw.order) \in Nat /\ 2 * draw.quota <= Len(draw.order)
          /\ \A i, k \in DOMAIN draw.order : draw.order[i] = draw.order[k] => i = k

\* The extracts have no train that ends its route without halting.
ASSUME RealHaltsAssumption ==
  \A t \in Trains : \A i \in Route(t) : Halt(t, i).halt # 0

VARIABLES
  rows,      \* the ledger, in order of creation
  version,   \* SQLite's data_version
  phase,     \* idle, leg (by leg), halt (by halt), call (of the store's inventory), offer
  query,     \* what was asked
  mode,      \* same_train or different_train
  asked,     \* the version when it was asked
  journey,   \* the branch of the search
  due,       \* coaches the next step has still to read, in order
  inv,       \* the search's own inventory
  kept,      \* the store's inventory
  stamp      \* the version it was made at, or -1

vars == <<rows, version, phase, query, mode, asked, journey, due, inv, kept, stamp>>
ledgerVars == <<rows, version>>
taskVars   == <<query, mode, asked>>

Modes  == {"same_train", "different_train"}
Unread == <<>>
Empty  == [c \in Coaches |-> Unread]

-----------------------------------------------------------------------------
\* The ledger

StationsAt == [r \in Runs |-> [s \in Stops |-> IF s < Len(Halts[r[1]]) THEN Code(r[1], s + 1) ELSE None]]
DepartsAt  == [r \in Runs |-> [s \in Stops |-> IF s < Len(Halts[r[1]]) THEN Departs(Halt(r[1], s + 1), r[2]) ELSE 0]]
ArrivesAt  == [r \in Runs |-> [s \in Stops |-> IF s < Len(Halts[r[1]]) THEN Arrives(Halt(r[1], s + 1), r[2]) ELSE 0]]

\* The train runs that day and its times make sense all along the stretch.
Sellable ==
  {leg \in Coaches \X Stops \X Stops :
     LET c == leg[1]
         a == leg[2]
         b == leg[3]
     IN  /\ a < b /\ b < Len(Halts[c[1]])
         /\ Operates(c[1], c[2])
         /\ FirstDay - 7 <= c[2] /\ c[2] <= LastDay + 4
         /\ Missing \notin {DepartsAt[RunOf[c]][a], ArrivesAt[RunOf[c]][b]}
         /\ \A s \in (a + 1)..b : Code(c[1], s) # Code(c[1], s + 1) => Segment(c[1], s) > 0}

Ledger ==
  INSTANCE BookingLedger WITH
    Conns <- {}, NoConn <- None, Ids <- {}, Journeys <- {"J"}, NoJourney <- None,
    StationAt <- StationsAt, DepartAt <- DepartsAt, ArriveAt <- ArrivesAt,
    Requests <- {}, Counts <- {},
    ledger <- rows, work <- rows, lock <- None, open <- <<>>, phase <- <<>>, job <- <<>>,
    made <- <<>>, retired <- {}

LegOf(t) ==
  [coach |-> <<t.train, t.run, t.coach>>, auto |-> FALSE, seats |-> t.seats,
   from |-> LastCall(t.train, t.from) - 1, to |-> LastCall(t.train, t.to) - 1]

LegsOf(j) == [i \in DOMAIN j.tickets |-> LegOf(j.tickets[i])]

\* One leg inserted in the itinerary's transaction, or its rollback.
AddLeg(state, leg) ==
  IF ~state.ok THEN state
  ELSE LET row == Ledger!NewRow(state.rows, leg, query.count, "J")
       IN  IF /\ Ledger!Bookable(state.rows, leg, query.count, "J")
              /\ Ledger!Follows(state.rows, state.made, row)
           THEN [ok |-> TRUE, rows |-> Append(state.rows, row),
                 made |-> Append(state.made, Len(state.rows) + 1)]
           ELSE [state EXCEPT !.ok = FALSE]

Booked(legs) ==
  LET after[n \in 0..Len(legs)] ==
        IF n = 0 THEN [ok |-> TRUE, rows |-> rows, made |-> <<>>] ELSE AddLeg(after[n - 1], legs[n])
  IN  after[Len(legs)]

\* What an inventory reads of a coach.
Masks(coach) == [s \in Seats |-> Occupied(rows, coach, s)]

\* Only seats that have been named are offered for booking.
Bookable(j) ==
  \A i \in DOMAIN j.tickets :
    j.tickets[i].status = "CONFIRMED" /\ Len(j.tickets[i].seats) = query.count

-----------------------------------------------------------------------------
\* Searching

NoQuery == CHOOSE q \in Queries : TRUE

Closed ==
  /\ phase' = "idle"
  /\ query' = NoQuery /\ mode' = "same_train" /\ asked' = 0 /\ journey' = InitialState(NoQuery)
  /\ due' = <<>> /\ inv' = Empty
  /\ UNCHANGED <<kept, stamp>>

\* A program starts on a ledger that may hold a sale already.
Init ==
  /\ rows \in {<<>>} \cup {<<Ledger!NewRow(<<>>, leg, 1, None)>> : leg \in OthersLegs}
  /\ version = 0 /\ phase = "idle"
  /\ query = NoQuery /\ mode = "same_train" /\ asked = 0 /\ journey = InitialState(NoQuery)
  /\ due = <<>> /\ inv = Empty /\ kept = Empty /\ stamp = -1

\* The coaches of every train a leg may be ridden on.
DueForLeg(j, q, m) ==
  IF IsGoal(j, q) THEN <<>>
  ELSE LET coming == {<<d[1], d[3]>> : d \in Departures(j, q, m)}
       IN  Picked(Catalogue, {i \in DOMAIN Catalogue :
                                RunOf[Catalogue[i]] \in coming /\ inv[Catalogue[i]] = Unread})

\* The coaches of the day's trains that call where the journey is.
DueForCall(masks) ==
  Picked(Catalogue, {i \in DOMAIN Catalogue :
    LET c == Catalogue[i]
    IN  masks[c] = Unread /\ c[2] = query.date /\ Calls(c[1], journey.at) # {}})

\* A date outside the window is not searched at all.
Ask ==
  /\ phase = "idle"
  /\ \E q \in Queries, m \in Modes, way \in {"leg", "halt"} :
       /\ q.date \in FirstDay..LastDay
       /\ phase' = way
       /\ query' = q /\ mode' = m /\ journey' = InitialState(q)
       /\ due' = IF way = "leg" THEN DueForLeg(InitialState(q), q, m) ELSE <<>>
  /\ asked' = version
  /\ UNCHANGED <<rows, version, inv, kept, stamp>>

ReadOwn ==
  /\ phase = "leg" /\ due # <<>>
  /\ due' = Tail(due)
  /\ inv' = [inv EXCEPT ![Head(due)] = Masks(Head(due))]
  /\ UNCHANGED <<ledgerVars, taskVars, phase, journey, kept, stamp>>

Ride ==
  /\ phase = "leg" /\ ~IsGoal(journey, query) /\ due = <<>>
  /\ journey' \in SeatSuccessors(inv, journey, query, mode)
  /\ due' = DueForLeg(journey', query, mode)
  /\ UNCHANGED <<ledgerVars, taskVars, phase, inv, kept, stamp>>

\* Fault: the new version is noted, and what was read before it is kept.
CallStampingAnew ==
  /\ phase = "halt"
  /\ phase' = "call"
  /\ due' = DueForCall(kept)
  /\ stamp' = version
  /\ UNCHANGED <<ledgerVars, taskVars, journey, inv, kept>>

\* The store's inventory is kept unless another connection has written.
Call ==
  /\ phase = "halt"
  /\ phase' = "call"
  /\ kept' = IF stamp = version THEN kept ELSE Empty
  /\ stamp' = version
  /\ due' = DueForCall(kept')
  /\ UNCHANGED <<ledgerVars, taskVars, journey, inv>>

ReadKept ==
  /\ phase = "call" /\ due # <<>>
  /\ due' = Tail(due)
  /\ kept' = [kept EXCEPT ![Head(due)] = Masks(Head(due))]
  /\ UNCHANGED <<ledgerVars, taskVars, phase, journey, inv, stamp>>

\* One call of a halt-by-halt generator.
Move(successors) ==
  /\ phase = "call" /\ due = <<>> /\ ~IsGoal(journey, query)
  /\ journey' \in successors
  /\ phase' = "halt"
  /\ UNCHANGED <<ledgerVars, taskVars, due, inv, kept, stamp>>

Board       == journey.train = None /\ Move(Boarding(kept, journey, query, mode))
Continue    == journey.train # None /\ Move(Continuing(kept, journey, query))
ChangeCoach == journey.train # None /\ mode = "same_train" /\ Move(ChangingCoach(kept, journey, query))
ChangeTrain == journey.train # None /\ mode = "different_train" /\ Move(ChangingTrain(kept, journey, query))

\* The search has arrived; connections alone are kept of the second agent's.
OfferSeats ==
  /\ phase = "leg" /\ IsGoal(journey, query)
  /\ mode = "different_train" => Len(journey.tickets) > 1
  /\ phase' = "offer"
  /\ UNCHANGED <<ledgerVars, taskVars, journey, due, inv, kept, stamp>>

OfferRide ==
  /\ phase = "call" /\ IsGoal(journey, query) /\ due = <<>>
  /\ journey' = Finished(kept, journey, query)
  /\ phase' = "offer"
  /\ UNCHANGED <<ledgerVars, taskVars, due, inv, kept, stamp>>

\* The page is left, or the branch leads nowhere.
Leave ==
  /\ phase # "idle"
  /\ Closed
  /\ UNCHANGED ledgerVars

-----------------------------------------------------------------------------
\* Booking

Commit(new) ==
  /\ version < MaxCommits
  /\ version' = version + 1
  /\ rows' = new

Book ==
  /\ phase = "offer" /\ Bookable(journey) /\ Booked(LegsOf(journey)).ok
  /\ Commit(Booked(LegsOf(journey)).rows)
  /\ Closed

OthersSell(leg) ==
  /\ Ledger!Bookable(rows, leg, 1, None)
  /\ Commit(Append(rows, Ledger!NewRow(rows, leg, 1, None)))
  /\ UNCHANGED <<taskVars, phase, journey, due, inv, kept, stamp>>

OthersCancel(i) ==
  /\ rows[i].status = "ACTIVE"
  /\ Commit(Ledger!Cancelled(rows, i))
  /\ UNCHANGED <<taskVars, phase, journey, due, inv, kept, stamp>>

Next ==
  \/ Ask
  \/ Call \/ ReadOwn \/ ReadKept
  \/ Ride \/ Board \/ Continue \/ ChangeCoach \/ ChangeTrain
  \/ OfferSeats \/ OfferRide \/ Leave \/ Book
  \/ \E leg \in OthersLegs : OthersSell(leg)
  \/ \E i \in DOMAIN rows : OthersCancel(i)

Spec == Init /\ [][Next]_vars

-----------------------------------------------------------------------------
\* The list of direct services (web.direct_trains)

Direct(train, q) ==
  /\ Calls(train, q.origin) # {} /\ Reaches(train, q.destination, IndexOf(train, q.origin))
  /\ Halt(train, IndexOf(train, q.origin)).halt # 0
  /\ Halt(train, IndexOf(train, q.destination)).halt # 0

\* The best status a class of the train has, in rake order; all are shown.
Shown(train, run, q, class) ==
  LET from == IndexOf(train, q.origin)
      to   == IndexOf(train, q.destination)
  IN  {Priority(Status([k \in Coaches |-> Masks(k)], <<train, run, c>>, from, to, q.count)) :
         c \in {c \in Reservable(train) : ClassOf[c] = class}}

OnPanel(t, q) ==
  LET from == Halt(t.train, IndexOf(t.train, q.origin))
  IN  /\ Direct(t.train, q)
      /\ t.run = q.date - DaysBefore(t.train, IndexOf(t.train, q.origin))
      /\ Arrives(Halt(t.train, IndexOf(t.train, q.destination)), t.run) > Departs(from, t.run)
      /\ Least(Shown(t.train, t.run, q, ClassOf[t.coach])) = Priority(t.status)

-----------------------------------------------------------------------------
\* Properties

TicketsOf(j) == 1..Len(j.tickets)
Changes(j)   == 1..(Len(j.tickets) - 1)

\* Offered by a search of the running program: it has read an inventory.
ByLegs == phase = "offer" /\ inv # Empty

\* Every journey is at a place, holds whole tickets and counts its changes.
TypeOK ==
  /\ version \in 0..MaxCommits /\ asked \in 0..version /\ stamp \in -1..version
  /\ phase \in {"idle", "leg", "halt", "call", "offer"}
  /\ query \in Queries /\ mode \in Modes /\ Range(due) \subseteq Coaches
  /\ \A c \in Coaches :
       {inv[c], kept[c]} \subseteq {Unread} \cup [Seats -> SUBSET Segments]
  /\ journey.at \in Stations \cup {query.origin} /\ journey.moving \in Nat
  /\ journey.train \in Trains \cup {None}
  /\ journey.transfers \in 0..query.maxTransfers
  /\ \A i \in TicketsOf(journey) :
       /\ journey.tickets[i].train \in Trains
       /\ journey.tickets[i].coach \in Reservable(journey.tickets[i].train)
       /\ Range(journey.tickets[i].seats) \subseteq Seats

SeatsFree(j) ==
  \A i \in TicketsOf(j) :
    LET leg == LegOf(j.tickets[i])
    IN  Range(leg.seats) \subseteq Available(rows, leg.coach, leg.from, leg.to)

\* A journey offered with seats is one the ledger takes as it stands, unless
\* a seat of it has been sold since: its times, changes and dates are never
\* the reason of a refusal; and while nothing has been committed since the
\* search began no seat of it has been sold.
OfferStands ==
  phase = "offer" /\ Bookable(journey) =>
    /\ Booked(LegsOf(journey)).ok <=> SeatsFree(journey)
    /\ version = asked => SeatsFree(journey)

\* What is offered answers the query, by either generator: from the origin to
\* the destination by tickets that join, with time for every change, in the
\* class, the region and the number of changes asked for, and never through a
\* place twice.
WithinQuery ==
  phase = "offer" =>
    LET t == journey.tickets
    IN  /\ t[1].from = query.origin /\ Last(t).to = query.destination
        /\ Len(t) <= query.maxTransfers + 1 /\ journey.transfers = Len(t) - 1
        /\ Cardinality(Visited(journey)) = Len(t) + 1
        /\ \A i \in TicketsOf(journey) : Allowed(query, t[i].coach)
        /\ version = asked => \A i \in TicketsOf(journey) : t[i].status \notin {"UNAVAILABLE", None}
        /\ \A i \in Changes(journey) :
             LET same == t[i].train = t[i + 1].train
             IN  /\ t[i].to = t[i + 1].from
                 /\ t[i + 1].dep - t[i].arr >= (IF same THEN MinSeatChange ELSE MinTrainChange)
                 /\ same = (mode = "same_train")
                 /\ same => /\ query.tolerance # "none"
                            /\ <<t[i].coach, t[i].seats>> # <<t[i + 1].coach, t[i + 1].seats>>
                            /\ query.tolerance = "short_walk" =>
                                 CoachDistance(t[i].train, t[i].coach, t[i + 1].coach) <= MaxShortWalk

\* While the version noted is the ledger's, everything the store's inventory
\* holds is what the ledger holds.
KeptAgrees ==
  stamp = version => \A c \in Coaches : kept[c] \in {Unread, Masks(c)}

\* The estimate never falls by more than the step costs: what A* needs to be
\* right about the journeys it finishes.
EstimateConsistent ==
  [][journey'.moving # journey.moving /\ phase' # "idle" =>
       Estimate(journey.at, query.destination)
         <= journey'.moving - journey.moving + Estimate(journey'.at, query.destination)]_vars

\* The ends of the free stretches of a coach that has such stretches.
Edges(coach) ==
  IF Draws[coach].tier \in 3..8
  THEN Range(Boundaries(Halts[coach[1]], Draws[coach].spacing, MinSeatChange)) ELSE {}

\* In a class whose free seats come in stretches nobody is given one seat
\* beyond the end of a stretch: crossing it takes a change of seats.
BoundariesSplit ==
  phase = "offer" =>
    \A i \in TicketsOf(journey) :
      LET leg == LegOf(journey.tickets[i])
      IN  leg.seats # <<>> => \A e \in Edges(leg.coach) : ~(leg.from < e /\ e < leg.to)

\* A direct journey the search offers is on the list of direct services, with
\* the status shown there for its class, as long as nothing was committed.
DirectOnPanel ==
  ByLegs /\ version = asked /\ Len(journey.tickets) = 1 =>
    OnPanel(journey.tickets[1], query)

\* A train's times add up: what a ticket spends on the way is its moving time
\* and the halts it passes (rail_graph.py: journeys over several days are
\* handled exactly).
HaltsWithin(t) ==
  LET inner == (LastCall(t.train, t.from) + 1)..(IndexOf(t.train, t.to) - 1)
  IN  FoldFunction(LAMBDA x, y : x + y, 0, [i \in inner |-> Halt(t.train, i).halt])

TimesAddUp ==
  ByLegs =>
    LET t == journey.tickets
    IN  journey.moving + FoldFunction(LAMBDA x, y : x + y, 0, [i \in TicketsOf(journey) |-> HaltsWithin(t[i])])
          = FoldFunction(LAMBDA x, y : x + y, 0, [i \in TicketsOf(journey) |-> t[i].arr - t[i].dep])
=============================================================================
