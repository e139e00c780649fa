--------------------------- MODULE JourneysProofs ---------------------------
(***************************************************************************)
(* Theorems about a passenger's search (Journeys, over SeatLegs and        *)
(* StopMoves), for any timetable, inventory, queries and number of         *)
(* commits.                                                                *)
(***************************************************************************)
EXTENDS Journeys, ListsProofs

-----------------------------------------------------------------------------
\* The store's inventory

\* An inventory is marked with a version the ledger had, and holds a coach only
\* as the ledger held it at that version.
Stamped ==
  /\ version \in Nat /\ stamp \in Int /\ stamp <= version
  /\ kept = [c \in Coaches |-> kept[c]]
  /\ KeptAgrees

LEMMA StampedInit == Init => Stamped
BY DEF Init, Stamped, KeptAgrees, Empty

LEMMA StampedStep == Stamped /\ [Next]_vars => Stamped'
<1> SUFFICES ASSUME Stamped, [Next]_vars PROVE Stamped'
  OBVIOUS
<1> USE DEF Stamped, KeptAgrees
<1>1. CASE UNCHANGED <<rows, version, kept, stamp>>
  BY <1>1 DEF Masks
<1>2. CASE Call
  BY <1>2 DEF Call, ledgerVars, taskVars, Empty, Masks
<1>3. CASE ReadKept
  BY <1>3 DEF ReadKept, ledgerVars, Masks
<1>4. ASSUME NEW new, Commit(new), UNCHANGED <<kept, stamp>> PROVE Stamped'
  BY <1>4 DEF Commit
<1>5. QED
  BY <1>1, <1>2, <1>3, <1>4
  DEF Next, Ask, ReadOwn, Ride, Board, Continue, ChangeCoach, ChangeTrain, Move,
      OfferSeats, OfferRide, Leave, Closed, Book, OthersSell, OthersCancel,
      vars, ledgerVars, taskVars

\* While the version noted is the ledger's, the kept inventory answers from what
\* the ledger holds (data_store.inventory and SQLite's data_version): no commit
\* between two of its reads leaves it with a coach of another version.
THEOREM KeptIsCurrent == Spec => []KeptAgrees
<1>1. Stamped => KeptAgrees
  BY DEF Stamped
<1>2. QED
  BY StampedInit, StampedStep, <1>1, PTL DEF Spec
-----------------------------------------------------------------------------
\* The timetable

\* A time of day, or none, is a number.
LEMMA ClockTyped ==
  /\ \A x \in Clock : x \in Int /\ -1 <= x /\ x < Day
  /\ \A x \in {Missing} \cup (Nat \ {0}) : x \in Int /\ (x # Missing => 1 <= x)
  /\ Missing \in Int /\ Missing = -1 /\ Day \in Nat /\ Day = 1440
BY DEF Clock, Missing, Day

\* Times are numbers, and a station is the code of a halt.
LEMMA HaltTyped ==
  ASSUME NEW t \in Trains, NEW i \in Route(t)
  PROVE  /\ Halt(t, i).arr \in Clock /\ Halt(t, i).dep \in Clock
         /\ Halt(t, i).day \in {Missing} \cup (Nat \ {0})
         /\ Halt(t, i).halt \in Int
         /\ Code(t, i) \in Stations
         /\ \A run \in Int : Departs(Halt(t, i), run) \in Int /\ Arrives(Halt(t, i), run) \in Int
<1>1. /\ Halt(t, i).arr \in Clock /\ Halt(t, i).dep \in Clock
      /\ Halt(t, i).day \in {Missing} \cup (Nat \ {0})
      /\ Halt(t, i).halt = IF Missing \in {Halt(t, i).arr, Halt(t, i).dep} THEN Missing
                           ELSE (Halt(t, i).dep - Halt(t, i).arr) % Day
  BY TimetableAssumption DEF Route, Halt
<1> DEFINE h == Halt(t, i)
<1> HIDE DEF h
<1>0. h.arr \in Int /\ h.dep \in Int /\ h.day \in Int
  BY <1>1, ClockTyped DEF h
<1>2. Halt(t, i).halt \in Int
  <2>1. h.halt = IF Missing \in {h.arr, h.dep} THEN Missing ELSE (h.dep - h.arr) % Day
    BY <1>1 DEF h
  <2>2. (h.dep - h.arr) % Day \in Int
    BY <1>0 DEF Day
  <2>3. QED
    BY <2>1, <2>2, ClockTyped DEF h
<1>3. Code(t, i) \in Stations
  BY DEF Code, Stations
<1>4. ASSUME NEW run \in Int
      PROVE  Departs(Halt(t, i), run) \in Int /\ Arrives(Halt(t, i), run) \in Int
  <2>1. Departs(h, run) \in Int /\ Arrives(h, run) \in Int
    BY <1>0 DEF Departs, Arrives, Datetime, Missing, Day
  <2>2. QED
    BY <2>1 DEF h
<1>5. QED
  BY <1>1, <1>2, <1>3, <1>4

\* A halt's date is the run's, and the days since.
LEMMA DaysTyped ==
  ASSUME NEW t \in Trains, NEW i \in Route(t)
  PROVE  /\ DaysBefore(t, i) \in Nat
         /\ \A run : /\ Departs(Halt(t, i), run) = IF Halt(t, i).dep = Missing THEN Missing
                                                   ELSE (run + DaysBefore(t, i)) * Day + Halt(t, i).dep
                     /\ Arrives(Halt(t, i), run) = IF Halt(t, i).arr = Missing THEN Missing
                                                   ELSE (run + DaysBefore(t, i)) * Day + Halt(t, i).arr
<1>1. DaysBefore(t, i) \in Nat
  BY HaltTyped, ClockTyped DEF DaysBefore
<1>2. QED
  BY <1>1 DEF Departs, Arrives, Datetime, DaysBefore

\* Minutes between neighbouring halts.
LEMMA SegmentTyped ==
  ASSUME NEW t \in Trains, NEW i \in Route(t), i + 1 \in Route(t)
  PROVE  Segment(t, i) \in Int
<1>1. /\ Halt(t, i).arr \in Int /\ Halt(t, i).dep \in Int /\ Halt(t, i).day \in Int
      /\ Halt(t, i + 1).arr \in Int /\ Halt(t, i + 1).dep \in Int /\ Halt(t, i + 1).day \in Int
  <2>1. \A k \in {i, i + 1} : /\ Halt(t, k).arr \in Clock /\ Halt(t, k).dep \in Clock
                              /\ Halt(t, k).day \in {Missing} \cup (Nat \ {0})
    BY HaltTyped
  <2>2. QED
    BY <2>1, ClockTyped
<1>2. QED
  BY <1>1 DEF Segment, SegmentMinutes, Halt, Missing, Day

\* The first of a train's halts at a station.
LEMMA FirstCall ==
  ASSUME NEW t \in Trains, NEW code, Calls(t, code) # {}
  PROVE  /\ IndexOf(t, code) \in Route(t) /\ Code(t, IndexOf(t, code)) = code
         /\ \A i \in Calls(t, code) : IndexOf(t, code) <= i
<1>1. Calls(t, code) \subseteq Nat
  BY TimetableAssumption DEF Calls, Route
<1>2. \E i \in Calls(t, code) : \A k \in Calls(t, code) : i <= k
  BY <1>1, LeastNatural
<1>3. /\ IndexOf(t, code) \in Calls(t, code)
      /\ \A i \in Calls(t, code) : IndexOf(t, code) <= i
  BY <1>2 DEF IndexOf
<1>4. QED
  BY <1>3 DEF Calls, Code

\* A halt that is ridden into is the train's first at its station.
LEMMA RiddenInto ==
  ASSUME NEW t \in Trains, NEW i \in Route(t), i + 1 \in Route(t), Segment(t, i) > 0
  PROVE  /\ Calls(t, Code(t, i + 1)) # {} /\ IndexOf(t, Code(t, i + 1)) = i + 1
         /\ \A k \in 1..i : Code(t, k) # Code(t, i + 1)
<1>1. i \in Nat /\ Len(Halts[t]) \in Nat /\ Route(t) = 1..Len(Halts[t])
  BY TimetableAssumption DEF Route
<1>2. ASSUME NEW k \in 1..i PROVE Code(t, k) # Code(t, i + 1)
  <2> DEFINE b == i + 1
  <2>1. k \in Route(t) /\ b \in Route(t) /\ k < b /\ (b = k + 1 => k = i)
    BY <1>1
  <2>2. ~(Segment(t, i) <= 0)
    BY SegmentTyped
  <2> HIDE DEF b
  <2>3. Halts[t][k].code = Halts[t][b].code => b = k + 1 /\ Segment(t, k) <= 0
    BY <2>1, RoutesAssumption DEF Route
  <2>4. Halts[t][k].code # Halts[t][b].code
    BY <2>1, <2>2, <2>3
  <2>5. QED
    BY <2>4 DEF Code, b
<1>3. i + 1 \in Calls(t, Code(t, i + 1))
  BY DEF Calls, Code
<1>4. IndexOf(t, Code(t, i + 1)) \in Route(t) /\ IndexOf(t, Code(t, i + 1)) <= i + 1
      /\ Code(t, IndexOf(t, Code(t, i + 1))) = Code(t, i + 1)
  BY <1>3, FirstCall
<1>5. QED
  BY <1>1, <1>2, <1>3, <1>4
-----------------------------------------------------------------------------
\* Tickets that make a journey

Places(q) == Stations \cup {q.origin}
Codes     == UNION {Reservable(t) : t \in Trains}
Statuses  == {"CONFIRMED", "RAC", "WAITLIST", "UNAVAILABLE", None}

Tickets(q) ==
  {x \in [train : Trains, run : Int, from : Places(q), to : Places(q), coach : Codes,
          dep : Int, arr : Int, status : Statuses, seats : Seq(Seats)] :
     x.coach \in Reservable(x.train)}

\* No train waits for a change over midnight: the extract has one day for the
\* arrival and the departure.
DayHalts ==
  \A t \in Trains : \A i \in Route(t) :
    Halt(t, i).halt >= MinSeatChange => Halt(t, i).arr <= Halt(t, i).dep

\* There is time for the change, and it is one that was asked for.
Joins(a, b, q, m) ==
  LET same == a.train = b.train
  IN  /\ a.to = b.from
      /\ DayHalts => b.dep - a.arr >= (IF same THEN MinSeatChange ELSE MinTrainChange)
      /\ same = (m = "same_train")
      /\ same => /\ q.tolerance # "none"
                 /\ <<a.coach, a.seats>> # <<b.coach, b.seats>>
                 /\ q.tolerance = "short_walk" => CoachDistance(a.train, a.coach, b.coach) <= MaxShortWalk

\* Tickets that join, from the origin on, each to a place not seen before.
Chain(j, q, m) ==
  /\ j.tickets \in Seq(Tickets(q))
  /\ j.tickets # <<>> => j.tickets[1].from = q.origin
  /\ \A i \in Changes(j) : Joins(j.tickets[i], j.tickets[i + 1], q, m)
  /\ \A i \in TicketsOf(j) : Allowed(q, j.tickets[i].coach)
  /\ IsFiniteSet(Visited(j))
  /\ j.tickets # <<>> => Cardinality(Visited(j)) = Len(j.tickets) + 1
  /\ j.tickets = <<>> => Visited(j) = {}

\* A ticket that continues a journey.
Continuation(j, q, m, x) ==
  /\ x \in Tickets(q) /\ x.from = Origin(j, q)
  /\ x.to \notin Visited(j) /\ x.to # x.from
  /\ Allowed(q, x.coach)
  /\ j.tickets # <<>> => Joins(Last(j.tickets), x, q, m)

\* The last of the tickets is where the journey goes on.
LEMMA LastTicket ==
  ASSUME NEW S, NEW ts \in Seq(S), ts # <<>>
  PROVE  Len(ts) \in Nat /\ Len(ts) >= 1 /\ Last(ts) = ts[Len(ts)] /\ Last(ts) \in S
BY DEF Last

\* A further ticket visits its two ends.
LEMMA VisitedGrows ==
  ASSUME NEW S, NEW j, j.tickets \in Seq(S), NEW h, NEW x \in S, h.tickets = Append(j.tickets, x)
  PROVE  Visited(h) = Visited(j) \cup {x.from, x.to}
<1> DEFINE n == Len(j.tickets)
<1>1. /\ n \in Nat /\ DOMAIN j.tickets = 1..n /\ DOMAIN h.tickets = 1..(n + 1)
      /\ h.tickets[n + 1] = x /\ \A i \in 1..n : h.tickets[i] = j.tickets[i]
  OBVIOUS
<1>2. 1..(n + 1) = (1..n) \cup {n + 1}
  BY <1>1
<1> HIDE DEF n
<1>3. QED
  BY <1>1, <1>2 DEF Visited

\* The places a journey has seen hold both ends of each of its tickets.
LEMMA EndsVisited ==
  ASSUME NEW j, NEW i \in DOMAIN j.tickets
  PROVE  j.tickets[i].from \in Visited(j) /\ j.tickets[i].to \in Visited(j)
BY DEF Visited

Grown(j, x, h) == h.tickets = Append(j.tickets, x)

\* A journey that is continued is still a journey.
LEMMA ChainGrows ==
  ASSUME NEW j, NEW q, NEW m, NEW x, NEW h, Chain(j, q, m), Continuation(j, q, m, x), Grown(j, x, h)
  PROVE  /\ Chain(h, q, m) /\ h.tickets # <<>> /\ Last(h.tickets) = x
         /\ Len(h.tickets) = Len(j.tickets) + 1 /\ Origin(h, q) = x.to
<1> DEFINE n == Len(j.tickets)
<1>0. h.tickets = Append(j.tickets, x)
  BY DEF Grown
<1>1. /\ n \in Nat /\ DOMAIN j.tickets = 1..n /\ j.tickets \in Seq(Tickets(q)) /\ x \in Tickets(q)
      /\ h.tickets \in Seq(Tickets(q)) /\ Len(h.tickets) = n + 1 /\ h.tickets # <<>>
      /\ h.tickets[n + 1] = x /\ \A i \in 1..n : h.tickets[i] = j.tickets[i]
  <2>1. j.tickets \in Seq(Tickets(q)) /\ x \in Tickets(q)
    BY DEF Chain, Continuation
  <2>2. QED
    BY <1>0, <2>1
<1>2. n = 0 <=> j.tickets = <<>>
  BY <1>1
<1>3. Last(h.tickets) = x /\ Origin(h, q) = x.to
  BY <1>1 DEF Last, Origin
<1>4. Visited(h) = Visited(j) \cup {x.from, x.to}
  BY <1>0, <1>1, VisitedGrows
<1>5. CASE n = 0
  <2>1. j.tickets = <<>> /\ x.from = q.origin
    BY <1>2, <1>5 DEF Continuation, Origin
  <2>2. Visited(h) = {x.from, x.to} /\ x.to # x.from
    BY <1>4, <2>1 DEF Chain, Continuation
  <2>3. IsFiniteSet(Visited(h)) /\ Cardinality(Visited(h)) = 2
    <3>1. IsFiniteSet({x.from}) /\ Cardinality({x.from}) = 1
      BY FS_Singleton
    <3>2. {x.from, x.to} = {x.from} \cup {x.to} /\ x.to \notin {x.from}
      BY <2>2
    <3>3. IsFiniteSet({x.from} \cup {x.to}) /\ Cardinality({x.from} \cup {x.to}) = 1 + 1
      BY <3>1, <3>2, FS_AddElement
    <3>4. QED
      BY <2>2, <3>2, <3>3
  <2>4. Chain(h, q, m)
    <3>1. TicketsOf(h) = {1} /\ Changes(h) = {}
      BY <1>1, <1>5 DEF TicketsOf, Changes
    <3>2. QED
      BY <1>1, <1>5, <2>1, <2>3, <3>1 DEF Chain, Continuation
  <2>5. QED
    BY <1>1, <1>3, <2>4
<1>6. CASE n # 0
  <2>1. j.tickets # <<>> /\ n >= 1 /\ Last(j.tickets) = j.tickets[n]
    BY <1>1, <1>2, <1>6 DEF Last
  <2>2. x.from \in Visited(j) /\ x.to \notin Visited(j)
    BY <1>1, <2>1, EndsVisited DEF Continuation, Origin
  <2>3. Visited(h) = Visited(j) \cup {x.to}
    BY <1>4, <2>2
  <2>4. IsFiniteSet(Visited(h)) /\ Cardinality(Visited(h)) = Len(h.tickets) + 1
    <3>1. IsFiniteSet(Visited(j)) /\ Cardinality(Visited(j)) = n + 1
      BY <2>1 DEF Chain
    <3>2. /\ IsFiniteSet(Visited(j) \cup {x.to})
          /\ Cardinality(Visited(j) \cup {x.to}) = Cardinality(Visited(j)) + 1
      BY <2>2, <3>1, FS_AddElement
    <3>3. QED
      BY <1>1, <2>3, <3>1, <3>2
  <2>5. ASSUME NEW i \in Changes(h) PROVE Joins(h.tickets[i], h.tickets[i + 1], q, m)
    <3>1. i \in 1..n
      BY <1>1 DEF Changes
    <3>2. CASE i = n
      BY <1>1, <2>1, <3>1, <3>2 DEF Continuation
    <3>3. CASE i # n
      <4>1. i \in Changes(j) /\ i + 1 \in 1..n
        BY <1>1, <3>1, <3>3 DEF Changes
      <4>2. QED
        BY <1>1, <3>1, <4>1 DEF Chain
    <3>4. QED
      BY <3>2, <3>3
  <2>6. ASSUME NEW i \in TicketsOf(h) PROVE Allowed(q, h.tickets[i].coach)
    <3>1. i \in 1..n \/ i = n + 1
      BY <1>1 DEF TicketsOf
    <3>2. QED
      BY <1>1, <3>1 DEF Chain, Continuation, TicketsOf
  <2>7. h.tickets[1].from = q.origin
    BY <1>1, <2>1 DEF Chain
  <2>8. QED
    BY <1>1, <1>3, <2>4, <2>5, <2>6, <2>7 DEF Chain
<1>7. QED
  BY <1>5, <1>6
-----------------------------------------------------------------------------
\* Leg by leg

\* Seats named in a ticket are seats that were free, as many as the party.
LEMMA SeatsNamed ==
  ASSUME NEW S \in SUBSET Seats, NEW n \in Nat
  PROVE  /\ FirstSeats(S, n) \in Seq(Seats)
         /\ \A i \in DOMAIN FirstSeats(S, n) : FirstSeats(S, n)[i] \in S
         /\ FirstSeats(S, n) # <<>> => Len(FirstSeats(S, n)) = n /\ n <= Cardinality(S)
<1>1. IsFiniteSet(S) /\ S \subseteq Int /\ Cardinality(S) \in Nat
  <2>1. IsFiniteSet(Seats)
    BY SearchAssumption
  <2>2. Seats \subseteq Nat
    BY InventoryAssumption
  <2>3. IsFiniteSet(S)
    BY <2>1, FS_Subset
  <2>4. S \subseteq Int
    BY <2>2
  <2>5. QED
    BY <2>3, <2>4, FS_CardinalityType
<1>2. CASE Cardinality(S) < n
  BY <1>2 DEF FirstSeats
<1>3. CASE n <= Cardinality(S)
  <2>1. FirstSeats(S, n) = FirstFree(S, n)
    BY <1>1, <1>3 DEF FirstSeats
  <2>2. ASSUME NEW k \in 1..n PROVE FirstFree(S, n)[k] \in S
    <3>1. k \in 1..Cardinality(S)
      BY <1>1, <1>3
    <3>2. \E s \in S : Cardinality({t \in S : t < s}) = k - 1
      BY <1>1, <3>1, PlacesTaken
    <3>3. QED
      BY <3>2 DEF FirstFree
  <2>3. FirstFree(S, n) = [k \in 1..n |-> FirstFree(S, n)[k]]
    BY DEF FirstFree
  <2>4. FirstFree(S, n) \in Seq(Seats) /\ Len(FirstFree(S, n)) = n
    BY <2>2, <2>3
  <2>5. DOMAIN FirstFree(S, n) = 1..n
    BY DEF FirstFree
  <2>6. QED
    BY <1>3, <2>1, <2>2, <2>4, <2>5
<1>4. QED
  BY <1>1, <1>2, <1>3

\* A coach of a train answers with one of the statuses there are.
LEMMA StatusTyped ==
  ASSUME NEW masks, NEW t \in Trains, NEW run, NEW code \in Reservable(t),
         NEW i \in Route(t), NEW k \in Route(t), NEW n
  PROVE  Status(masks, <<t, run, code>>, i, k, n) \in Statuses \ {None}
<1> DEFINE queue == Queue[<<code, Code(t, i), Code(t, k)>>]
<1>1. queue \in {"RAC", "WAITLIST", "UNAVAILABLE"}
  BY SearchAssumption
<1>2. \/ Status(masks, <<t, run, code>>, i, k, n) \in {"CONFIRMED", "UNAVAILABLE"}
      \/ Status(masks, <<t, run, code>>, i, k, n) = queue
  BY DEF Status
<1>3. QED
  BY <1>1, <1>2 DEF Statuses, None

Shaped(j, q) ==
  j \in [at : Places(q), arrives : Int, train : Trains \cup {None}, coach : Codes \cup {None},
         tickets : Seq(Tickets(q)), transfers : Nat, moving : Nat, closed : BOOLEAN]

\* Two lists of seats differ when the second names none of the first's.
LEMMA OtherSeats ==
  ASSUME NEW S, NEW old \in Seq(S), NEW new \in Seq(S), new # <<>>,
         \A i \in DOMAIN new : new[i] \notin Range(old)
  PROVE  new # old
<1>1. 1 \in DOMAIN new
  OBVIOUS
<1>2. new = old => new[1] \in Range(old)
  BY <1>1 DEF Range
<1>3. QED
  BY <1>1, <1>2

\* No ticket can be refused for want of a place.
Held(j) == \A i \in TicketsOf(j) : j.tickets[i].status \notin {"UNAVAILABLE", None}

\* A journey between two tickets.
Seated(j, q, m) ==
  /\ Chain(j, q, m) /\ Held(j)
  /\ j.moving \in Nat /\ j.transfers \in 0..q.maxTransfers
  /\ j.tickets = <<>> => j = InitialState(q)
  /\ j.tickets # <<>> => /\ j.at = Last(j.tickets).to /\ j.arrives = Last(j.tickets).arr
                         /\ j.train = Last(j.tickets).train
                         /\ j.transfers = Len(j.tickets) - 1

\* The ticket of a ride from a train's halt i to its halt k.
Ridden(masks, j, q, t, run, code, i, k) ==
  [train |-> t, run |-> run, from |-> j.at, to |-> Code(t, k), coach |-> code,
   dep |-> Departs(Halt(t, i), run), arr |-> Arrives(Halt(t, k), run),
   status |-> Status(masks, <<t, run, code>>, i, k, q.count),
   seats |-> SeatsIn(masks, j, q, <<t, run, code>>, i, k)]

LEMMA RideShape ==
  ASSUME NEW masks, NEW j, NEW q, NEW t, NEW run, NEW code, NEW i, NEW k
  PROVE  LegTo(masks, j, q, <<t, run, code>>, i, k)
           = [at |-> Code(t, k), arrives |-> Arrives(Halt(t, k), run), train |-> t, coach |-> code,
              tickets |-> Append(j.tickets, Ridden(masks, j, q, t, run, code, i, k)),
              transfers |-> Len(j.tickets),
              moving |-> j.moving + SumFunction([s \in i..(k - 1) |-> Segment(t, s)]),
              closed |-> TRUE]
BY DEF LegTo, Ridden

\* What the code looks at before it lets a passenger ride from halt i to halt k.
Taken(masks, j, q, m, t, run, code, i, k) ==
  /\ t \in Trains /\ i \in Calls(t, j.at) /\ Boards(j, q, m, t, i)
  /\ run \in RunDates(j, q, t, i) /\ Catches(j, t, i, run)
  /\ ~(j.tickets # <<>> /\ j.transfers >= q.maxTransfers)
  /\ k \in Stretches(j, q, m, t, i, run)
  /\ code \in Reservable(t) /\ Offers(masks, j, q, <<t, run, code>>, i, k)

\* A coach that could be taken for the ride has no better one of its class
\* beside it that could be taken too.
LEMMA RidesChosen ==
  ASSUME NEW masks, NEW j, NEW q, NEW m, NEW h \in SeatSuccessors(masks, j, q, m)
  PROVE  \E t, run, code, i, k :
           /\ Taken(masks, j, q, m, t, run, code, i, k) /\ h = LegTo(masks, j, q, <<t, run, code>>, i, k)
           /\ <<t, run, code>> \in Chosen(masks, j, q, t, run, i, k)
<1>1. PICK d \in Departures(j, q, m) :
        \E k \in Stretches(j, q, m, d[1], d[2], d[3]) :
          \E c \in Chosen(masks, j, q, d[1], d[3], d[2], k) : h = LegTo(masks, j, q, c, d[2], k)
  BY DEF SeatSuccessors
<1>2. PICK k \in Stretches(j, q, m, d[1], d[2], d[3]) :
        \E c \in Chosen(masks, j, q, d[1], d[3], d[2], k) : h = LegTo(masks, j, q, c, d[2], k)
  BY <1>1
<1>3. PICK c \in Chosen(masks, j, q, d[1], d[3], d[2], k) : h = LegTo(masks, j, q, c, d[2], k)
  BY <1>2
<1>4. PICK code \in Reservable(d[1]) :
        c = <<d[1], d[3], code>> /\ Offers(masks, j, q, <<d[1], d[3], code>>, d[2], k)
  BY <1>3 DEF Chosen
<1>5. ~(j.tickets # <<>> /\ j.transfers >= q.maxTransfers)
  BY <1>1 DEF Departures
<1>6. PICK t \in Trains :
        \E i \in Calls(t, j.at) :
          /\ Boards(j, q, m, t, i)
          /\ \E run \in RunDates(j, q, t, i) : Catches(j, t, i, run) /\ d = <<t, i, run>>
  BY <1>5 DEF Departures
<1>7. PICK i \in Calls(t, j.at) :
        /\ Boards(j, q, m, t, i)
        /\ \E run \in RunDates(j, q, t, i) : Catches(j, t, i, run) /\ d = <<t, i, run>>
  BY <1>6
<1>8. PICK run \in RunDates(j, q, t, i) : Catches(j, t, i, run) /\ d = <<t, i, run>>
  BY <1>7
<1>9. d[1] = t /\ d[2] = i /\ d[3] = run
  BY <1>8
<1>10. Taken(masks, j, q, m, t, run, code, i, k)
  BY <1>2, <1>4, <1>5, <1>7, <1>8, <1>9 DEF Taken
<1>11. h = LegTo(masks, j, q, <<t, run, code>>, i, k) /\ <<t, run, code>> \in Chosen(masks, j, q, t, run, i, k)
  BY <1>3, <1>4, <1>9
<1>12. QED
  BY <1>10, <1>11

LEMMA RidesTaken ==
  ASSUME NEW masks, NEW j, NEW q, NEW m, NEW h \in SeatSuccessors(masks, j, q, m)
  PROVE  \E t, run, code, i, k :
           Taken(masks, j, q, m, t, run, code, i, k) /\ h = LegTo(masks, j, q, <<t, run, code>>, i, k)
BY RidesChosen

\* A ride goes forward, over times that make sense, to another station.
LEMMA RideForward ==
  ASSUME NEW masks, NEW j, NEW q, NEW m, NEW t, NEW run, NEW code, NEW i, NEW k,
         Taken(masks, j, q, m, t, run, code, i, k)
  PROVE  /\ t \in Trains /\ i \in Route(t) /\ k \in Route(t) /\ i < k
         /\ Code(t, i) = j.at /\ Code(t, k) # j.at
         /\ \A s \in i..(k - 1) : s \in Route(t) /\ s + 1 \in Route(t) /\ Segment(t, s) \in Nat /\ Segment(t, s) > 0
         /\ IndexOf(t, Code(t, k)) = k
<1>1. t \in Trains /\ i \in Route(t) /\ Code(t, i) = j.at
  BY DEF Taken, Calls, Code
<1>2. Route(t) = 1..Len(Halts[t]) /\ Len(Halts[t]) \in Nat
  BY <1>1, TimetableAssumption DEF Route
<1>3. k \in (i + 1)..Len(Halts[t]) /\ \A s \in i..(k - 1) : Segment(t, s) > 0
  BY DEF Taken, Stretches
<1>4. i \in Nat /\ k \in Route(t) /\ i < k
  BY <1>1, <1>2, <1>3
<1>5. ASSUME NEW s \in i..(k - 1)
      PROVE  s \in Route(t) /\ s + 1 \in Route(t) /\ Segment(t, s) \in Nat /\ Segment(t, s) > 0
  <2>1. s \in Route(t) /\ s + 1 \in Route(t)
    BY <1>1, <1>2, <1>3
  <2>2. Segment(t, s) \in Int
    BY <1>1, <2>1, SegmentTyped
  <2>3. QED
    BY <1>3, <2>1, <2>2
<1>6. IndexOf(t, Code(t, k)) = k /\ Code(t, i) # Code(t, k)
  <2> DEFINE p == k - 1
  <2>1. p \in i..(k - 1) /\ p + 1 = k /\ i \in 1..p
    BY <1>1, <1>2, <1>4
  <2>2. p \in Route(t) /\ p + 1 \in Route(t) /\ Segment(t, p) > 0
    BY <1>5, <2>1
  <2> HIDE DEF p
  <2>3. IndexOf(t, Code(t, p + 1)) = p + 1 /\ \A e \in 1..p : Code(t, e) # Code(t, p + 1)
    BY <1>1, <2>2, RiddenInto
  <2>4. QED
    BY <2>1, <2>3
<1>7. QED
  BY <1>1, <1>4, <1>5, <1>6

\* The passenger is not sent to the seats he sits on.
LEMMA SeatsOffered ==
  ASSUME NEW masks, NEW j, NEW q, NEW c, NEW i, NEW k, q.count \in Nat
  PROVE  /\ SeatsIn(masks, j, q, c, i, k) \in Seq(Seats)
         /\ Continues(j, c[1]) /\ SeatsIn(masks, j, q, c, i, k) # <<>>
            /\ Previous(j).seats \in Seq(Seats) =>
              <<Previous(j).coach, Previous(j).seats>> # <<c[3], SeatsIn(masks, j, q, c, i, k)>>
<1> DEFINE free  == Free(masks, c, i, k)
           first == FirstSeats(free, q.count)
           old   == Previous(j).seats
           other == FirstSeats(free \ Range(old), q.count)
           new   == SeatsIn(masks, j, q, c, i, k)
<1>1. free \in SUBSET Seats
  BY DEF Free, FreeOver
<1> HIDE DEF free
<1>2. first \in Seq(Seats)
  BY <1>1, SeatsNamed
<1>3. other \in Seq(Seats) /\ \A n \in DOMAIN other : other[n] \in free \ Range(old)
  <2>1. free \ Range(old) \in SUBSET Seats
    BY <1>1
  <2>2. QED
    BY <2>1, SeatsNamed
<1>4. new = IF Continues(j, c[1]) /\ Previous(j).coach = c[3] /\ old = first THEN other ELSE first
  BY DEF SeatsIn, free
<1> HIDE DEF first, other, new
<1>5. new \in Seq(Seats)
  BY <1>2, <1>3, <1>4
<1>6. ASSUME Continues(j, c[1]), new # <<>>, old \in Seq(Seats), Previous(j).coach = c[3] PROVE old # new
  <2>1. CASE old = first
    <3>1. new = other
      BY <1>4, <1>6, <2>1
    <3>2. \A n \in DOMAIN new : new[n] \notin Range(old)
      BY <1>3, <3>1
    <3>3. QED
      BY <1>5, <1>6, <3>2, OtherSeats
  <2>2. CASE old # first
    BY <1>4, <2>2
  <2>3. QED
    BY <2>1, <2>2
<1>7. QED
  BY <1>5, <1>6 DEF new, old

\* The ticket of a ride continues the journey.
LEMMA LegContinues ==
  ASSUME NEW q \in Queries, NEW m, NEW masks, NEW j, Seated(j, q, m), j.at \in Places(q), j.arrives \in Int,
         NEW t, NEW run, NEW code, NEW i, NEW k, Taken(masks, j, q, m, t, run, code, i, k)
  PROVE  LET x == Ridden(masks, j, q, t, run, code, i, k)
         IN  Continuation(j, q, m, x) /\ x.status \notin {"UNAVAILABLE", None}
<1> DEFINE c == <<t, run, code>>
           x == Ridden(masks, j, q, t, run, code, i, k)
<1>1. j.tickets \in Seq(Tickets(q)) /\ q.date \in Int /\ q.count \in Nat \ {0}
  BY QueriesAssumption DEF Seated, Chain
<1>2. x = [train |-> t, run |-> run, from |-> j.at, to |-> Code(t, k), coach |-> code,
           dep |-> Departs(Halt(t, i), run), arr |-> Arrives(Halt(t, k), run),
           status |-> Status(masks, c, i, k, q.count), seats |-> SeatsIn(masks, j, q, c, i, k)]
  BY DEF Ridden
<1> HIDE DEF x
<1>3. /\ t \in Trains /\ i \in Route(t) /\ k \in Route(t) /\ i < k
      /\ Code(t, i) = j.at /\ Code(t, k) # j.at
  BY RideForward
<1>4. /\ Boards(j, q, m, t, i) /\ run \in RunDates(j, q, t, i) /\ Catches(j, t, i, run)
      /\ k \in Stretches(j, q, m, t, i, run)
      /\ code \in Reservable(t) /\ Offers(masks, j, q, c, i, k)
  BY DEF Taken
<1>5. j.tickets # <<>> => /\ Previous(j) = Last(j.tickets) /\ Last(j.tickets) \in Tickets(q)
                          /\ Last(j.tickets).run \in Int /\ Last(j.tickets).seats \in Seq(Seats)
  BY <1>1, LastTicket, SMTT(30) DEF Previous, Tickets
<1>6. run \in Int
  <2>1. DaysBefore(t, i) \in Nat
    BY <1>3, HaltTyped, ClockTyped DEF DaysBefore
  <2>2. DateOf(j.arrives) \in Int
    BY DEF DateOf, Day
  <2>3. \/ Continues(j, t) /\ run = Previous(j).run
        \/ \E wait \in {0, 1} : run = DateOf(j.arrives) + wait - DaysBefore(t, i)
        \/ run = q.date - DaysBefore(t, i)
    BY <1>4 DEF RunDates
  <2>4. QED
    BY <1>1, <1>5, <2>1, <2>2, <2>3 DEF Continues
<1>7. Status(masks, c, i, k, q.count) \in Statuses \ {None}
  BY <1>3, <1>4, StatusTyped
<1>8. SeatsIn(masks, j, q, c, i, k) \in Seq(Seats)
  BY <1>1, SeatsOffered
<1>9. x \in Tickets(q)
  <2>1. Departs(Halt(t, i), run) \in Int /\ Arrives(Halt(t, k), run) \in Int /\ Code(t, k) \in Stations
    BY <1>3, <1>6, HaltTyped
  <2>2. code \in Codes
    BY <1>3, <1>4 DEF Codes
  <2>3. QED
    BY <1>2, <1>3, <1>4, <1>6, <1>7, <1>8, <2>1, <2>2 DEF Tickets, Places
<1>10. x.status \notin {"UNAVAILABLE", None}
  <2>1. Status(masks, c, i, k, q.count) # "UNAVAILABLE"
    BY <1>4 DEF Offers
  <2>2. QED
    BY <1>2, <1>7, <2>1
<1>11. x.from = Origin(j, q) /\ x.to \notin Visited(j) /\ x.to # x.from /\ Allowed(q, x.coach)
  <2>1. j.at = Origin(j, q)
    BY DEF Origin, Seated, InitialState
  <2>2. Code(t, k) \notin Visited(j)
    BY <1>4 DEF Stretches, Alights
  <2>3. Allowed(q, code)
    BY <1>4 DEF Offers, c
  <2>4. QED
    BY <1>2, <1>3, <2>1, <2>2, <2>3
<1>12. ASSUME j.tickets # <<>> PROVE Joins(Last(j.tickets), x, q, m)
  <2> DEFINE l == Last(j.tickets)
  <2>1. l = Previous(j) /\ l.to = j.at /\ l.arr = j.arrives /\ (Continues(j, t) <=> l.train = t)
    BY <1>5, <1>12 DEF Seated, Continues
  <2> HIDE DEF l
  <2>2. x.train = t /\ x.coach = code /\ x.seats = SeatsIn(masks, j, q, c, i, k)
        /\ x.from = j.at /\ x.dep = Departs(Halt(t, i), run)
    BY <1>2
  <2>3. x.dep - l.arr >= (IF l.train = x.train THEN MinSeatChange ELSE MinTrainChange)
    BY <1>4, <1>12, <2>1, <2>2 DEF Catches
  <2>4. (l.train = x.train) = (m = "same_train")
    BY <1>4, <1>12, <2>1, <2>2 DEF Boards
  <2>5. ASSUME l.train = x.train PROVE q.tolerance # "none"
    BY <1>4, <2>1, <2>2, <2>5 DEF Boards
  <2>6. ASSUME l.train = x.train PROVE <<l.coach, l.seats>> # <<x.coach, x.seats>>
    <3>1. SeatsIn(masks, j, q, c, i, k) # <<>>
      BY <1>4, <1>12 DEF Offers
    <3>2. Continues(j, c[1]) /\ c[3] = code
      BY <2>1, <2>2, <2>6
    <3>3. Previous(j).seats \in Seq(Seats)
      BY <1>5, <1>12
    <3>4. QED
      BY <1>1, <2>1, <2>2, <3>1, <3>2, <3>3, SeatsOffered
  <2>7. ASSUME l.train = x.train, q.tolerance = "short_walk"
        PROVE  CoachDistance(l.train, l.coach, x.coach) <= MaxShortWalk
    BY <1>4, <2>1, <2>2, <2>7 DEF Offers
  <2>8. QED
    BY <2>1, <2>2, <2>3, <2>4, <2>5, <2>6, <2>7 DEF Joins, l
<1>13. QED
  BY <1>9, <1>10, <1>11, <1>12 DEF Continuation, x

\* The moving time of a ride is positive.
LEMMA RideTakesTime ==
  ASSUME NEW t \in Trains, NEW i \in Int, NEW k \in Int, i < k,
         \A s \in i..(k - 1) : Segment(t, s) \in Nat
  PROVE  SumFunction([s \in i..(k - 1) |-> Segment(t, s)]) \in Nat
<1>1. IsFiniteSet(i..(k - 1))
  BY FS_Interval
<1>2. [s \in i..(k - 1) |-> Segment(t, s)] \in [i..(k - 1) -> Nat]
  OBVIOUS
<1>3. QED
  BY <1>1, <1>2, SumNat

\* A ride leaves the passenger between two tickets again.
LEMMA RideStep ==
  ASSUME NEW q \in Queries, NEW m, NEW masks, NEW j, Seated(j, q, m), j.at \in Places(q), j.arrives \in Int,
         NEW h \in SeatSuccessors(masks, j, q, m)
  PROVE  Seated(h, q, m) /\ Shaped(h, q) /\ h.tickets # <<>>
<1>1. PICK t, run, code, i, k :
        Taken(masks, j, q, m, t, run, code, i, k) /\ h = LegTo(masks, j, q, <<t, run, code>>, i, k)
  BY RidesTaken
<1> DEFINE x == Ridden(masks, j, q, t, run, code, i, k)
<1>2. Continuation(j, q, m, x) /\ x.status \notin {"UNAVAILABLE", None}
  BY <1>1, LegContinues
<1>3. /\ h.at = x.to /\ h.arrives = x.arr /\ h.train = x.train
      /\ h.tickets = Append(j.tickets, x) /\ h.transfers = Len(j.tickets)
      /\ h.moving = j.moving + SumFunction([s \in i..(k - 1) |-> Segment(t, s)])
  <2>1. x.to = Code(t, k) /\ x.arr = Arrives(Halt(t, k), run) /\ x.train = t
    BY DEF Ridden
  <2> HIDE DEF x
  <2>2. h = [at |-> Code(t, k), arrives |-> Arrives(Halt(t, k), run), train |-> t, coach |-> code,
              tickets |-> Append(j.tickets, x), transfers |-> Len(j.tickets),
              moving |-> j.moving + SumFunction([s \in i..(k - 1) |-> Segment(t, s)]),
              closed |-> TRUE]
    BY <1>1, RideShape, ZenonT(60) DEF x
  <2>3. QED
    BY <2>1, <2>2
<1> HIDE DEF x
<1>4. /\ Chain(h, q, m) /\ h.tickets # <<>> /\ Last(h.tickets) = x
      /\ Len(h.tickets) = Len(j.tickets) + 1
  <2>1. Chain(j, q, m) /\ Continuation(j, q, m, x) /\ Grown(j, x, h)
    BY <1>2, <1>3 DEF Seated, Grown
  <2>2. QED
    BY <2>1, ChainGrows
<1>5. Held(h)
  <2>1. j.tickets \in Seq(Tickets(q))
    BY DEF Seated, Chain
  <2>2. ASSUME NEW n \in TicketsOf(h) PROVE h.tickets[n].status \notin {"UNAVAILABLE", None}
    <3>1. n \in TicketsOf(j) \/ n = Len(j.tickets) + 1
      BY <1>4, <2>1 DEF TicketsOf
    <3>2. CASE n \in TicketsOf(j)
      <4>1. h.tickets[n] = j.tickets[n]
        BY <1>3, <2>1, <3>2 DEF TicketsOf
      <4>2. QED
        BY <3>2, <4>1 DEF Seated, Held
    <3>3. CASE n = Len(j.tickets) + 1
      <4>1. h.tickets[n] = x
        BY <1>3, <2>1, <3>3
      <4>2. QED
        BY <1>2, <4>1
    <3>4. QED
      BY <3>1, <3>2, <3>3
  <2>3. QED
    BY <2>2 DEF Held
<1>6. h.moving \in Nat
  <2>1. t \in Trains /\ i \in Int /\ k \in Int /\ i < k /\ \A s \in i..(k - 1) : Segment(t, s) \in Nat
    <3>1. t \in Trains /\ i \in Route(t) /\ k \in Route(t) /\ i < k
          /\ \A s \in i..(k - 1) : Segment(t, s) \in Nat
      BY <1>1, RideForward
    <3>2. Route(t) \subseteq Int
      BY <3>1, TimetableAssumption DEF Route
    <3>3. QED
      BY <3>1, <3>2
  <2>2. SumFunction([s \in i..(k - 1) |-> Segment(t, s)]) \in Nat
    BY <2>1, RideTakesTime
  <2>3. QED
    BY <1>3, <2>2 DEF Seated
<1>7. h.transfers = Len(h.tickets) - 1 /\ h.transfers \in 0..q.maxTransfers
  <2>1. j.tickets \in Seq(Tickets(q)) /\ q.maxTransfers \in Nat
    BY QueriesAssumption DEF Seated, Chain
  <2>2. h.transfers = Len(h.tickets) - 1 /\ Len(j.tickets) \in Nat
    BY <1>3, <1>4, <2>1
  <2>3. CASE j.tickets = <<>>
    BY <1>3, <2>1, <2>2, <2>3
  <2>4. CASE j.tickets # <<>>
    <3>1. j.transfers = Len(j.tickets) - 1 /\ ~(j.transfers >= q.maxTransfers)
      BY <1>1, <2>4 DEF Seated, Taken
    <3>2. QED
      BY <1>3, <2>1, <2>2, <3>1
  <2>5. QED
    BY <2>3, <2>4
<1>8. Shaped(h, q)
  <2>1. x.to \in Places(q) /\ x.arr \in Int /\ x.train \in Trains /\ x.coach \in Codes
    BY <1>2 DEF Continuation, Tickets
  <2>2. Append(j.tickets, x) \in Seq(Tickets(q)) /\ Len(j.tickets) \in Nat
    BY <1>3, <1>4, <1>7, QueriesAssumption DEF Chain
  <2>3. PICK sum \in Nat : sum = j.moving + SumFunction([s \in i..(k - 1) |-> Segment(t, s)])
    BY <1>3, <1>6
  <2>4. x.to = Code(t, k) /\ x.arr = Arrives(Halt(t, k), run) /\ x.train = t /\ x.coach = code
    BY DEF Ridden, x
  <2>5. h = [at |-> x.to, arrives |-> x.arr, train |-> x.train, coach |-> x.coach,
             tickets |-> Append(j.tickets, x), transfers |-> Len(j.tickets), moving |-> sum, closed |-> TRUE]
    <3>1. h = [at |-> Code(t, k), arrives |-> Arrives(Halt(t, k), run), train |-> t, coach |-> code,
               tickets |-> Append(j.tickets, x), transfers |-> Len(j.tickets),
               moving |-> j.moving + SumFunction([s \in i..(k - 1) |-> Segment(t, s)]),
               closed |-> TRUE]
      BY <1>1, RideShape, SMTT(30) DEF x
    <3>2. QED
      BY <2>3, <2>4, <3>1
  <2>6. QED
    BY <2>1, <2>2, <2>3, <2>5 DEF Shaped
<1>9. QED
  BY <1>3, <1>4, <1>5, <1>6, <1>7, <1>8 DEF Seated
-----------------------------------------------------------------------------
\* Halt by halt

\* The seat a passenger has while his ticket is still open.
Open(j, q) ==
  [train |-> j.train, from |-> Origin(j, q), coach |-> j.coach, seats |-> <<>>,
   dep |-> Departs(Halt(j.train, IndexOf(j.train, Origin(j, q))), q.date)]

\* A passenger aboard has come forward from where he boarded, to a place he has
\* not seen before; what has to be right about the change he made is.
Aboard(j, q, m) ==
  /\ j.train \in Trains /\ j.coach \in Reservable(j.train) /\ Allowed(q, j.coach)
  /\ RunsOnDate(j.train, q.date)
  /\ Calls(j.train, Origin(j, q)) # {} /\ Calls(j.train, j.at) # {}
  /\ Open(j, q).dep # Missing /\ Origin(j, q) # q.destination
  /\ j.at # Origin(j, q) =>
       /\ IndexOf(j.train, Origin(j, q)) < IndexOf(j.train, j.at)
       /\ j.at \notin Visited(j)
       /\ j.arrives = Arrives(Halt(j.train, IndexOf(j.train, j.at)), q.date)
  /\ j.tickets # <<>> => Joins(Last(j.tickets), Open(j, q), q, m)

\* A journey of a halt-by-halt search.
Moved(j, q, m) ==
  /\ Shaped(j, q) /\ Chain(j, q, m) /\ Held(j) /\ ~j.closed
  /\ j.transfers = Len(j.tickets) /\ j.transfers <= q.maxTransfers
  /\ j.train = None => j = InitialState(q)
  /\ j.train # None => Aboard(j, q, m)

\* At the destination the ticket that is still open can be closed.
Closable(masks, j, q) ==
  IsGoal(j, q) =>
    PairStatus(masks, q, j.train, j.coach, IndexOf(j.train, Origin(j, q)), IndexOf(j.train, j.at))
      # "UNAVAILABLE"

\* What makes a change depends on the seats, not on the tickets' statuses.
LEMMA SameSeat ==
  ASSUME NEW a, NEW b, NEW x, NEW q, NEW m, Joins(a, b, q, m),
         x.train = b.train, x.from = b.from, x.coach = b.coach, x.seats = b.seats, x.dep = b.dep
  PROVE  Joins(a, x, q, m)
BY DEF Joins

\* Where a journey goes on from is one of its places.
LEMMA OriginTyped ==
  ASSUME NEW q, NEW j, j.tickets \in Seq(Tickets(q))
  PROVE  Origin(j, q) \in Places(q)
<1>1. CASE j.tickets = <<>>
  BY <1>1 DEF Origin, Places
<1>2. CASE j.tickets # <<>>
  <2>1. Last(j.tickets) \in Tickets(q)
    BY <1>2, LastTicket
  <2>2. QED
    BY <1>2, <2>1 DEF Origin, Tickets
<1>3. QED
  BY <1>1, <1>2

\* Closing the ticket continues the journey.
LEMMA ClosingContinues ==
  ASSUME NEW q \in Queries, NEW m, NEW masks, NEW j, Moved(j, q, m), j.train # None, j.at # Origin(j, q)
  PROVE  LET x == Closing(masks, j, q)
         IN  /\ Continuation(j, q, m, x) /\ x.to = j.at /\ x.arr = j.arrives
             /\ x.train = j.train /\ x.coach = j.coach /\ x.seats = <<>>
             /\ x.status = PairStatus(masks, q, j.train, j.coach,
                                      IndexOf(j.train, Origin(j, q)), IndexOf(j.train, j.at))
             /\ x.status # None
<1> DEFINE x    == Closing(masks, j, q)
           from == IndexOf(j.train, Origin(j, q))
           to   == IndexOf(j.train, j.at)
           left == Departs(Halt(j.train, from), q.date)
<1>1. /\ Shaped(j, q) /\ Chain(j, q, m) /\ Aboard(j, q, m)
  BY DEF Moved
<1>2. /\ j.train \in Trains /\ j.coach \in Reservable(j.train) /\ Allowed(q, j.coach)
      /\ left # Missing /\ from < to /\ j.at \notin Visited(j)
  BY <1>1 DEF Aboard, Open
<1>3. from \in Route(j.train) /\ to \in Route(j.train)
  BY <1>1, <1>2, FirstCall DEF Aboard
<1>4. q.date \in Int
  BY QueriesAssumption
<1>5. left \in Int
  BY <1>2, <1>3, <1>4, HaltTyped
<1>6. x = [train |-> j.train, run |-> q.date, from |-> Origin(j, q), to |-> j.at, coach |-> j.coach,
           dep |-> left, arr |-> j.arrives,
           status |-> PairStatus(masks, q, j.train, j.coach, from, to), seats |-> <<>>]
  BY <1>2 DEF Closing
<1>7. PairStatus(masks, q, j.train, j.coach, from, to) \in Statuses \ {None}
  <2>1. Status(masks, <<j.train, q.date, j.coach>>, from, to, 1) \in Statuses \ {None}
    BY <1>2, <1>3, StatusTyped
  <2>2. "UNAVAILABLE" \in Statuses \ {None}
    BY DEF Statuses, None
  <2>3. QED
    BY <2>1, <2>2 DEF PairStatus
<1> HIDE DEF x, from, to, left
<1>8. j.tickets \in Seq(Tickets(q)) /\ j.at \in Places(q) /\ j.arrives \in Int
  BY <1>1 DEF Shaped
<1>9. x \in Tickets(q)
  <2>1. Origin(j, q) \in Places(q)
    BY <1>8, OriginTyped
  <2>2. j.coach \in Codes /\ <<>> \in Seq(Seats)
    BY <1>2 DEF Codes
  <2>3. QED
    BY <1>2, <1>4, <1>5, <1>6, <1>7, <1>8, <2>1, <2>2 DEF Tickets
<1>10. ASSUME j.tickets # <<>> PROVE Joins(Last(j.tickets), x, q, m)
  <2>1. Joins(Last(j.tickets), Open(j, q), q, m)
    BY <1>1, <1>10 DEF Aboard
  <2>2. /\ Open(j, q).train = x.train /\ Open(j, q).from = x.from /\ Open(j, q).coach = x.coach
        /\ Open(j, q).seats = x.seats /\ Open(j, q).dep = x.dep
    BY <1>6 DEF Open, left, from
  <2>3. QED
    BY <2>1, <2>2, SameSeat
<1>11. Continuation(j, q, m, x)
  BY <1>2, <1>6, <1>9, <1>10 DEF Continuation
<1>12. QED
  BY <1>6, <1>7, <1>11 DEF x, from, to

\* The tickets and all that is said of them are the same.
LEMMA SameTickets ==
  ASSUME NEW j, NEW h, NEW q, NEW m, h.tickets = j.tickets
  PROVE  /\ Chain(j, q, m) => Chain(h, q, m)
         /\ Held(j) => Held(h)
         /\ Visited(h) = Visited(j) /\ Origin(h, q) = Origin(j, q)
BY DEF Chain, Held, Visited, Origin, TicketsOf, Changes

\* The halt a train goes on to.
LEMMA NextHalt ==
  ASSUME NEW t \in Trains, NEW code, Calls(t, code) # {}, IndexOf(t, code) < Len(Halts[t]),
         Segment(t, IndexOf(t, code)) > 0
  PROVE  /\ IndexOf(t, code) \in Route(t) /\ IndexOf(t, code) + 1 \in Route(t)
         /\ IndexOf(t, code) \in Nat /\ Segment(t, IndexOf(t, code)) \in Nat
         /\ Calls(t, Code(t, IndexOf(t, code) + 1)) # {}
         /\ IndexOf(t, Code(t, IndexOf(t, code) + 1)) = IndexOf(t, code) + 1
         /\ \A k \in 1..IndexOf(t, code) : Code(t, k) # Code(t, IndexOf(t, code) + 1)
<1> DEFINE i == IndexOf(t, code)
<1>1. i \in Route(t)
  BY FirstCall
<1>2. Route(t) = 1..Len(Halts[t]) /\ Len(Halts[t]) \in Nat
  BY TimetableAssumption DEF Route
<1>3. i \in Nat /\ i + 1 \in Route(t)
  BY <1>1, <1>2
<1>4. Segment(t, i) \in Int
  BY <1>1, <1>3, SegmentTyped
<1> HIDE DEF i
<1>5. Segment(t, i) > 0
  BY DEF i
<1>6. /\ Calls(t, Code(t, i + 1)) # {} /\ IndexOf(t, Code(t, i + 1)) = i + 1
      /\ \A k \in 1..i : Code(t, k) # Code(t, i + 1)
  BY <1>1, <1>3, <1>5, RiddenInto
<1>7. QED
  BY <1>1, <1>3, <1>4, <1>5, <1>6 DEF i

\* Riding on to the next halt.
LEMMA ContinueStep ==
  ASSUME NEW q \in Queries, NEW m, NEW masks, NEW j, Moved(j, q, m), j.train # None,
         NEW h \in Continuing(masks, j, q)
  PROVE  Moved(h, q, m)
<1> DEFINE i == IndexOf(j.train, j.at)
<1>1. Shaped(j, q) /\ Chain(j, q, m) /\ Held(j) /\ Aboard(j, q, m)
  BY DEF Moved
<1>2. /\ i < Len(Halts[j.train]) /\ Code(j.train, i + 1) \notin Visited(j)
      /\ Segment(j.train, i) > 0
      /\ h = [j EXCEPT !.at = Code(j.train, i + 1), !.moving = @ + Segment(j.train, i),
                       !.arrives = Arrives(Halt(j.train, i + 1), q.date)]
  BY DEF Continuing, HasNext
<1>3. j.train \in Trains /\ Calls(j.train, j.at) # {}
  BY <1>1 DEF Aboard
<1>4. /\ i \in Route(j.train) /\ i + 1 \in Route(j.train) /\ i \in Nat /\ Segment(j.train, i) \in Nat
      /\ Calls(j.train, Code(j.train, i + 1)) # {} /\ IndexOf(j.train, Code(j.train, i + 1)) = i + 1
      /\ \A k \in 1..i : Code(j.train, k) # Code(j.train, i + 1)
  BY <1>2, <1>3, NextHalt
<1> HIDE DEF i
<1>5. Code(j.train, i + 1) \in Places(q) /\ Arrives(Halt(j.train, i + 1), q.date) \in Int
  BY <1>3, <1>4, HaltTyped, QueriesAssumption DEF Places
<1>6. /\ h.at = Code(j.train, i + 1) /\ h.arrives = Arrives(Halt(j.train, i + 1), q.date)
      /\ h.train = j.train /\ h.coach = j.coach /\ h.tickets = j.tickets
      /\ h.transfers = j.transfers /\ h.closed = j.closed
  BY <1>1, <1>2 DEF Shaped
<1>7. Shaped(h, q)
  <2>1. j.moving + Segment(j.train, i) \in Nat
    BY <1>1, <1>4 DEF Shaped
  <2>2. PICK sum : sum = j.moving + Segment(j.train, i)
    OBVIOUS
  <2>3. h = [j EXCEPT !.at = Code(j.train, i + 1), !.moving = sum,
                      !.arrives = Arrives(Halt(j.train, i + 1), q.date)]
    BY <1>2, <2>2
  <2>4. QED
    BY <1>1, <1>5, <2>1, <2>2, <2>3 DEF Shaped
<1>8. Chain(h, q, m) /\ Held(h) /\ Visited(h) = Visited(j) /\ Origin(h, q) = Origin(j, q)
  BY <1>1, <1>6, SameTickets
<1>9. Open(h, q) = Open(j, q)
  BY <1>6, <1>8 DEF Open
<1>10. Aboard(h, q, m)
  <2> DEFINE o == IndexOf(j.train, Origin(j, q))
  <2>1. o \in Route(j.train) /\ Code(j.train, o) = Origin(j, q) /\ o <= i
    <3>1. o \in Route(j.train) /\ Code(j.train, o) = Origin(j, q)
      BY <1>1, <1>3, FirstCall DEF Aboard
    <3>2. o <= i
      <4>1. CASE j.at = Origin(j, q)
        BY <1>4, <4>1 DEF i
      <4>2. CASE j.at # Origin(j, q)
        <5>1. o < i
          BY <1>1, <4>2 DEF Aboard, i
        <5>2. QED
          BY <1>3, <1>4, <3>1, <5>1, TimetableAssumption DEF Route
      <4>3. QED
        BY <4>1, <4>2
    <3>3. QED
      BY <3>1, <3>2
  <2> HIDE DEF o
  <2>2. o \in 1..i
    BY <1>3, <1>4, <2>1, TimetableAssumption DEF Route
  <2>3. h.at # Origin(h, q) /\ o < i + 1
    BY <1>4, <1>6, <1>8, <2>1, <2>2
  <2>4. IndexOf(h.train, h.at) = i + 1 /\ IndexOf(h.train, Origin(h, q)) = o
    BY <1>4, <1>6, <1>8 DEF o
  <2>5. h.at \notin Visited(h) /\ h.arrives = Arrives(Halt(h.train, IndexOf(h.train, h.at)), q.date)
    BY <1>2, <1>6, <1>8, <2>4
  <2>6. Calls(h.train, h.at) # {}
    BY <1>4, <1>6
  <2>7. QED
    BY <1>1, <1>6, <1>8, <1>9, <2>3, <2>4, <2>5, <2>6 DEF Aboard
<1>11. QED
  BY <1>3, <1>6, <1>7, <1>8, <1>10, TimetableAssumption DEF Moved

\* Riding into the destination needs a ticket that can be closed there.
LEMMA ContinueCloses ==
  ASSUME NEW q \in Queries, NEW m, NEW masks, NEW j, Moved(j, q, m), j.train # None,
         NEW h \in Continuing(masks, j, q)
  PROVE  Closable(masks, h, q)
<1> DEFINE i == IndexOf(j.train, j.at)
           o == IndexOf(j.train, Origin(j, q))
<1>1. Shaped(j, q) /\ Aboard(j, q, m)
  BY DEF Moved
<1>2. /\ i < Len(Halts[j.train]) /\ Segment(j.train, i) > 0
      /\ CanClose(masks, q, j.train, j.coach, o, ClosingPoints(q, j.train, i + 1))
      /\ h = [j EXCEPT !.at = Code(j.train, i + 1), !.moving = @ + Segment(j.train, i),
                       !.arrives = Arrives(Halt(j.train, i + 1), q.date)]
  BY DEF Continuing, HasNext
<1>3. j.train \in Trains /\ Calls(j.train, j.at) # {}
  BY <1>1 DEF Aboard
<1>4. i \in Nat /\ IndexOf(j.train, Code(j.train, i + 1)) = i + 1
  BY <1>2, <1>3, NextHalt
<1>5. PICK k \in ClosingPoints(q, j.train, i + 1) : PairStatus(masks, q, j.train, j.coach, o, k) # "UNAVAILABLE"
  BY <1>2 DEF CanClose
<1> HIDE DEF i, o
<1>6. h.at = Code(j.train, i + 1) /\ h.train = j.train /\ h.coach = j.coach /\ h.tickets = j.tickets
  BY <1>1, <1>2 DEF Shaped
<1>7. Origin(h, q) = Origin(j, q)
  BY <1>6, SameTickets
<1>8. ASSUME Code(j.train, i + 1) = q.destination PROVE k = i + 1
  <2>1. k \in (i + 1)..Len(Halts[j.train]) /\ \A g \in (i + 1)..(k - 1) : Code(j.train, g) # q.destination
    BY <1>5 DEF ClosingPoints
  <2>2. k \in Int /\ i + 1 <= k
    BY <1>4, <2>1
  <2>3. ~(i + 1 \in (i + 1)..(k - 1))
    BY <1>8, <2>1
  <2>4. QED
    BY <1>4, <2>2, <2>3
<1>9. ASSUME IsGoal(h, q)
      PROVE  PairStatus(masks, q, h.train, h.coach, IndexOf(h.train, Origin(h, q)), IndexOf(h.train, h.at))
               # "UNAVAILABLE"
  BY <1>4, <1>5, <1>6, <1>7, <1>8, <1>9 DEF IsGoal, o
<1>10. QED
  BY <1>9 DEF Closable

\* A passenger waits in his train as long as it halts.
LEMMA WaitsAboard ==
  ASSUME NEW t \in Trains, NEW i \in Route(t), NEW run \in Nat, Halt(t, i).halt >= MinSeatChange
  PROVE  /\ Departs(Halt(t, i), run) # Missing
         /\ DayHalts => Departs(Halt(t, i), run) - Arrives(Halt(t, i), run) >= MinSeatChange
<1> DEFINE h == Halt(t, i)
<1>1. h.arr \in Clock /\ h.dep \in Clock /\ h.day \in {Missing} \cup (Nat \ {0})
  BY HaltTyped
<1>2. h.halt = IF Missing \in {h.arr, h.dep} THEN Missing ELSE (h.dep - h.arr) % Day
  BY TimetableAssumption DEF Halt, Route
<1>3. h.halt >= MinSeatChange /\ (DayHalts => h.arr <= h.dep)
  <2>1. h.halt >= MinSeatChange
    OBVIOUS
  <2>2. QED
    BY <2>1 DEF DayHalts
<1> HIDE DEF h
<1>4. /\ h.arr \in Int /\ -1 <= h.arr /\ h.arr < Day /\ h.dep \in Int /\ -1 <= h.dep /\ h.dep < Day
      /\ h.day \in Int /\ (h.day # Missing => 1 <= h.day) /\ Missing = -1 /\ Day = 1440
  BY <1>1, ClockTyped
<1>5. h.arr # Missing /\ h.dep # Missing /\ h.halt = (h.dep - h.arr) % Day
  <2>1. MinSeatChange \in Nat
    BY SearchAssumption
  <2>2. h.halt # Missing
    BY <1>2, <1>3, <1>4, <2>1
  <2>3. QED
    BY <1>2, <2>2
<1>6. ASSUME DayHalts PROVE h.halt = h.dep - h.arr
  <2>1. 0 <= h.dep - h.arr /\ h.dep - h.arr < 1440 /\ h.dep - h.arr \in Int
    BY <1>3, <1>4, <1>5, <1>6
  <2>2. \A n \in Int : 0 <= n /\ n < 1440 => n % 1440 = n
    OBVIOUS
  <2>3. QED
    BY <1>4, <1>5, <2>1, <2>2
<1>7. PICK day \in Nat : day = run + (IF h.day = Missing THEN 0 ELSE h.day - 1)
  BY <1>4
<1>8. Departs(h, run) = day * Day + h.dep /\ Arrives(h, run) = day * Day + h.arr
  BY <1>5, <1>7 DEF Departs, Arrives, Datetime
<1>9. day * Day \in Nat
  BY <1>4
<1>10. QED
  <2>1. Departs(h, run) # Missing /\ (DayHalts => Departs(h, run) - Arrives(h, run) = h.halt)
    BY <1>4, <1>5, <1>6, <1>8, <1>9
  <2>2. QED
    BY <1>3, <2>1 DEF h

\* The coaches a passenger is offered.
LEMMA BestTyped ==
  ASSUME NEW masks, NEW q, NEW t, NEW i, NEW points, NEW exclude,
         NEW c \in BestCoaches(masks, q, t, i, points, exclude)
  PROVE  c \in Reservable(t) /\ c # exclude /\ Allowed(q, c) /\ Operates(t, q.date)
BY DEF BestCoaches

\* Boarding the first train.
LEMMA BoardStep ==
  ASSUME NEW q \in Queries, NEW m, NEW masks, NEW j, Moved(j, q, m), j.train = None,
         NEW h \in Boarding(masks, j, q, m)
  PROVE  Moved(h, q, m) /\ Closable(masks, h, q)
<1>1. PICK t \in RunningThrough(j, q) :
        /\ HasNext(j, q, t) /\ Departs(Halt(t, IndexOf(t, j.at)), q.date) # Missing
        /\ \E c \in BestCoaches(masks, q, t, IndexOf(t, j.at), ClosingPoints(q, t, IndexOf(t, j.at) + 1), None) :
             h = Onboard(j, t, c, Departs(Halt(t, IndexOf(t, j.at)), q.date))
  BY DEF Boarding
<1> DEFINE i == IndexOf(t, j.at)
<1>2. PICK c \in BestCoaches(masks, q, t, i, ClosingPoints(q, t, i + 1), None) :
        h = Onboard(j, t, c, Departs(Halt(t, i), q.date))
  BY <1>1
<1>3. t \in Trains /\ Calls(t, j.at) # {} /\ RunsOnDate(t, q.date)
  BY <1>1 DEF RunningThrough
<1>4. c \in Reservable(t) /\ Allowed(q, c)
  BY <1>2, BestTyped
<1>5. i \in Route(t) /\ Departs(Halt(t, i), q.date) \in Int
  BY <1>3, FirstCall, HaltTyped, QueriesAssumption
<1>6. Departs(Halt(t, i), q.date) # Missing
  BY <1>1
<1> HIDE DEF i
<1>7. Shaped(j, q) /\ Chain(j, q, m) /\ Held(j) /\ j.tickets = <<>> /\ j.at = q.origin
  BY DEF Moved, InitialState
<1>8. /\ h.at = j.at /\ h.train = t /\ h.coach = c /\ h.tickets = j.tickets
      /\ h.transfers = j.transfers /\ h.closed = j.closed
  BY <1>2, <1>7 DEF Onboard, Shaped
<1>9. Shaped(h, q)
  BY <1>2, <1>3, <1>4, <1>5, <1>7 DEF Onboard, Shaped, Codes
<1>10. Chain(h, q, m) /\ Held(h) /\ Origin(h, q) = h.at
  BY <1>7, <1>8, SameTickets DEF Origin
<1>11. Open(h, q).dep # Missing /\ Origin(h, q) # q.destination
  BY <1>6, <1>7, <1>8, <1>10, QueriesAssumption DEF Open, i
<1>12. Aboard(h, q, m)
  BY <1>3, <1>4, <1>7, <1>8, <1>10, <1>11 DEF Aboard
<1>13. h.train # None
  BY <1>3, <1>8, TimetableAssumption
<1>14. Moved(h, q, m)
  BY <1>8, <1>9, <1>10, <1>12, <1>13 DEF Moved
<1>15. ~IsGoal(h, q)
  BY <1>7, <1>8, QueriesAssumption DEF IsGoal
<1>16. QED
  BY <1>14, <1>15 DEF Closable

\* What a change has to satisfy.
Changing(masks, j, q, m, t, c) ==
  LET time == Departs(Halt(t, IndexOf(t, j.at)), q.date)
  IN  /\ MayChange(masks, j, q) /\ ~IsGoal(j, q)
      /\ t \in Trains /\ Calls(t, j.at) # {} /\ RunsOnDate(t, q.date)
      /\ c \in Reservable(t) /\ Allowed(q, c)
      /\ time # Missing
      /\ DayHalts => time - j.arrives >= (IF j.train = t THEN MinSeatChange ELSE MinTrainChange)
      /\ (j.train = t) = (m = "same_train")
      /\ j.train = t => /\ q.tolerance # "none" /\ c # j.coach
                        /\ q.tolerance = "short_walk" => CoachDistance(t, j.coach, c) <= MaxShortWalk

\* After a change the journey is what it has to be.
LEMMA ChangeStep ==
  ASSUME NEW q \in Queries, NEW m, NEW masks, NEW j, Moved(j, q, m), j.train # None,
         NEW t, NEW c, Changing(masks, j, q, m, t, c), NEW time \in Int,
         NEW h, h = Onboard(Changed(masks, j, q), t, c, time)
  PROVE  Moved(h, q, m) /\ Closable(masks, h, q)
<1> DEFINE x == Closing(masks, j, q)
           i == IndexOf(t, j.at)
<1>1. Shaped(j, q) /\ Chain(j, q, m) /\ Held(j) /\ Aboard(j, q, m)
      /\ j.transfers = Len(j.tickets) /\ ~j.closed
  BY DEF Moved
<1>2. /\ j.transfers + 1 <= q.maxTransfers /\ Origin(j, q) # j.at /\ x.status \notin {"UNAVAILABLE", None}
      /\ ~IsGoal(j, q)
  BY DEF Changing, MayChange, Leaves
<1>3. /\ t \in Trains /\ Calls(t, j.at) # {} /\ RunsOnDate(t, q.date)
      /\ c \in Reservable(t) /\ Allowed(q, c)
  BY DEF Changing
<1>4. /\ Continuation(j, q, m, x) /\ x.to = j.at /\ x.arr = j.arrives
      /\ x.train = j.train /\ x.coach = j.coach /\ x.seats = <<>>
  BY <1>2, ClosingContinues, SMTT(30)
<1> HIDE DEF x
<1>5. /\ h.at = j.at /\ h.train = t /\ h.coach = c /\ h.tickets = Append(j.tickets, x)
      /\ h.transfers = j.transfers + 1 /\ h.closed = j.closed
  BY <1>1 DEF Onboard, Changed, Shaped, x
<1>6. /\ Chain(h, q, m) /\ h.tickets # <<>> /\ Last(h.tickets) = x
      /\ Len(h.tickets) = Len(j.tickets) + 1 /\ Origin(h, q) = h.at
  <2>1. Chain(j, q, m) /\ Continuation(j, q, m, x) /\ Grown(j, x, h)
    BY <1>1, <1>4, <1>5 DEF Grown
  <2>2. Chain(h, q, m) /\ h.tickets # <<>> /\ Last(h.tickets) = x
        /\ Len(h.tickets) = Len(j.tickets) + 1 /\ Origin(h, q) = x.to
    BY <2>1, ChainGrows
  <2>3. QED
    BY <1>4, <1>5, <2>2
<1>7. Shaped(h, q)
  <2>1. x \in Tickets(q) /\ h.tickets \in Seq(Tickets(q))
    BY <1>4, <1>6 DEF Continuation, Chain
  <2>2. h = [j EXCEPT !.tickets = Append(@, x), !.transfers = @ + 1,
                      !.train = t, !.coach = c, !.arrives = time]
    BY <1>1 DEF Onboard, Changed, Shaped, x
  <2>3. c \in Codes /\ j.transfers + 1 \in Nat /\ Append(j.tickets, x) \in Seq(Tickets(q))
    BY <1>1, <1>3, <2>1 DEF Codes, Shaped
  <2>4. QED
    BY <1>1, <1>3, <2>2, <2>3 DEF Shaped
<1>8. Held(h)
  <2>1. j.tickets \in Seq(Tickets(q))
    BY <1>1 DEF Shaped
  <2>2. ASSUME NEW n \in TicketsOf(h) PROVE h.tickets[n].status \notin {"UNAVAILABLE", None}
    <3>1. n \in TicketsOf(j) \/ n = Len(j.tickets) + 1
      BY <1>6, <2>1 DEF TicketsOf
    <3>2. CASE n \in TicketsOf(j)
      <4>1. h.tickets[n] = j.tickets[n]
        BY <1>5, <2>1, <3>2 DEF TicketsOf
      <4>2. QED
        BY <1>1, <3>2, <4>1 DEF Held
    <3>3. CASE n = Len(j.tickets) + 1
      <4>1. h.tickets[n] = x
        BY <1>5, <2>1, <3>3
      <4>2. QED
        BY <1>2, <4>1
    <3>4. QED
      BY <3>1, <3>2, <3>3
  <2>3. QED
    BY <2>2 DEF Held
<1>9. /\ Open(h, q).train = t /\ Open(h, q).from = j.at /\ Open(h, q).coach = c /\ Open(h, q).seats = <<>>
      /\ Open(h, q).dep = Departs(Halt(t, i), q.date)
  BY <1>5, <1>6 DEF Open, i
<1>10. Open(h, q).dep # Missing /\ Origin(h, q) # q.destination
  BY <1>2, <1>5, <1>6, <1>9 DEF Changing, IsGoal, i
<1>11. Joins(x, Open(h, q), q, m)
  <2>1. DayHalts => Open(h, q).dep - x.arr >= (IF x.train = t THEN MinSeatChange ELSE MinTrainChange)
    BY <1>4, <1>9 DEF Changing, i
  <2>2. (x.train = t) = (m = "same_train")
    BY <1>4 DEF Changing
  <2>3. x.train = t => /\ q.tolerance # "none" /\ c # x.coach
                       /\ q.tolerance = "short_walk" => CoachDistance(x.train, x.coach, c) <= MaxShortWalk
    BY <1>4 DEF Changing
  <2>4. QED
    BY <1>4, <1>9, <2>1, <2>2, <2>3 DEF Joins
<1>12. Aboard(h, q, m)
  BY <1>3, <1>5, <1>6, <1>10, <1>11 DEF Aboard
<1>13. h.train # None
  BY <1>3, <1>5, TimetableAssumption
<1>14. h.transfers = Len(h.tickets) /\ h.transfers <= q.maxTransfers /\ ~h.closed
  BY <1>1, <1>2, <1>5, <1>6
<1>15. Moved(h, q, m)
  BY <1>6, <1>7, <1>8, <1>12, <1>13, <1>14 DEF Moved
<1>16. ~IsGoal(h, q)
  BY <1>2, <1>5 DEF IsGoal
<1>17. QED
  BY <1>15, <1>16 DEF Closable

\* Changing coach.
LEMMA ChangeCoachStep ==
  ASSUME NEW q \in Queries, NEW masks, NEW j, Moved(j, q, "same_train"), j.train # None, ~IsGoal(j, q),
         NEW h \in ChangingCoach(masks, j, q)
  PROVE  Moved(h, q, "same_train") /\ Closable(masks, h, q)
<1> DEFINE i == IndexOf(j.train, j.at)
           t == j.train
<1>1. /\ Shaped(j, q) /\ Aboard(j, q, "same_train") /\ j.arrives \in Int
  BY DEF Moved, Shaped
<1>2. /\ q.tolerance # "none" /\ Halt(t, i).halt >= MinSeatChange /\ MayChange(masks, j, q)
      /\ \E c \in BestCoaches(masks, q, t, i, ClosingPoints(q, t, i + 1), j.coach) :
           /\ q.tolerance = "short_walk" => CoachDistance(t, j.coach, c) <= MaxShortWalk
           /\ h = Onboard(Changed(masks, j, q), t, c, j.arrives)
  BY DEF ChangingCoach
<1>3. PICK c \in BestCoaches(masks, q, t, i, ClosingPoints(q, t, i + 1), j.coach) :
        /\ q.tolerance = "short_walk" => CoachDistance(t, j.coach, c) <= MaxShortWalk
        /\ h = Onboard(Changed(masks, j, q), t, c, j.arrives)
  BY <1>2
<1>4. c \in Reservable(t) /\ c # j.coach /\ Allowed(q, c)
  BY <1>3, BestTyped
<1>5. /\ t \in Trains /\ Calls(t, j.at) # {} /\ RunsOnDate(t, q.date)
  BY <1>1 DEF Aboard
<1>6. j.arrives = Arrives(Halt(t, i), q.date)
  BY <1>1, <1>2 DEF Aboard, MayChange
<1>7. i \in Route(t) /\ q.date \in Nat
  BY <1>5, FirstCall, QueriesAssumption, TimetableAssumption DEF RunsOnDate
<1> HIDE DEF i
<1>8. /\ Departs(Halt(t, i), q.date) # Missing
      /\ DayHalts => Departs(Halt(t, i), q.date) - j.arrives >= MinSeatChange
  BY <1>2, <1>5, <1>6, <1>7, WaitsAboard
<1>9. Changing(masks, j, q, "same_train", t, c)
  BY <1>2, <1>3, <1>4, <1>5, <1>8 DEF Changing, i
<1>10. QED
  BY <1>1, <1>3, <1>9, ChangeStep

\* Changing train.
LEMMA ChangeTrainStep ==
  ASSUME NEW q \in Queries, NEW masks, NEW j, Moved(j, q, "different_train"), j.train # None, ~IsGoal(j, q),
         NEW h \in ChangingTrain(masks, j, q)
  PROVE  Moved(h, q, "different_train") /\ Closable(masks, h, q)
<1>1. MayChange(masks, j, q)
  BY DEF ChangingTrain
<1>2. PICK t \in RunningThrough(j, q) \ {j.train} :
        /\ InTime(j, Departs(Halt(t, IndexOf(t, j.at)), q.date))
        /\ \E c \in BestCoaches(masks, q, t, IndexOf(t, j.at), ClosingPoints(q, t, IndexOf(t, j.at) + 1), None) :
             h = Onboard(Changed(masks, j, q), t, c, Departs(Halt(t, IndexOf(t, j.at)), q.date))
  BY <1>1 DEF ChangingTrain
<1> DEFINE i == IndexOf(t, j.at)
<1>3. PICK c \in BestCoaches(masks, q, t, i, ClosingPoints(q, t, i + 1), None) :
        h = Onboard(Changed(masks, j, q), t, c, Departs(Halt(t, i), q.date))
  BY <1>2
<1>4. c \in Reservable(t) /\ Allowed(q, c)
  BY <1>3, BestTyped
<1>5. t \in Trains /\ Calls(t, j.at) # {} /\ RunsOnDate(t, q.date) /\ j.train # t
  BY <1>2 DEF RunningThrough
<1>6. Departs(Halt(t, i), q.date) \in Int
  BY <1>5, FirstCall, HaltTyped, QueriesAssumption
<1>7. Departs(Halt(t, i), q.date) # Missing /\ Departs(Halt(t, i), q.date) - j.arrives >= MinTrainChange
  BY <1>2 DEF InTime
<1> HIDE DEF i
<1>8. Changing(masks, j, q, "different_train", t, c)
  BY <1>1, <1>4, <1>5, <1>7 DEF Changing, i
<1>9. QED
  BY <1>3, <1>6, <1>8, ChangeStep

\* A journey that has arrived.
Arrived(j, q, m) ==
  /\ Shaped(j, q) /\ Chain(j, q, m) /\ j.tickets # <<>> /\ Last(j.tickets).to = q.destination
  /\ j.transfers = Len(j.tickets) - 1 /\ j.transfers <= q.maxTransfers

\* The last ticket is closed when the journey is complete.
LEMMA FinishStep ==
  ASSUME NEW q \in Queries, NEW m, NEW masks, NEW j, Moved(j, q, m), IsGoal(j, q),
         NEW h, h = Finished(masks, j, q)
  PROVE  Arrived(h, q, m) /\ (Closable(masks, j, q) => Held(h))
<1> DEFINE x == Closing(masks, j, q)
<1>1. Shaped(j, q) /\ Chain(j, q, m) /\ Held(j) /\ Aboard(j, q, m)
      /\ j.transfers = Len(j.tickets) /\ j.transfers <= q.maxTransfers /\ ~j.closed /\ j.train # None
  BY DEF Moved, IsGoal
<1>2. j.at = q.destination /\ j.at # Origin(j, q)
  BY <1>1 DEF IsGoal, Aboard
<1>3. /\ Continuation(j, q, m, x) /\ x.to = j.at
      /\ x.status = PairStatus(masks, q, j.train, j.coach,
                               IndexOf(j.train, Origin(j, q)), IndexOf(j.train, j.at))
      /\ x.status # None
  BY <1>1, <1>2, ClosingContinues
<1>4. h = [j EXCEPT !.tickets = Append(@, x)]
  BY <1>1 DEF Finished
<1> HIDE DEF x
<1>5. h.tickets = Append(j.tickets, x) /\ h.transfers = j.transfers
  BY <1>1, <1>4 DEF Shaped
<1>6. /\ Chain(h, q, m) /\ h.tickets # <<>> /\ Last(h.tickets) = x
      /\ Len(h.tickets) = Len(j.tickets) + 1
  <2>1. Chain(j, q, m) /\ Continuation(j, q, m, x) /\ Grown(j, x, h)
    BY <1>1, <1>3, <1>5 DEF Grown
  <2>2. QED
    BY <2>1, ChainGrows
<1>7. Shaped(h, q)
  <2>1. Append(j.tickets, x) \in Seq(Tickets(q))
    BY <1>5, <1>6 DEF Chain
  <2>2. QED
    BY <1>1, <1>4, <2>1 DEF Shaped
<1>8. Arrived(h, q, m)
  <2>1. Len(j.tickets) \in Nat
    BY <1>1 DEF Shaped
  <2>2. QED
    BY <1>1, <1>2, <1>3, <1>5, <1>6, <1>7, <2>1 DEF Arrived
<1>9. ASSUME Closable(masks, j, q) PROVE Held(h)
  <2>1. j.tickets \in Seq(Tickets(q)) /\ x.status \notin {"UNAVAILABLE", None}
    BY <1>1, <1>3, <1>9 DEF Shaped, Closable
  <2>2. ASSUME NEW n \in TicketsOf(h) PROVE h.tickets[n].status \notin {"UNAVAILABLE", None}
    <3>1. n \in TicketsOf(j) \/ n = Len(j.tickets) + 1
      BY <1>6, <2>1 DEF TicketsOf
    <3>2. CASE n \in TicketsOf(j)
      <4>1. h.tickets[n] = j.tickets[n]
        BY <1>5, <2>1, <3>2 DEF TicketsOf
      <4>2. QED
        BY <1>1, <3>2, <4>1 DEF Held
    <3>3. CASE n = Len(j.tickets) + 1
      <4>1. h.tickets[n] = x
        BY <1>5, <2>1, <3>3
      <4>2. QED
        BY <2>1, <4>1
    <3>4. QED
      BY <3>1, <3>2, <3>3
  <2>3. QED
    BY <2>2 DEF Held
<1>10. QED
  BY <1>8, <1>9

\* A search that starts is at its origin, with nothing booked.
LEMMA StartTyped ==
  ASSUME NEW q \in Queries, NEW m, NEW masks
  PROVE  LET j == InitialState(q)
         IN  Shaped(j, q) /\ Seated(j, q, m) /\ Moved(j, q, m) /\ Closable(masks, j, q)
<1> DEFINE j == InitialState(q)
<1>1. q.date \in Int /\ q.maxTransfers \in Nat
  BY QueriesAssumption
<1>2. q.date * Day \in Int
  BY <1>1 DEF Day
<1>3. /\ j.at = q.origin /\ j.arrives = q.date * Day /\ j.train = None /\ j.coach = None
      /\ j.tickets = <<>> /\ j.transfers = 0 /\ j.moving = 0 /\ j.closed = FALSE
  BY DEF InitialState
<1>4. Shaped(j, q)
  <2>1. <<>> \in Seq(Tickets(q))
    OBVIOUS
  <2>2. QED
    BY <1>2, <2>1 DEF Shaped, InitialState, Places
<1> HIDE DEF j
<1>5. Chain(j, q, m) /\ Held(j)
  <2>1. TicketsOf(j) = {} /\ Changes(j) = {} /\ Visited(j) = {}
    BY <1>3 DEF TicketsOf, Changes, Visited
  <2>2. j.tickets \in Seq(Tickets(q))
    BY <1>3
  <2>3. QED
    BY <1>3, <2>1, <2>2, FS_EmptySet DEF Chain, Held
<1>6. Seated(j, q, m) /\ Moved(j, q, m)
  BY <1>1, <1>3, <1>4, <1>5 DEF Seated, Moved, j
<1>7. QED
  BY <1>3, <1>4, <1>6 DEF Closable, IsGoal, j
-----------------------------------------------------------------------------
\* The invariant

Masked == [Seats -> SUBSET Segments]

\* What is asked and what has been read.
Tasked ==
  /\ version \in 0..MaxCommits /\ asked \in 0..version /\ stamp \in -1..version
  /\ phase \in {"idle", "leg", "halt", "call", "offer"}
  /\ query \in Queries /\ mode \in Modes
  /\ due \in Seq(Coaches)
  /\ inv \in [Coaches -> {Unread} \cup Masked] /\ kept \in [Coaches -> {Unread} \cup Masked]

\* The journey is what its phase makes of it.
Journeying ==
  /\ Shaped(journey, query)
  /\ phase = "idle" => journey = InitialState(query)
  /\ phase = "leg" => Seated(journey, query, mode)
  /\ phase \in {"halt", "call"} => Moved(journey, query, mode)
  /\ phase = "offer" => Arrived(journey, query, mode)

\* What the ledger's coaches answer now.
Current == [c \in Coaches |-> Masks(c)]

\* Nothing that was found out since the search began is out of date, as long as
\* nothing has been committed.
UpToDate ==
  /\ phase = "offer" /\ version = asked => Held(journey)
  /\ phase \in {"halt", "call"} /\ version = asked => Closable(Current, journey, query)
  /\ phase = "call" => asked <= stamp
  /\ phase = "call" /\ stamp = version =>
       \A c \in Coaches : c[2] = query.date /\ Calls(c[1], journey.at) # {} =>
         c \in Range(due) \/ kept[c] = Masks(c)

IInv == Stamped /\ Tasked /\ Journeying /\ UpToDate

\* What an inventory reads of a coach are masks.
LEMMA MasksTyped == ASSUME NEW c \in Coaches PROVE Masks(c) \in Masked
<1>1. ASSUME NEW s \in Seats PROVE Occupied(rows, c, s) \in SUBSET Segments
  <2>1. Seed[c][s] \in SUBSET Segments
    BY InventoryAssumption
  <2>2. \A row : SpanOf(row) \subseteq Segments
    BY DEF SpanOf, Span
  <2>3. QED
    BY <2>1, <2>2 DEF Occupied
<1>2. QED
  BY <1>1 DEF Masks, Masked

\* The coaches that have still to be read are coaches, and none is left out.
LEMMA DueTyped ==
  ASSUME NEW S \in SUBSET (DOMAIN Catalogue)
  PROVE  /\ Picked(Catalogue, S) \in Seq(Coaches)
         /\ \A i \in S : Catalogue[i] \in Range(Picked(Catalogue, S))
<1>1. Catalogue \in Seq(Coaches)
  BY CatalogueAssumption
<1>2. Picked(Catalogue, S) \in Seq(Coaches) /\ PickedAt(Picked(Catalogue, S), Catalogue, S)
  BY <1>1, PickedLaw
<1> DEFINE p == Picked(Catalogue, S)
<1> HIDE DEF p
<1>3. PICK at \in [DOMAIN p -> S] :
        /\ \A k \in DOMAIN p : p[k] = Catalogue[at[k]]
        /\ \A i \in S : \E k \in DOMAIN p : at[k] = i
  BY <1>2 DEF PickedAt, p
<1>4. ASSUME NEW i \in S PROVE Catalogue[i] \in Range(p)
  BY <1>3 DEF Range
<1>5. QED
  BY <1>2, <1>4 DEF p

LEMMA DueForLegTyped ==
  ASSUME NEW j, NEW q, NEW m PROVE DueForLeg(j, q, m) \in Seq(Coaches)
<1> DEFINE coming == {<<d[1], d[3]>> : d \in Departures(j, q, m)}
           S == {i \in DOMAIN Catalogue : RunOf[Catalogue[i]] \in coming /\ inv[Catalogue[i]] = Unread}
<1>1. S \in SUBSET (DOMAIN Catalogue)
  OBVIOUS
<1>2. DueForLeg(j, q, m) = IF IsGoal(j, q) THEN <<>> ELSE Picked(Catalogue, S)
  BY DEF DueForLeg
<1> HIDE DEF S
<1>3. Picked(Catalogue, S) \in Seq(Coaches) /\ <<>> \in Seq(Coaches)
  BY <1>1, DueTyped
<1>4. QED
  BY <1>2, <1>3

LEMMA DueForCallTyped ==
  ASSUME NEW masks
  PROVE  /\ DueForCall(masks) \in Seq(Coaches)
         /\ \A c \in Coaches : masks[c] = Unread /\ c[2] = query.date /\ Calls(c[1], journey.at) # {} =>
              c \in Range(DueForCall(masks))
<1> DEFINE S == {i \in DOMAIN Catalogue :
                   LET c == Catalogue[i]
                   IN  masks[c] = Unread /\ c[2] = query.date /\ Calls(c[1], journey.at) # {}}
<1>1. S \in SUBSET (DOMAIN Catalogue)
  OBVIOUS
<1>2. DueForCall(masks) = Picked(Catalogue, S)
  BY DEF DueForCall
<1>3. ASSUME NEW c \in Coaches, masks[c] = Unread, c[2] = query.date, Calls(c[1], journey.at) # {}
      PROVE  \E i \in S : Catalogue[i] = c
  BY <1>3, CatalogueAssumption
<1> HIDE DEF S
<1>4. /\ Picked(Catalogue, S) \in Seq(Coaches)
      /\ \A i \in S : Catalogue[i] \in Range(Picked(Catalogue, S))
  BY <1>1, DueTyped
<1>5. QED
  BY <1>2, <1>3, <1>4

\* What a coach answers depends on what is read of that coach alone.
LEMMA SameAnswer ==
  ASSUME NEW masks, NEW other, NEW q, NEW t, NEW code, NEW i, NEW k,
         masks[<<t, q.date, code>>] = other[<<t, q.date, code>>]
  PROVE  PairStatus(masks, q, t, code, i, k) = PairStatus(other, q, t, code, i, k)
BY DEF PairStatus, Status, Free

LEMMA IInvInit == Init => IInv
<1> SUFFICES ASSUME Init PROVE IInv
  OBVIOUS
<1>1. NoQuery \in Queries
  BY QueriesAssumption DEF NoQuery
<1>2. /\ version = 0 /\ phase = "idle" /\ query = NoQuery /\ mode = "same_train" /\ asked = 0
      /\ journey = InitialState(NoQuery) /\ due = <<>> /\ inv = Empty /\ kept = Empty /\ stamp = -1
  BY DEF Init
<1>3. Tasked
  <2>1. Empty \in [Coaches -> {Unread} \cup Masked]
    BY DEF Empty
  <2>2. MaxCommits \in Nat
    BY QueriesAssumption
  <2>3. QED
    BY <1>1, <1>2, <2>1, <2>2 DEF Tasked, Modes
<1>4. Journeying
  BY <1>1, <1>2, StartTyped DEF Journeying
<1>5. UpToDate
  BY <1>2 DEF UpToDate
<1>6. QED
  BY <1>3, <1>4, <1>5, StampedInit DEF IInv

\* A list without its first element.
LEMMA TailTyped ==
  ASSUME NEW S, NEW s \in Seq(S), s # <<>>
  PROVE  /\ Head(s) \in S /\ Tail(s) \in Seq(S)
         /\ \A x \in Range(s) : x = Head(s) \/ x \in Range(Tail(s))
<1>1. Head(s) \in S /\ Tail(s) \in Seq(S) /\ Head(s) = s[1] /\ Len(s) \in Nat
  OBVIOUS
<1>2. Len(Tail(s)) = Len(s) - 1 /\ \A i \in 1..(Len(s) - 1) : Tail(s)[i] = s[i + 1]
  OBVIOUS
<1>3. DOMAIN s = 1..Len(s) /\ DOMAIN Tail(s) = 1..(Len(s) - 1)
  BY <1>1, <1>2
<1>4. ASSUME NEW i \in DOMAIN s PROVE s[i] = Head(s) \/ \E k \in DOMAIN Tail(s) : Tail(s)[k] = s[i]
  <2>1. CASE i = 1
    BY <1>1, <2>1
  <2>2. CASE i # 1
    <3>1. i - 1 \in 1..(Len(s) - 1) /\ i - 1 + 1 = i
      BY <1>1, <1>3, <2>2
    <3>2. Tail(s)[i - 1] = s[i]
      BY <1>2, <3>1
    <3>3. QED
      BY <1>3, <3>1, <3>2
  <2>3. QED
    BY <2>1, <2>2
<1>5. QED
  BY <1>1, <1>4 DEF Range

LEMMA TaskedStep == Tasked /\ [Next]_vars => Tasked'
<1> SUFFICES ASSUME Tasked, [Next]_vars PROVE Tasked'
  OBVIOUS
<1>0. MaxCommits \in Nat /\ version \in Int /\ asked \in Int /\ stamp \in Int /\ NoQuery \in Queries
      /\ Empty \in [Coaches -> {Unread} \cup Masked]
  BY QueriesAssumption DEF Tasked, NoQuery, Empty
<1>1. CASE UNCHANGED <<version, asked, stamp, phase, query, mode, due, inv, kept>>
  BY <1>1 DEF Tasked
<1>2. CASE Ask
  <2>1. PICK q \in Queries, m \in Modes, way \in {"leg", "halt"} :
          /\ phase' = way /\ query' = q /\ mode' = m
          /\ due' = IF way = "leg" THEN DueForLeg(InitialState(q), q, m) ELSE <<>>
    BY <1>2 DEF Ask
  <2>2. due' \in Seq(Coaches)
    <3>1. DueForLeg(InitialState(q), q, m) \in Seq(Coaches) /\ <<>> \in Seq(Coaches)
      BY DueForLegTyped
    <3>2. QED
      BY <2>1, <3>1
  <2>3. asked' = version /\ UNCHANGED <<version, inv, kept, stamp>>
    BY <1>2 DEF Ask
  <2>4. asked' \in 0..version' /\ phase' \in {"leg", "halt"}
    BY <1>0, <2>1, <2>3 DEF Tasked
  <2>5. QED
    BY <2>1, <2>2, <2>3, <2>4 DEF Tasked
<1>3. CASE ReadOwn
  <2>1. Head(due) \in Coaches /\ Tail(due) \in Seq(Coaches)
    BY <1>3, TailTyped DEF ReadOwn, Tasked
  <2>2. Masks(Head(due)) \in Masked
    BY <2>1, MasksTyped
  <2>3. inv' \in [Coaches -> {Unread} \cup Masked]
    BY <1>3, <2>1, <2>2 DEF ReadOwn, Tasked
  <2>4. QED
    BY <1>3, <2>1, <2>3 DEF ReadOwn, Tasked, ledgerVars, taskVars
<1>4. CASE ReadKept
  <2>1. Head(due) \in Coaches /\ Tail(due) \in Seq(Coaches)
    BY <1>4, TailTyped DEF ReadKept, Tasked
  <2>2. Masks(Head(due)) \in Masked
    BY <2>1, MasksTyped
  <2>3. kept' \in [Coaches -> {Unread} \cup Masked]
    BY <1>4, <2>1, <2>2 DEF ReadKept, Tasked
  <2>4. QED
    BY <1>4, <2>1, <2>3 DEF ReadKept, Tasked, ledgerVars, taskVars
<1>5. CASE Ride
  <2>1. due' \in Seq(Coaches)
    <3>1. \A h : DueForLeg(h, query, mode) \in Seq(Coaches)
      BY DueForLegTyped
    <3>2. QED
      BY <1>5, <3>1 DEF Ride
  <2>2. QED
    BY <1>5, <2>1 DEF Ride, Tasked, ledgerVars, taskVars
<1>6. CASE Call
  <2>1. kept' \in [Coaches -> {Unread} \cup Masked]
    BY <1>0, <1>6 DEF Call, Tasked
  <2>2. due' \in Seq(Coaches)
    <3>1. due' = DueForCall(kept')
      BY <1>6 DEF Call
    <3>2. \A f : DueForCall(f) \in Seq(Coaches)
      BY DueForCallTyped
    <3>3. QED
      BY <3>1, <3>2
  <2>3. stamp' \in -1..version' /\ version' = version /\ asked' = asked /\ phase' = "call"
    BY <1>0, <1>6 DEF Call, Tasked, ledgerVars, taskVars
  <2>4. QED
    BY <1>6, <2>1, <2>2, <2>3 DEF Call, Tasked, ledgerVars, taskVars
<1>7. ASSUME NEW S, Move(S) PROVE Tasked'
  BY <1>7 DEF Move, Tasked, ledgerVars, taskVars
<1>8. CASE OfferSeats \/ OfferRide
  BY <1>8 DEF OfferSeats, OfferRide, Tasked, ledgerVars, taskVars
<1>9. CASE Leave
  BY <1>0, <1>9 DEF Leave, Closed, Tasked, ledgerVars, Modes
<1>10. ASSUME NEW new, Commit(new), \/ Closed
                                    \/ UNCHANGED <<asked, stamp, phase, query, mode, due, inv, kept>>
       PROVE  Tasked'
  <2>1. version' = version + 1 /\ version' \in 0..MaxCommits
    BY <1>0, <1>10 DEF Commit, Tasked
  <2>2. CASE Closed
    BY <1>0, <2>1, <2>2 DEF Closed, Tasked, Modes
  <2>3. CASE UNCHANGED <<asked, stamp, phase, query, mode, due, inv, kept>>
    BY <1>0, <2>1, <2>3 DEF Tasked
  <2>4. QED
    BY <1>10, <2>2, <2>3
<1>11. QED
  BY <1>1, <1>2, <1>3, <1>4, <1>5, <1>6, <1>7, <1>8, <1>9, <1>10
  DEF Next, Board, Continue, ChangeCoach, ChangeTrain, Book, OthersSell, OthersCancel, vars, taskVars

LEMMA JourneyingStep == Tasked /\ Journeying /\ [Next]_vars => Journeying'
<1> SUFFICES ASSUME Tasked, Journeying, [Next]_vars PROVE Journeying'
  OBVIOUS
<1>0. query \in Queries /\ mode \in Modes /\ NoQuery \in Queries
  BY QueriesAssumption DEF Tasked, NoQuery
<1>1. CASE UNCHANGED <<phase, query, mode, journey>>
  BY <1>1 DEF Journeying
<1>2. CASE Ask
  <2>1. PICK q \in Queries, m \in Modes, way \in {"leg", "halt"} :
          phase' = way /\ query' = q /\ mode' = m /\ journey' = InitialState(q)
    BY <1>2 DEF Ask
  <2>2. Shaped(journey', q) /\ Seated(journey', q, m) /\ Moved(journey', q, m)
    BY <2>1, StartTyped
  <2>3. QED
    BY <2>1, <2>2 DEF Journeying
<1>3. CASE Closed
  <2>1. Shaped(InitialState(NoQuery), NoQuery)
    BY <1>0, StartTyped
  <2>2. QED
    BY <1>3, <2>1 DEF Closed, Journeying
<1>4. CASE ReadOwn \/ Call \/ ReadKept
  BY <1>4 DEF ReadOwn, Call, ReadKept, Journeying, taskVars
<1>5. CASE Ride
  <2>1. Seated(journey, query, mode) /\ journey.at \in Places(query) /\ journey.arrives \in Int
        /\ journey' \in SeatSuccessors(inv, journey, query, mode)
        /\ phase' = "leg" /\ query' = query /\ mode' = mode
    BY <1>5 DEF Ride, Journeying, Shaped, taskVars
  <2>2. Seated(journey', query, mode) /\ Shaped(journey', query)
    BY <1>0, <2>1, RideStep
  <2>3. QED
    BY <2>1, <2>2 DEF Journeying
<1>6. ASSUME NEW S, Move(S), \A h \in S : Moved(h, query, mode) PROVE Journeying'
  <2>1. journey' \in S /\ phase' = "halt" /\ query' = query /\ mode' = mode
    BY <1>6 DEF Move, taskVars
  <2>2. Moved(journey', query, mode)
    BY <1>6, <2>1
  <2>3. QED
    BY <2>1, <2>2 DEF Journeying, Moved
<1>7. CASE Board
  <2>1. Moved(journey, query, mode) /\ journey.train = None
    BY <1>7 DEF Board, Move, Journeying
  <2>2. \A h \in Boarding(kept, journey, query, mode) : Moved(h, query, mode)
    BY <1>0, <2>1, BoardStep
  <2>3. QED
    BY <1>6, <1>7, <2>2 DEF Board
<1>8. CASE Continue
  <2>1. Moved(journey, query, mode) /\ journey.train # None
    BY <1>8 DEF Continue, Move, Journeying
  <2>2. \A h \in Continuing(kept, journey, query) : Moved(h, query, mode)
    BY <1>0, <2>1, ContinueStep
  <2>3. QED
    BY <1>6, <1>8, <2>2 DEF Continue
<1>9. CASE ChangeCoach
  <2>1. Moved(journey, query, "same_train") /\ journey.train # None /\ ~IsGoal(journey, query)
        /\ mode = "same_train"
    BY <1>9 DEF ChangeCoach, Move, Journeying
  <2>2. \A h \in ChangingCoach(kept, journey, query) : Moved(h, query, mode)
    BY <1>0, <2>1, ChangeCoachStep
  <2>3. QED
    BY <1>6, <1>9, <2>2 DEF ChangeCoach
<1>10. CASE ChangeTrain
  <2>1. Moved(journey, query, "different_train") /\ journey.train # None /\ ~IsGoal(journey, query)
        /\ mode = "different_train"
    BY <1>10 DEF ChangeTrain, Move, Journeying
  <2>2. \A h \in ChangingTrain(kept, journey, query) : Moved(h, query, mode)
    BY <1>0, <2>1, ChangeTrainStep
  <2>3. QED
    BY <1>6, <1>10, <2>2 DEF ChangeTrain
<1>11. CASE OfferSeats
  <2>1. /\ Seated(journey, query, mode) /\ Shaped(journey, query) /\ IsGoal(journey, query)
        /\ phase' = "offer" /\ query' = query /\ mode' = mode /\ journey' = journey
    BY <1>11 DEF OfferSeats, Journeying, taskVars
  <2>2. journey.tickets # <<>>
    BY <2>1 DEF Seated, IsGoal, InitialState
  <2>3. Arrived(journey, query, mode)
    BY <1>0, <2>1, <2>2, QueriesAssumption DEF Arrived, Seated, IsGoal
  <2>4. QED
    BY <2>1, <2>3 DEF Journeying
<1>12. CASE OfferRide
  <2>1. /\ Moved(journey, query, mode) /\ IsGoal(journey, query)
        /\ phase' = "offer" /\ query' = query /\ mode' = mode
        /\ journey' = Finished(kept, journey, query)
    BY <1>12 DEF OfferRide, Journeying, taskVars
  <2>2. Arrived(journey', query, mode)
    BY <1>0, <2>1, FinishStep
  <2>3. QED
    BY <2>1, <2>2 DEF Journeying, Arrived
<1>13. QED
  BY <1>1, <1>2, <1>3, <1>4, <1>5, <1>7, <1>8, <1>9, <1>10, <1>11, <1>12
  DEF Next, Leave, Book, OthersSell, OthersCancel, vars, taskVars

\* The answer for a coach that has been read is the ledger's.
LEMMA AnswersAgree ==
  ASSUME IInv, phase = "call", due = <<>>, version = asked, journey.train # None,
         NEW i, NEW k
  PROVE  PairStatus(kept, query, journey.train, journey.coach, i, k)
           = PairStatus(Current, query, journey.train, journey.coach, i, k)
<1> DEFINE c == <<journey.train, query.date, journey.coach>>
<1>1. Aboard(journey, query, mode)
  BY DEF IInv, Journeying, Moved
<1>2. c \in Coaches
  <2> DEFINE o == IndexOf(journey.train, journey.at)
  <2>1. /\ journey.train \in Trains /\ journey.coach \in Reservable(journey.train)
        /\ Calls(journey.train, journey.at) # {}
        /\ query.date \in FirstDay..LastDay /\ Operates(journey.train, query.date)
    BY <1>1 DEF Aboard, RunsOnDate
  <2>2. o \in Route(journey.train)
    BY <2>1, FirstCall
  <2> HIDE DEF o
  <2>3. query.date \in (FirstDay - DaysBefore(journey.train, o))..(LastDay + MaxJourneyDays)
    <3>1. DaysBefore(journey.train, o) \in Nat
      BY <2>1, <2>2, DaysTyped
    <3>2. MaxJourneyDays \in Nat /\ FirstDay \in Int /\ LastDay \in Int
      BY SearchAssumption, TimetableAssumption
    <3>3. QED
      BY <2>1, <3>1, <3>2
  <2>4. QED
    BY <2>1, <2>2, <2>3, SearchAssumption
<1>3. c[1] = journey.train /\ c[2] = query.date
  OBVIOUS
<1>4. stamp = version
  BY DEF IInv, UpToDate, Tasked
<1>5. Range(due) = {}
  BY DEF Range
<1> HIDE DEF c
<1>6. kept[c] = Masks(c)
  BY <1>1, <1>2, <1>3, <1>4, <1>5 DEF IInv, UpToDate, Aboard
<1>7. kept[c] = Current[c]
  BY <1>2, <1>6 DEF Current
<1>8. QED
  BY <1>7, SameAnswer DEF c

\* A change of seats or of train, and boarding, close nothing yet; riding on is
\* closable by what was read, and so by the ledger.
LEMMA MovesCloses ==
  ASSUME IInv, NEW S, Move(S), version = asked,
         \/ journey' \in Continuing(kept, journey, query) /\ journey.train # None
         \/ ~IsGoal(journey', query)
  PROVE  Closable(Current, journey', query)
<1>1. CASE ~IsGoal(journey', query)
  BY <1>1 DEF Closable
<1>2. CASE journey' \in Continuing(kept, journey, query) /\ journey.train # None
  <2>1. phase = "call" /\ due = <<>>
    BY DEF Move
  <2>2. Moved(journey, query, mode) /\ query \in Queries
    BY <2>1 DEF IInv, Journeying, Tasked
  <2>3. PICK h \in Continuing(kept, journey, query) : h = journey'
    BY <1>2
  <2>4. Closable(kept, h, query)
    BY <1>2, <2>2, ContinueCloses
  <2>5. h.train = journey.train /\ h.coach = journey.coach
    BY <2>2 DEF Continuing, Moved, Shaped
  <2>6. \A i, k : PairStatus(kept, query, journey.train, journey.coach, i, k)
                    = PairStatus(Current, query, journey.train, journey.coach, i, k)
    BY <1>2, <2>1, AnswersAgree
  <2>7. Closable(Current, h, query)
    BY <2>4, <2>5, <2>6 DEF Closable
  <2>8. QED
    BY <2>3, <2>7
<1>3. QED
  BY <1>1, <1>2

\* After a commit no search is as recent as the ledger.
LEMMA CommitOutdates ==
  ASSUME Tasked, NEW new, Commit(new), UNCHANGED <<asked, stamp, phase, query, mode, due, inv, kept>>, UpToDate
  PROVE  UpToDate'
<1>1. version' # asked' /\ version' # stamp'
  BY DEF Commit, Tasked
<1>2. QED
  BY <1>1 DEF UpToDate

\* What is offered is what was found, whichever way it is found.
LEMMA OffersHeld ==
  ASSUME IInv, OfferSeats \/ OfferRide
  PROVE  phase' = "offer" /\ (version = asked => Held(journey'))
<1>1. CASE OfferSeats
  BY <1>1 DEF OfferSeats, IInv, Journeying, Seated
<1>2. CASE OfferRide
  <2>1. /\ phase = "call" /\ due = <<>> /\ IsGoal(journey, query) /\ phase' = "offer"
        /\ journey' = Finished(kept, journey, query)
    BY <1>2 DEF OfferRide
  <2>2. Moved(journey, query, mode) /\ query \in Queries
    BY <2>1 DEF IInv, Journeying, Tasked
  <2>3. ASSUME version = asked PROVE Closable(kept, journey, query)
    <3>1. Closable(Current, journey, query) /\ journey.train # None
      BY <2>1, <2>3 DEF IInv, UpToDate, IsGoal
    <3>2. \A i, k : PairStatus(kept, query, journey.train, journey.coach, i, k)
                      = PairStatus(Current, query, journey.train, journey.coach, i, k)
      BY <2>1, <2>3, <3>1, AnswersAgree
    <3>3. QED
      BY <3>1, <3>2 DEF Closable
  <2>4. Closable(kept, journey, query) => Held(journey')
    BY <2>1, <2>2, FinishStep
  <2>5. QED
    BY <2>1, <2>3, <2>4
<1>3. QED
  BY <1>1, <1>2

\* After a call the store's inventory lacks only what is still to be read.
LEMMA CallReads ==
  ASSUME IInv, Call
  PROVE  \A c \in Coaches : c[2] = query.date /\ Calls(c[1], journey.at) # {} =>
           c \in Range(due') \/ kept'[c] = Masks(c)
<1>1. due' = DueForCall(kept')
  BY DEF Call
<1>2. \A c \in Coaches : kept'[c] \in {Unread, Masks(c)}
  BY DEF Call, IInv, Stamped, KeptAgrees, Empty
<1>3. ASSUME NEW masks, NEW c \in Coaches, masks[c] = Unread, c[2] = query.date, Calls(c[1], journey.at) # {}
      PROVE  c \in Range(DueForCall(masks))
  BY <1>3, DueForCallTyped
<1>4. QED
  BY <1>1, <1>2, <1>3

\* Boarding is getting on some train, and a connection is a change and then that.
LEMMA BoardsOnce ==
  ASSUME NEW masks, NEW j, NEW q, NEW m, NEW h \in Boarding(masks, j, q, m)
  PROVE  \E t, c, time : h = Onboard(j, t, c, time)
<1>1. PICK t : \E c \in BestCoaches(masks, q, t, IndexOf(t, j.at), ClosingPoints(q, t, IndexOf(t, j.at) + 1), None) :
                 h = Onboard(j, t, c, Departs(Halt(t, IndexOf(t, j.at)), q.date))
  BY DEF Boarding
<1>2. QED
  BY <1>1

LEMMA ConnectsOnce ==
  ASSUME NEW masks, NEW j, NEW q, NEW h \in ChangingTrain(masks, j, q)
  PROVE  \E t, c, time : h = Onboard(Changed(masks, j, q), t, c, time)
<1>1. MayChange(masks, j, q)
  BY DEF ChangingTrain
<1>2. PICK t : \E c \in BestCoaches(masks, q, t, IndexOf(t, j.at), ClosingPoints(q, t, IndexOf(t, j.at) + 1), None) :
                 h = Onboard(Changed(masks, j, q), t, c, Departs(Halt(t, IndexOf(t, j.at)), q.date))
  BY <1>1 DEF ChangingTrain
<1>3. QED
  BY <1>2

LEMMA UpToDateStep == IInv /\ [Next]_vars => UpToDate'
<1> SUFFICES ASSUME IInv, [Next]_vars PROVE UpToDate'
  OBVIOUS
<1>0. Tasked /\ UpToDate /\ query \in Queries
  BY DEF IInv, Tasked
<1>1. ASSUME rows' = rows PROVE Current' = Current /\ \A c \in Coaches : Masks(c)' = Masks(c)
  BY <1>1 DEF Current, Masks
<1>2. CASE UNCHANGED vars
  BY <1>0, <1>1, <1>2 DEF UpToDate, vars
<1>3. CASE Closed
  BY <1>3 DEF Closed, UpToDate
<1>4. CASE Ask
  <2>1. PICK q \in Queries, m \in Modes, way \in {"leg", "halt"} :
          phase' = way /\ query' = q /\ mode' = m /\ journey' = InitialState(q)
    BY <1>4 DEF Ask
  <2>2. Closable(Current, InitialState(q), q)
    BY StartTyped
  <2>3. Current' = Current
    BY <1>1, <1>4 DEF Ask
  <2>4. QED
    BY <2>1, <2>2, <2>3 DEF UpToDate
<1>5. CASE ReadOwn
  BY <1>5 DEF ReadOwn, UpToDate
<1>6. CASE Ride
  BY <1>6 DEF Ride, UpToDate
<1>7. CASE Call
  <2>1. /\ phase = "halt" /\ phase' = "call" /\ stamp' = version /\ rows' = rows /\ version' = version
        /\ query' = query /\ asked' = asked /\ journey' = journey
    BY <1>7 DEF Call, ledgerVars, taskVars
  <2>2. asked <= version
    BY <1>0 DEF Tasked
  <2>3. \A c \in Coaches : c[2] = query.date /\ Calls(c[1], journey.at) # {} =>
          c \in Range(due') \/ kept'[c] = Masks(c)
    BY <1>7, CallReads
  <2>4. QED
    BY <1>0, <1>1, <2>1, <2>2, <2>3 DEF UpToDate
<1>8. CASE ReadKept
  <2>1. /\ phase = "call" /\ phase' = "call" /\ due # <<>> /\ due' = Tail(due)
        /\ kept' = [kept EXCEPT ![Head(due)] = Masks(Head(due))]
        /\ rows' = rows /\ version' = version /\ query' = query /\ asked' = asked /\ stamp' = stamp
        /\ journey' = journey
    BY <1>8 DEF ReadKept, ledgerVars, taskVars
  <2>2. due \in Seq(Coaches) /\ kept = [c \in Coaches |-> kept[c]]
    BY <1>0 DEF Tasked, IInv, Stamped
  <2>3. Head(due) \in Coaches /\ \A x \in Range(due) : x = Head(due) \/ x \in Range(due')
    BY <2>1, <2>2, TailTyped
  <2>4. kept'[Head(due)] = Masks(Head(due)) /\ \A c \in Coaches \ {Head(due)} : kept'[c] = kept[c]
    BY <2>1, <2>2, <2>3
  <2>5. QED
    BY <1>0, <1>1, <2>1, <2>3, <2>4 DEF UpToDate
<1>9. ASSUME NEW S, Move(S),
             \/ journey' \in Continuing(kept, journey, query) /\ journey.train # None
             \/ ~IsGoal(journey', query)
      PROVE  UpToDate'
  <2>1. phase' = "halt" /\ rows' = rows /\ version' = version /\ query' = query /\ asked' = asked
    BY <1>9 DEF Move, ledgerVars, taskVars
  <2>2. version = asked => Closable(Current, journey', query)
    BY <1>9, MovesCloses
  <2>3. QED
    BY <1>1, <2>1, <2>2 DEF UpToDate
<1>10. ASSUME NEW S, Move(S) PROVE Moved(journey, query, mode) /\ journey' \in S /\ ~IsGoal(journey, query)
  BY <1>10 DEF Move, IInv, Journeying
<1>11. CASE Board
  <2>1. /\ Move(Boarding(kept, journey, query, mode)) /\ journey.train = None
        /\ Moved(journey, query, mode) /\ journey' \in Boarding(kept, journey, query, mode)
    BY <1>10, <1>11 DEF Board
  <2>2. ~IsGoal(journey', query)
    <3>1. journey.at = query.origin
      BY <2>1 DEF Moved, InitialState
    <3>2. \E t, c, time : journey' = Onboard(journey, t, c, time)
      BY <2>1, BoardsOnce
    <3>3. journey'.at = journey.at
      BY <2>1, <3>2 DEF Onboard, Moved, Shaped
    <3>4. QED
      BY <1>0, <3>1, <3>3, QueriesAssumption DEF IsGoal
  <2>3. QED
    BY <1>9, <2>1, <2>2
<1>12. CASE Continue
  BY <1>9, <1>12 DEF Continue, Move
<1>13. CASE ChangeCoach
  <2>1. /\ Move(ChangingCoach(kept, journey, query)) /\ journey.train # None
        /\ Moved(journey, query, mode) /\ journey' \in ChangingCoach(kept, journey, query)
        /\ ~IsGoal(journey, query)
    BY <1>10, <1>13, SMTT(60) DEF ChangeCoach
  <2>2. journey'.at = journey.at
    BY <2>1 DEF ChangingCoach, Onboard, Changed, Moved, Shaped
  <2>3. ~IsGoal(journey', query)
    BY <2>1, <2>2 DEF IsGoal
  <2>4. QED
    BY <1>9, <2>1, <2>3
<1>14. CASE ChangeTrain
  <2>1. /\ Move(ChangingTrain(kept, journey, query)) /\ journey.train # None
        /\ Moved(journey, query, mode) /\ journey' \in ChangingTrain(kept, journey, query)
        /\ ~IsGoal(journey, query)
    BY <1>10, <1>14 DEF ChangeTrain
  <2>2. journey'.at = journey.at
    <3>1. \E t, c, time : journey' = Onboard(Changed(kept, journey, query), t, c, time)
      BY <2>1, ConnectsOnce
    <3>2. QED
      BY <2>1, <3>1 DEF Onboard, Changed, Moved, Shaped
  <2>3. ~IsGoal(journey', query)
    BY <2>1, <2>2 DEF IsGoal
  <2>4. QED
    BY <1>9, <2>1, <2>3
<1>15. CASE OfferSeats \/ OfferRide
  <2>1. phase' = "offer" /\ (version = asked => Held(journey'))
    BY <1>15, OffersHeld
  <2>2. version' = version /\ asked' = asked
    BY <1>15 DEF OfferSeats, OfferRide, ledgerVars, taskVars
  <2>3. QED
    BY <2>1, <2>2 DEF UpToDate
<1>16. ASSUME NEW new, Commit(new), UNCHANGED <<taskVars, phase, journey, due, inv, kept, stamp>>
       PROVE  UpToDate'
  BY <1>0, <1>16, CommitOutdates DEF taskVars
<1>17. QED
  BY <1>2, <1>3, <1>4, <1>5, <1>6, <1>7, <1>8, <1>11, <1>12, <1>13, <1>14, <1>15, <1>16
  DEF Next, Leave, Book, OthersSell, OthersCancel

LEMMA IInvStep == IInv /\ [Next]_vars => IInv'
BY StampedStep, TaskedStep, JourneyingStep, UpToDateStep DEF IInv
-----------------------------------------------------------------------------
\* The theorems

LEMMA IInvHolds == Spec => []IInv
BY IInvInit, IInvStep, PTL DEF Spec

\* A journey has not made more changes than were asked for, in any phase.
LEMMA ChangesCounted ==
  ASSUME Tasked, Journeying
  PROVE  journey.transfers \in 0..query.maxTransfers
<1>1. query.maxTransfers \in Nat /\ journey.transfers \in Nat
  BY QueriesAssumption DEF Tasked, Journeying, Shaped
<1>2. CASE phase = "idle"
  BY <1>1, <1>2 DEF Journeying, InitialState
<1>3. CASE phase = "leg"
  BY <1>3 DEF Journeying, Seated
<1>4. CASE phase \in {"halt", "call"}
  BY <1>1, <1>4 DEF Journeying, Moved
<1>5. CASE phase = "offer"
  BY <1>1, <1>5 DEF Journeying, Arrived
<1>6. QED
  BY <1>2, <1>3, <1>4, <1>5 DEF Tasked

LEMMA IInvTyped == IInv => TypeOK
<1> SUFFICES ASSUME IInv PROVE TypeOK
  OBVIOUS
<1>1. Tasked /\ Shaped(journey, query)
  BY DEF IInv, Journeying
<1>2. Range(due) \subseteq Coaches
  <2>1. due \in Seq(Coaches)
    BY <1>1 DEF Tasked
  <2>2. QED
    BY <2>1 DEF Range
<1>3. \A c \in Coaches : {inv[c], kept[c]} \subseteq {Unread} \cup [Seats -> SUBSET Segments]
  BY <1>1 DEF Tasked, Masked
<1>4. /\ journey.at \in Stations \cup {query.origin} /\ journey.moving \in Nat
      /\ journey.train \in Trains \cup {None} /\ journey.tickets \in Seq(Tickets(query))
  BY <1>1 DEF Shaped, Places
<1>5. journey.transfers \in 0..query.maxTransfers
  BY ChangesCounted DEF IInv
<1>6. ASSUME NEW i \in TicketsOf(journey)
      PROVE  /\ journey.tickets[i].train \in Trains
             /\ journey.tickets[i].coach \in Reservable(journey.tickets[i].train)
             /\ Range(journey.tickets[i].seats) \subseteq Seats
  <2>1. journey.tickets[i] \in Tickets(query)
    BY <1>4 DEF TicketsOf
  <2>2. journey.tickets[i].seats \in Seq(Seats)
    BY <2>1 DEF Tickets
  <2>3. Range(journey.tickets[i].seats) \subseteq Seats
    BY <2>2 DEF Range
  <2>4. QED
    BY <2>1, <2>3 DEF Tickets
<1>7. QED
  BY <1>1, <1>2, <1>3, <1>4, <1>5, <1>6 DEF TypeOK, Tasked

\* Every journey a search holds is at a place, has whole tickets and counts its
\* changes, whatever the generators are given and whatever is sold meanwhile.
THEOREM JourneysTypeCorrect == Spec => []TypeOK
BY IInvHolds, IInvTyped, PTL

LEMMA IInvAnswers ==
  ASSUME DayHalts
  PROVE  IInv => WithinQuery
<1> SUFFICES ASSUME IInv, phase = "offer"
             PROVE  WithinQuery
  BY DEF WithinQuery
<1> DEFINE t == journey.tickets
<1>1. /\ Chain(journey, query, mode) /\ t # <<>> /\ Last(t).to = query.destination
      /\ journey.transfers = Len(t) - 1 /\ journey.transfers <= query.maxTransfers
  BY DEF IInv, Journeying, Arrived
<1>2. Len(t) \in Nat /\ query.maxTransfers \in Nat
  BY <1>1, QueriesAssumption DEF Chain, IInv, Tasked
<1>3. t[1].from = query.origin /\ Cardinality(Visited(journey)) = Len(t) + 1
      /\ \A i \in TicketsOf(journey) : Allowed(query, t[i].coach)
  BY <1>1 DEF Chain
<1>4. version = asked => \A i \in TicketsOf(journey) : t[i].status \notin {"UNAVAILABLE", None}
  BY DEF IInv, UpToDate, Held
<1>5. \A i \in Changes(journey) : Joins(t[i], t[i + 1], query, mode)
  BY <1>1 DEF Chain
<1>6. Len(t) <= query.maxTransfers + 1
  BY <1>1, <1>2
<1> HIDE DEF t
<1>7. ASSUME NEW i \in Changes(journey)
      PROVE  LET same == t[i].train = t[i + 1].train
             IN  /\ t[i].to = t[i + 1].from
                 /\ t[i + 1].dep - t[i].arr >= (IF same THEN MinSeatChange ELSE MinTrainChange)
                 /\ same = (mode = "same_train")
                 /\ same => /\ query.tolerance # "none"
                            /\ <<t[i].coach, t[i].seats>> # <<t[i + 1].coach, t[i + 1].seats>>
                            /\ query.tolerance = "short_walk" =>
                                 CoachDistance(t[i].train, t[i].coach, t[i + 1].coach) <= MaxShortWalk
  BY <1>5 DEF Joins
<1>8. QED
  BY <1>1, <1>3, <1>4, <1>6, <1>7 DEF WithinQuery, t

\* What either generator offers answers the query: its tickets join from the
\* origin to the destination, each change was asked for and has time, no place
\* is passed twice, and none of it was unavailable unless a commit came between.
\* The hypothesis is one the extract does not meet everywhere: at a halt over
\* midnight, which has one day for two times, a change can lack its time.
THEOREM OffersAnswer ==
  ASSUME DayHalts
  PROVE  Spec => []WithinQuery
<1>1. IInv => WithinQuery
  BY IInvAnswers
<1>2. QED
  BY IInvHolds, <1>1, PTL
-----------------------------------------------------------------------------
\* Shortest paths

\* The least of a set of natural numbers is one of them.
LEMMA LeastOf ==
  ASSUME NEW T, T \subseteq Nat, T # {}
  PROVE  Least(T) \in T /\ \A y \in T : Least(T) <= y
<1>1. \E m \in T : \A n \in T : m <= n
  BY LeastNatural
<1>2. QED
  BY <1>1 DEF Least

\* Distances that are given at the start, and no ride shortens.
Bounds(S, W, top) ==
  {f \in [S -> Nat] : \A u \in S : f[u] <= top[u] /\ \A v \in S : f[u] <= W[u][v] + f[v]}

Costs(S, W) == W \in [S -> [S -> Nat]] /\ \A u, v \in S : W[u][v] >= 1

Highest(F, u) == CHOOSE n \in {f[u] : f \in F} : \A f \in F : f[u] <= n

\* Each station has a highest bound.
LEMMA HighestTaken ==
  ASSUME NEW S, NEW W, Costs(S, W), NEW top \in [S -> Nat], NEW u \in S
  PROVE  /\ \E f \in Bounds(S, W, top) : Highest(Bounds(S, W, top), u) = f[u]
         /\ \A f \in Bounds(S, W, top) : f[u] <= Highest(Bounds(S, W, top), u)
<1> DEFINE F == Bounds(S, W, top)
           V == {f[u] : f \in F}
<1>1. V \subseteq 0..top[u]
  BY DEF Bounds
<1>2. [s \in S |-> 0] \in F
  BY DEF Bounds, Costs
<1>3. IsFiniteSet(V)
  <2>1. IsFiniteSet(0..top[u])
    BY FS_Interval
  <2>2. QED
    BY <1>1, <2>1, FS_Subset
<1>4. V \subseteq Int /\ V # {}
  BY <1>1, <1>2
<1>5. \E x \in V : \A y \in V : y <= x
  <2> HIDE DEF V
  <2> QED
    BY <1>3, <1>4, GreatestNumber
<1>6. \E x \in V : \A f \in F : f[u] <= x
  BY <1>5
<1>7. Highest(F, u) \in V /\ \A f \in F : f[u] <= Highest(F, u)
  BY <1>6 DEF Highest
<1>8. QED
  BY <1>7

\* The highest bounds together are bounds, and each is reached: from the start,
\* or by a ride.
Reached(S, W, top, D) ==
  /\ D \in Bounds(S, W, top)
  /\ \A u \in S : D[u] = top[u] \/ \E v \in S : D[u] = W[u][v] + D[v]

LEMMA HighestReached ==
  ASSUME NEW S, NEW W, Costs(S, W), NEW top \in [S -> Nat]
  PROVE  \E D : Reached(S, W, top, D)
<1> DEFINE F == Bounds(S, W, top)
           D == [u \in S |-> Highest(F, u)]
<1>1. ASSUME NEW u \in S PROVE /\ D[u] \in Nat /\ D[u] <= top[u]
                               /\ \A v \in S : D[u] <= W[u][v] + D[v]
  <2>1. PICK f \in F : D[u] = f[u]
    BY HighestTaken
  <2>2. f \in [S -> Nat] /\ f[u] <= top[u] /\ \A v \in S : f[u] <= W[u][v] + f[v]
    BY DEF Bounds
  <2>3. ASSUME NEW v \in S PROVE D[u] <= W[u][v] + D[v]
    <3>1. f[v] <= D[v]
      BY HighestTaken
    <3>2. PICK g \in F : D[v] = g[v]
      BY HighestTaken
    <3>3. D[v] \in Nat /\ f[v] \in Nat /\ W[u][v] \in Nat
      BY <2>2, <3>2 DEF Bounds, Costs
    <3>4. QED
      BY <2>1, <2>2, <3>1, <3>3
  <2>4. QED
    BY <2>1, <2>2, <2>3
<1>2. D \in F
  <2>1. D \in [S -> Nat]
    BY <1>1
  <2> HIDE DEF D
  <2>2. QED
    BY <1>1, <2>1 DEF Bounds
<1>3. ASSUME NEW u \in S, D[u] # top[u], \A v \in S : D[u] # W[u][v] + D[v] PROVE FALSE
  <2> DEFINE E == [D EXCEPT ![u] = D[u] + 1]
  <2>0. D \in [S -> Nat] /\ top[u] \in Nat
    BY <1>1
  <2>1. E \in [S -> Nat] /\ E[u] = D[u] + 1 /\ \A w \in S \ {u} : E[w] = D[w]
    BY <2>0
  <2>2. \A w \in S : E[w] \in Nat /\ D[w] \in Nat /\ D[w] <= E[w]
    BY <2>0, <2>1
  <2>3. \A w \in S : D[w] <= top[w] /\ \A v \in S : D[w] <= W[w][v] + D[v] /\ W[w][v] \in Nat /\ W[w][v] >= 1
    BY <1>1 DEF Costs
  <2>3a. \A v \in S : D[u] # W[u][v] + D[v]
    BY <1>3
  <2> HIDE DEF E, D, F
  <2>4. ASSUME NEW w \in S PROVE E[w] <= top[w]
    <3>1. CASE w # u
      BY <2>1, <2>3, <3>1
    <3>2. CASE w = u
      <4>1. D[u] # top[u]
        BY <1>3
      <4>2. D[u] <= top[u] /\ D[u] \in Nat
        BY <2>2, <2>3
      <4>3. QED
        BY <2>0, <2>1, <3>2, <4>1, <4>2
    <3>3. QED
      BY <3>1, <3>2
  <2>5. ASSUME NEW w \in S, NEW v \in S PROVE E[w] <= W[w][v] + E[v]
    <3>1. D[w] <= W[w][v] + D[v] /\ W[w][v] \in Nat /\ W[w][v] >= 1 /\ D[v] <= E[v]
          /\ D[v] \in Nat /\ E[v] \in Nat /\ D[w] \in Nat
      BY <2>2, <2>3
    <3>2. CASE w # u
      BY <2>1, <3>1, <3>2
    <3>3. CASE w = u
      <4>1. D[u] # W[u][v] + D[v]
        BY <2>3a
      <4>2. QED
        BY <2>1, <3>1, <3>3, <4>1
    <3>4. QED
      BY <3>2, <3>3
  <2>6. E \in F
    BY <2>1, <2>4, <2>5 DEF Bounds, F
  <2>7. E[u] <= D[u]
    <3>1. E[u] <= Highest(F, u)
      BY <2>6, HighestTaken DEF F
    <3>2. QED
      BY <3>1 DEF D
  <2>8. QED
    BY <2>1, <2>2, <2>7
<1>4. QED
  BY <1>2, <1>3 DEF Reached

\* One more ride.
Relaxed(S, W, f) == [s \in S |-> Least({f[s]} \cup {W[s][v] + f[v] : v \in S})]

LEMMA RelaxedLaw ==
  ASSUME NEW S, NEW W, Costs(S, W), NEW f \in [S -> Nat]
  PROVE  /\ Relaxed(S, W, f) \in [S -> Nat]
         /\ \A s \in S : /\ Relaxed(S, W, f)[s] <= f[s]
                         /\ \A v \in S : Relaxed(S, W, f)[s] <= W[s][v] + f[v]
                         /\ \/ Relaxed(S, W, f)[s] = f[s]
                            \/ \E v \in S : Relaxed(S, W, f)[s] = W[s][v] + f[v]
<1>1. ASSUME NEW s \in S
      PROVE  LET T == {f[s]} \cup {W[s][v] + f[v] : v \in S}
             IN  Least(T) \in T /\ Least(T) \in Nat /\ \A y \in T : Least(T) <= y
  <2> DEFINE T == {f[s]} \cup {W[s][v] + f[v] : v \in S}
  <2>1. T \subseteq Nat /\ T # {}
    BY DEF Costs
  <2> HIDE DEF T
  <2>2. Least(T) \in T /\ \A y \in T : Least(T) <= y
    BY <2>1, LeastOf
  <2>3. QED
    BY <2>1, <2>2 DEF T
<1>2. QED
  BY <1>1, ZenonT(60) DEF Relaxed

\* The distances by at most 0 to n rides.
Rounds(S, W, top, n, x) ==
  /\ x \in [0..n -> [S -> Nat]]
  /\ x[0] = top
  /\ \A m \in 1..n : x[m] = Relaxed(S, W, x[m - 1])

LEMMA RoundsExist ==
  ASSUME NEW S, NEW W, Costs(S, W), NEW top \in [S -> Nat], NEW n \in Nat
  PROVE  \E x : Rounds(S, W, top, n, x)
<1> DEFINE T == {k \in Nat : \E x : Rounds(S, W, top, k, x)}
<1>1. 0 \in T
  <2>1. Rounds(S, W, top, 0, [m \in 0..0 |-> top])
    BY DEF Rounds
  <2>2. QED
    BY <2>1
<1>2. ASSUME NEW k \in Nat, k \in T PROVE k + 1 \in T
  <2>1. PICK x : Rounds(S, W, top, k, x)
    BY <1>2
  <2> DEFINE last == Relaxed(S, W, x[k])
             y == [m \in 0..(k + 1) |-> IF m = k + 1 THEN last ELSE x[m]]
  <2>2. x \in [0..k -> [S -> Nat]] /\ x[0] = top /\ \A m \in 1..k : x[m] = Relaxed(S, W, x[m - 1])
    BY <2>1 DEF Rounds
  <2>3. last \in [S -> Nat]
    BY <2>2, RelaxedLaw
  <2>4. y \in [0..(k + 1) -> [S -> Nat]] /\ y[0] = top
    <3> HIDE DEF last
    <3> QED
      BY <2>2, <2>3
  <2>5. ASSUME NEW m \in 1..(k + 1) PROVE y[m] = Relaxed(S, W, y[m - 1])
    <3>1. y[m - 1] = x[m - 1]
      OBVIOUS
    <3>2. CASE m = k + 1
      BY <3>1, <3>2
    <3>3. CASE m # k + 1
      <4>1. m \in 1..k /\ y[m] = x[m]
        BY <3>3
      <4>2. QED
        BY <2>2, <3>1, <4>1
    <3>4. QED
      BY <3>2, <3>3
  <2> HIDE DEF y
  <2>6. Rounds(S, W, top, k + 1, y)
    BY <2>4, <2>5 DEF Rounds
  <2>7. QED
    BY <2>6
<1>3. Nat \subseteq T
  <2> HIDE DEF T
  <2> QED
    BY <1>1, <1>2, SetInduction
<1>4. QED
  BY <1>3

\* No number of rides gets below a bound, or above the start.
LEMMA RoundsBounded ==
  ASSUME NEW S, NEW W, Costs(S, W), NEW top \in [S -> Nat], NEW n \in Nat, NEW x, Rounds(S, W, top, n, x),
         NEW D \in Bounds(S, W, top), NEW m \in 0..n
  PROVE  \A s \in S : D[s] <= x[m][s] /\ x[m][s] <= top[s]
<1> DEFINE Good(k) == \A s \in S : D[s] <= x[k][s] /\ x[k][s] <= top[s]
           T == {k \in Nat : k <= n => Good(k)}
<1>1. /\ x \in [0..n -> [S -> Nat]] /\ x[0] = top /\ \A k \in 1..n : x[k] = Relaxed(S, W, x[k - 1])
      /\ D \in [S -> Nat] /\ \A u \in S : D[u] <= top[u] /\ \A v \in S : D[u] <= W[u][v] + D[v]
  BY DEF Rounds, Bounds
<1>2. 0 \in T
  BY <1>1
<1>3. ASSUME NEW k \in Nat, k \in T PROVE k + 1 \in T
  <2> SUFFICES ASSUME k + 1 <= n PROVE Good(k + 1)
    OBVIOUS
  <2>1. k \in 0..n /\ k + 1 \in 0..n /\ Good(k) /\ x[k + 1] = Relaxed(S, W, x[k])
    <3>1. k + 1 \in 1..n /\ (k + 1) - 1 = k
      OBVIOUS
    <3>2. QED
      BY <1>1, <1>3, <3>1
  <2>2. x[k] \in [S -> Nat] /\ x[k + 1] \in [S -> Nat]
    BY <1>1, <2>1
  <2>3. \A s \in S : /\ x[k + 1][s] <= x[k][s]
                     /\ \/ x[k + 1][s] = x[k][s]
                        \/ \E v \in S : x[k + 1][s] = W[s][v] + x[k][v]
    BY <2>1, <2>2, RelaxedLaw
  <2>4. ASSUME NEW s \in S PROVE D[s] <= x[k + 1][s] /\ x[k + 1][s] <= top[s]
    <3>1. x[k][s] \in Nat /\ x[k + 1][s] \in Nat /\ top[s] \in Nat /\ D[s] \in Nat
          /\ D[s] <= x[k][s] /\ x[k][s] <= top[s] /\ x[k + 1][s] <= x[k][s]
      BY <1>1, <2>1, <2>2, <2>3
    <3>2. CASE x[k + 1][s] = x[k][s]
      BY <3>1, <3>2
    <3>3. ASSUME NEW v \in S, x[k + 1][s] = W[s][v] + x[k][v] PROVE D[s] <= x[k + 1][s]
      <4>1. D[s] <= W[s][v] + D[v] /\ D[v] <= x[k][v] /\ D[v] \in Nat /\ x[k][v] \in Nat /\ W[s][v] \in Nat
        BY <1>1, <2>1, <2>2 DEF Costs
      <4>2. QED
        BY <3>1, <3>3, <4>1
    <3>4. QED
      BY <2>3, <3>1, <3>2, <3>3
  <2>5. QED
    BY <2>4
<1>4. Nat \subseteq T
  <2> HIDE DEF T
  <2> QED
    BY <1>2, <1>3, SetInduction
<1>5. QED
  BY <1>4

\* Every round settles one more station: of those that are left the nearest.
Settled(S, D, f, k) == \E T \in SUBSET S : Cardinality(T) >= k /\ \A s \in T : f[s] = D[s]

LEMMA RoundSettles ==
  ASSUME NEW S, IsFiniteSet(S), NEW W, Costs(S, W), NEW top \in [S -> Nat], NEW n \in Nat, NEW x,
         Rounds(S, W, top, n, x), NEW D, Reached(S, W, top, D),
         NEW k \in Nat, k + 1 <= n, n <= Cardinality(S), Settled(S, D, x[k], k)
  PROVE  Settled(S, D, x[k + 1], k + 1)
<1>1. PICK T \in SUBSET S : Cardinality(T) >= k /\ \A s \in T : x[k][s] = D[s]
  BY DEF Settled
<1>2. /\ D \in [S -> Nat] /\ D \in Bounds(S, W, top)
      /\ \A u \in S : D[u] = top[u] \/ \E v \in S : D[u] = W[u][v] + D[v]
  BY DEF Reached, Bounds
<1>3. k \in 0..n /\ k + 1 \in 0..n /\ x[k] \in [S -> Nat] /\ x[k + 1] \in [S -> Nat]
      /\ x[k + 1] = Relaxed(S, W, x[k])
  <2>1. k + 1 \in 1..n /\ (k + 1) - 1 = k /\ k \in 0..n /\ k + 1 \in 0..n
    OBVIOUS
  <2>2. QED
    BY <2>1 DEF Rounds
<1>4. \A s \in S : /\ D[s] <= x[k][s] /\ x[k][s] <= top[s]
                   /\ D[s] <= x[k + 1][s] /\ x[k + 1][s] <= top[s]
  <2>1. \A s \in S : D[s] <= x[k][s] /\ x[k][s] <= top[s]
    BY <1>2, <1>3, RoundsBounded
  <2>2. \A s \in S : D[s] <= x[k + 1][s] /\ x[k + 1][s] <= top[s]
    BY <1>2, <1>3, RoundsBounded
  <2>3. QED
    BY <2>1, <2>2
<1>5. \A s \in S : x[k + 1][s] <= x[k][s] /\ \A v \in S : x[k + 1][s] <= W[s][v] + x[k][v]
  BY <1>3, RelaxedLaw
<1>6. ASSUME NEW s \in T PROVE x[k + 1][s] = D[s]
  <2>1. x[k][s] = D[s] /\ x[k + 1][s] <= x[k][s] /\ D[s] <= x[k + 1][s] /\ D[s] \in Nat /\ x[k + 1][s] \in Nat
    BY <1>1, <1>2, <1>3, <1>4, <1>5
  <2>2. QED
    BY <2>1
<1>7. Cardinality(S) \in Nat /\ IsFiniteSet(T) /\ Cardinality(T) \in Nat
  BY FS_CardinalityType, FS_Subset
<1>8. CASE T = S
  BY <1>6, <1>7, <1>8 DEF Settled
<1>9. CASE T # S
  <2> DEFINE V == {D[s] : s \in S \ T}
  <2>1. V \subseteq Nat /\ V # {}
    BY <1>2, <1>9
  <2>2. \E m \in V : \A y \in V : m <= y
    <3> HIDE DEF V
    <3> QED
      BY <2>1, LeastNatural
  <2>3. PICK u \in S \ T : \A y \in S \ T : D[u] <= D[y]
    BY <2>2
  <2>4. x[k + 1][u] <= D[u]
    <3>1. CASE D[u] = top[u]
      BY <1>4, <3>1
    <3>2. ASSUME NEW v \in S, D[u] = W[u][v] + D[v] PROVE x[k + 1][u] <= D[u]
      <4>1. W[u][v] \in Nat /\ W[u][v] >= 1 /\ D[v] \in Nat /\ D[u] \in Nat
        BY <1>2 DEF Costs
      <4>2. ~(D[u] <= D[v])
        BY <3>2, <4>1
      <4>3. v \in T
        BY <2>3, <4>2
      <4>4. x[k][v] = D[v] /\ x[k + 1][u] <= W[u][v] + x[k][v]
        BY <1>1, <1>5, <4>3
      <4>5. QED
        BY <3>2, <4>4
    <3>3. QED
      BY <1>2, <3>1, <3>2
  <2>5. x[k + 1][u] = D[u]
    <3>1. D[u] <= x[k + 1][u] /\ D[u] \in Nat /\ x[k + 1][u] \in Nat
      BY <1>2, <1>3, <1>4
    <3>2. QED
      BY <2>4, <3>1
  <2>6. Cardinality(T \cup {u}) >= k + 1
    <3>1. Cardinality(T \cup {u}) = Cardinality(T) + 1
      BY <1>7, <2>3, FS_AddElement
    <3>2. QED
      BY <1>1, <1>7, <3>1
  <2>7. T \cup {u} \in SUBSET S /\ \A s \in T \cup {u} : x[k + 1][s] = D[s]
    BY <1>6, <2>3, <2>5
  <2>8. QED
    BY <2>6, <2>7 DEF Settled
<1>10. QED
  BY <1>8, <1>9

\* After as many rounds as there are stations all are settled: no ride leads
\* nearer by more than it takes.
LEMMA RoundsSettle ==
  ASSUME NEW S, IsFiniteSet(S), NEW W, Costs(S, W), NEW top \in [S -> Nat], NEW x,
         Rounds(S, W, top, Cardinality(S), x)
  PROVE  x[Cardinality(S)] \in Bounds(S, W, top)
<1> DEFINE n == Cardinality(S)
<1>1. n \in Nat
  BY FS_CardinalityType
<1>2. PICK D : Reached(S, W, top, D)
  BY HighestReached
<1> DEFINE H == {k \in Nat : k <= n => Settled(S, D, x[k], k)}
<1>3. 0 \in H
  <2>1. Cardinality({}) >= 0
    BY FS_EmptySet
  <2>2. QED
    BY <2>1 DEF Settled
<1>4. ASSUME NEW k \in Nat, k \in H PROVE k + 1 \in H
  <2> SUFFICES ASSUME k + 1 <= n PROVE Settled(S, D, x[k + 1], k + 1)
    OBVIOUS
  <2>1. Settled(S, D, x[k], k)
    BY <1>1, <1>4
  <2> HIDE DEF n
  <2>2. Rounds(S, W, top, n, x) /\ n <= Cardinality(S)
    BY <1>1 DEF n
  <2>3. QED
    BY <1>1, <1>2, <2>1, <2>2, RoundSettles
<1>5. Nat \subseteq H
  <2> HIDE DEF H
  <2> QED
    BY <1>3, <1>4, SetInduction
<1>6. Settled(S, D, x[n], n)
  BY <1>1, <1>5
<1>7. PICK T \in SUBSET S : Cardinality(T) >= n /\ \A s \in T : x[n][s] = D[s]
  BY <1>6 DEF Settled
<1>8. T = S
  BY <1>1, <1>7, FS_Subset, FS_CardinalityType
<1>9. D \in Bounds(S, W, top)
  BY <1>2 DEF Reached
<1>10. x[n] \in [S -> Nat]
  BY <1>1 DEF Rounds
<1>11. x[n] = D
  BY <1>7, <1>8, <1>9, <1>10 DEF Bounds
<1>12. QED
  BY <1>9, <1>11

-----------------------------------------------------------------------------
\* The graph of fastest rides

\* The data know finitely many stations.
LEMMA StationsFinite == IsFiniteSet(Stations)
<1> DEFINE At(t) == {Halts[t][i].code : i \in Route(t)}
           all == {At(t) : t \in Trains}
<1>1. ASSUME NEW t \in Trains PROVE IsFiniteSet(At(t))
  <2> DEFINE f == [i \in Route(t) |-> Halts[t][i].code]
  <2>1. Route(t) = 1..Len(Halts[t]) /\ Len(Halts[t]) \in Nat
    BY TimetableAssumption DEF Route
  <2>2. IsFiniteSet(Route(t))
    BY <2>1, FS_Interval
  <2>3. f \in Surjection(Route(t), At(t))
    BY DEF Surjection
  <2>4. QED
    BY <2>2, <2>3, FS_Surjection
<1>2. IsFiniteSet(all)
  <2> DEFINE g == [t \in Trains |-> At(t)]
  <2>1. g \in Surjection(Trains, all)
    <3> HIDE DEF At
    <3> QED
      BY DEF Surjection
  <2>2. IsFiniteSet(Trains)
    BY TimetableAssumption
  <2>3. QED
    BY <2>1, <2>2, FS_Surjection
<1>3. \A T \in all : IsFiniteSet(T)
  <2> HIDE DEF At
  <2> QED
    BY <1>1
<1>4. IsFiniteSet(UNION all)
  BY <1>2, <1>3, FS_UNION
<1>5. QED
  BY <1>4 DEF Stations

\* The usable minutes of the rides from u to v.
Usable(u, v) ==
  {x \in {Segment(r[1], r[2]) : r \in {r \in Rides :
            Halts[r[1]][r[2]].code = u /\ Halts[r[1]][r[2] + 1].code = v}} : x > 0}

\* A ride is from one halt of a train to the next.
LEMMA RidesJoin ==
  ASSUME NEW t, NEW i
  PROVE  <<t, i>> \in Rides <=> t \in Trains /\ i \in Route(t) /\ i + 1 \in Route(t)
<1>1. ASSUME NEW r \in Trains PROVE Route(r) = 1..Len(Halts[r]) /\ Len(Halts[r]) \in Nat
  BY TimetableAssumption DEF Route
<1>2. ASSUME <<t, i>> \in Rides PROVE t \in Trains /\ i \in Route(t) /\ i + 1 \in Route(t)
  <2>1. PICK r \in Trains : <<t, i>> \in {r} \X (1..(Len(Halts[r]) - 1))
    BY <1>2 DEF Rides
  <2>2. t = r /\ i \in 1..(Len(Halts[r]) - 1)
    BY <2>1
  <2>3. QED
    BY <1>1, <2>2
<1>3. ASSUME t \in Trains, i \in Route(t), i + 1 \in Route(t) PROVE <<t, i>> \in Rides
  <2>1. i \in 1..(Len(Halts[t]) - 1)
    BY <1>1, <1>3
  <2>2. <<t, i>> \in {t} \X (1..(Len(Halts[t]) - 1))
    BY <2>1
  <2>3. QED
    BY <1>3, <2>2 DEF Rides
<1>4. QED
  BY <1>2, <1>3

\* A weight is positive, and no usable ride is faster.
LEMMA WeightTyped ==
  ASSUME NEW u, NEW v
  PROVE  /\ Weight(u, v) \in Nat /\ Weight(u, v) >= 1
         /\ \A x \in Usable(u, v) : x \in Nat /\ Weight(u, v) <= x
<1>1. Usable(u, v) \subseteq Nat /\ \A x \in Usable(u, v) : x >= 1
  <2>1. ASSUME NEW r \in Rides PROVE Segment(r[1], r[2]) \in Int
    <3>1. r = <<r[1], r[2]>>
      BY DEF Rides
    <3>2. r[1] \in Trains /\ r[2] \in Route(r[1]) /\ r[2] + 1 \in Route(r[1])
      BY <3>1, RidesJoin
    <3>3. QED
      BY <3>2, SegmentTyped
  <2>2. ASSUME NEW x \in Usable(u, v) PROVE x \in Nat /\ x >= 1
    <3>1. x > 0 /\ \E r \in Rides : x = Segment(r[1], r[2])
      BY DEF Usable
    <3>2. QED
      BY <2>1, <3>1
  <2>3. QED
    BY <2>2
<1>2. Weight(u, v) = Least(Usable(u, v))
  BY DEF Weight, Usable
<1>3. CASE Usable(u, v) = {}
  BY <1>2, <1>3 DEF Least, Infinite
<1>4. CASE Usable(u, v) # {}
  <2>1. Least(Usable(u, v)) \in Usable(u, v) /\ \A x \in Usable(u, v) : Least(Usable(u, v)) <= x
    BY <1>1, <1>4, LeastOf
  <2>2. QED
    BY <1>1, <1>2, <2>1
<1>5. QED
  BY <1>3, <1>4

LEMMA WeightsCost == Costs(Stations, Weights)
<1>1. \A u, v \in Stations : Weights[u][v] = Weight(u, v)
  BY DEF Weights
<1>2. \A u, v \in Stations : Weight(u, v) \in Nat /\ Weight(u, v) >= 1
  BY WeightTyped
<1>3. Weights \in [Stations -> [Stations -> Nat]]
  BY <1>2 DEF Weights
<1>4. QED
  BY <1>1, <1>2, <1>3 DEF Costs

\* A train takes at least the weight of the ride.
LEMMA RideWeighs ==
  ASSUME NEW t \in Trains, NEW i \in Route(t), i + 1 \in Route(t), Segment(t, i) > 0
  PROVE  Weights[Code(t, i)][Code(t, i + 1)] <= Segment(t, i)
<1>1. <<t, i>> \in Rides
  BY RidesJoin
<1>2. Segment(t, i) \in Usable(Code(t, i), Code(t, i + 1))
  <2> DEFINE r == <<t, i>>
  <2>1. r \in Rides /\ r[1] = t /\ r[2] = i
    BY <1>1
  <2> HIDE DEF r
  <2>2. Segment(t, i) = Segment(r[1], r[2])
        /\ Halts[r[1]][r[2]].code = Code(t, i) /\ Halts[r[1]][r[2] + 1].code = Code(t, i + 1)
    BY <2>1 DEF Code
  <2>3. QED
    BY <2>1, <2>2 DEF Usable
<1>3. Code(t, i) \in Stations /\ Code(t, i + 1) \in Stations
  BY HaltTyped
<1>4. QED
  BY <1>2, <1>3, WeightTyped DEF Weights

-----------------------------------------------------------------------------
\* The estimate

Start(goal) == [s \in Stations |-> IF s = goal THEN 0 ELSE Infinite]

\* The distances are those of the last of as many rounds as there are stations.
LEMMA PathsRounds ==
  ASSUME NEW goal \in Stations
  PROVE  /\ Cardinality(Stations) \in Nat /\ Costs(Stations, Weights) /\ Start(goal) \in [Stations -> Nat]
         /\ \E x : /\ Rounds(Stations, Weights, Start(goal), Cardinality(Stations), x)
                   /\ Paths(goal) = x[Cardinality(Stations)]
<1> DEFINE n == Cardinality(Stations)
           Eq(f) == f = [m \in 0..n |->
                           IF m = 0 THEN Start(goal)
                           ELSE [s \in Stations |->
                                   Least({f[m - 1][s]} \cup {Weights[s][v] + f[m - 1][v] : v \in Stations})]]
           t == CHOOSE f : Eq(f)
<1>1. n \in Nat /\ Costs(Stations, Weights) /\ Start(goal) \in [Stations -> Nat]
  <2>1. Infinite \in Nat
    BY DEF Infinite
  <2>2. QED
    BY <2>1, StationsFinite, FS_CardinalityType, WeightsCost DEF Start
<1>2. PICK x : Rounds(Stations, Weights, Start(goal), n, x)
  <2> HIDE DEF n
  <2> QED
    BY <1>1, RoundsExist
<1>3. Eq(x)
  <2>1. /\ x = [m \in 0..n |-> x[m]] /\ x[0] = Start(goal)
        /\ \A m \in 1..n : x[m] = Relaxed(Stations, Weights, x[m - 1])
    BY <1>2 DEF Rounds
  <2>2. \A m \in 0..n :
          x[m] = IF m = 0 THEN Start(goal)
                 ELSE [s \in Stations |->
                         Least({x[m - 1][s]} \cup {Weights[s][v] + x[m - 1][v] : v \in Stations})]
    <3>1. \A m \in 0..n : m # 0 => m \in 1..n
      BY <1>1
    <3> HIDE DEF n
    <3>2. QED
      BY <2>1, <3>1 DEF Relaxed
  <2> HIDE DEF n
  <2>3. [m \in 0..n |-> x[m]]
          = [m \in 0..n |->
               IF m = 0 THEN Start(goal)
               ELSE [s \in Stations |->
                       Least({x[m - 1][s]} \cup {Weights[s][v] + x[m - 1][v] : v \in Stations})]]
    BY <2>2
  <2>4. QED
    BY <2>1, <2>3
<1>4. Eq(t)
  <2> HIDE DEF Eq
  <2> QED
    BY <1>3
<1>5. Paths(goal) = t[n]
  BY Zenon DEF Paths, Start
<1>6. Rounds(Stations, Weights, Start(goal), n, t)
  <2> HIDE DEF t
  <2> DEFINE step(m) == IF m = 0 THEN Start(goal)
                        ELSE [s \in Stations |->
                                Least({t[m - 1][s]} \cup {Weights[s][v] + t[m - 1][v] : v \in Stations})]
  <2>1. t = [m \in 0..n |-> step(m)]
    BY <1>4
  <2>2. \A m \in 0..n : t[m] = step(m)
    <3> HIDE DEF step, n
    <3> QED
      BY <2>1
  <2>3. t[0] = Start(goal)
    <3>1. 0 \in 0..n /\ step(0) = Start(goal)
      BY <1>1
    <3> HIDE DEF step, n
    <3>2. QED
      BY <2>2, <3>1
  <2>4. \A m \in 1..n : t[m] = Relaxed(Stations, Weights, t[m - 1])
    <3>1. \A m \in 1..n : m \in 0..n /\ m # 0
      BY <1>1
    <3> HIDE DEF n
    <3>2. QED
      BY <2>2, <3>1 DEF Relaxed
  <2> DEFINE H == {k \in Nat : k <= n => t[k] \in [Stations -> Nat]}
  <2>5. 0 \in H
    BY <1>1, <2>3
  <2>6. ASSUME NEW k \in Nat, k \in H PROVE k + 1 \in H
    <3> SUFFICES ASSUME k + 1 <= n PROVE t[k + 1] \in [Stations -> Nat]
      OBVIOUS
    <3>1. k + 1 \in 1..n /\ (k + 1) - 1 = k /\ k <= n
      BY <1>1
    <3>2. t[k + 1] = Relaxed(Stations, Weights, t[k]) /\ t[k] \in [Stations -> Nat]
      BY <2>4, <2>6, <3>1
    <3>3. QED
      BY <1>1, <3>2, RelaxedLaw
  <2>7. Nat \subseteq H
    <3> HIDE DEF H
    <3> QED
      BY <2>5, <2>6, SetInduction
  <2>8. t \in [0..n -> [Stations -> Nat]]
    <3>1. \A m \in 0..n : t[m] \in [Stations -> Nat]
      BY <1>1, <2>7
    <3>2. t = [m \in 0..n |-> t[m]]
      <4> HIDE DEF step, n
      <4> QED
        BY <2>1
    <3>3. QED
      BY <3>1, <3>2
  <2>9. QED
    BY <2>3, <2>4, <2>8 DEF Rounds
<1>7. QED
  <2> HIDE DEF t
  <2> QED
    BY <1>1, <1>5, <1>6

\* What the rounds add up to has no ride that shortens it, and is the highest
\* such function.
LEMMA PathsSettle ==
  ASSUME NEW goal \in Stations
  PROVE  /\ Paths(goal) \in Bounds(Stations, Weights, Start(goal))
         /\ \A D \in Bounds(Stations, Weights, Start(goal)) : \A s \in Stations : D[s] <= Paths(goal)[s]
<1> DEFINE n == Cardinality(Stations)
<1>1. n \in Nat /\ Costs(Stations, Weights) /\ Start(goal) \in [Stations -> Nat]
  BY PathsRounds
<1>2. PICK x : Rounds(Stations, Weights, Start(goal), n, x) /\ Paths(goal) = x[n]
  BY PathsRounds
<1>3. x[n] \in Bounds(Stations, Weights, Start(goal))
  BY <1>1, <1>2, StationsFinite, RoundsSettle
<1>4. ASSUME NEW D \in Bounds(Stations, Weights, Start(goal)) PROVE \A s \in Stations : D[s] <= x[n][s]
  <2>1. n \in 0..n
    BY <1>1
  <2> HIDE DEF n
  <2>2. QED
    BY <1>1, <1>2, <2>1, RoundsBounded
<1>5. QED
  BY <1>2, <1>3, <1>4

\* No ride brings the passenger nearer than it takes: the estimate before it is
\* at most its minutes and the estimate behind it.
Consistent(from, to, minutes, goal) ==
  Estimate(from, goal) <= minutes + Estimate(to, goal)

LEMMA EstimateTyped ==
  ASSUME NEW from, NEW goal
  PROVE  Estimate(from, goal) \in Nat /\ Estimate(from, goal) <= Infinite
<1>1. Infinite \in Nat
  BY DEF Infinite
<1>2. CASE from # goal /\ goal \in Stations /\ from \in Stations
  <2>1. Paths(goal) \in [Stations -> Nat] /\ Paths(goal)[from] <= Start(goal)[from]
    BY <1>2, PathsSettle DEF Bounds
  <2>2. Start(goal)[from] = Infinite
    BY <1>2 DEF Start
  <2>3. Estimate(from, goal) = Paths(goal)[from]
    BY <1>2 DEF Estimate, Distances
  <2>4. QED
    BY <1>2, <2>1, <2>2, <2>3
<1>3. CASE ~(from # goal /\ goal \in Stations /\ from \in Stations)
  BY <1>1, <1>3 DEF Estimate, Infinite
<1>4. QED
  BY <1>2, <1>3

\* Only at the goal itself nothing is left to go: no ride is for nothing.
LEMMA EstimateZero ==
  ASSUME NEW from, NEW goal
  PROVE  Estimate(from, goal) = 0 <=> from = goal
<1>1. CASE from # goal /\ goal \in Stations /\ from \in Stations
  <2> DEFINE D == [s \in Stations |-> IF s = goal THEN 0 ELSE 1]
  <2>1. Costs(Stations, Weights)
    BY WeightsCost
  <2>2. D \in [Stations -> Nat] /\ \A s \in Stations : D[s] <= 1 /\ D[s] <= Start(goal)[s]
    BY DEF Start, Infinite
  <2>3. \A u, v \in Stations : Weights[u][v] \in Nat /\ Weights[u][v] >= 1 /\ D[u] <= Weights[u][v] + D[v]
    <3> HIDE DEF D
    <3>1. ASSUME NEW u \in Stations, NEW v \in Stations
          PROVE  Weights[u][v] \in Nat /\ Weights[u][v] >= 1
      BY <2>1 DEF Costs
    <3>2. ASSUME NEW u \in Stations, NEW v \in Stations PROVE D[u] <= Weights[u][v] + D[v]
      <4>1. D[u] \in Nat /\ D[v] \in Nat /\ D[u] <= 1
        BY <2>2
      <4>2. QED
        BY <3>1, <4>1
    <3>3. QED
      BY <3>1, <3>2
  <2>4. D \in Bounds(Stations, Weights, Start(goal))
    <3> HIDE DEF D
    <3> QED
      BY <2>2, <2>3 DEF Bounds
  <2>5. D[from] = 1
    BY <1>1
  <2>6. 1 <= Paths(goal)[from]
    <3> HIDE DEF D
    <3> QED
      BY <1>1, <2>4, <2>5, PathsSettle
  <2>7. Estimate(from, goal) = Paths(goal)[from]
    BY <1>1 DEF Estimate, Distances
  <2>8. Estimate(from, goal) \in Nat
    BY EstimateTyped
  <2>9. QED
    BY <1>1, <2>6, <2>7, <2>8
<1>2. CASE ~(from # goal /\ goal \in Stations /\ from \in Stations)
  BY <1>2 DEF Estimate, Infinite
<1>3. QED
  BY <1>1, <1>2

LEMMA HopConsistent ==
  ASSUME NEW t \in Trains, NEW i \in Route(t), i + 1 \in Route(t), Segment(t, i) > 0, NEW goal
  PROVE  Consistent(Code(t, i), Code(t, i + 1), Segment(t, i), goal)
<1> DEFINE u == Code(t, i)
           v == Code(t, i + 1)
<1>1. u \in Stations /\ v \in Stations
  BY HaltTyped
<1>2. Segment(t, i) \in Nat
  <2>1. Segment(t, i) \in Int
    BY SegmentTyped
  <2>2. QED
    BY <2>1
<1>3. Weights[u][v] <= Segment(t, i) /\ Weights[u][v] \in Nat
  BY <1>1, RideWeighs, WeightsCost DEF Costs
<1> HIDE DEF u, v
<1>4. /\ Estimate(u, goal) \in Nat /\ Estimate(u, goal) <= Infinite
      /\ Estimate(v, goal) \in Nat /\ Estimate(v, goal) <= Infinite
  BY EstimateTyped
<1>5. CASE goal \notin Stations
  <2>1. Estimate(v, goal) = Infinite
    BY <1>1, <1>5 DEF Estimate
  <2>2. Estimate(u, goal) <= Segment(t, i) + Estimate(v, goal)
    BY <1>2, <1>4, <2>1
  <2>3. QED
    BY <2>2 DEF Consistent, u, v
<1>6. CASE goal \in Stations
  <2>1. Paths(goal) \in Bounds(Stations, Weights, Start(goal))
    BY <1>6, PathsSettle
  <2>2. /\ Paths(goal)[u] \in Nat /\ Paths(goal)[v] \in Nat /\ Paths(goal)[goal] \in Nat
        /\ Paths(goal)[u] <= Weights[u][v] + Paths(goal)[v]
        /\ Paths(goal)[goal] <= Start(goal)[goal]
    BY <1>1, <1>6, <2>1 DEF Bounds
  <2>3. Paths(goal)[goal] = 0
    <3>1. Start(goal)[goal] = 0
      BY <1>6 DEF Start
    <3>2. QED
      BY <2>2, <3>1
  <2>4. \A s \in Stations : Estimate(s, goal) = Paths(goal)[s]
    BY <1>6, <2>3 DEF Estimate, Distances
  <2>5. Estimate(u, goal) <= Segment(t, i) + Estimate(v, goal)
    <3>1. Estimate(u, goal) = Paths(goal)[u] /\ Estimate(v, goal) = Paths(goal)[v]
      BY <1>1, <2>4
    <3>2. QED
      BY <1>2, <1>3, <2>2, <3>1
  <2>6. QED
    BY <2>5 DEF Consistent, u, v
<1>7. QED
  BY <1>5, <1>6

\* Nor does a ride over several halts.
LEMMA RideConsistent ==
  ASSUME NEW t \in Trains, NEW i \in Nat, NEW k \in Nat, i < k, NEW goal,
         \A s \in i..(k - 1) : /\ s \in Route(t) /\ s + 1 \in Route(t)
                               /\ Segment(t, s) \in Nat /\ Segment(t, s) > 0
  PROVE  Consistent(Code(t, i), Code(t, k), SumFunction([s \in i..(k - 1) |-> Segment(t, s)]), goal)
<1> DEFINE S == i..(k - 1)
           f == [s \in S |-> Segment(t, s)]
           Along(e) == Consistent(Code(t, i), Code(t, e), Part(f, i..(e - 1)), goal)
           T == {e \in Nat : i < e /\ e <= k => Along(e)}
<1>1. IsFiniteSet(S) /\ f \in [S -> Int] /\ \A s \in S : f[s] = Segment(t, s)
  BY FS_Interval
<1> HIDE DEF f
<1>2. SumFunction(f) = Part(f, S) /\ Part(f, {}) = 0
  BY <1>1, SumLaw
<1>3. ASSUME NEW e \in Nat, i <= e, e < k, i < e => Along(e) PROVE Along(e + 1)
  <2> DEFINE B == i..(e - 1)
             A == i..e
  <2>1. e \in S /\ A \in SUBSET S /\ e \in A /\ B = A \ {e} /\ B \in SUBSET S
    BY <1>3, SMTT(60)
  <2>2. Part(f, A) = f[e] + Part(f, A \ {e}) /\ Part(f, B) \in Int
    <3> HIDE DEF A, B, S
    <3>1. Takes(f, A, e)
      BY <1>1, <2>1, SumTakes
    <3>2. Part(f, B) \in Int
      BY <1>1, <2>1, SumLaw
    <3>3. QED
      BY <3>1, <3>2 DEF Takes
  <2>3. Part(f, A) = Segment(t, e) + Part(f, B)
    <3> HIDE DEF A, B, S
    <3> QED
      BY <1>1, <2>1, <2>2
  <2>4. Consistent(Code(t, e), Code(t, e + 1), Segment(t, e), goal) /\ Segment(t, e) \in Nat
    <3>1. e \in Route(t) /\ e + 1 \in Route(t) /\ Segment(t, e) \in Nat /\ Segment(t, e) > 0
      BY <2>1
    <3>2. QED
      BY <3>1, HopConsistent
  <2>5. Consistent(Code(t, i), Code(t, e), Part(f, B), goal)
    <3>1. CASE i < e
      BY <1>3, <3>1
    <3>2. CASE i = e
      <4>1. B = {}
        BY <3>2
      <4>2. Part(f, B) = 0
        <5> HIDE DEF B
        <5> QED
          BY <1>2, <4>1
      <4>3. Estimate(Code(t, i), goal) <= 0 + Estimate(Code(t, i), goal)
        BY EstimateTyped
      <4>4. QED
        BY <3>2, <4>2, <4>3 DEF Consistent
    <3>3. QED
      BY <1>3, <3>1, <3>2
  <2> HIDE DEF A, B, S
  <2>6. Consistent(Code(t, i), Code(t, e + 1), Part(f, A), goal)
    <3>1. /\ Estimate(Code(t, i), goal) \in Nat /\ Estimate(Code(t, e), goal) \in Nat
          /\ Estimate(Code(t, e + 1), goal) \in Nat
      BY EstimateTyped
    <3>2. /\ Estimate(Code(t, i), goal) <= Part(f, B) + Estimate(Code(t, e), goal)
          /\ Estimate(Code(t, e), goal) <= Segment(t, e) + Estimate(Code(t, e + 1), goal)
      BY <2>4, <2>5 DEF Consistent
    <3>3. Estimate(Code(t, i), goal) <= Part(f, A) + Estimate(Code(t, e + 1), goal)
      BY <2>2, <2>3, <2>4, <3>1, <3>2
    <3>4. QED
      BY <3>3 DEF Consistent
  <2>7. i..((e + 1) - 1) = A
    BY DEF A
  <2>8. QED
    BY <2>6, <2>7
<1>4. 0 \in T
  OBVIOUS
<1>5. ASSUME NEW e \in Nat, e \in T PROVE e + 1 \in T
  <2> SUFFICES ASSUME i < e + 1, e + 1 <= k PROVE Along(e + 1)
    OBVIOUS
  <2>1. i <= e /\ e < k /\ (i < e => Along(e))
    BY <1>5
  <2>2. QED
    <3> HIDE DEF Along
    <3> QED
      BY <1>3, <2>1
<1>6. Nat \subseteq T
  <2> HIDE DEF T
  <2> QED
    BY <1>4, <1>5, SetInduction
<1>7. Along(k)
  BY <1>6
<1>8. QED
  BY <1>2, <1>7 DEF f

-----------------------------------------------------------------------------
\* What the search is told

\* A ride is one ticket more, and as long as its hops.
Landed(j, h, t, i, k) ==
  /\ t \in Trains /\ i \in Nat /\ k \in Nat /\ i < k
  /\ Code(t, i) = j.at /\ h.at = Code(t, k) /\ \E x : h.tickets = Append(j.tickets, x)
  /\ \A s \in i..(k - 1) : /\ s \in Route(t) /\ s + 1 \in Route(t)
                           /\ Segment(t, s) \in Nat /\ Segment(t, s) > 0
  /\ h.moving = j.moving + SumFunction([s \in i..(k - 1) |-> Segment(t, s)])

LEMMA RideLands ==
  ASSUME NEW masks, NEW j, NEW q, NEW m, NEW h \in SeatSuccessors(masks, j, q, m)
  PROVE  \E t, i, k : Landed(j, h, t, i, k)
<1>1. PICK t, run, code, i, k :
        Taken(masks, j, q, m, t, run, code, i, k) /\ h = LegTo(masks, j, q, <<t, run, code>>, i, k)
  BY RidesTaken
<1>2. /\ t \in Trains /\ i \in Route(t) /\ k \in Route(t) /\ i < k /\ Code(t, i) = j.at
      /\ \A s \in i..(k - 1) : /\ s \in Route(t) /\ s + 1 \in Route(t)
                               /\ Segment(t, s) \in Nat /\ Segment(t, s) > 0
  <2>1. Taken(masks, j, q, m, t, run, code, i, k)
    BY <1>1
  <2>2. QED
    BY <2>1, RideForward
<1>3. i \in Nat /\ k \in Nat
  BY <1>2, TimetableAssumption DEF Route
<1> DEFINE x == Ridden(masks, j, q, t, run, code, i, k)
           more    == Append(j.tickets, x)
           minutes == SumFunction([s \in i..(k - 1) |-> Segment(t, s)])
<1>4. h.at = Code(t, k) /\ h.moving = j.moving + minutes /\ h.tickets = more
  <2>1. LegTo(masks, j, q, <<t, run, code>>, i, k)
          = [at |-> Code(t, k), arrives |-> Arrives(Halt(t, k), run), train |-> t, coach |-> code,
             tickets |-> more, transfers |-> Len(j.tickets),
             moving |-> j.moving + minutes, closed |-> TRUE]
    BY ONLY RideShape, ZenonT(60)
  <2>2. h = LegTo(masks, j, q, <<t, run, code>>, i, k)
    BY <1>1
  <2> HIDE DEF minutes, more, x
  <2>3. QED
    BY ONLY <2>1, <2>2
<1> HIDE DEF x
<1>5. Landed(j, h, t, i, k)
  BY <1>2, <1>3, <1>4 DEF Landed
<1>6. QED
  BY <1>5

\* It takes time, and leads no nearer than it takes.
LEMMA RideFits ==
  ASSUME NEW masks, NEW j, NEW q, NEW m, NEW h \in SeatSuccessors(masks, j, q, m),
         j.tickets \in Seq(Tickets(q))
  PROVE  /\ Len(h.tickets) = Len(j.tickets) + 1
         /\ \E minutes \in Nat : /\ h.moving = j.moving + minutes
                                 /\ Consistent(j.at, h.at, minutes, q.destination)
<1>0. PICK t, i, k : Landed(j, h, t, i, k)
  <2>1. h \in SeatSuccessors(masks, j, q, m)
    OBVIOUS
  <2>2. QED
    BY ONLY <2>1, RideLands
<1>1. PICK x :
        /\ t \in Trains /\ i \in Nat /\ k \in Nat /\ i < k
        /\ Code(t, i) = j.at /\ h.at = Code(t, k) /\ h.tickets = Append(j.tickets, x)
        /\ \A s \in i..(k - 1) : /\ s \in Route(t) /\ s + 1 \in Route(t)
                                 /\ Segment(t, s) \in Nat /\ Segment(t, s) > 0
        /\ h.moving = j.moving + SumFunction([s \in i..(k - 1) |-> Segment(t, s)])
  BY <1>0 DEF Landed
<1> DEFINE minutes == SumFunction([s \in i..(k - 1) |-> Segment(t, s)])
<1>2. minutes \in Nat
  <2>1. i \in Int /\ k \in Int /\ \A s \in i..(k - 1) : Segment(t, s) \in Nat
    BY <1>1
  <2>2. QED
    BY <1>1, <2>1, RideTakesTime
<1>3. Consistent(Code(t, i), Code(t, k), minutes, q.destination)
  BY <1>1, RideConsistent
<1>4. h.moving = j.moving + minutes
  BY <1>1
<1> HIDE DEF minutes
<1>5. Len(h.tickets) = Len(j.tickets) + 1
  BY <1>1
<1>6. QED
  BY <1>1, <1>2, <1>3, <1>4, <1>5

\* A step of a search that takes time: a ride, or the next halt.
LEMMA MovesConsistent ==
  ASSUME IInv, Ride \/ Continue
  PROVE  /\ journey.moving \in Nat
         /\ \E minutes \in Nat : /\ journey'.moving = journey.moving + minutes
                                 /\ Consistent(journey.at, journey'.at, minutes, query.destination)
<1>0. Shaped(journey, query) /\ journey.moving \in Nat /\ journey.tickets \in Seq(Tickets(query))
  BY DEF IInv, Journeying, Shaped
<1>1. CASE Ride
  <2>1. journey' \in SeatSuccessors(inv, journey, query, mode)
    BY <1>1 DEF Ride
  <2>2. QED
    BY <1>0, <2>1, RideFits
<1>2. CASE Continue
  <2> DEFINE t == journey.train
             i == IndexOf(t, journey.at)
  <2>1. journey' \in Continuing(kept, journey, query) /\ Moved(journey, query, mode) /\ t # None
    BY <1>2 DEF Continue, Move, IInv, Journeying
  <2>2. t \in Trains /\ Calls(t, journey.at) # {}
    BY <2>1 DEF Moved, Aboard
  <2>3. /\ i < Len(Halts[t]) /\ Segment(t, i) > 0
        /\ journey' = [journey EXCEPT !.at = Code(t, i + 1), !.moving = @ + Segment(t, i),
                                      !.arrives = Arrives(Halt(t, i + 1), query.date)]
    BY <2>1 DEF Continuing, HasNext
  <2>4. i \in Route(t) /\ i + 1 \in Route(t) /\ Segment(t, i) \in Nat /\ Code(t, i) = journey.at
    <3>1. i \in Route(t) /\ i + 1 \in Route(t) /\ Segment(t, i) \in Nat
      BY <2>2, <2>3, NextHalt
    <3>2. Code(t, i) = journey.at
      BY <2>2, FirstCall
    <3>3. QED
      BY <3>1, <3>2
  <2> HIDE DEF i, t
  <2>5. Consistent(Code(t, i), Code(t, i + 1), Segment(t, i), query.destination)
    BY <2>2, <2>3, <2>4, HopConsistent
  <2>6. journey'.at = Code(t, i + 1) /\ journey'.moving = journey.moving + Segment(t, i)
    BY <1>0, <2>3 DEF Shaped
  <2>7. QED
    BY <1>0, <2>4, <2>5, <2>6
<1>3. QED
  BY <1>1, <1>2

\* In a search that goes on nothing else takes time or leads anywhere.
LEMMA OthersStay ==
  ASSUME IInv, [Next]_vars, ~Ride, ~Continue, ~Ask, phase' # "idle"
  PROVE  query' = query /\ journey'.at = journey.at /\ journey'.moving = journey.moving
<1>0. Shaped(journey, query)
  BY DEF IInv, Journeying
<1>1. CASE Board
  <2>1. journey' \in Boarding(kept, journey, query, mode) /\ query' = query
    BY <1>1 DEF Board, Move, taskVars
  <2>2. \E t, c, time : journey' = Onboard(journey, t, c, time)
    BY <2>1 DEF Boarding
  <2>3. QED
    BY <1>0, <2>1, <2>2 DEF Onboard, Shaped
<1>2. CASE ChangeCoach
  <2>1. journey' \in ChangingCoach(kept, journey, query) /\ query' = query
    BY <1>2 DEF ChangeCoach, Move, taskVars
  <2>2. \E t, c, time : journey' = Onboard(Changed(kept, journey, query), t, c, time)
    BY <2>1 DEF ChangingCoach
  <2>3. QED
    BY <1>0, <2>1, <2>2 DEF Onboard, Changed, Shaped
<1>3. CASE ChangeTrain
  <2>1. journey' \in ChangingTrain(kept, journey, query) /\ query' = query
    BY <1>3 DEF ChangeTrain, Move, taskVars
  <2>2. \E t, c, time : journey' = Onboard(Changed(kept, journey, query), t, c, time)
    BY <2>1 DEF ChangingTrain
  <2>3. QED
    BY <1>0, <2>1, <2>2 DEF Onboard, Changed, Shaped
<1>4. CASE OfferRide
  <2>1. journey' = Finished(kept, journey, query) /\ query' = query
    BY <1>4 DEF OfferRide, taskVars
  <2>2. QED
    BY <1>0, <2>1 DEF Finished, Shaped
<1>5. CASE UNCHANGED <<query, journey>>
  BY <1>5
<1>6. Board \/ ChangeCoach \/ ChangeTrain \/ OfferRide \/ UNCHANGED <<query, journey>>
  <2>1. ~Closed
    BY DEF Closed
  <2>2. QED
    BY <2>1 DEF Next, Call, ReadOwn, ReadKept, OfferSeats, Leave, Book, OthersSell, OthersCancel, vars, taskVars
<1>7. QED
  BY <1>1, <1>2, <1>3, <1>4, <1>5, <1>6

\* A new search is where it starts, and has taken no time.
LEMMA AskStarts ==
  ASSUME IInv, Ask
  PROVE  /\ query' \in Queries /\ journey' = InitialState(query')
         /\ journey'.at = query'.origin /\ journey'.moving = 0 /\ journey.moving = 0
<1>1. journey = InitialState(query)
  BY DEF Ask, IInv, Journeying
<1>2. query' \in Queries /\ journey' = InitialState(query')
  BY DEF Ask
<1>3. QED
  BY <1>1, <1>2 DEF InitialState

\* However a search goes on, the estimate falls by no more than the step takes
\* (rail_graph.py, heuristic.py): it is consistent, so A* is right about a
\* state when it takes it from its queue.
THEOREM EstimateNeverMisleads == Spec => EstimateConsistent
<1> DEFINE Told == journey'.moving # journey.moving /\ phase' # "idle" =>
                     Estimate(journey.at, query.destination)
                       <= journey'.moving - journey.moving + Estimate(journey'.at, query.destination)
<1>1. IInv /\ [Next]_vars => [Told]_vars
  <2> SUFFICES ASSUME IInv, [Next]_vars PROVE Told
    OBVIOUS
  <2>1. CASE Ride \/ Continue
    <3>1. journey.moving \in Nat
      BY <2>1, MovesConsistent
    <3>2. PICK minutes \in Nat : /\ journey'.moving = journey.moving + minutes
                                 /\ Consistent(journey.at, journey'.at, minutes, query.destination)
      BY <2>1, MovesConsistent
    <3>3. journey'.moving - journey.moving = minutes
      BY <3>1, <3>2
    <3>4. QED
      BY <3>2, <3>3 DEF Consistent
  <2>2. CASE Ask
    BY <2>2, AskStarts
  <2>3. CASE ~Ride /\ ~Continue /\ ~Ask
    BY <2>3, OthersStay
  <2>4. QED
    BY <2>1, <2>2, <2>3
<1>2. QED
  BY <1>1, IInvHolds, PTL DEF Spec, EstimateConsistent

\* What is left and what was spent are no less than what was to go at first.
Ahead ==
  phase # "idle" =>
    Estimate(query.origin, query.destination)
      <= journey.moving + Estimate(journey.at, query.destination)

\* A search begins by being asked for.
LEMMA OnlyAskStarts ==
  ASSUME [Next]_vars, ~Ask, phase' # "idle"
  PROVE  phase # "idle"
BY DEF Next, Call, ReadOwn, ReadKept, Ride, Move, Board, Continue, ChangeCoach, ChangeTrain, OfferSeats,
       OfferRide, Leave, Closed, Book, OthersSell, OthersCancel, vars

LEMMA AheadStep == IInv /\ Ahead /\ [Next]_vars => Ahead'
<1> SUFFICES ASSUME IInv, Ahead, [Next]_vars, phase' # "idle" PROVE Ahead'
  BY DEF Ahead
<1> DEFINE before == Estimate(journey.at, query.destination)
           after  == Estimate(journey'.at, query.destination)
           first  == Estimate(query.origin, query.destination)
<1>1. before \in Nat /\ after \in Nat /\ first \in Nat
  BY EstimateTyped
<1>2. CASE Ask
  <2>1. journey'.at = query'.origin /\ journey'.moving = 0
    BY <1>2, AskStarts
  <2>2. Estimate(query'.origin, query'.destination) \in Nat
    BY EstimateTyped
  <2>3. QED
    BY <2>1, <2>2 DEF Ahead
<1>3. CASE Ride \/ Continue
  <2>1. query' = query /\ phase # "idle"
    BY <1>3 DEF Ride, Continue, Move, taskVars
  <2>2. journey.moving \in Nat
    BY <1>3, MovesConsistent
  <2>3. PICK minutes \in Nat : journey'.moving = journey.moving + minutes /\ before <= minutes + after
    BY <1>3, MovesConsistent DEF Consistent
  <2>4. first <= journey.moving + before
    BY <2>1 DEF Ahead
  <2> HIDE DEF before, after, first
  <2>5. first <= journey'.moving + after
    BY <1>1, <2>2, <2>3, <2>4
  <2>6. QED
    BY <2>1, <2>5 DEF Ahead, after, first
<1>4. CASE ~Ask /\ ~Ride /\ ~Continue
  <2>1. query' = query /\ journey'.at = journey.at /\ journey'.moving = journey.moving
    BY <1>4, OthersStay
  <2>2. phase # "idle"
    BY <1>4, OnlyAskStarts
  <2>3. QED
    BY <2>1, <2>2 DEF Ahead
<1>5. QED
  BY <1>2, <1>3, <1>4

\* What a journey offered cost is no less than the estimate said at the start.
LowerBound ==
  phase = "offer" => Estimate(query.origin, query.destination) <= journey.moving

\* A journey is offered at the destination.
AtGoal == phase = "offer" => journey.at = query.destination

LEMMA AtGoalStep == IInv /\ AtGoal /\ [Next]_vars => AtGoal'
<1> SUFFICES ASSUME IInv, AtGoal, [Next]_vars, phase' = "offer" PROVE journey'.at = query'.destination
  BY DEF AtGoal
<1>1. CASE OfferSeats \/ OfferRide
  <2>1. IsGoal(journey, query) /\ query' = query
    BY <1>1 DEF OfferSeats, OfferRide, taskVars
  <2>2. journey'.at = journey.at
    <3>1. ~Ride /\ ~Continue /\ ~Ask /\ phase' # "idle"
      BY <1>1 DEF OfferSeats, OfferRide, Ride, Continue, Move, Ask
    <3>2. QED
      BY <3>1, OthersStay
  <2>3. QED
    BY <2>1, <2>2 DEF IsGoal
<1>2. CASE phase = "offer" /\ UNCHANGED <<query, journey>>
  BY <1>2 DEF AtGoal
<1>3. QED
  BY <1>1, <1>2
  DEF Next, Ask, Call, ReadOwn, ReadKept, Ride, Move, Board, Continue, ChangeCoach, ChangeTrain,
      Leave, Closed, Book, OthersSell, OthersCancel, vars, taskVars

LEMMA AheadAtLast == IInv /\ Ahead /\ AtGoal => LowerBound
<1> SUFFICES ASSUME IInv, Ahead, AtGoal, phase = "offer" PROVE LowerBound
  BY DEF LowerBound
<1>1. Estimate(query.origin, query.destination)
        <= journey.moving + Estimate(journey.at, query.destination)
  BY DEF Ahead
<1>2. journey.at = query.destination /\ journey.moving \in Nat
  BY DEF IInv, Journeying, AtGoal, Shaped
<1>3. Estimate(journey.at, query.destination) = 0
  BY <1>2, EstimateZero
<1>4. QED
  BY <1>1, <1>2, <1>3 DEF LowerBound

\* The estimate is admissible (rail_graph.py: any real itinerary costs no less
\* than the graph's shortest path): whatever the trains, days, seats and
\* changes of a journey, it takes at least the minutes estimated for its origin.
THEOREM EstimateIsLowerBound == Spec => []LowerBound
<1>1. Init => Ahead /\ AtGoal
  BY DEF Init, Ahead, AtGoal
<1>2. QED
  BY <1>1, IInvHolds, AheadStep, AtGoalStep, AheadAtLast, PTL DEF Spec

\* What the loop of BestFirstSearch takes for granted of a graph and its start
\* (SearchAssumption there), said of the journeys a search by legs looks at: a
\* journey is where the search goes from it, costs its moving time and counts
\* its tickets.
FitsLoop ==
  phase = "leg" =>
    /\ ~IsGoal(InitialState(query), query)
    /\ IsGoal(journey, query) <=> Estimate(journey.at, query.destination) = 0
    /\ \A h \in SeatSuccessors(inv, journey, query, mode) :
         /\ journey.moving <= h.moving
         /\ Len(h.tickets) = Len(journey.tickets) + 1
         /\ journey.moving + Estimate(journey.at, query.destination)
              <= h.moving + Estimate(h.at, query.destination)

LEMMA SearchFits == IInv => FitsLoop
<1> SUFFICES ASSUME IInv, phase = "leg" PROVE FitsLoop
  BY DEF FitsLoop
<1>1. /\ Seated(journey, query, mode) /\ query \in Queries
      /\ journey.moving \in Nat /\ journey.tickets \in Seq(Tickets(query))
  BY DEF IInv, Tasked, Journeying, Shaped
<1>2. ~IsGoal(InitialState(query), query)
  BY DEF IsGoal, InitialState
<1>3. IsGoal(journey, query) <=> Estimate(journey.at, query.destination) = 0
  <2>1. CASE journey.tickets = <<>>
    <3>1. journey.at = query.origin /\ journey.train = None /\ query.origin # query.destination
      BY <1>1, <2>1, QueriesAssumption DEF Seated, InitialState
    <3>2. QED
      BY <3>1, EstimateZero DEF IsGoal
  <2>2. CASE journey.tickets # <<>>
    <3>1. journey.train \in Trains
      BY <1>1, <2>2, LastTicket DEF Seated, Tickets
    <3>2. journey.train # None
      BY <3>1, TimetableAssumption
    <3>3. QED
      BY <3>2, EstimateZero DEF IsGoal
  <2>3. QED
    BY <2>1, <2>2
<1>4. ASSUME NEW h \in SeatSuccessors(inv, journey, query, mode)
      PROVE  /\ journey.moving <= h.moving
             /\ Len(h.tickets) = Len(journey.tickets) + 1
             /\ journey.moving + Estimate(journey.at, query.destination)
                  <= h.moving + Estimate(h.at, query.destination)
  <2> DEFINE before == Estimate(journey.at, query.destination)
             after  == Estimate(h.at, query.destination)
  <2>1. Len(h.tickets) = Len(journey.tickets) + 1
    BY <1>1, RideFits
  <2>2. PICK minutes \in Nat : h.moving = journey.moving + minutes /\ before <= minutes + after
    BY <1>1, RideFits DEF Consistent
  <2>3. before \in Nat /\ after \in Nat
    BY EstimateTyped
  <2> HIDE DEF before, after
  <2>4. journey.moving <= h.moving /\ journey.moving + before <= h.moving + after
    BY <1>1, <2>2, <2>3
  <2>5. QED
    BY <2>1, <2>4 DEF before, after
<1>5. QED
  BY <1>2, <1>3, <1>4 DEF FitsLoop

\* The searches of the running program give the loop what it needs: the start is
\* no goal, the estimate is nothing at the goals only, and no ride costs less
\* than nothing or brings the goal nearer than it costs (seat_search.py's
\* journeys in search_astar.py's loop).
THEOREM SearchFitsLoop == Spec => []FitsLoop
BY IInvHolds, SearchFits, PTL

\* Infinite is the model's number for the code's infinity: it is one when no
\* way through the stations is as long, no hop being longer than M.
FarAway(M) ==
  /\ M \in Nat /\ (Cardinality(Stations) + 1) * M < Infinite
  /\ \A r \in Rides : Segment(r[1], r[2]) <= M

LEMMA OneMore ==
  ASSUME NEW M \in Nat, NEW k \in Nat
  PROVE  k * M \in Nat /\ (k + 1) * M \in Nat /\ (k + 1) * M = k * M + M
OBVIOUS

\* A round reaches a station, over short hops, or leaves it out of reach.
Capped(S, top, cap, f) == \A s \in S : f[s] = top \/ f[s] <= cap

LEMMA SumCapped ==
  ASSUME NEW a \in Nat, NEW b \in Nat, NEW top \in Nat, NEW M \in Nat, NEW cap \in Nat,
         a + b <= top, a = top \/ a <= M, b = top \/ b <= cap
  PROVE  a + b = top \/ a + b <= cap + M
OBVIOUS

LEMMA RelaxedCapped ==
  ASSUME NEW S, NEW W, Costs(S, W), NEW f \in [S -> Nat], NEW top \in Nat, NEW M \in Nat, NEW cap \in Nat,
         \A u, v \in S : W[u][v] = top \/ W[u][v] <= M,
         Capped(S, top, cap, f), \A s \in S : f[s] <= top
  PROVE  Capped(S, top, cap + M, Relaxed(S, W, f))
<1> SUFFICES ASSUME NEW s \in S PROVE Relaxed(S, W, f)[s] = top \/ Relaxed(S, W, f)[s] <= cap + M
  BY DEF Capped
<1> DEFINE y == Relaxed(S, W, f)[s]
<1>1. y \in Nat /\ y <= f[s] /\ (y = f[s] \/ \E v \in S : y = W[s][v] + f[v])
  BY RelaxedLaw
<1>2. f[s] \in Nat /\ f[s] <= top /\ (f[s] = top \/ f[s] <= cap)
  BY DEF Capped
<1> HIDE DEF y
<1>3. ASSUME NEW v \in S, y = W[s][v] + f[v] PROVE y = top \/ y <= cap + M
  <2>1. /\ W[s][v] \in Nat /\ (W[s][v] = top \/ W[s][v] <= M)
        /\ f[v] \in Nat /\ (f[v] = top \/ f[v] <= cap)
    BY DEF Costs, Capped
  <2>2. W[s][v] + f[v] <= top
    BY <1>1, <1>2, <1>3
  <2>3. QED
    BY <1>3, <2>1, <2>2, SumCapped
<1>4. ASSUME y = f[s] PROVE y = top \/ y <= cap + M
  BY <1>2, <1>4
<1>5. QED
  BY <1>1, <1>3, <1>4 DEF y

LEMMA RoundsCapped ==
  ASSUME NEW S, NEW W, Costs(S, W), NEW f \in [S -> Nat], NEW n \in Nat, NEW x, Rounds(S, W, f, n, x),
         NEW top \in Nat, NEW M \in Nat, \A u, v \in S : W[u][v] = top \/ W[u][v] <= M,
         \A s \in S : f[s] = top \/ f[s] = 0
  PROVE  Capped(S, top, n * M, x[n])
<1> DEFINE Good(k) == Capped(S, top, k * M, x[k]) /\ \A s \in S : x[k][s] <= top
           T == {k \in Nat : k <= n => Good(k)}
<1>1. x \in [0..n -> [S -> Nat]] /\ x[0] = f /\ \A k \in 1..n : x[k] = Relaxed(S, W, x[k - 1])
  BY DEF Rounds
<1>2. 0 \in T
  <2>1. 0 * M = 0 /\ \A s \in S : f[s] \in Nat /\ f[s] <= top
    OBVIOUS
  <2>2. QED
    BY <1>1, <2>1 DEF Capped
<1>3. ASSUME NEW k \in Nat, k \in T PROVE k + 1 \in T
  <2> SUFFICES ASSUME k + 1 <= n PROVE Good(k + 1)
    OBVIOUS
  <2>1. k \in 0..n /\ k + 1 \in 1..n /\ (k + 1) - 1 = k /\ k <= n
    OBVIOUS
  <2>2. x[k] \in [S -> Nat] /\ x[k + 1] = Relaxed(S, W, x[k]) /\ Good(k)
    BY <1>1, <1>3, <2>1
  <2>3. k * M \in Nat /\ (k + 1) * M = k * M + M
    BY OneMore
  <2>4. Capped(S, top, k * M + M, x[k + 1])
    <3> DEFINE cap == k * M
    <3>1. cap \in Nat
      BY <2>3
    <3> HIDE DEF cap
    <3>2. Capped(S, top, cap, x[k]) /\ \A s \in S : x[k][s] <= top
      BY <2>2 DEF cap
    <3>3. Capped(S, top, cap + M, Relaxed(S, W, x[k]))
      BY <2>2, <3>1, <3>2, RelaxedCapped
    <3>4. QED
      BY <2>2, <3>3 DEF cap
  <2>5. ASSUME NEW s \in S PROVE x[k + 1][s] <= top
    <3>1. x[k + 1][s] <= x[k][s] /\ x[k][s] <= top /\ x[k + 1][s] \in Nat /\ x[k][s] \in Nat
      BY <2>2, RelaxedLaw
    <3>2. QED
      BY <3>1
  <2>6. QED
    BY <2>3, <2>4, <2>5
<1>4. Nat \subseteq T
  <2> HIDE DEF T
  <2> QED
    BY <1>2, <1>3, SetInduction
<1>5. QED
  BY <1>4

\* A weight is the time of a train, or infinite.
LEMMA WeightCapped ==
  ASSUME NEW M \in Nat, \A r \in Rides : Segment(r[1], r[2]) <= M, NEW u, NEW v
  PROVE  Weight(u, v) = Infinite \/ Weight(u, v) <= M
<1>1. Weight(u, v) = Least(Usable(u, v))
  BY DEF Weight, Usable
<1>2. CASE Usable(u, v) = {}
  BY <1>1, <1>2 DEF Least
<1>3. CASE Usable(u, v) # {}
  <2>1. Usable(u, v) \subseteq Nat /\ \A x \in Usable(u, v) : x <= M
    BY WeightTyped DEF Usable
  <2>2. Least(Usable(u, v)) \in Usable(u, v)
    BY <1>3, <2>1, LeastOf
  <2>3. QED
    BY <1>1, <2>1, <2>2
<1>4. QED
  BY <1>2, <1>3

LEMMA PathsCapped ==
  ASSUME NEW M, FarAway(M), NEW goal \in Stations, NEW s \in Stations
  PROVE  Paths(goal)[s] = Infinite \/ Paths(goal)[s] <= Cardinality(Stations) * M
<1> DEFINE n == Cardinality(Stations)
<1>1. n \in Nat /\ Costs(Stations, Weights) /\ Start(goal) \in [Stations -> Nat] /\ M \in Nat
  BY PathsRounds DEF FarAway
<1>2. PICK x : Rounds(Stations, Weights, Start(goal), n, x) /\ Paths(goal) = x[n]
  BY PathsRounds
<1>3. \A u, v \in Stations : Weights[u][v] = Infinite \/ Weights[u][v] <= M
  BY WeightCapped DEF Weights, FarAway
<1>4. \A u \in Stations : Start(goal)[u] = Infinite \/ Start(goal)[u] = 0
  BY DEF Start
<1>5. Infinite \in Nat
  BY DEF Infinite
<1> HIDE DEF n
<1>6. Capped(Stations, Infinite, n * M, x[n])
  BY <1>1, <1>2, <1>3, <1>4, <1>5, RoundsCapped
<1>7. QED
  BY <1>2, <1>6 DEF Capped, n

\* No hop leads out of where the goal is out of reach.
LEMMA HopStaysFar ==
  ASSUME NEW M, FarAway(M), NEW t \in Trains, NEW i \in Route(t), i + 1 \in Route(t), Segment(t, i) > 0,
         NEW goal, Estimate(Code(t, i), goal) = Infinite
  PROVE  Estimate(Code(t, i + 1), goal) = Infinite
<1> DEFINE u == Code(t, i)
           v == Code(t, i + 1)
<1>1. u \in Stations /\ v \in Stations
  BY HaltTyped
<1>2. Consistent(u, v, Segment(t, i), goal)
  BY HopConsistent
<1>3. Segment(t, i) \in Int /\ Segment(t, i) <= M
  <2>1. <<t, i>> \in Rides
    BY RidesJoin
  <2>2. <<t, i>>[1] = t /\ <<t, i>>[2] = i
    OBVIOUS
  <2>3. QED
    BY <2>1, <2>2, SegmentTyped DEF FarAway
<1> HIDE DEF u, v
<1>4. CASE goal \notin Stations
  BY <1>1, <1>4 DEF Estimate, u, v
<1>5. CASE goal \in Stations
  <2>1. Estimate(v, goal) = 0 \/ Estimate(v, goal) = Paths(goal)[v]
    BY <1>1, <1>5 DEF Estimate, Distances
  <2>2. Paths(goal)[v] = Infinite \/ Paths(goal)[v] <= Cardinality(Stations) * M
    BY <1>1, <1>5, PathsCapped
  <2>3. Cardinality(Stations) * M \in Nat /\ Cardinality(Stations) * M + M < Infinite /\ M \in Nat
    <3>1. Cardinality(Stations) \in Nat
      BY StationsFinite, FS_CardinalityType
    <3>2. QED
      BY <3>1, OneMore DEF FarAway
  <2>4. Infinite \in Nat /\ Infinite <= Segment(t, i) + Estimate(v, goal)
    BY <1>2 DEF Consistent, Infinite, u
  <2>5. Estimate(v, goal) \in Nat
    BY EstimateTyped
  <2> DEFINE cap == Cardinality(Stations) * M
  <2> HIDE DEF cap
  <2>6. Estimate(v, goal) = Infinite \/ Estimate(v, goal) <= cap
    BY <2>1, <2>2, <2>3 DEF cap
  <2>7. cap \in Nat /\ cap + M < Infinite /\ M \in Nat
    BY <2>3 DEF cap
  <2>8. Estimate(v, goal) = Infinite
    BY <1>3, <2>4, <2>5, <2>6, <2>7
  <2>9. QED
    BY <2>8 DEF v
<1>6. QED
  BY <1>4, <1>5

\* Nor does a ride over several halts.
LEMMA RideStaysFar ==
  ASSUME NEW M, FarAway(M), NEW t \in Trains, NEW i \in Nat, NEW k \in Nat, i < k, NEW goal,
         \A s \in i..(k - 1) : s \in Route(t) /\ s + 1 \in Route(t) /\ Segment(t, s) > 0,
         Estimate(Code(t, i), goal) = Infinite
  PROVE  Estimate(Code(t, k), goal) = Infinite
<1> DEFINE T == {e \in Nat : i <= e /\ e <= k => Estimate(Code(t, e), goal) = Infinite}
<1>1. 0 \in T
  <2>1. i <= 0 => i = 0
    OBVIOUS
  <2>2. QED
    BY <2>1
<1>2. ASSUME NEW e \in Nat, e \in T PROVE e + 1 \in T
  <2> SUFFICES ASSUME i <= e + 1, e + 1 <= k PROVE Estimate(Code(t, e + 1), goal) = Infinite
    OBVIOUS
  <2>1. CASE i = e + 1
    BY <2>1
  <2>2. CASE i # e + 1
    <3>1. i <= e /\ e <= k /\ e \in i..(k - 1)
      BY <2>2
    <3>2. Estimate(Code(t, e), goal) = Infinite
      BY <1>2, <3>1
    <3>3. e \in Route(t) /\ e + 1 \in Route(t) /\ Segment(t, e) > 0
      BY <3>1
    <3>4. QED
      BY <3>2, <3>3, HopStaysFar
  <2>3. QED
    BY <2>1, <2>2
<1>3. Nat \subseteq T
  <2> HIDE DEF T
  <2> QED
    BY <1>1, <1>2, SetInduction
<1>4. QED
  BY <1>3

\* Where the goal is out of reach it stays so.
StaysFar ==
  phase = "leg" /\ Estimate(journey.at, query.destination) = Infinite =>
    \A h \in SeatSuccessors(inv, journey, query, mode) : Estimate(h.at, query.destination) = Infinite

\* A journey that the estimate says cannot arrive has no continuation that can
\* (heuristic.py's inf): the loop loses no goal by leaving it to the last.  Rides
\* from such a place exist: a train may call at the destination later, by times
\* that contradict themselves.
THEOREM DeadEndsStayDead ==
  ASSUME NEW M, FarAway(M)
  PROVE  Spec => []StaysFar
<1>1. StaysFar
  <2> SUFFICES ASSUME Estimate(journey.at, query.destination) = Infinite,
                      NEW h \in SeatSuccessors(inv, journey, query, mode)
               PROVE  Estimate(h.at, query.destination) = Infinite
    BY DEF StaysFar
  <2>1. PICK t, i, k : Landed(journey, h, t, i, k)
    BY RideLands
  <2>2. Estimate(Code(t, k), query.destination) = Infinite
    <3>1. /\ t \in Trains /\ i \in Nat /\ k \in Nat /\ i < k /\ Code(t, i) = journey.at
          /\ \A s \in i..(k - 1) : s \in Route(t) /\ s + 1 \in Route(t) /\ Segment(t, s) > 0
      BY <2>1 DEF Landed
    <3>2. QED
      BY <3>1, RideStaysFar
  <2>3. QED
    BY <2>1, <2>2 DEF Landed
<1>2. QED
  BY <1>1, PTL

-----------------------------------------------------------------------------
\* Where and when a train halts

\* The last of a train's halts at a station.
LEMMA LastCallLaw ==
  ASSUME NEW t \in Trains, NEW code, Calls(t, code) # {}
  PROVE  /\ LastCall(t, code) \in Route(t) /\ Code(t, LastCall(t, code)) = code
         /\ \A i \in Calls(t, code) : i <= LastCall(t, code)
<1>1. Route(t) \subseteq Int /\ IsFiniteSet(Route(t))
  BY TimetableAssumption, FS_Interval DEF Route
<1>2. Calls(t, code) \subseteq Route(t)
  BY DEF Calls
<1>3. IsFiniteSet(Calls(t, code))
  BY <1>1, <1>2, FS_Subset
<1>4. \E k \in Calls(t, code) : \A i \in Calls(t, code) : i <= k
  BY <1>1, <1>2, <1>3, GreatestNumber
<1>5. /\ LastCall(t, code) \in Calls(t, code)
      /\ \A i \in Calls(t, code) : i <= LastCall(t, code)
  BY <1>4 DEF LastCall
<1>6. QED
  BY <1>5 DEF Calls, Code

\* The last halt at the station of halt i is that, or it is the next one and
\* the same.
LEMMA HaltTwice ==
  ASSUME NEW t \in Trains, NEW i \in Route(t)
  PROVE  LET k == LastCall(t, Code(t, i))
         IN  /\ k \in Route(t) /\ Code(t, k) = Code(t, i) /\ Halt(t, k) = Halt(t, i)
             /\ k = i \/ (k = i + 1 /\ Segment(t, i) <= 0)
             /\ LastCalls[t][i] = k
<1> DEFINE k == LastCall(t, Code(t, i))
<1>1. i \in Calls(t, Code(t, i))
  BY DEF Calls, Code
<1>2. k \in Route(t) /\ Code(t, k) = Code(t, i) /\ i <= k
  BY <1>1, LastCallLaw
<1>3. LastCalls[t][i] = k
  BY DEF LastCalls
<1> HIDE DEF k
<1>4. i \in Int /\ k \in Int
  BY <1>2, TimetableAssumption DEF Route
<1>5. CASE i < k
  <2>1. k = i + 1 /\ Halts[t][k] = Halts[t][i] /\ Segment(t, i) <= 0
    BY <1>2, <1>5, RoutesAssumption DEF Route, Code
  <2>2. QED
    BY <1>2, <1>3, <2>1 DEF Halt, k
<1>6. CASE i = k
  BY <1>2, <1>3, <1>6 DEF k
<1>7. QED
  BY <1>2, <1>4, <1>5, <1>6

\* A halt that is ridden from is the train's last at its station.
LEMMA RiddenFrom ==
  ASSUME NEW t \in Trains, NEW i \in Route(t), i + 1 \in Route(t), Segment(t, i) > 0
  PROVE  LastCall(t, Code(t, i)) = i /\ LastCalls[t][i] = i
<1>1. Segment(t, i) \in Int
  BY SegmentTyped
<1>2. QED
  BY <1>1, HaltTwice

\* No halt passes midnight, and none has times without a day.
TidyHalts ==
  \A t \in Trains : \A i \in Route(t) :
    /\ Missing \notin {Halt(t, i).arr, Halt(t, i).dep} => Halt(t, i).arr <= Halt(t, i).dep
    /\ Halt(t, i).day = Missing => Halt(t, i).arr = Missing /\ Halt(t, i).dep = Missing

\* No change is made over midnight where no halt is.
LEMMA TidyDays == TidyHalts => DayHalts
<1> SUFFICES ASSUME TidyHalts, NEW t \in Trains, NEW i \in Route(t), Halt(t, i).halt >= MinSeatChange
             PROVE  Halt(t, i).arr <= Halt(t, i).dep
  BY DEF DayHalts
<1>1. Halt(t, i).halt = IF Missing \in {Halt(t, i).arr, Halt(t, i).dep} THEN Missing
                        ELSE (Halt(t, i).dep - Halt(t, i).arr) % Day
  BY TimetableAssumption DEF Route, Halt
<1>2. MinSeatChange \in Nat /\ Missing = -1
  BY SearchAssumption, ClockTyped
<1>3. Missing \notin {Halt(t, i).arr, Halt(t, i).dep}
  BY <1>1, <1>2
<1>4. QED
  BY <1>3 DEF TidyHalts

\* A train that rides on in good time arrives later than it left, by the
\* segment's minutes; and it leaves no earlier than it arrives.
LEMMA RidesOn ==
  ASSUME TidyHalts, NEW t \in Trains, NEW run \in Int, NEW i \in Route(t), i + 1 \in Route(t), Segment(t, i) > 0
  PROVE  /\ Departs(Halt(t, i), run) < Arrives(Halt(t, i + 1), run)
         /\ Halt(t, i).arr # Missing => Arrives(Halt(t, i), run) <= Departs(Halt(t, i), run)
         /\ Halt(t, i).dep # Missing /\ Halt(t, i + 1).arr # Missing
<1> DEFINE k == i + 1
           a == Halt(t, i)
           b == Halt(t, k)
<1>0. k \in Route(t) /\ Segment(t, i) = SegmentMinutes(a, b)
  BY DEF Segment, Halt
<1> HIDE DEF k
<1>1. /\ a.arr \in Clock /\ a.dep \in Clock /\ a.day \in {Missing} \cup (Nat \ {0})
      /\ b.arr \in Clock /\ b.dep \in Clock /\ b.day \in {Missing} \cup (Nat \ {0})
  BY <1>0, HaltTyped
<1>2. /\ Missing \notin {a.arr, a.dep} => a.arr <= a.dep
      /\ a.day = Missing => a.arr = Missing /\ a.dep = Missing
      /\ b.day = Missing => b.arr = Missing /\ b.dep = Missing
  BY <1>0 DEF TidyHalts
<1>3. /\ Departs(a, run) = IF a.dep = Missing THEN Missing
                           ELSE (run + (IF a.day = Missing THEN 0 ELSE a.day - 1)) * Day + a.dep
      /\ Arrives(a, run) = IF a.arr = Missing THEN Missing
                           ELSE (run + (IF a.day = Missing THEN 0 ELSE a.day - 1)) * Day + a.arr
      /\ Arrives(b, run) = IF b.arr = Missing THEN Missing
                           ELSE (run + (IF b.day = Missing THEN 0 ELSE b.day - 1)) * Day + b.arr
  BY DEF Departs, Arrives, Datetime
<1> HIDE DEF a, b
<1>4. /\ a.arr \in Int /\ a.dep \in Int /\ a.day \in Int /\ b.arr \in Int /\ b.dep \in Int /\ b.day \in Int
      /\ Missing = -1 /\ Day = 1440
  BY <1>1, ClockTyped
<1>5. a.dep # Missing /\ b.arr # Missing /\ a.day # Missing /\ b.day # Missing
  BY <1>0, <1>2, <1>4 DEF SegmentMinutes
<1>6. (b.day * Day + b.arr) - (a.day * Day + a.dep) > 0
  BY <1>0, <1>5 DEF SegmentMinutes
<1>7. QED
  BY <1>2, <1>3, <1>4, <1>5, <1>6 DEF a, b, k

\* Halt p is left before any later halt of a ride is reached.
LEMMA TimeGoesOn ==
  ASSUME TidyHalts, NEW t \in Trains, NEW run \in Int, NEW i \in Route(t), NEW k \in Route(t),
         \A s \in i..(k - 1) : Segment(t, s) > 0
  PROVE  \A p, r \in i..k : p < r => Departs(Halt(t, p), run) < Arrives(Halt(t, r), run)
<1>1. Route(t) = 1..Len(Halts[t]) /\ Len(Halts[t]) \in Nat /\ i \in Nat /\ k \in Nat
  BY TimetableAssumption DEF Route
<1> SUFFICES ASSUME NEW p \in i..k
             PROVE  \A r \in i..k : p < r => Departs(Halt(t, p), run) < Arrives(Halt(t, r), run)
  OBVIOUS
<1> DEFINE Late == {r \in i..k : p < r /\ ~(Departs(Halt(t, p), run) < Arrives(Halt(t, r), run))}
<1>2. SUFFICES ASSUME Late # {} PROVE FALSE
  OBVIOUS
<1>3. Late \subseteq Nat
  BY <1>1
<1>4. PICK r \in Late : \A x \in Late : r <= x
  BY <1>2, <1>3, LeastNatural
<1>5. r \in i..k /\ p < r /\ ~(Departs(Halt(t, p), run) < Arrives(Halt(t, r), run))
  BY <1>4
<1>6. \A x \in i..k : p < x /\ x < r => Departs(Halt(t, p), run) < Arrives(Halt(t, x), run)
  BY <1>1, <1>4
<1> HIDE DEF Late
<1> DEFINE s == r - 1
<1>7. s \in i..(k - 1) /\ s \in Route(t) /\ s + 1 = r /\ r \in Route(t) /\ p <= s /\ s < r /\ s \in i..k
  BY <1>1, <1>5
<1> HIDE DEF s
<1>8. Segment(t, s) > 0 /\ s + 1 \in Route(t)
  BY <1>7
<1>9. /\ Departs(Halt(t, s), run) < Arrives(Halt(t, r), run)
      /\ Halt(t, s).arr # Missing => Arrives(Halt(t, s), run) <= Departs(Halt(t, s), run)
  BY <1>7, <1>8, RidesOn
<1>10. /\ Departs(Halt(t, s), run) \in Int /\ Arrives(Halt(t, s), run) \in Int
       /\ Arrives(Halt(t, r), run) \in Int /\ Departs(Halt(t, p), run) \in Int
  <2>1. p \in Route(t)
    BY <1>1
  <2>2. QED
    BY <1>7, <2>1, HaltTyped
<1>11. p # s
  BY <1>5, <1>9
<1>12. Halt(t, s).arr # Missing
  <2> DEFINE e == s - 1
  <2>1. e \in i..(k - 1) /\ e \in Route(t) /\ e + 1 = s
    BY <1>1, <1>7, <1>11
  <2> HIDE DEF e
  <2>2. Segment(t, e) > 0 /\ e + 1 \in Route(t)
    BY <1>7, <2>1
  <2>3. QED
    BY <2>1, <2>2, RidesOn
<1>13. Departs(Halt(t, p), run) < Arrives(Halt(t, s), run)
  BY <1>1, <1>6, <1>7, <1>11
<1>14. QED
  BY <1>5, <1>9, <1>10, <1>12, <1>13

\* A train is ridden from its halt i to its halt k.
Ridable(t, i, k) ==
  /\ i \in Route(t) /\ k \in Route(t) /\ i < k
  /\ \A s \in i..(k - 1) : Segment(t, s) > 0

\* Whoever rides up to halt k leaves before halt e, if that is where he gets on later.
LEMMA RideEnds ==
  ASSUME NEW t \in Trains, NEW i, NEW k, NEW e, NEW g, Ridable(t, i, k), Ridable(t, e, g), k <= e
  PROVE  Between(t, i, k) \cap Between(t, e, g) = {}
<1>1. /\ Route(t) = 1..Len(Halts[t]) /\ Len(Halts[t]) \in Nat
      /\ i \in Route(t) /\ k \in Route(t) /\ e \in Route(t) /\ g \in Route(t) /\ i < k /\ e < g
  BY TimetableAssumption DEF Route, Ridable
<1>2. i \in Nat /\ k \in Nat /\ e \in Nat /\ g \in Nat
  BY <1>1
<1>3. Segment(t, e) > 0 /\ e + 1 \in Route(t)
  BY <1>1, <1>2 DEF Ridable
<1>4. LastCalls[t][e] = e
  BY <1>1, <1>3, RiddenFrom
<1>5. LastCalls[t][k] = k \/ (LastCalls[t][k] = k + 1 /\ Segment(t, k) <= 0)
  BY <1>1, HaltTwice
<1>6. Segment(t, e) \in Int
  BY <1>1, <1>3, SegmentTyped
<1>7. LastCalls[t][k] <= e /\ LastCalls[t][k] \in Nat
  BY <1>2, <1>3, <1>5, <1>6
<1>8. \A s \in Between(t, i, k) : s \in Int /\ s < LastCalls[t][k] - 1
  BY DEF Between, Span, Segments
<1>9. \A s \in Between(t, e, g) : s \in Int /\ LastCalls[t][e] - 1 <= s
  BY DEF Between, Span, Segments
<1>10. QED
  BY <1>2, <1>4, <1>7, <1>8, <1>9

\* Two rides on one train, the one over before the other begins, share no segment.
LEMMA RidesApart ==
  ASSUME TidyHalts, NEW t \in Trains, NEW run \in Int, NEW i, NEW k, NEW e, NEW g,
         Ridable(t, i, k), Ridable(t, e, g), Arrives(Halt(t, k), run) <= Departs(Halt(t, e), run)
  PROVE  Between(t, i, k) \cap Between(t, e, g) = {}
<1>1. /\ Route(t) = 1..Len(Halts[t]) /\ Len(Halts[t]) \in Nat
      /\ i \in Route(t) /\ k \in Route(t) /\ e \in Route(t) /\ g \in Route(t) /\ i < k /\ e < g
  BY TimetableAssumption DEF Route, Ridable
<1>2. i \in Nat /\ k \in Nat /\ e \in Nat /\ g \in Nat
  BY <1>1
<1>3. \A p, r \in i..k : p < r => Departs(Halt(t, p), run) < Arrives(Halt(t, r), run)
  BY <1>1, TimeGoesOn DEF Ridable
<1>4. \A p, r \in e..g : p < r => Departs(Halt(t, p), run) < Arrives(Halt(t, r), run)
  BY <1>1, TimeGoesOn DEF Ridable
<1>5. \A p \in Route(t) : Departs(Halt(t, p), run) \in Int /\ Arrives(Halt(t, p), run) \in Int
  BY HaltTyped
<1>6. ASSUME i <= e, e < k PROVE FALSE
  <2>1. e \in i..k /\ k \in i..k
    BY <1>2, <1>6
  <2>2. QED
    BY <1>1, <1>3, <1>5, <1>6, <2>1, SMTT(60)
<1>7. ASSUME e < i, i < g PROVE FALSE
  <2> DEFINE s == i - 1
  <2>1. s \in e..(g - 1) /\ s + 1 = i /\ e \in e..g /\ i \in e..g
    BY <1>2, <1>7
  <2>2. s \in Route(t)
    BY <1>1, <1>2, <2>1
  <2>3. i \in i..k /\ k \in i..k
    BY <1>1, <1>2
  <2> HIDE DEF s
  <2>4. Segment(t, s) > 0 /\ Segment(t, i) > 0 /\ i + 1 \in Route(t)
    <3>1. i \in i..(k - 1) /\ i + 1 \in Route(t)
      BY <1>1, <1>2
    <3>2. QED
      BY <2>1, <3>1 DEF Ridable
  <2>5. Halt(t, i).arr # Missing
    BY <1>1, <2>1, <2>2, <2>4, RidesOn
  <2>6. Arrives(Halt(t, i), run) <= Departs(Halt(t, i), run)
    BY <1>1, <2>4, <2>5, RidesOn
  <2>7. Departs(Halt(t, e), run) < Arrives(Halt(t, i), run)
    BY <1>4, <1>7, <2>1
  <2>8. Departs(Halt(t, i), run) < Arrives(Halt(t, k), run)
    BY <1>1, <1>3, <2>3
  <2>9. QED
    BY <1>1, <1>5, <2>6, <2>7, <2>8, SMTT(60)
<1>8. k <= e \/ g <= i
  BY <1>2, <1>6, <1>7
<1>9. QED
  BY <1>8, RideEnds

-----------------------------------------------------------------------------
\* What stands behind a ticket with seats

From(x)    == LastCall(x.train, x.from)
Into(x)    == IndexOf(x.train, x.to)
CoachOf(x) == <<x.train, x.run, x.coach>>

Sound(x, q) ==
  /\ x.train \in Trains /\ x.run \in Int /\ x.coach \in Reservable(x.train)
  /\ Ridable(x.train, From(x), Into(x))
  /\ Code(x.train, From(x)) = x.from /\ Code(x.train, Into(x)) = x.to
  /\ Halt(x.train, From(x)).dep # Missing /\ Operates(x.train, x.run)
  /\ x.dep = Departs(Halt(x.train, From(x)), x.run)
  /\ x.arr = Arrives(Halt(x.train, Into(x)), x.run)
  /\ q.date * Day <= x.dep /\ x.dep < x.arr /\ x.arr < (q.date + MaxJourneyDays + 1) * Day
  /\ CoachOf(x) \in Coaches
  /\ x.seats \in Seq(Seats) /\ Len(x.seats) = q.count
  /\ \A a, b \in DOMAIN x.seats : a # b => x.seats[a] # x.seats[b]
  /\ \A a \in DOMAIN x.seats :
       Seed[CoachOf(x)][x.seats[a]] \cap Between(x.train, From(x), Into(x)) = {}

\* The first seats of a set are different seats.
LEMMA SeatsDiffer ==
  ASSUME NEW S \in SUBSET Seats, NEW n \in Nat
  PROVE  \A a, b \in DOMAIN FirstSeats(S, n) : a # b => FirstSeats(S, n)[a] # FirstSeats(S, n)[b]
<1>1. IsFiniteSet(S) /\ S \subseteq Int /\ Cardinality(S) \in Nat
  <2>1. IsFiniteSet(Seats)
    BY SearchAssumption
  <2>2. Seats \subseteq Nat
    BY InventoryAssumption
  <2>3. IsFiniteSet(S)
    BY <2>1, FS_Subset
  <2>4. S \subseteq Int
    BY <2>2
  <2>5. QED
    BY <2>3, <2>4, FS_CardinalityType
<1>2. CASE Cardinality(S) < n
  BY <1>2 DEF FirstSeats
<1>3. CASE n <= Cardinality(S)
  <2>1. FirstSeats(S, n) = FirstFree(S, n) /\ DOMAIN FirstFree(S, n) = 1..n
    BY <1>1, <1>3 DEF FirstSeats, FirstFree
  <2>2. ASSUME NEW k \in 1..n PROVE Cardinality({t \in S : t < FirstFree(S, n)[k]}) = k - 1
    <3>1. k \in 1..Cardinality(S)
      BY <1>1, <1>3
    <3>2. \E s \in S : Cardinality({t \in S : t < s}) = k - 1
      BY <1>1, <3>1, PlacesTaken
    <3>3. FirstFree(S, n)[k] = CHOOSE s \in S : Cardinality({t \in S : t < s}) = k - 1
      BY DEF FirstFree
    <3>4. QED
      BY <3>2, <3>3
  <2>3. ASSUME NEW a \in 1..n, NEW b \in 1..n, FirstFree(S, n)[a] = FirstFree(S, n)[b] PROVE a = b
    <3>1. a - 1 = b - 1
      BY <2>2, <2>3
    <3>2. QED
      BY <3>1
  <2>4. QED
    BY <2>1, <2>3
<1>4. QED
  BY <1>1, <1>2, <1>3

\* The seats offered are different free seats, one for everyone.
LEMMA SeatsChosen ==
  ASSUME NEW masks, NEW j, NEW q, NEW c, NEW i, NEW k, q.count \in Nat,
         NEW seats, seats = SeatsIn(masks, j, q, c, i, k), seats # <<>>
  PROVE  /\ seats \in Seq(Seats) /\ Len(seats) = q.count
         /\ \A a, b \in DOMAIN seats : a # b => seats[a] # seats[b]
         /\ \A a \in DOMAIN seats : seats[a] \in Free(masks, c, i, k)
<1> DEFINE free  == Free(masks, c, i, k)
           rest  == free \ Range(Previous(j).seats)
<1>1. free \in SUBSET Seats /\ rest \in SUBSET free
  BY DEF Free, FreeOver
<1>2. seats \in {FirstSeats(rest, q.count), FirstSeats(free, q.count)}
  BY DEF SeatsIn
<1> HIDE DEF free, rest
<1>3. PICK S \in SUBSET free : seats = FirstSeats(S, q.count)
  BY <1>1, <1>2
<1>4. S \in SUBSET Seats
  BY <1>1
<1>6. /\ seats \in Seq(Seats) /\ Len(seats) = q.count
      /\ \A a \in DOMAIN seats : seats[a] \in S
  BY <1>3, <1>4, SeatsNamed
<1>7. \A a, b \in DOMAIN seats : a # b => seats[a] # seats[b]
  BY <1>3, <1>4, SeatsDiffer
<1>8. QED
  BY <1>3, <1>6, <1>7 DEF free

\* A clock time is a time of its own day.
LEMMA DayOf ==
  ASSUME NEW a \in Int, NEW b \in Int, NEW c \in 0..(Day - 1)
  PROVE  /\ DateOf(a * Day + c) = a /\ a * Day <= a * Day + c
         /\ b * Day <= a * Day + c => b <= a
         /\ a * Day + c < b * Day => a < b
<1>1. c \in Int /\ 0 <= c /\ c < 1440
  BY DEF Day
<1>2. (a * 1440 + c) \div 1440 = a
  BY <1>1
<1>3. a * 1440 <= a * 1440 + c
  BY <1>1
<1>4. b * 1440 <= a * 1440 + c => b <= a
  BY <1>1
<1>5. a * 1440 + c < b * 1440 => a < b
  BY <1>1
<1>6. QED
  BY <1>2, <1>3, <1>4, <1>5 DEF Day, DateOf

\* A coach of a train that is boarded in the days of the search is known.
LEMMA CoachKnown ==
  ASSUME NEW q, q.date \in FirstDay..LastDay, NEW t \in Trains, NEW i \in Route(t), NEW run \in Int,
         NEW code \in Reservable(t), Operates(t, run), Halt(t, i).dep # Missing,
         q.date * Day <= Departs(Halt(t, i), run),
         Departs(Halt(t, i), run) < (q.date + MaxJourneyDays + 1) * Day
  PROVE  /\ <<t, run, code>> \in Coaches
         /\ q.date - DaysBefore(t, i) <= run /\ run <= q.date + MaxJourneyDays
<1>1. /\ DaysBefore(t, i) \in Nat /\ Departs(Halt(t, i), run) = (run + DaysBefore(t, i)) * Day + Halt(t, i).dep
  BY DaysTyped
<1>2. Halt(t, i).dep \in 0..(Day - 1)
  BY HaltTyped DEF Clock
<1>3. q.date \in Int /\ MaxJourneyDays \in Nat /\ FirstDay \in Int /\ LastDay \in Int
  BY SearchAssumption, TimetableAssumption
<1> DEFINE d == run + DaysBefore(t, i)
           e == q.date + MaxJourneyDays + 1
<1>4. d \in Int /\ e \in Int
  BY <1>1, <1>3
<1>5. Departs(Halt(t, i), run) = d * Day + Halt(t, i).dep
  BY <1>1
<1>55. q.date * Day <= d * Day + Halt(t, i).dep /\ d * Day + Halt(t, i).dep < e * Day
  BY <1>5
<1> HIDE DEF d, e
<1>6. q.date <= d /\ d < e
  BY <1>2, <1>3, <1>4, <1>55, DayOf
<1>7. q.date - DaysBefore(t, i) <= run /\ run <= q.date + MaxJourneyDays
  BY <1>1, <1>3, <1>6 DEF d, e
<1>8. run \in (FirstDay - DaysBefore(t, i))..(LastDay + MaxJourneyDays)
  BY <1>1, <1>3, <1>7
<1>9. QED
  BY <1>7, <1>8, SearchAssumption

\* What the seed layer holds is read with the rest.
Covers(mask, c) == \A s \in Seats : Seed[c][s] \subseteq mask[s]

Behind(masks, j, q, x, c, t, run, i, k) ==
  /\ x.seats # <<>> => Sound(x, q)
  /\ From(x) = i /\ Into(x) = k /\ CoachOf(x) = c /\ c \in Coaches
  /\ \A a \in DOMAIN x.seats : x.seats # <<>> => x.seats[a] \in Free(masks, c, i, k)
  /\ q.date * Day <= x.arr
  /\ j.tickets # <<>> /\ Last(j.tickets).train = x.train => x.run = Last(j.tickets).run
  /\ j.tickets = <<>> => DateOf(x.dep) = q.date /\ run = q.date - DaysBefore(t, i)

\* The ticket of a ride has it behind it.
LEMMA RideBehind ==
  ASSUME NEW q \in Queries, q.date \in FirstDay..LastDay, NEW m, NEW masks, NEW j, Seated(j, q, m),
         j.at \in Places(q), j.arrives \in Int, q.date * Day <= j.arrives,
         NEW t, NEW run, NEW code, NEW i, NEW k, Taken(masks, j, q, m, t, run, code, i, k),
         NEW c, c = <<t, run, code>>, c \in Coaches => Covers(masks[c], c),
         NEW x, x = Ridden(masks, j, q, t, run, code, i, k)
  PROVE  Behind(masks, j, q, x, c, t, run, i, k)
<1> DEFINE left == Departs(Halt(t, i), run)
<1>1. q.date \in Int /\ q.count \in Nat /\ j.tickets \in Seq(Tickets(q))
      /\ MinSeatChange \in Nat /\ MinTrainChange \in Nat
  BY QueriesAssumption, SearchAssumption DEF Seated, Chain
<1>2. /\ x.train = t /\ x.run = run /\ x.from = j.at /\ x.to = Code(t, k) /\ x.coach = code
      /\ x.dep = left /\ x.arr = Arrives(Halt(t, k), run)
      /\ x.seats = SeatsIn(masks, j, q, c, i, k)
  BY DEF Ridden
<1>3. /\ t \in Trains /\ i \in Route(t) /\ k \in Route(t) /\ i < k
      /\ Code(t, i) = j.at /\ Code(t, k) # j.at
      /\ \A s \in i..(k - 1) : s + 1 \in Route(t) /\ Segment(t, s) > 0
      /\ IndexOf(t, Code(t, k)) = k
  BY RideForward
<1>4. /\ Boards(j, q, m, t, i) /\ run \in RunDates(j, q, t, i) /\ Catches(j, t, i, run)
      /\ k \in Stretches(j, q, m, t, i, run)
      /\ code \in Reservable(t) /\ Offers(masks, j, q, c, i, k)
  BY DEF Taken
<1>5. LastCall(t, Code(t, i)) = i /\ Ridable(t, i, k)
  <2>1. i \in i..(k - 1)
    BY <1>3, TimetableAssumption DEF Route
  <2>2. LastCall(t, Code(t, i)) = i
    BY <1>3, <2>1, RiddenFrom
  <2>3. QED
    BY <1>3, <2>2 DEF Ridable
<1>6. From(x) = i /\ Into(x) = k /\ CoachOf(x) = c
  BY <1>2, <1>3, <1>5 DEF From, Into, CoachOf
<1>7. DaysBefore(t, i) \in Nat
  BY <1>3, DaysTyped
<1>8. j.tickets # <<>> /\ Continues(j, t) => Last(j.tickets).run = run
  BY <1>4 DEF RunDates, Previous
<1>9. run \in Int
  <2>1. j.tickets # <<>> => Previous(j).run \in Int
    BY <1>1, LastTicket DEF Previous, Tickets
  <2>2. DateOf(j.arrives) \in Int
    BY DEF DateOf, Day
  <2>3. \/ Continues(j, t) /\ run = Previous(j).run
        \/ \E wait \in {0, 1} : run = DateOf(j.arrives) + wait - DaysBefore(t, i)
        \/ run = q.date - DaysBefore(t, i)
    BY <1>4 DEF RunDates
  <2>4. QED
    BY <1>1, <1>7, <2>1, <2>2, <2>3, SMTT(60) DEF Continues
<1>10. left \in Int /\ Halt(t, i).dep # Missing /\ left = (run + DaysBefore(t, i)) * Day + Halt(t, i).dep
  <2>1. left # Missing /\ left \in Int
    BY <1>3, <1>4, <1>9, HaltTyped DEF Catches
  <2>2. QED
    BY <1>3, <2>1, DaysTyped
<1>11. Halt(t, i).dep \in 0..(Day - 1)
  BY <1>3, <1>10, HaltTyped DEF Clock
<1>12. j.tickets = <<>> => /\ run = q.date - DaysBefore(t, i) /\ left = q.date * Day + Halt(t, i).dep
                           /\ DateOf(left) = q.date
  <2> SUFFICES ASSUME j.tickets = <<>>
               PROVE  /\ run = q.date - DaysBefore(t, i) /\ left = q.date * Day + Halt(t, i).dep
                      /\ DateOf(left) = q.date
    OBVIOUS
  <2>1. run = q.date - DaysBefore(t, i)
    BY <1>4 DEF RunDates, Continues
  <2>2. run + DaysBefore(t, i) = q.date
    BY <1>1, <1>7, <2>1
  <2>3. left = q.date * Day + Halt(t, i).dep
    BY <1>10, <2>2
  <2> HIDE DEF left
  <2>4. DateOf(left) = q.date
    BY <1>1, <1>11, <2>3, DayOf
  <2>5. QED
    BY <2>1, <2>3, <2>4
<1>13. q.date * Day <= left
  <2>1. CASE j.tickets = <<>>
    BY <1>1, <1>11, <1>12, <2>1, DayOf
  <2>2. CASE j.tickets # <<>>
    <3>1. left - j.arrives >= (IF Continues(j, t) THEN MinSeatChange ELSE MinTrainChange)
      BY <1>4, <2>2 DEF Catches
    <3>2. left >= j.arrives
      BY <1>1, <1>10, <3>1, SMTT(60)
    <3>3. QED
      BY <1>1, <1>10, <3>2 DEF Day
  <2>3. QED
    BY <2>1, <2>2
<1>14. left < x.arr /\ x.arr < (q.date + MaxJourneyDays + 1) * Day /\ x.arr \in Int
  BY <1>2, <1>3, <1>4, <1>9, HaltTyped DEF Stretches, Alights
<1>15. Operates(t, run)
  BY <1>4 DEF Catches
<1>16. c \in Coaches
  <2>1. left < (q.date + MaxJourneyDays + 1) * Day
    BY <1>1, <1>10, <1>14, SearchAssumption, SMTT(30) DEF Day
  <2>2. QED
    BY <1>3, <1>4, <1>9, <1>10, <1>13, <1>15, <2>1, CoachKnown
<1>17. ASSUME x.seats # <<>>
       PROVE  Sound(x, q) /\ \A a \in DOMAIN x.seats : x.seats[a] \in Free(masks, c, i, k)
  <2>1. /\ x.seats \in Seq(Seats) /\ Len(x.seats) = q.count
        /\ \A a, b \in DOMAIN x.seats : a # b => x.seats[a] # x.seats[b]
        /\ \A a \in DOMAIN x.seats : x.seats[a] \in Free(masks, c, i, k)
    BY <1>1, <1>2, <1>17, SeatsChosen, SMTT(60)
  <2>2. ASSUME NEW a \in DOMAIN x.seats PROVE Seed[c][x.seats[a]] \cap Between(t, i, k) = {}
    <3>1. x.seats[a] \in Seats /\ masks[c][x.seats[a]] \cap Between(t, i, k) = {}
      BY <2>1 DEF Free, FreeOver
    <3>2. Seed[c][x.seats[a]] \subseteq masks[c][x.seats[a]]
      BY <1>16, <3>1 DEF Covers
    <3>3. QED
      BY <3>1, <3>2
  <2>3. QED
    BY <1>2, <1>3, <1>4, <1>5, <1>6, <1>9, <1>10, <1>13, <1>14, <1>15, <1>16, <2>1, <2>2 DEF Sound
<1>18. q.date * Day <= x.arr
  BY <1>1, <1>10, <1>13, <1>14 DEF Day
<1>19. j.tickets # <<>> /\ Last(j.tickets).train = x.train => x.run = Last(j.tickets).run
  BY <1>2, <1>8 DEF Continues, Previous
<1>20. QED
  BY <1>2, <1>6, <1>12, <1>16, <1>17, <1>18, <1>19 DEF Behind

-----------------------------------------------------------------------------
\* What is known of a journey and of the inventory it was made with

\* What stands behind the tickets of a journey by legs.
Certain(j, q) ==
  /\ \A i \in TicketsOf(j) : j.tickets[i].seats # <<>> => Sound(j.tickets[i], q)
  /\ \A i \in Changes(j) :
       j.tickets[i].train = j.tickets[i + 1].train => j.tickets[i].run = j.tickets[i + 1].run
  /\ j.tickets # <<>> => DateOf(j.tickets[1].dep) = q.date

\* Halt by halt no seats are named.
Seatless(j) == \A i \in TicketsOf(j) : j.tickets[i].seats = <<>>

\* What rows leave of a coach, and whether they leave a journey its seats.
ReadOf(table, coach) == [s \in Seats |-> Occupied(table, coach, s)]

FreeLeg(table, leg) == Range(leg.seats) \subseteq Available(table, leg.coach, leg.from, leg.to)
FreeIn(table, j)    == \A i \in TicketsOf(j) : FreeLeg(table, LegOf(j.tickets[i]))

\* Every coach of the departures that come is being read, or has been.
Awaited(j, q, m, read, waiting) ==
  \A d \in Departures(j, q, m) : \A c \in Coaches :
    RunOf[c] = <<d[1], d[3]>> => c \in Range(waiting) \/ read[c] # Unread \/ Seats = {}

Listed == \E S : rows \in Seq(S)

Seating ==
  /\ phase # "idle" => query.date \in FirstDay..LastDay
  /\ phase \in {"idle", "halt", "call"} => inv = Empty /\ Seatless(journey)
  /\ phase = "leg" => Certain(journey, query) /\ query.date * Day <= journey.arrives
  /\ phase = "offer" => Certain(journey, query) \/ Seatless(journey)
  /\ phase = "leg" /\ ~IsGoal(journey, query) => Awaited(journey, query, mode, inv, due)
  /\ \A c \in Coaches : inv[c] # Unread => Covers(inv[c], c)
  /\ version = asked /\ phase \in {"leg", "offer"} =>
       FreeIn(rows, journey) /\ \A c \in Coaches : inv[c] \in {Unread, ReadOf(rows, c)}

LEMMA SeatlessFree == ASSUME NEW table, NEW j, Seatless(j) PROVE FreeIn(table, j)
<1> SUFFICES ASSUME NEW i \in TicketsOf(j) PROVE FreeLeg(table, LegOf(j.tickets[i]))
  BY DEF FreeIn
<1>1. LegOf(j.tickets[i]).seats = <<>>
  BY DEF Seatless, LegOf
<1>2. QED
  BY <1>1 DEF FreeLeg, Range

LEMMA StartKnown ==
  ASSUME NEW q \in Queries, q.date \in Int
  PROVE  LET j == InitialState(q)
         IN  Certain(j, q) /\ Seatless(j) /\ q.date * Day <= j.arrives
<1> DEFINE j == InitialState(q)
<1>1. j.tickets = <<>> /\ j.arrives = q.date * Day
  BY DEF InitialState
<1>2. TicketsOf(j) = {} /\ Changes(j) = {}
  BY <1>1 DEF TicketsOf, Changes
<1>3. q.date * Day <= q.date * Day
  BY DEF Day
<1>4. QED
  BY <1>1, <1>2, <1>3 DEF Certain, Seatless

\* A ticket more stands on what it was made of.
LEMMA CertainGrows ==
  ASSUME NEW S, NEW q, NEW j, NEW x, NEW h, j.tickets \in Seq(S), x \in S, Certain(j, q),
         h.tickets = Append(j.tickets, x),
         x.seats # <<>> => Sound(x, q),
         j.tickets # <<>> /\ Last(j.tickets).train = x.train => x.run = Last(j.tickets).run,
         j.tickets = <<>> => DateOf(x.dep) = q.date
  PROVE  Certain(h, q)
<1> DEFINE n == Len(j.tickets)
<1>1. /\ n \in Nat /\ Len(h.tickets) = n + 1 /\ h.tickets[n + 1] = x
      /\ \A i \in 1..n : h.tickets[i] = j.tickets[i]
      /\ j.tickets # <<>> => n >= 1 /\ Last(j.tickets) = j.tickets[n]
      /\ j.tickets = <<>> => n = 0
  BY DEF Last
<1>2. TicketsOf(h) = (1..n) \cup {n + 1} /\ TicketsOf(j) = 1..n
  BY <1>1 DEF TicketsOf
<1>3. \A i \in TicketsOf(h) : h.tickets[i].seats # <<>> => Sound(h.tickets[i], q)
  BY <1>1, <1>2 DEF Certain
<1>4. ASSUME NEW i \in Changes(h), h.tickets[i].train = h.tickets[i + 1].train
      PROVE  h.tickets[i].run = h.tickets[i + 1].run
  <2>1. i \in 1..n
    BY <1>1 DEF Changes
  <2>2. CASE i = n
    BY <1>1, <1>4, <2>1, <2>2
  <2>3. CASE i # n
    <3>1. i \in Changes(j) /\ i + 1 \in 1..n
      BY <1>1, <2>1, <2>3 DEF Changes
    <3>2. QED
      BY <1>1, <1>4, <2>1, <3>1 DEF Certain
  <2>4. QED
    BY <2>2, <2>3
<1>5. DateOf(h.tickets[1].dep) = q.date
  BY <1>1 DEF Certain
<1>6. QED
  BY <1>3, <1>4, <1>5 DEF Certain

\* The ledger looks at the segments the inventory looked at.
LEMMA LegSpan ==
  ASSUME NEW t \in Trains, NEW i \in Route(t), NEW k \in Route(t), NEW x,
         x.train = t, x.from = Code(t, i), x.to = Code(t, k)
  PROVE  /\ Span(LegOf(x).from, LegOf(x).to) = Between(t, i, k)
         /\ LegOf(x).coach = CoachOf(x) /\ LegOf(x).seats = x.seats /\ LegOf(x).auto = FALSE
<1>1. LastCalls[t][i] = LastCall(t, Code(t, i)) /\ LastCalls[t][k] = LastCall(t, Code(t, k))
  BY HaltTwice
<1>2. QED
  BY <1>1 DEF Between, LegOf, CoachOf

\* Seats chosen from what the ledger holds now are free in it.
LEMMA RideFree ==
  ASSUME NEW table, NEW masks, NEW t \in Trains, NEW i \in Route(t), NEW k \in Route(t), NEW x,
         x.train = t, x.from = Code(t, i), x.to = Code(t, k), x.seats \in Seq(Seats),
         x.seats # <<>> => masks[CoachOf(x)] = ReadOf(table, CoachOf(x)),
         \A a \in DOMAIN x.seats : x.seats # <<>> => x.seats[a] \in Free(masks, CoachOf(x), i, k)
  PROVE  FreeLeg(table, LegOf(x))
<1>1. /\ Span(LegOf(x).from, LegOf(x).to) = Between(t, i, k)
      /\ LegOf(x).coach = CoachOf(x) /\ LegOf(x).seats = x.seats
  BY LegSpan, ZenonT(60)
<1>2. CoachOf(x)[1] = t
  BY DEF CoachOf
<1> SUFFICES ASSUME NEW s \in Range(x.seats)
             PROVE  s \in Available(table, CoachOf(x), LegOf(x).from, LegOf(x).to)
  BY <1>1 DEF FreeLeg
<1>3. PICK a \in DOMAIN x.seats : s = x.seats[a]
  BY DEF Range
<1>4. x.seats # <<>>
  BY <1>3
<1>5. s \in Free(masks, CoachOf(x), i, k)
  BY <1>3, <1>4
<1>6. s \in Seats /\ masks[CoachOf(x)][s] \cap Between(t, i, k) = {}
  BY <1>2, <1>5 DEF Free, FreeOver
<1>7. masks[CoachOf(x)][s] = Occupied(table, CoachOf(x), s)
  BY <1>4, <1>6 DEF ReadOf
<1>8. QED
  BY <1>1, <1>6, <1>7 DEF Available

LEMMA FreeGrows ==
  ASSUME NEW S, NEW table, NEW j, NEW x, NEW h, j.tickets \in Seq(S), x \in S,
         h.tickets = Append(j.tickets, x), FreeIn(table, j), FreeLeg(table, LegOf(x))
  PROVE  FreeIn(table, h)
<1> DEFINE n == Len(j.tickets)
<1>1. /\ n \in Nat /\ Len(h.tickets) = n + 1 /\ h.tickets[n + 1] = x
      /\ \A i \in 1..n : h.tickets[i] = j.tickets[i]
  OBVIOUS
<1>2. TicketsOf(h) = (1..n) \cup {n + 1} /\ TicketsOf(j) = 1..n
  BY <1>1 DEF TicketsOf
<1>3. QED
  BY <1>1, <1>2 DEF FreeIn

-----------------------------------------------------------------------------
\* The stages of an itinerary's transaction

Stages(legs, n, f) ==
  /\ DOMAIN f = 0..n /\ f = [k \in 0..n |-> f[k]]
  /\ f[0] = [ok |-> TRUE, rows |-> rows, made |-> <<>>]
  /\ \A k \in 1..n : f[k] = AddLeg(f[k - 1], legs[k])

LEMMA StagesExist ==
  ASSUME NEW legs, NEW n \in Nat
  PROVE  \E f : Stages(legs, n, f)
<1> DEFINE start == [ok |-> TRUE, rows |-> rows, made |-> <<>>]
           T == {k \in Nat : \E f : Stages(legs, k, f)}
<1>1. 0 \in T
  <2> DEFINE f == [k \in 0..0 |-> start]
  <2>1. DOMAIN f = 0..0 /\ f = [k \in 0..0 |-> f[k]] /\ f[0] = start
    <3> HIDE DEF start
    <3> QED
      OBVIOUS
  <2>2. 1..0 = {}
    OBVIOUS
  <2>3. Stages(legs, 0, f)
    BY <2>1, <2>2 DEF Stages
  <2>4. QED
    BY <2>3
<1>2. ASSUME NEW k \in Nat, k \in T PROVE k + 1 \in T
  <2>1. PICK f : Stages(legs, k, f)
    BY <1>2
  <2> DEFINE last == AddLeg(f[k], legs[k + 1])
             g == [m \in 0..(k + 1) |-> IF m = k + 1 THEN last ELSE f[m]]
  <2> HIDE DEF start
  <2>2. f[0] = start /\ \A m \in 1..k : f[m] = AddLeg(f[m - 1], legs[m])
    BY <2>1 DEF Stages, start
  <2>3. g[0] = start /\ DOMAIN g = 0..(k + 1) /\ g[k + 1] = last /\ \A m \in 0..k : g[m] = f[m]
    <3> HIDE DEF last
    <3> QED
      BY <2>2
  <2>4. g = [m \in 0..(k + 1) |-> g[m]]
    <3> HIDE DEF last
    <3> QED
      OBVIOUS
  <2> HIDE DEF g
  <2>5. ASSUME NEW m \in 1..(k + 1) PROVE g[m] = AddLeg(g[m - 1], legs[m])
    <3>1. g[m - 1] = f[m - 1]
      BY <2>3
    <3>2. CASE m = k + 1
      <4>1. m - 1 = k
        BY <3>2
      <4>2. QED
        BY <2>3, <3>1, <3>2, <4>1
    <3>3. CASE m # k + 1
      <4>1. m \in 1..k /\ g[m] = f[m]
        BY <2>3, <3>3
      <4>2. QED
        BY <2>2, <3>1, <4>1
    <3>4. QED
      BY <3>2, <3>3
  <2>6. Stages(legs, k + 1, g)
    BY <2>3, <2>4, <2>5 DEF Stages, start
  <2>7. QED
    BY <2>6
<1>3. Nat \subseteq T
  <2> HIDE DEF T
  <2> QED
    BY <1>1, <1>2, SetInduction
<1>4. QED
  BY <1>3

\* Booking an itinerary is the last of its stages.
LEMMA BookedStages ==
  ASSUME NEW legs, Len(legs) \in Nat
  PROVE  \E f : Stages(legs, Len(legs), f) /\ Booked(legs) = f[Len(legs)]
<1> DEFINE n == Len(legs)
           Eq(f) == f = [k \in 0..n |->
                           IF k = 0 THEN [ok |-> TRUE, rows |-> rows, made |-> <<>>]
                           ELSE AddLeg(f[k - 1], legs[k])]
           t == CHOOSE f : Eq(f)
<1>1. Booked(legs) = t[n]
  BY Zenon DEF Booked
<1>2. PICK f : Stages(legs, n, f)
  BY StagesExist
<1>3. Eq(f)
  <2>1. \A k \in 0..n : k # 0 => k \in 1..n
    OBVIOUS
  <2>2. \A k \in 0..n : f[k] = IF k = 0 THEN [ok |-> TRUE, rows |-> rows, made |-> <<>>]
                               ELSE AddLeg(f[k - 1], legs[k])
    BY <1>2, <2>1, Zenon DEF Stages
  <2>3. f = [k \in 0..n |-> f[k]]
    BY <1>2 DEF Stages
  <2>4. QED
    BY <2>2, <2>3, Zenon
<1>4. Eq(t)
  BY <1>3, Zenon
<1> HIDE DEF t
<1>5. Stages(legs, n, t)
  <2>1. 0 \in 0..n /\ \A k \in 1..n : k \in 0..n /\ k # 0
    OBVIOUS
  <2>2. t[0] = [ok |-> TRUE, rows |-> rows, made |-> <<>>]
    BY <1>4, <2>1, Zenon
  <2>3. \A k \in 1..n : t[k] = AddLeg(t[k - 1], legs[k])
    BY <1>4, <2>1, Zenon
  <2>4. DOMAIN t = 0..n /\ t = [k \in 0..n |-> t[k]]
    BY <1>4, Zenon
  <2>5. QED
    BY <2>2, <2>3, <2>4, Zenon DEF Stages
<1>6. QED
  BY <1>1, <1>5

\* What an itinerary leaves behind is a list of rows, whether it succeeds or not.
LEMMA BookedListed ==
  ASSUME NEW legs, Len(legs) \in Nat, Listed
  PROVE  \E S : Booked(legs).rows \in Seq(S)
<1> DEFINE n == Len(legs)
<1>1. PICK f : Stages(legs, n, f) /\ Booked(legs) = f[n]
  BY BookedStages
<1> HIDE DEF n
<1>2. /\ n \in Nat /\ f[0] = [ok |-> TRUE, rows |-> rows, made |-> <<>>]
      /\ \A k \in 1..n : f[k] = AddLeg(f[k - 1], legs[k])
  BY <1>1 DEF Stages, n
<1> DEFINE Good(x) == \E S : x.rows \in Seq(S)
           T == {k \in Nat : k <= n => Good(f[k])}
<1>3. 0 \in T
  BY <1>2 DEF Listed
<1>4. ASSUME NEW x, Good(x), NEW leg PROVE Good(AddLeg(x, leg))
  <2> DEFINE row == Ledger!NewRow(x.rows, leg, query.count, "J")
  <2>1. \/ AddLeg(x, leg) = x \/ AddLeg(x, leg).rows = x.rows
        \/ AddLeg(x, leg).rows = Append(x.rows, row)
    <3>1. CASE ~x.ok
      BY <3>1 DEF AddLeg
    <3>2. CASE x.ok /\ Ledger!Bookable(x.rows, leg, query.count, "J") /\ Ledger!Follows(x.rows, x.made, row)
      BY <3>2, Zenon DEF AddLeg
    <3>3. CASE x.ok /\ ~(Ledger!Bookable(x.rows, leg, query.count, "J") /\ Ledger!Follows(x.rows, x.made, row))
      <4>1. AddLeg(x, leg) = [x EXCEPT !.ok = FALSE]
        BY <3>3, Zenon DEF AddLeg
      <4>2. QED
        BY <4>1
    <3>4. QED
      BY <3>1, <3>2, <3>3
  <2> HIDE DEF row
  <2>2. PICK S : x.rows \in Seq(S)
    BY <1>4
  <2>3. x.rows \in Seq(S \cup {row})
    BY <2>2
  <2>4. Append(x.rows, row) \in Seq(S \cup {row})
    BY <2>3
  <2>5. QED
    BY <2>1, <2>2, <2>4
<1> HIDE DEF Good
<1>5. ASSUME NEW k \in Nat, k \in T PROVE k + 1 \in T
  <2> SUFFICES ASSUME k + 1 <= n PROVE Good(f[k + 1])
    OBVIOUS
  <2>1. k + 1 \in 1..n /\ (k + 1) - 1 = k
    BY <1>2
  <2>2. f[k + 1] = AddLeg(f[k], legs[k + 1])
    BY <1>2, <2>1
  <2>3. Good(f[k])
    BY <1>2, <1>5
  <2>4. QED
    BY <1>4, <2>2, <2>3
<1>6. n \in T
  <2> HIDE DEF T
  <2> QED
    BY <1>2, <1>3, <1>5, SetInduction
<1>7. QED
  BY <1>1, <1>2, <1>6 DEF Good

LEMMA LegsCounted ==
  ASSUME NEW S, NEW j, j.tickets \in Seq(S)
  PROVE  /\ Len(LegsOf(j)) = Len(j.tickets) /\ Len(LegsOf(j)) \in Nat
         /\ \A i \in TicketsOf(j) : LegsOf(j)[i] = LegOf(j.tickets[i])
<1> DEFINE n == Len(j.tickets)
           l == LegsOf(j)
<1>1. n \in Nat /\ DOMAIN j.tickets = 1..n
  OBVIOUS
<1> HIDE DEF n
<1>2. l = [i \in 1..n |-> LegOf(j.tickets[i])]
  BY <1>1 DEF LegsOf
<1>3. l \in Seq({LegOf(j.tickets[i]) : i \in 1..n}) /\ DOMAIN l = 1..n
  BY <1>1, <1>2
<1>4. Len(l) = n
  BY <1>1, <1>3
<1>5. QED
  BY <1>1, <1>2, <1>4 DEF n, TicketsOf

-----------------------------------------------------------------------------
\* How the steps keep it

LEMMA ListedStep == Journeying /\ Listed /\ [Next]_vars => Listed'
<1> SUFFICES ASSUME Journeying, Listed, [Next]_vars PROVE Listed'
  OBVIOUS
<1>1. PICK S : rows \in Seq(S)
  BY DEF Listed
<1>2. CASE rows' = rows
  BY <1>1, <1>2 DEF Listed
<1>3. ASSUME NEW x, rows' = Append(rows, x) PROVE Listed'
  <2>1. rows \in Seq(S \cup {x})
    BY <1>1
  <2>2. rows' \in Seq(S \cup {x})
    BY <1>3, <2>1
  <2>3. QED
    BY <2>2 DEF Listed
<1>4. ASSUME NEW i \in DOMAIN rows, NEW x, rows' = [rows EXCEPT ![i] = x] PROVE Listed'
  <2>1. rows \in Seq(S \cup {x})
    BY <1>1
  <2>2. rows' \in Seq(S \cup {x})
    BY <1>4, <2>1
  <2>3. QED
    BY <2>2 DEF Listed
<1>5. CASE Book
  <2>1. Len(LegsOf(journey)) \in Nat
    BY LegsCounted DEF Journeying, Shaped
  <2>2. \E T : Booked(LegsOf(journey)).rows \in Seq(T)
    BY <2>1, BookedListed
  <2>3. rows' = Booked(LegsOf(journey)).rows
    BY <1>5 DEF Book, Commit
  <2>4. QED
    BY <2>2, <2>3 DEF Listed
<1>6. ASSUME NEW leg \in OthersLegs, OthersSell(leg) PROVE Listed'
  BY <1>3, <1>6 DEF OthersSell, Commit
<1>7. ASSUME NEW i \in DOMAIN rows, OthersCancel(i) PROVE Listed'
  <2>1. rows' = Ledger!Cancelled(rows, i)
    BY <1>7 DEF OthersCancel, Commit
  <2>2. rows' = [rows EXCEPT ![i] = [rows[i] EXCEPT !.status = "CANCELLED"]]
    BY <2>1 DEF Ledger!Cancelled
  <2>3. QED
    BY <1>4, <2>2
<1>8. QED
  BY <1>2, <1>5, <1>6, <1>7
  DEF Next, vars, ledgerVars, Ask, Call, ReadOwn, ReadKept, Ride, Board, Continue, ChangeCoach, ChangeTrain, Move,
      OfferSeats, OfferRide, Leave

LEMMA MovesSeatless ==
  ASSUME NEW S, NEW masks, NEW j, NEW q, NEW h, j.tickets \in Seq(S), Seatless(j),
         h.tickets \in {j.tickets, Append(j.tickets, Closing(masks, j, q))}
  PROVE  Seatless(h)
<1> DEFINE x == Closing(masks, j, q)
<1>1. x.seats = <<>>
  BY DEF Closing
<1> HIDE DEF x
<1>2. CASE h.tickets = j.tickets
  BY <1>2 DEF Seatless, TicketsOf
<1>3. CASE h.tickets = Append(j.tickets, x)
  <2> DEFINE n == Len(j.tickets)
  <2>1. /\ n \in Nat /\ Len(h.tickets) = n + 1 /\ h.tickets[n + 1] = x
        /\ \A i \in 1..n : h.tickets[i] = j.tickets[i]
    BY <1>3
  <2>2. TicketsOf(h) = (1..n) \cup {n + 1} /\ TicketsOf(j) = 1..n
    BY <2>1 DEF TicketsOf
  <2>3. QED
    BY <1>1, <2>1, <2>2 DEF Seatless
<1>4. QED
  BY <1>2, <1>3 DEF x

\* Halt by halt the tickets are what they were, or one that is closed is added.
LEMMA MovesClose ==
  ASSUME NEW masks, NEW j, NEW q, NEW m, Shaped(j, q),
         NEW h \in Boarding(masks, j, q, m) \cup Continuing(masks, j, q)
                   \cup ChangingCoach(masks, j, q) \cup ChangingTrain(masks, j, q)
                   \cup {Finished(masks, j, q)}
  PROVE  h.tickets \in {j.tickets, Append(j.tickets, Closing(masks, j, q))}
<1> DEFINE x == Closing(masks, j, q)
           g == [j EXCEPT !.tickets = Append(@, x)]
<1>0. /\ \A t, c, time : Onboard(j, t, c, time).tickets = j.tickets
      /\ \A t, c, time : Onboard(Changed(masks, j, q), t, c, time).tickets = Append(j.tickets, x)
      /\ g.tickets = Append(j.tickets, x)
  <2> HIDE DEF x
  <2> QED
    BY DEF Shaped, Onboard, Changed, x
<1>1. CASE h \in Boarding(masks, j, q, m)
  BY <1>0, <1>1, BoardsOnce
<1>2. CASE h \in Continuing(masks, j, q)
  BY <1>2 DEF Continuing, Shaped
<1>3. CASE h \in ChangingCoach(masks, j, q)
  <2>1. \E c : h = Onboard(Changed(masks, j, q), j.train, c, j.arrives)
    BY <1>3, Zenon DEF ChangingCoach
  <2>2. QED
    BY <1>0, <2>1
<1>4. CASE h \in ChangingTrain(masks, j, q)
  BY <1>0, <1>4, ConnectsOnce
<1>5. CASE h = Finished(masks, j, q)
  <2>1. h = j \/ h = g
    BY <1>5 DEF Finished
  <2>2. QED
    BY <1>0, <2>1
<1>6. QED
  BY <1>1, <1>2, <1>3, <1>4, <1>5

\* A coach that can be boarded is being read, if it has not been.
LEMMA DueAwaited ==
  ASSUME NEW j, NEW q, NEW m, ~IsGoal(j, q)
  PROVE  Awaited(j, q, m, inv, DueForLeg(j, q, m))
<1> DEFINE coming == {<<d[1], d[3]>> : d \in Departures(j, q, m)}
           S == {i \in DOMAIN Catalogue : RunOf[Catalogue[i]] \in coming /\ inv[Catalogue[i]] = Unread}
<1>1. S \in SUBSET (DOMAIN Catalogue)
  OBVIOUS
<1>2. DueForLeg(j, q, m) = Picked(Catalogue, S)
  BY DEF DueForLeg
<1>3. ASSUME NEW d \in Departures(j, q, m), NEW c \in Coaches, RunOf[c] = <<d[1], d[3]>>, inv[c] = Unread
      PROVE  \E i \in S : Catalogue[i] = c
  BY <1>3, CatalogueAssumption
<1> HIDE DEF S
<1>4. \A i \in S : Catalogue[i] \in Range(Picked(Catalogue, S))
  BY <1>1, DueTyped
<1>5. QED
  BY <1>2, <1>3, <1>4 DEF Awaited

LEMMA ReadTyped ==
  ASSUME NEW table, NEW c
  PROVE  /\ Seats # {} => ReadOf(table, c) # Unread
         /\ Covers(ReadOf(table, c), c)
<1>1. DOMAIN ReadOf(table, c) = Seats /\ DOMAIN Unread = {}
  BY DEF ReadOf, Unread
<1>2. QED
  BY <1>1 DEF ReadOf, Occupied, Covers

\* A ride's coach has been read.
LEMMA RunRead ==
  ASSUME NEW q, NEW m, NEW read, NEW j, Awaited(j, q, m, read, <<>>),
         NEW masks, NEW t, NEW run, NEW code, NEW i, NEW k, Taken(masks, j, q, m, t, run, code, i, k),
         NEW e, NEW d, d = <<t, run, e>>, d \in Coaches, Seats # {}
  PROVE  read[d] # Unread
<1>1. PICK z : z = <<t, i, run>>
  OBVIOUS
<1>2. /\ t \in Trains /\ i \in Calls(t, j.at) /\ Boards(j, q, m, t, i)
      /\ run \in RunDates(j, q, t, i) /\ Catches(j, t, i, run)
      /\ ~(j.tickets # <<>> /\ j.transfers >= q.maxTransfers)
  BY DEF Taken
<1>3. z \in Departures(j, q, m)
  <2> DEFINE At(u, b) == {<<u, b, r>> : r \in {r \in RunDates(j, q, u, b) : Catches(j, u, b, r)}}
             On(u)    == {b \in Calls(u, j.at) : Boards(j, q, m, u, b)}
  <2>1. Departures(j, q, m) = UNION {UNION {At(u, b) : b \in On(u)} : u \in Trains}
    BY <1>2, Zenon DEF Departures
  <2>2. z \in At(t, i) /\ i \in On(t)
    BY <1>1, <1>2, Zenon
  <2> HIDE DEF At, On
  <2>3. z \in UNION {At(t, b) : b \in On(t)}
    BY <2>2
  <2>4. QED
    BY <1>2, <2>1, <2>3
<1>4. RunOf[d] = <<z[1], z[3]>> /\ Range(<<>>) = {}
  BY <1>1, SearchAssumption, SMTT(30) DEF Range
<1>5. QED
  BY <1>3, <1>4 DEF Awaited

LEMMA RideRead ==
  ASSUME NEW q, NEW m, NEW read, NEW j, Awaited(j, q, m, read, <<>>),
         NEW masks, NEW t, NEW run, NEW code, NEW i, NEW k, Taken(masks, j, q, m, t, run, code, i, k),
         <<t, run, code>> \in Coaches, Seats # {}
  PROVE  read[<<t, run, code>>] # Unread
<1>1. code \in Reservable(t)
  BY DEF Taken
<1>2. QED
  BY RunRead

\* Riding on keeps all that is known of the tickets.
LEMMA RideKnown ==
  ASSUME NEW q \in Queries, q.date \in FirstDay..LastDay, NEW m, NEW masks, NEW j, Seated(j, q, m),
         j.at \in Places(q), j.arrives \in Int, q.date * Day <= j.arrives, Certain(j, q),
         Awaited(j, q, m, masks, <<>>),
         \A c \in Coaches : masks[c] # Unread => Covers(masks[c], c),
         NEW h \in SeatSuccessors(masks, j, q, m)
  PROVE  /\ Certain(h, q) /\ q.date * Day <= h.arrives
         /\ \A table : FreeIn(table, j) /\ (\A c \in Coaches : masks[c] \in {Unread, ReadOf(table, c)}) =>
              FreeIn(table, h)
<1>1. PICK t, run, code, i, k :
        Taken(masks, j, q, m, t, run, code, i, k) /\ h = LegTo(masks, j, q, <<t, run, code>>, i, k)
  BY RidesTaken
<1> DEFINE c == <<t, run, code>>
           x == Ridden(masks, j, q, t, run, code, i, k)
<1>2. h.tickets = Append(j.tickets, x) /\ h.arrives = x.arr
  <2>1. x.arr = Arrives(Halt(t, k), run)
    BY DEF Ridden
  <2> HIDE DEF x
  <2>2. h = [at |-> Code(t, k), arrives |-> Arrives(Halt(t, k), run), train |-> t, coach |-> code,
              tickets |-> Append(j.tickets, x), transfers |-> Len(j.tickets),
              moving |-> j.moving + SumFunction([s \in i..(k - 1) |-> Segment(t, s)]),
              closed |-> TRUE]
    BY <1>1, RideShape, ZenonT(60) DEF x
  <2>3. QED
    BY <2>1, <2>2
<1>3. /\ t \in Trains /\ i \in Route(t) /\ k \in Route(t) /\ Code(t, i) = j.at
  BY <1>1, RideForward
<1>4. /\ x.train = t /\ x.run = run /\ x.from = j.at /\ x.to = Code(t, k) /\ x.coach = code
      /\ x.seats = SeatsIn(masks, j, q, c, i, k)
  BY DEF Ridden
<1>5. x.seats \in Seq(Seats)
  BY <1>4, SeatsOffered, QueriesAssumption
<1>6. j.tickets \in Seq(Tickets(q))
  BY DEF Seated, Chain
<1> HIDE DEF x
<1>7. c \in Coaches => Covers(masks[c], c)
  BY <1>1, RideRead DEF Covers
<1>75. c = <<t, run, code>> /\ x = Ridden(masks, j, q, t, run, code, i, k)
  BY DEF c, x
<1> HIDE DEF c
<1>8. /\ x.seats # <<>> => Sound(x, q)
      /\ CoachOf(x) = c /\ c \in Coaches
      /\ \A a \in DOMAIN x.seats : x.seats # <<>> => x.seats[a] \in Free(masks, c, i, k)
      /\ q.date * Day <= x.arr
      /\ j.tickets # <<>> /\ Last(j.tickets).train = x.train => x.run = Last(j.tickets).run
      /\ j.tickets = <<>> => DateOf(x.dep) = q.date
  <2>1. Behind(masks, j, q, x, c, t, run, i, k)
    BY <1>1, <1>7, <1>75, RideBehind, Zenon
  <2>2. QED
    BY <2>1 DEF Behind
<1>9. j.tickets \in Seq(Tickets(q) \cup {x})
  BY <1>6
<1>10. Certain(h, q)
  BY <1>2, <1>8, <1>9, CertainGrows
<1>11. ASSUME NEW table, FreeIn(table, j), \A d \in Coaches : masks[d] \in {Unread, ReadOf(table, d)}
       PROVE  FreeIn(table, h)
  <2>1. x.seats # <<>> => masks[c] = ReadOf(table, c)
    <3> SUFFICES ASSUME x.seats # <<>> PROVE masks[c] # Unread
      BY <1>8, <1>11
    <3>1. x.seats[1] \in Seats
      BY <1>5
    <3>2. QED
      BY <1>1, <1>8, <3>1, RideRead DEF c
  <2>2. FreeLeg(table, LegOf(x))
    BY <1>3, <1>4, <1>5, <1>8, <2>1, RideFree
  <2>3. QED
    BY <1>2, <1>9, <1>11, <2>2, FreeGrows, SMTT(60)
<1>12. QED
  BY <1>2, <1>8, <1>10, <1>11

LEMMA SeatingInit == Init => Seating /\ Listed
<1> SUFFICES ASSUME Init PROVE Seating /\ Listed
  OBVIOUS
<1>1. Listed
  <2>1. \E S : rows \in Seq(S)
    <3>1. CASE rows = <<>>
      BY <3>1
    <3>2. ASSUME NEW x, rows = <<x>> PROVE rows \in Seq({x})
      BY <3>2
    <3>3. QED
      BY <3>1, <3>2 DEF Init
  <2>2. QED
    BY <2>1 DEF Listed
<1>2. phase = "idle" /\ inv = Empty /\ journey = InitialState(NoQuery) /\ NoQuery \in Queries
  BY QueriesAssumption DEF Init, NoQuery
<1>3. Seatless(journey)
  BY <1>2, StartKnown, QueriesAssumption
<1>4. \A c \in Coaches : inv[c] = Unread
  BY <1>2 DEF Empty
<1>5. QED
  BY <1>1, <1>2, <1>3, <1>4 DEF Seating

\* Nothing is known of an inventory that has not been read.
LEMMA EmptyKnown ==
  ASSUME NEW read, read = Empty
  PROVE  /\ \A c \in Coaches : read[c] # Unread => Covers(read[c], c)
         /\ \A table : \A c \in Coaches : read[c] \in {Unread, ReadOf(table, c)}
BY DEF Empty

LEMMA SeatingStep == Tasked /\ Journeying /\ Seating /\ [Next]_vars => Seating'
<1> SUFFICES ASSUME Tasked, Journeying, Seating, [Next]_vars PROVE Seating'
  OBVIOUS
<1>0. /\ query \in Queries /\ NoQuery \in Queries /\ version \in Int /\ asked \in Int /\ asked <= version
      /\ \A q \in Queries : q.date \in Int
      /\ journey.tickets \in Seq(Tickets(query))
  BY QueriesAssumption DEF Tasked, NoQuery, Journeying, Shaped
<1>1. CASE UNCHANGED <<rows, version, phase, query, mode, journey, due, inv, asked>>
  BY <1>1 DEF Seating
<1>2. ASSUME NEW new, Commit(new), UNCHANGED <<phase, query, mode, journey, due, inv, asked>> PROVE Seating'
  <2>1. version' = version + 1 /\ version' # asked'
    BY <1>0, <1>2 DEF Commit
  <2>2. QED
    BY <1>2, <2>1 DEF Seating
<1>3. CASE Closed
  <2>1. phase' = "idle" /\ journey' = InitialState(NoQuery) /\ inv' = Empty
    BY <1>3 DEF Closed
  <2>2. Seatless(journey')
    BY <1>0, <2>1, StartKnown
  <2>3. \A c \in Coaches : inv'[c] # Unread => Covers(inv'[c], c)
    BY <2>1, EmptyKnown
  <2>4. QED
    BY <2>1, <2>2, <2>3 DEF Seating
<1>4. CASE Ask
  <2>1. PICK q \in Queries, m \in Modes, way \in {"leg", "halt"} :
          /\ q.date \in FirstDay..LastDay
          /\ phase' = way /\ query' = q /\ mode' = m /\ journey' = InitialState(q)
          /\ due' = IF way = "leg" THEN DueForLeg(InitialState(q), q, m) ELSE <<>>
    BY <1>4 DEF Ask
  <2>2. inv' = inv /\ inv = Empty /\ rows' = rows
    BY <1>4 DEF Ask, Seating
  <2>3. Certain(journey', q) /\ Seatless(journey') /\ q.date * Day <= journey'.arrives
    BY <1>0, <2>1, StartKnown
  <2>4. FreeIn(rows, journey')
    BY <2>3, SeatlessFree
  <2>5. /\ \A c \in Coaches : inv'[c] # Unread => Covers(inv'[c], c)
        /\ \A c \in Coaches : inv'[c] \in {Unread, ReadOf(rows, c)}
    BY <2>2, EmptyKnown
  <2>6. ASSUME phase' = "leg", ~IsGoal(journey', q) PROVE Awaited(journey', q, m, inv', due')
    <3>1. due' = DueForLeg(journey', q, m)
      BY <2>1, <2>6
    <3>2. ~IsGoal(InitialState(q), q)
      BY <2>1, <2>6
    <3>3. Awaited(InitialState(q), q, m, inv, DueForLeg(InitialState(q), q, m))
      BY <3>2, DueAwaited
    <3>4. QED
      BY <2>1, <2>2, <2>6, <3>3
  <2>7. QED
    BY <2>1, <2>2, <2>3, <2>4, <2>5, <2>6 DEF Seating
<1>5. CASE ReadOwn
  <2> DEFINE c == Head(due)
  <2>1. /\ phase = "leg" /\ due # <<>> /\ due' = Tail(due) /\ inv' = [inv EXCEPT ![c] = ReadOf(rows, c)]
        /\ UNCHANGED <<rows, version, query, mode, asked, phase, journey>>
    BY <1>5 DEF ReadOwn, ledgerVars, taskVars, Masks, ReadOf
  <2>2. c \in Coaches /\ \A x \in Range(due) : x = c \/ x \in Range(due')
    BY <2>1, TailTyped DEF Tasked
  <2>3. inv'[c] = ReadOf(rows, c) /\ \A d \in Coaches : d # c => inv'[d] = inv[d]
    BY <2>1, <2>2 DEF Tasked
  <2> HIDE DEF c
  <2>4. (Seats # {} => inv'[c] # Unread) /\ Covers(inv'[c], c)
    BY <2>3, ReadTyped
  <2>5. ASSUME ~IsGoal(journey, query) PROVE Awaited(journey, query, mode, inv', due')
    <3>1. Awaited(journey, query, mode, inv, due)
      BY <2>1, <2>5 DEF Seating
    <3>2. QED
      BY <2>2, <2>3, <2>4, <3>1 DEF Awaited
  <2>6. \A d \in Coaches : inv'[d] # Unread => Covers(inv'[d], d)
    BY <2>3, <2>4 DEF Seating
  <2>7. version = asked =>
          FreeIn(rows, journey) /\ \A d \in Coaches : inv'[d] \in {Unread, ReadOf(rows, d)}
    BY <2>1, <2>3 DEF Seating
  <2>8. QED
    BY <2>1, <2>5, <2>6, <2>7 DEF Seating
<1>6. CASE Ride
  <2>1. /\ phase = "leg" /\ ~IsGoal(journey, query) /\ due = <<>>
        /\ journey' \in SeatSuccessors(inv, journey, query, mode)
        /\ due' = DueForLeg(journey', query, mode)
        /\ UNCHANGED <<rows, version, query, mode, asked, phase, inv>>
    BY <1>6 DEF Ride, ledgerVars, taskVars
  <2>2. /\ query.date \in FirstDay..LastDay
        /\ Certain(journey, query) /\ query.date * Day <= journey.arrives
        /\ Awaited(journey, query, mode, inv, <<>>)
        /\ \A c \in Coaches : inv[c] # Unread => Covers(inv[c], c)
        /\ version = asked =>
             FreeIn(rows, journey) /\ \A c \in Coaches : inv[c] \in {Unread, ReadOf(rows, c)}
    BY <2>1 DEF Seating
  <2>3. Seated(journey, query, mode) /\ journey.at \in Places(query) /\ journey.arrives \in Int
    BY <2>1 DEF Journeying, Shaped
  <2>4. PICK h \in SeatSuccessors(inv, journey, query, mode) : h = journey'
    BY <2>1
  <2>5. /\ Certain(h, query) /\ query.date * Day <= h.arrives
        /\ FreeIn(rows, journey) /\ (\A c \in Coaches : inv[c] \in {Unread, ReadOf(rows, c)}) => FreeIn(rows, h)
    BY <1>0, <2>2, <2>3, RideKnown
  <2>6. ~IsGoal(h, query) => Awaited(h, query, mode, inv, DueForLeg(h, query, mode))
    BY DueAwaited
  <2>7. QED
    BY <2>1, <2>2, <2>4, <2>5, <2>6 DEF Seating
<1>7. CASE Call \/ ReadKept
  <2>1. /\ phase \in {"halt", "call"} /\ phase' = "call"
        /\ UNCHANGED <<rows, version, query, mode, asked, journey, inv>>
    BY <1>7 DEF Call, ReadKept, ledgerVars, taskVars
  <2>2. QED
    BY <2>1 DEF Seating
<1>8. ASSUME NEW S, Move(S),
             S \subseteq Boarding(kept, journey, query, mode) \cup Continuing(kept, journey, query)
                         \cup ChangingCoach(kept, journey, query) \cup ChangingTrain(kept, journey, query)
      PROVE  Seating'
  <2>1. /\ phase = "call" /\ phase' = "halt" /\ journey' \in S
        /\ UNCHANGED <<rows, version, query, mode, asked, inv>>
    BY <1>8 DEF Move, ledgerVars, taskVars
  <2>2. PICK h \in S : h = journey'
    BY <2>1
  <2>3. h.tickets \in {journey.tickets, Append(journey.tickets, Closing(kept, journey, query))}
    BY <1>8, MovesClose DEF Journeying
  <2>4. Seatless(journey)
    BY <2>1 DEF Seating
  <2>5. Seatless(h)
    BY <1>0, <2>3, <2>4, MovesSeatless
  <2>6. QED
    BY <2>1, <2>2, <2>5 DEF Seating
<1>9. CASE OfferSeats
  <2>1. /\ phase = "leg" /\ phase' = "offer"
        /\ UNCHANGED <<rows, version, query, mode, asked, journey, inv>>
    BY <1>9 DEF OfferSeats, ledgerVars, taskVars
  <2>2. QED
    BY <2>1 DEF Seating
<1>10. CASE OfferRide
  <2>1. /\ phase = "call" /\ phase' = "offer" /\ journey' = Finished(kept, journey, query)
        /\ UNCHANGED <<rows, version, query, mode, asked, inv>>
    BY <1>10 DEF OfferRide, ledgerVars, taskVars
  <2>2. journey'.tickets \in {journey.tickets, Append(journey.tickets, Closing(kept, journey, query))}
    BY <2>1, MovesClose DEF Journeying
  <2>3. Seatless(journey) /\ inv = Empty
    BY <2>1 DEF Seating
  <2>4. Seatless(journey')
    BY <1>0, <2>2, <2>3, MovesSeatless
  <2>5. FreeIn(rows, journey')
    BY <2>4, SeatlessFree
  <2>6. \A c \in Coaches : inv[c] \in {Unread, ReadOf(rows, c)}
    BY <2>3, EmptyKnown
  <2>7. QED
    BY <2>1, <2>4, <2>5, <2>6 DEF Seating
<1>11. CASE Board \/ Continue \/ ChangeCoach \/ ChangeTrain
  BY <1>8, <1>11 DEF Board, Continue, ChangeCoach, ChangeTrain
<1>12. CASE Leave \/ Book
  BY <1>3, <1>12 DEF Leave, Book
<1>13. ASSUME NEW leg \in OthersLegs, OthersSell(leg) PROVE Seating'
  BY <1>2, <1>13 DEF OthersSell, taskVars
<1>14. ASSUME NEW i \in DOMAIN rows, OthersCancel(i) PROVE Seating'
  BY <1>2, <1>14 DEF OthersCancel, taskVars
<1>15. QED
  BY <1>1, <1>4, <1>5, <1>6, <1>7, <1>9, <1>10, <1>11, <1>12, <1>13, <1>14 DEF Next, vars

-----------------------------------------------------------------------------
\* What the ledger says of a ticket that has a ride behind it

\* A leg or a row of the ledger that is the ticket's.
IsLeg(leg, x) ==
  /\ leg.coach = CoachOf(x)
  /\ leg.from = LastCall(x.train, x.from) - 1 /\ leg.to = LastCall(x.train, x.to) - 1

TicketRow(x) ==
  [coach |-> CoachOf(x), from |-> LegOf(x).from, to |-> LegOf(x).to, seats |-> x.seats,
   journey |-> "J", status |-> "ACTIVE"]

LEMMA RowsLeg ==
  ASSUME NEW x, NEW table, NEW n
  PROVE  /\ IsLeg(LegOf(x), x) /\ IsLeg(TicketRow(x), x)
         /\ Ledger!NewRow(table, LegOf(x), n, "J") = TicketRow(x)
         /\ Ledger!Selected(table, LegOf(x), n) = x.seats
<1>1. /\ LegOf(x).coach = CoachOf(x) /\ LegOf(x).auto = FALSE /\ LegOf(x).seats = x.seats
      /\ LegOf(x).from = LastCall(x.train, x.from) - 1 /\ LegOf(x).to = LastCall(x.train, x.to) - 1
  BY DEF LegOf, CoachOf
<1>2. Ledger!Selected(table, LegOf(x), n) = x.seats
  BY <1>1 DEF Ledger!Selected
<1>3. QED
  BY <1>1, <1>2 DEF IsLeg, TicketRow, Ledger!NewRow

LEMMA SoundLeg ==
  ASSUME NEW q, q.date \in FirstDay..LastDay, NEW x, Sound(x, q), NEW leg, IsLeg(leg, x)
  PROVE  /\ <<leg.coach, leg.from, leg.to>> \in Sellable
         /\ StationsAt[RunOf[leg.coach]][leg.from] = x.from /\ StationsAt[RunOf[leg.coach]][leg.to] = x.to
         /\ DepartsAt[RunOf[leg.coach]][leg.from] = x.dep /\ ArrivesAt[RunOf[leg.coach]][leg.to] = x.arr
<1> DEFINE t   == x.train
           run == x.run
           i   == From(x)
           k   == Into(x)
           e   == LastCall(t, x.to)
           c   == CoachOf(x)
           len == Len(Halts[t])
<1>1. /\ t \in Trains /\ run \in Int /\ x.coach \in Reservable(t) /\ Ridable(t, i, k)
      /\ Code(t, i) = x.from /\ Code(t, k) = x.to
      /\ Halt(t, i).dep # Missing /\ Operates(t, run)
      /\ x.dep = Departs(Halt(t, i), run) /\ x.arr = Arrives(Halt(t, k), run)
      /\ q.date * Day <= x.dep /\ x.dep < x.arr /\ x.arr < (q.date + MaxJourneyDays + 1) * Day
      /\ c \in Coaches
  BY DEF Sound
<1>2. leg.coach = c /\ leg.from = i - 1 /\ leg.to = e - 1
  BY DEF IsLeg, From
<1>3. c[1] = t /\ c[2] = run /\ c = <<t, run, x.coach>>
  BY DEF CoachOf
<1> HIDE DEF t, run, i, k, e, c, len
<1>4. /\ e \in Route(t) /\ Code(t, e) = x.to /\ Halt(t, e) = Halt(t, k)
      /\ e = k \/ (e = k + 1 /\ Segment(t, k) <= 0)
  <2>1. k \in Route(t) /\ e = LastCall(t, Code(t, k))
    BY <1>1 DEF Ridable, e, t
  <2>2. QED
    BY <1>1, <2>1, HaltTwice
<1>45. Route(t) = 1..len /\ len \in Nat /\ len <= LastStop + 1 /\ LastStop \in Nat
  BY <1>1, TimetableAssumption, SearchAssumption, InventoryAssumption DEF Route, len
<1>5. /\ Route(t) = 1..len /\ len \in Nat /\ len <= LastStop + 1 /\ LastStop \in Nat
      /\ i \in 1..len /\ k \in 1..len /\ e \in 1..len /\ i < k /\ i \in Nat /\ k \in Nat /\ e \in Nat
  BY <1>1, <1>4, <1>45 DEF Ridable
<1>6. i - 1 \in Stops /\ e - 1 \in Stops /\ i - 1 < e - 1 /\ i - 1 < len /\ e - 1 < len
      /\ (i - 1) + 1 = i /\ (e - 1) + 1 = e
  BY <1>4, <1>5 DEF Stops
<1> DEFINE a == i - 1
           b == e - 1
<1>7. a \in Stops /\ b \in Stops /\ a < b /\ a < len /\ b < len /\ a + 1 = i /\ b + 1 = e /\ b \in Nat
  BY <1>5, <1>6
<1> HIDE DEF a, b
<1>8. RunOf[c] = <<t, run>> /\ RunOf[c] \in Runs
  BY <1>1, <1>3, SearchAssumption, InventoryAssumption
<1> DEFINE r == RunOf[c]
<1>9. r[1] = t /\ r[2] = run /\ r \in Runs
  BY <1>8
<1> HIDE DEF r
<1>10. /\ StationsAt[r][a] = Code(t, i) /\ StationsAt[r][b] = Code(t, e)
       /\ DepartsAt[r][a] = Departs(Halt(t, i), run) /\ ArrivesAt[r][b] = Arrives(Halt(t, e), run)
  BY <1>7, <1>9 DEF StationsAt, DepartsAt, ArrivesAt, len
<1>11. x.dep \in Int /\ x.arr \in Int
  BY <1>1, <1>5, HaltTyped
<1>12. x.dep # Missing /\ x.arr # Missing
  <2>1. q.date \in Nat
    BY TimetableAssumption
  <2>2. 0 <= x.dep /\ 0 <= x.arr
    BY <1>1, <1>11, <2>1 DEF Day
  <2>3. QED
    BY <2>2 DEF Missing
<1>13. FirstDay - 7 <= run /\ run <= LastDay + 4
  <2>1. q.date \in Int /\ FirstDay \in Int /\ LastDay \in Int /\ MaxJourneyDays \in Nat /\ MaxJourneyDays <= 4
    BY TimetableAssumption, SearchAssumption, WindowAssumption
  <2>2. x.dep < (q.date + MaxJourneyDays + 1) * Day
    BY <1>1, <1>11, <2>1 DEF Day
  <2>3. q.date - DaysBefore(t, i) <= run /\ run <= q.date + MaxJourneyDays
    BY <1>1, <1>5, <2>2, CoachKnown
  <2>4. DaysBefore(t, i) \in Nat /\ DaysBefore(t, i) <= 7
    BY <1>1, <1>5, DaysTyped, WindowAssumption
  <2>5. QED
    BY <1>1, <2>1, <2>3, <2>4
<1>14. ASSUME NEW s \in (a + 1)..b, Code(t, s) # Code(t, s + 1) PROVE Segment(t, s) > 0
  <2>1. s \in Nat /\ i <= s /\ s < e
    BY <1>5, <1>7
  <2>2. CASE s < k
    <3>1. s \in i..(k - 1)
      BY <1>5, <2>1, <2>2
    <3>2. QED
      BY <1>1, <3>1 DEF Ridable
  <2>3. CASE k <= s
    <3>1. s = k /\ s + 1 = e
      BY <1>4, <1>5, <2>1, <2>3
    <3>2. QED
      BY <1>1, <1>4, <1>14, <3>1
  <2>4. QED
    BY <1>5, <2>1, <2>2, <2>3
<1>15. <<c, a, b>> \in Sellable
  <2> DEFINE l == <<c, a, b>>
  <2>1. l \in Coaches \X Stops \X Stops /\ l[1] = c /\ l[2] = a /\ l[3] = b
    BY <1>1, <1>7
  <2> HIDE DEF l
  <2>2. Missing \notin {DepartsAt[RunOf[c]][a], ArrivesAt[RunOf[c]][b]}
    BY <1>1, <1>4, <1>10, <1>12 DEF r
  <2>3. QED
    BY <1>1, <1>3, <1>7, <1>13, <1>14, <2>1, <2>2 DEF Sellable, l, len
<1>16. QED
  BY <1>1, <1>2, <1>4, <1>10, <1>15 DEF a, b, r

\* It leaves within the window of an itinerary, or of a first leg.
LEMMA SoundWindow ==
  ASSUME NEW q, q.date \in FirstDay..LastDay, NEW x, Sound(x, q), NEW leg, IsLeg(leg, x)
  PROVE  /\ Ledger!InWindow(leg, "J")
         /\ DateOf(x.dep) = q.date => Ledger!InWindow(leg, None)
         /\ x.dep \in Int /\ x.arr \in Int
<1>1. DepartsAt[RunOf[leg.coach]][leg.from] = x.dep
  BY SoundLeg
<1>2. q.date \in Int /\ FirstDay \in Int /\ LastDay \in Int /\ MaxJourneyDays \in Nat
      /\ FirstDay <= q.date /\ q.date <= LastDay
  BY TimetableAssumption, SearchAssumption
<1>3. x.dep \in Int /\ x.arr \in Int
  BY HaltTyped DEF Sound, Ridable
<1> DEFINE d == x.dep \div 1440
           e == q.date + MaxJourneyDays + 1
<1>4. q.date * 1440 <= x.dep /\ x.dep < e * 1440
  BY <1>2, <1>3, SMTT(60) DEF Sound, Day
<1>5. d \in Int /\ d * 1440 <= x.dep /\ x.dep < (d + 1) * 1440
  BY <1>3
<1>6. q.date <= d /\ d < e
  <2> HIDE DEF d, e
  <2>1. e \in Int
    BY <1>2 DEF e
  <2>2. QED
    BY <1>2, <1>3, <1>4, <1>5, <2>1
<1>7. Ledger!DayOf(x.dep) = d /\ DateOf(x.dep) = d
  BY DEF Ledger!DayOf, Ledger!DayMinutes, DateOf, Day
<1> HIDE DEF d
<1>8. d <= LastDay + MaxJourneyDays /\ FirstDay <= d
  BY <1>2, <1>5, <1>6 DEF e
<1>9. "J" # None
  BY SMTT(60) DEF None
<1>10. QED
  BY <1>1, <1>2, <1>3, <1>7, <1>8, <1>9 DEF Ledger!InWindow, Ledger!Departure

\* Every ticket of a journey by legs that can be booked.
Backed(j, q, m) ==
  /\ j.tickets \in Seq(Tickets(q)) /\ j.tickets # <<>>
  /\ Chain(j, q, m) /\ Certain(j, q)
  /\ q.date \in FirstDay..LastDay /\ q.count \in Nat \ {0}
  /\ \A i \in TicketsOf(j) : Sound(j.tickets[i], q)

LEMMA BackedTimes ==
  ASSUME NEW j, NEW q, NEW m, Backed(j, q, m), NEW i \in TicketsOf(j)
  PROVE  /\ j.tickets[i].dep \in Int /\ j.tickets[i].arr \in Int
         /\ q.date * Day <= j.tickets[i].dep /\ j.tickets[i].dep < j.tickets[i].arr
         /\ j.tickets[i].arr < (q.date + MaxJourneyDays + 1) * Day
<1>1. Sound(j.tickets[i], q)
  BY DEF Backed
<1>2. QED
  BY <1>1, HaltTyped DEF Sound, Ridable

\* Each ticket is over when a later one begins.
LEMMA TimesAscend ==
  ASSUME DayHalts, NEW j, NEW q, NEW m, Backed(j, q, m), NEW i \in TicketsOf(j)
  PROVE  \A k \in TicketsOf(j) : i < k => j.tickets[i].arr <= j.tickets[k].dep
<1> DEFINE n == Len(j.tickets)
           Late == {k \in 1..n : i < k /\ ~(j.tickets[i].arr <= j.tickets[k].dep)}
<1>1. n \in Nat /\ TicketsOf(j) = 1..n
  BY DEF Backed, TicketsOf
<1> SUFFICES ASSUME Late # {} PROVE FALSE
  BY <1>1
<1>15. Late \subseteq Nat
  BY <1>1
<1>2. PICK k \in Late : \A x \in Late : k <= x
  BY <1>15, LeastNatural
<1>3. k \in 1..n /\ i < k /\ ~(j.tickets[i].arr <= j.tickets[k].dep)
  BY <1>2
<1> HIDE DEF n
<1> DEFINE e == k - 1
<1>4. e \in 1..n /\ e < k /\ i <= e /\ e + 1 = k /\ e \in 1..(n - 1) /\ e \in Nat
  BY <1>1, <1>3
<1>5. i = e \/ j.tickets[i].arr <= j.tickets[e].dep
  BY <1>1, <1>2, <1>4
<1> HIDE DEF e, Late
<1>6. /\ j.tickets[e].dep \in Int /\ j.tickets[e].arr \in Int /\ j.tickets[e].dep < j.tickets[e].arr
      /\ j.tickets[k].dep \in Int /\ j.tickets[i].arr \in Int
  BY <1>1, <1>3, <1>4, BackedTimes
<1>7. Joins(j.tickets[e], j.tickets[k], q, m)
  <2>1. e \in Changes(j)
    BY <1>4 DEF Changes, n
  <2>2. QED
    BY <1>4, <2>1 DEF Backed, Chain
<1>8. MinSeatChange \in Nat /\ MinTrainChange \in Nat
  BY SearchAssumption
<1>9. j.tickets[k].dep - j.tickets[e].arr >= 0
  BY <1>6, <1>7, <1>8 DEF Joins
<1>10. QED
  BY <1>3, <1>5, <1>6, <1>9

\* A ticket follows the ones before it.
LEMMA TicketFollows ==
  ASSUME DayHalts, NEW j, NEW q, NEW m, Backed(j, q, m), NEW i \in Changes(j)
  PROVE  Ledger!Connects(TicketRow(j.tickets[1]), TicketRow(j.tickets[i]), TicketRow(j.tickets[i + 1]))
<1> DEFINE f == j.tickets[1]
           a == j.tickets[i]
           b == j.tickets[i + 1]
           F == TicketRow(f)
           A == TicketRow(a)
           B == TicketRow(b)
<1>1. 1 \in TicketsOf(j) /\ i \in TicketsOf(j) /\ i + 1 \in TicketsOf(j)
  BY DEF Backed, Changes, TicketsOf
<1>2. Sound(f, q) /\ Sound(a, q) /\ Sound(b, q) /\ q.date \in FirstDay..LastDay
  BY <1>1 DEF Backed
<1>3. Joins(a, b, q, m) /\ (a.train = b.train => a.run = b.run)
  BY DEF Backed, Chain, Certain
<1>4. /\ f.dep \in Int /\ a.arr \in Int /\ b.dep \in Int /\ b.arr \in Int
      /\ q.date * Day <= f.dep /\ b.arr < (q.date + MaxJourneyDays + 1) * Day
  BY <1>1, BackedTimes
<1> HIDE DEF f, a, b
<1>5. /\ DepartsAt[RunOf[F.coach]][F.from] = f.dep
      /\ StationsAt[RunOf[A.coach]][A.to] = a.to /\ ArrivesAt[RunOf[A.coach]][A.to] = a.arr
      /\ StationsAt[RunOf[B.coach]][B.from] = b.from /\ DepartsAt[RunOf[B.coach]][B.from] = b.dep
      /\ ArrivesAt[RunOf[B.coach]][B.to] = b.arr
  BY <1>2, RowsLeg, SoundLeg
<1>6. A.coach = CoachOf(a) /\ B.coach = CoachOf(b) /\ A.seats = a.seats /\ B.seats = b.seats
  BY DEF TicketRow
<1> HIDE DEF F, A, B
<1>7. a.to = b.from /\ b.dep - a.arr >= (IF a.train = b.train THEN MinSeatChange ELSE MinTrainChange)
      /\ (a.train = b.train => <<a.coach, a.seats>> # <<b.coach, b.seats>>)
  BY <1>3 DEF Joins
<1>8. RunOf[A.coach] = <<a.train, a.run>> /\ RunOf[B.coach] = <<b.train, b.run>>
  <2>1. CoachOf(a) \in Coaches /\ CoachOf(b) \in Coaches
    BY <1>2 DEF Sound
  <2>2. CoachOf(a)[1] = a.train /\ CoachOf(a)[2] = a.run /\ CoachOf(b)[1] = b.train /\ CoachOf(b)[2] = b.run
    BY DEF CoachOf
  <2>3. QED
    BY <1>6, <2>1, <2>2, SearchAssumption
<1>9. (RunOf[A.coach] = RunOf[B.coach]) <=> (a.train = b.train)
  BY <1>3, <1>8
<1>10. ~(A.coach = B.coach /\ A.seats = B.seats)
  <2>1. CoachOf(a) = CoachOf(b) => a.train = b.train /\ a.coach = b.coach
    BY DEF CoachOf
  <2>2. QED
    BY <1>6, <1>7, <2>1
<1>11. b.dep >= a.arr + (IF RunOf[A.coach] = RunOf[B.coach] THEN MinSeatChange ELSE MinTrainChange)
  <2>1. MinSeatChange \in Int /\ MinTrainChange \in Int
    BY SearchAssumption
  <2>2. QED
    BY <1>4, <1>7, <1>9, <2>1
<1>12. b.arr - f.dep < (MaxJourneyDays + 1) * 1440
  <2>1. q.date \in Int /\ MaxJourneyDays \in Int
    BY <1>2, TimetableAssumption, SearchAssumption
  <2>2. QED
    BY <1>4, <2>1 DEF Day
<1>13. Ledger!Connects(F, A, B)
  BY <1>5, <1>7, <1>10, <1>11, <1>12
  DEF Ledger!Connects, Ledger!Departure, Ledger!Arrival, Ledger!DayMinutes
<1>14. QED
  BY <1>13 DEF F, A, B, f, a, b

\* The first one opens the journey.
LEMMA TicketOpens ==
  ASSUME NEW j, NEW q, NEW m, Backed(j, q, m)
  PROVE  Ledger!Opens(TicketRow(j.tickets[1]))
<1> DEFINE f == j.tickets[1]
           F == TicketRow(f)
<1>1. 1 \in TicketsOf(j)
  BY DEF Backed, TicketsOf
<1>2. Sound(f, q) /\ q.date \in FirstDay..LastDay /\ DateOf(f.dep) = q.date
  BY <1>1 DEF Backed, Certain
<1>3. /\ f.dep \in Int /\ f.arr \in Int
      /\ q.date * Day <= f.dep /\ f.arr < (q.date + MaxJourneyDays + 1) * Day
  BY <1>1, BackedTimes
<1> HIDE DEF f
<1>4. /\ DepartsAt[RunOf[F.coach]][F.from] = f.dep /\ ArrivesAt[RunOf[F.coach]][F.to] = f.arr
      /\ Ledger!InWindow(F, None)
  BY <1>2, RowsLeg, SoundLeg, SoundWindow
<1> HIDE DEF F
<1>5. f.arr - f.dep < (MaxJourneyDays + 1) * 1440
  <2>1. q.date \in Int /\ MaxJourneyDays \in Int
    BY <1>2, TimetableAssumption, SearchAssumption
  <2>2. QED
    BY <1>3, <2>1 DEF Day
<1>6. Ledger!Opens(F)
  BY <1>4, <1>5 DEF Ledger!Opens, Ledger!Departure, Ledger!Arrival, Ledger!DayMinutes
<1>7. QED
  BY <1>6 DEF F, f

-----------------------------------------------------------------------------
\* The rows a transaction has before its next leg

StageRows(j, k) ==
  [i \in 1..(Len(rows) + k) |-> IF i <= Len(rows) THEN rows[i] ELSE TicketRow(j.tickets[i - Len(rows)])]
StageMade(k) == [i \in 1..k |-> Len(rows) + i]
Stage(j, k)  == [ok |-> TRUE, rows |-> StageRows(j, k), made |-> StageMade(k)]

\* What they are: the ledger's, and one for each ticket booked.
Laid(j, k, n, table, numbers) ==
  /\ n \in Nat /\ DOMAIN rows = 1..n
  /\ DOMAIN table = 1..(n + k) /\ Len(table) = n + k /\ \E S : table \in Seq(S)
  /\ \A i \in 1..n : table[i] = rows[i]
  /\ \A i \in 1..k : n + i \in DOMAIN table /\ table[n + i] = TicketRow(j.tickets[i])
  /\ \A p \in DOMAIN table : p \in 1..n \/ \E i \in 1..k : p = n + i
  /\ Len(numbers) = k /\ DOMAIN numbers = 1..k /\ numbers \in Seq(Nat)
  /\ \A i \in 1..k : numbers[i] = n + i

LEMMA StageLaw ==
  ASSUME Listed, NEW j, NEW k \in Nat
  PROVE  Laid(j, k, Len(rows), StageRows(j, k), StageMade(k))
<1> DEFINE n == Len(rows)
           R == StageRows(j, k)
           M == StageMade(k)
<1>1. n \in Nat /\ DOMAIN rows = 1..n
  BY DEF Listed
<1> HIDE DEF n
<1>2. R = [i \in 1..(n + k) |-> IF i <= n THEN rows[i] ELSE TicketRow(j.tickets[i - n])]
  BY DEF StageRows, n
<1>3. M = [i \in 1..k |-> n + i]
  BY DEF StageMade, n
<1> HIDE DEF R, M
<1>4. DOMAIN R = 1..(n + k) /\ n + k \in Nat /\ \A i \in 1..n : R[i] = rows[i]
  BY <1>1, <1>2
<1>5. ASSUME NEW i \in 1..k PROVE n + i \in DOMAIN R /\ R[n + i] = TicketRow(j.tickets[i])
  <2>1. n + i \in 1..(n + k) /\ ~(n + i <= n) /\ (n + i) - n = i
    BY <1>1
  <2>2. QED
    BY <1>2, <2>1
<1>6. ASSUME NEW p \in DOMAIN R, p \notin 1..n PROVE \E i \in 1..k : p = n + i
  <2>1. p - n \in 1..k /\ p = n + (p - n)
    BY <1>1, <1>4, <1>6
  <2>2. QED
    BY <2>1
<1>7. R \in Seq({R[i] : i \in 1..(n + k)}) /\ Len(R) = n + k
  <2>1. R = [i \in 1..(n + k) |-> R[i]]
    BY <1>2
  <2>2. R \in Seq({R[i] : i \in 1..(n + k)})
    BY <1>4, <2>1
  <2>3. QED
    BY <1>4, <2>2
<1>8. M \in Seq(Nat) /\ Len(M) = k /\ DOMAIN M = 1..k /\ \A i \in 1..k : M[i] = n + i
  <2>1. M \in Seq(Nat) /\ DOMAIN M = 1..k /\ \A i \in 1..k : M[i] = n + i
    BY <1>1, <1>3
  <2>2. QED
    BY <2>1
<1>9. QED
  BY <1>1, <1>4, <1>5, <1>6, <1>7, <1>8 DEF Laid, n, R, M

LEMMA StageStart ==
  ASSUME Listed, NEW j
  PROVE  Stage(j, 0) = [ok |-> TRUE, rows |-> rows, made |-> <<>>]
<1>1. /\ Len(rows) \in Nat /\ DOMAIN rows = 1..Len(rows) /\ \E S : rows \in Seq(S)
  BY DEF Listed
<1>15. Laid(j, 0, Len(rows), StageRows(j, 0), StageMade(0))
  BY StageLaw
<1>2. /\ DOMAIN StageRows(j, 0) = 1..(Len(rows) + 0) /\ \E S : StageRows(j, 0) \in Seq(S)
      /\ \A i \in 1..Len(rows) : StageRows(j, 0)[i] = rows[i]
      /\ Len(StageMade(0)) = 0 /\ StageMade(0) \in Seq(Nat)
      /\ Len(StageRows(j, 0)) = Len(rows) + 0
  BY <1>15 DEF Laid
<1>3. StageRows(j, 0) = rows
  BY <1>1, <1>2
<1>4. StageMade(0) = <<>>
  BY <1>2
<1>5. QED
  BY <1>3, <1>4 DEF Stage

\* Lists with the same members in the same places are the same list.
LEMMA SameList ==
  ASSUME NEW S, NEW s \in Seq(S), NEW t \in Seq(S),
         Len(s) = Len(t), \A i \in 1..Len(s) : s[i] = t[i]
  PROVE  s = t
<1>1. DOMAIN s = DOMAIN t /\ DOMAIN s = 1..Len(s)
  OBVIOUS
<1>2. s = [i \in DOMAIN s |-> s[i]] /\ t = [i \in DOMAIN t |-> t[i]]
  OBVIOUS
<1>3. QED
  BY <1>1, <1>2

\* Booking one more ticket takes what is staged to the next stage.
LEMMA StageAppends ==
  ASSUME Listed, NEW j, NEW k \in Nat
  PROVE  /\ Append(StageRows(j, k), TicketRow(j.tickets[k + 1])) = StageRows(j, k + 1)
         /\ Append(StageMade(k), Len(StageRows(j, k)) + 1) = StageMade(k + 1)
<1>0. PICK h \in Nat : h = k + 1
  OBVIOUS
<1> DEFINE n == Len(rows)
           R == StageRows(j, k)
           T == StageRows(j, h)
           M == StageMade(k)
           N == StageMade(h)
           x == TicketRow(j.tickets[k + 1])
<1>01. Laid(j, k, n, R, M) /\ Laid(j, h, n, T, N)
  BY StageLaw
<1> HIDE DEF n, R, T, M, N
<1>1. /\ n \in Nat /\ Len(R) = n + k /\ DOMAIN R = 1..(n + k)
      /\ \A i \in 1..n : R[i] = rows[i]
      /\ \A i \in 1..k : R[n + i] = TicketRow(j.tickets[i])
      /\ Len(M) = k /\ M \in Seq(Nat) /\ \A i \in 1..k : M[i] = n + i
  BY <1>01 DEF Laid
<1>2. PICK S : R \in Seq(S)
  BY <1>01 DEF Laid
<1>3. /\ Len(T) = n + h /\ DOMAIN T = 1..(n + h)
      /\ \A i \in 1..n : T[i] = rows[i]
      /\ \A i \in 1..h : T[n + i] = TicketRow(j.tickets[i])
      /\ Len(N) = h /\ N \in Seq(Nat) /\ \A i \in 1..h : N[i] = n + i
  BY <1>01 DEF Laid
<1>4. PICK W : T \in Seq(W)
  BY <1>01 DEF Laid
<1> HIDE DEF x
<1>5. ASSUME NEW i \in 1..(n + k) PROVE T[i] = R[i]
  <2>1. CASE i <= n
    BY <1>0, <1>1, <1>3, <2>1, SMTT(60)
  <2>2. CASE ~(i <= n)
    <3> DEFINE p == i - n
    <3>1. p \in 1..k /\ p \in 1..h /\ i = n + p
      BY <1>0, <1>1, <2>2
    <3> HIDE DEF p
    <3>2. QED
      BY <1>1, <1>3, <3>1
  <2>3. QED
    BY <2>1, <2>2
<1>6. T[n + h] = x
  BY <1>0, <1>3 DEF x
<1>7. Append(R, x) = T
  <2> DEFINE A == Append(R, x)
  <2>1. A \in Seq(S \cup {x}) /\ Len(A) = n + k + 1 /\ A[n + k + 1] = x /\ \A i \in 1..(n + k) : A[i] = R[i]
    BY <1>1, <1>2
  <2> HIDE DEF A
  <2>2. Len(A) = Len(T) /\ n + h = n + k + 1
    BY <1>0, <1>1, <1>3, <2>1
  <2>3. \A i \in 1..Len(A) : A[i] = T[i]
    <3>1. \A i \in 1..Len(A) : i \in 1..(n + k) \/ i = n + h
      BY <1>0, <1>1, <2>1, SMTT(60)
    <3>2. QED
      BY <1>5, <1>6, <2>1, <2>2, <3>1
  <2>4. A = T
    BY <1>4, <2>1, <2>2, <2>3
  <2>5. QED
    BY <2>4 DEF A
<1>8. Append(M, n + k + 1) = N
  <2> DEFINE A == Append(M, n + k + 1)
  <2>1. A \in Seq(Nat) /\ Len(A) = k + 1 /\ A[k + 1] = n + k + 1 /\ \A i \in 1..k : A[i] = M[i]
    BY <1>1
  <2> HIDE DEF A
  <2>2. n + h = n + k + 1
    BY <1>0, <1>1
  <2>3. \A i \in 1..h : A[i] = N[i]
    BY <1>0, <1>1, <1>3, <2>1, <2>2, SMTT(60)
  <2>4. A = N
    <3>1. Len(A) = Len(N)
      BY <1>0, <1>3, <2>1
    <3>2. A \in Seq(Nat) /\ N \in Seq(Nat) /\ \A i \in 1..Len(A) : A[i] = N[i]
      BY <1>0, <1>3, <2>1, <2>3
    <3>3. QED
      BY <3>1, <3>2, SameList, Zenon
  <2>5. QED
    BY <2>4 DEF A
<1>9. QED
  BY <1>0, <1>1, <1>7, <1>8 DEF R, T, M, N, x

\* The ledger counts as the inventory does.
LEMMA LedgerAvailable ==
  ASSUME NEW table, NEW c, NEW a, NEW b
  PROVE  Ledger!Available(table, c, a, b) = Available(table, c, a, b)
<1>1. \A row : Ledger!SpanOf(row) = SpanOf(row) /\ Ledger!SeatsOf(row) = SeatsOf(row)
  BY DEF Ledger!SpanOf, Ledger!SeatsOf, Ledger!Span, Ledger!Segments, SpanOf, SeatsOf, Span, Segments
<1>2. Ledger!ActiveIn(table, c) = ActiveIn(table, c)
  BY DEF Ledger!ActiveIn, ActiveIn
<1>3. \A s : Ledger!Occupied(table, c, s) = Occupied(table, c, s)
  BY <1>1, <1>2 DEF Ledger!Occupied, Occupied
<1>4. Ledger!Span(a, b) = Span(a, b)
  BY DEF Ledger!Span, Ledger!Segments, Span, Segments
<1>5. QED
  BY <1>3, <1>4 DEF Ledger!Available, Available

LEMMA SoundSpan ==
  ASSUME NEW q, NEW x, Sound(x, q)
  PROVE  Span(LegOf(x).from, LegOf(x).to) = Between(x.train, From(x), Into(x))
<1>1. /\ x.train \in Trains /\ From(x) \in Route(x.train) /\ Into(x) \in Route(x.train)
      /\ x.from = Code(x.train, From(x)) /\ x.to = Code(x.train, Into(x))
  BY DEF Sound, Ridable
<1>2. QED
  BY <1>1, LegSpan

\* A ticket's seats are free beside the tickets before it if they are without them.
LEMMA FreeBeside ==
  ASSUME TidyHalts, Listed, NEW j, NEW q, NEW m, Backed(j, q, m), NEW k \in Nat, NEW y, y = k + 1, y \in TicketsOf(j),
         NEW x, x = j.tickets[y], NEW s \in Seats, s \in Range(x.seats)
  PROVE  s \in Available(StageRows(j, k), CoachOf(x), LegOf(x).from, LegOf(x).to)
           <=> s \in Available(rows, CoachOf(x), LegOf(x).from, LegOf(x).to)
<1> DEFINE n == Len(rows)
           R == StageRows(j, k)
           M == StageMade(k)
           c == CoachOf(x)
           span == Span(LegOf(x).from, LegOf(x).to)
<1>1. Laid(j, k, n, R, M)
  BY StageLaw
<1> HIDE DEF n, R, M
<1>2. /\ n \in Nat /\ DOMAIN rows = 1..n /\ DOMAIN R = 1..(n + k)
      /\ \A i \in 1..n : R[i] = rows[i]
      /\ \A i \in 1..k : n + i \in DOMAIN R /\ R[n + i] = TicketRow(j.tickets[i])
      /\ \A p \in DOMAIN R : p \in 1..n \/ \E i \in 1..k : p = n + i
  BY <1>1 DEF Laid
<1>3. \A i \in 1..n : i \in DOMAIN R
  BY <1>2
<1>4. Sound(x, q)
  BY SMTT(60) DEF Backed
<1>5. /\ x.train \in Trains /\ x.run \in Int /\ Ridable(x.train, From(x), Into(x))
      /\ span = Between(x.train, From(x), Into(x))
      /\ x.dep = Departs(Halt(x.train, From(x)), x.run)
  <2>1. span = Between(x.train, From(x), Into(x))
    BY <1>4, SoundSpan, SMTT(60)
  <2>2. QED
    BY <1>4, <2>1 DEF Sound
<1> HIDE DEF c, span
<1>6. ASSUME NEW i \in 1..k, TicketRow(j.tickets[i]).coach = c
      PROVE  SpanOf(TicketRow(j.tickets[i])) \cap span = {}
  <2> DEFINE z == j.tickets[i]
  <2>1. i \in TicketsOf(j) /\ i < y
    BY DEF Backed, TicketsOf
  <2>2. Sound(z, q)
    BY <2>1 DEF Backed
  <2>3. z.arr <= x.dep
    BY <2>1, TidyDays, TimesAscend
  <2>4. CoachOf(z) = CoachOf(x)
    BY <1>6 DEF TicketRow, c
  <2> HIDE DEF z
  <2>5. z.train = x.train /\ z.run = x.run
    BY <2>4 DEF CoachOf
  <2>6. /\ Ridable(z.train, From(z), Into(z)) /\ z.arr = Arrives(Halt(z.train, Into(z)), z.run)
        /\ Span(LegOf(z).from, LegOf(z).to) = Between(z.train, From(z), Into(z))
    <3>1. Span(LegOf(z).from, LegOf(z).to) = Between(z.train, From(z), Into(z))
      BY <2>2, SoundSpan
    <3>2. QED
      BY <2>2, <3>1 DEF Sound
  <2>7. Between(x.train, From(z), Into(z)) \cap Between(x.train, From(x), Into(x)) = {}
    <3>1. Arrives(Halt(x.train, Into(z)), x.run) <= Departs(Halt(x.train, From(x)), x.run)
      BY <1>5, <2>3, <2>5, <2>6
    <3>2. Ridable(x.train, From(z), Into(z))
      BY <2>5, <2>6
    <3>3. QED
      BY <1>5, <3>1, <3>2, RidesApart
  <2>8. SpanOf(TicketRow(z)) = Span(LegOf(z).from, LegOf(z).to)
    BY DEF SpanOf, TicketRow
  <2>9. QED
    BY <1>5, <2>5, <2>6, <2>7, <2>8 DEF z
<1>7. ASSUME NEW g \in span, g \in Occupied(rows, c, s) PROVE g \in Occupied(R, c, s)
  <2>1. CASE g \in Seed[c][s]
    BY <2>1 DEF Occupied
  <2>2. ASSUME NEW i \in ActiveIn(rows, c), s \in SeatsOf(rows[i]), g \in SpanOf(rows[i])
        PROVE  g \in Occupied(R, c, s)
    <3>1. i \in DOMAIN R /\ R[i] = rows[i]
      BY <1>2, <1>3 DEF ActiveIn
    <3>2. i \in ActiveIn(R, c)
      BY <3>1 DEF ActiveIn
    <3>3. QED
      BY <2>2, <3>1, <3>2 DEF Occupied
  <2>3. QED
    BY <1>7, <2>1, <2>2 DEF Occupied
<1>8. ASSUME NEW g \in span, g \in Occupied(R, c, s) PROVE g \in Occupied(rows, c, s)
  <2>1. CASE g \in Seed[c][s]
    BY <2>1 DEF Occupied
  <2>2. ASSUME NEW p \in ActiveIn(R, c), s \in SeatsOf(R[p]), g \in SpanOf(R[p])
        PROVE  g \in Occupied(rows, c, s)
    <3>1. p \in DOMAIN R /\ R[p].coach = c /\ R[p].status = "ACTIVE"
      BY DEF ActiveIn
    <3>2. CASE p \in 1..n
      <4>1. p \in ActiveIn(rows, c) /\ R[p] = rows[p]
        BY <1>2, <3>1, <3>2 DEF ActiveIn
      <4>2. QED
        BY <2>2, <4>1 DEF Occupied
    <3>3. CASE \E i \in 1..k : p = n + i
      BY <1>2, <1>6, <2>2, <3>1, <3>3
    <3>4. QED
      BY <1>2, <3>1, <3>2, <3>3
  <2>3. QED
    BY <1>8, <2>1, <2>2 DEF Occupied
<1>9. s \in Available(R, c, LegOf(x).from, LegOf(x).to) <=> s \in Available(rows, c, LegOf(x).from, LegOf(x).to)
  BY <1>7, <1>8 DEF Available, span
<1>10. QED
  BY <1>9 DEF R, c

\* The ledger's conditions come down to one: the ticket's seats are free.
LEMMA LegAccepted ==
  ASSUME TidyHalts, Listed, NEW j, NEW m, Backed(j, query, m),
         \A i \in TicketsOf(j) : Len(j.tickets[i].seats) = query.count,
         NEW k \in Nat, NEW y, y = k + 1, y \in TicketsOf(j), NEW x, x = j.tickets[y]
  PROVE  /\ Ledger!Bookable(StageRows(j, k), LegOf(x), query.count, "J") <=> FreeLeg(rows, LegOf(x))
         /\ Ledger!Follows(StageRows(j, k), StageMade(k), TicketRow(x))
<1> DEFINE leg == LegOf(x)
           R   == StageRows(j, k)
           M   == StageMade(k)
           n   == Len(rows)
<1>1. Sound(x, query) /\ query.date \in FirstDay..LastDay
  BY DEF Backed
<1>2. leg.coach = CoachOf(x) /\ leg.seats = x.seats
  BY SMTT(60) DEF LegOf, CoachOf
<1>3. /\ <<leg.coach, leg.from, leg.to>> \in Sellable
      /\ DepartsAt[RunOf[leg.coach]][leg.from] = x.dep /\ ArrivesAt[RunOf[leg.coach]][leg.to] = x.arr
      /\ Ledger!InWindow(leg, "J")
  BY <1>1, RowsLeg, SoundLeg, SoundWindow, ZenonT(60)
<1>4. /\ x.dep \in Int /\ x.arr \in Int /\ x.dep < x.arr
  BY BackedTimes
<1>5. x.seats \in Seq(Seats) /\ Len(x.seats) = query.count
      /\ \A a, b \in DOMAIN x.seats : a # b => x.seats[a] # x.seats[b]
  BY <1>1 DEF Sound
<1>6. Ledger!Selected(R, leg, query.count) = x.seats
  BY RowsLeg
<1>7. \A s \in Range(x.seats) : s \in Seats
  BY <1>5 DEF Range
<1>8. \A s \in Range(x.seats) :
        s \in Available(R, leg.coach, leg.from, leg.to) <=> s \in Available(rows, leg.coach, leg.from, leg.to)
  BY <1>2, <1>7, FreeBeside
<1> HIDE DEF leg, R, M, n
<1>9. Ledger!Allocatable(R, leg, query.count) <=> FreeLeg(rows, leg)
  <2>1. Ledger!Allocatable(R, leg, query.count)
          <=> \A i \in DOMAIN x.seats : x.seats[i] \in Available(R, leg.coach, leg.from, leg.to)
    BY <1>5, <1>6, LedgerAvailable DEF Ledger!Allocatable
  <2>2. FreeLeg(rows, leg) <=> \A i \in DOMAIN x.seats : x.seats[i] \in Available(rows, leg.coach, leg.from, leg.to)
    BY <1>2 DEF FreeLeg, Range
  <2>3. \A i \in DOMAIN x.seats : x.seats[i] \in Range(x.seats)
    BY DEF Range
  <2>4. QED
    BY <1>8, <2>1, <2>2, <2>3
<1>10. Ledger!Bookable(R, leg, query.count, "J") <=> FreeLeg(rows, leg)
  BY <1>3, <1>4, <1>9 DEF Ledger!Bookable, Ledger!Departure, Ledger!Arrival
<1>11. Laid(j, k, n, R, M)
  BY StageLaw DEF n, R, M
<1>12. Ledger!Follows(R, M, TicketRow(x))
  <2>1. CASE k = 0
    <3>1. M = <<>>
      BY <1>11, <2>1 DEF Laid
    <3>2. Ledger!Opens(TicketRow(x))
      BY <2>1, TicketOpens
    <3>3. QED
      BY <3>1, <3>2 DEF Ledger!Follows
  <2>2. CASE k # 0
    <3>1. k \in Changes(j) /\ 1 \in 1..k /\ k \in 1..k
      BY <2>2 DEF Backed, TicketsOf, Changes
    <3>2. Ledger!Connects(TicketRow(j.tickets[1]), TicketRow(j.tickets[k]), TicketRow(x))
      BY <3>1, TidyDays, TicketFollows
    <3>3. M # <<>> /\ R[M[1]] = TicketRow(j.tickets[1]) /\ R[M[Len(M)]] = TicketRow(j.tickets[k])
      BY <1>11, <2>2, <3>1 DEF Laid
    <3>4. QED
      BY <3>2, <3>3 DEF Ledger!Follows
  <2>3. QED
    BY <2>1, <2>2
<1>13. QED
  BY <1>10, <1>12 DEF leg, R, M

\* What adding the ticket's leg to the stage before it comes to.
Staged(j, k, y, leg) ==
  /\ FreeLeg(rows, leg) => AddLeg(Stage(j, k), leg) = Stage(j, y)
  /\ ~FreeLeg(rows, leg) => AddLeg(Stage(j, k), leg).ok = FALSE

LEMMA StageStep ==
  ASSUME TidyHalts, Listed, NEW j, NEW m, Backed(j, query, m),
         \A i \in TicketsOf(j) : Len(j.tickets[i].seats) = query.count,
         NEW k \in Nat, NEW y, y = k + 1, y \in TicketsOf(j), NEW leg, leg = LegOf(j.tickets[y])
  PROVE  Staged(j, k, y, leg)
<1> DEFINE x   == j.tickets[y]
           R   == StageRows(j, k)
           M   == StageMade(k)
           now == Stage(j, k)
           row == TicketRow(x)
<1>1. /\ Ledger!Bookable(R, leg, query.count, "J") <=> FreeLeg(rows, leg)
      /\ Ledger!Follows(R, M, row)
  BY LegAccepted
<1>2. Ledger!NewRow(R, leg, query.count, "J") = row
  BY RowsLeg
<1>3. Append(R, row) = StageRows(j, y) /\ Append(M, Len(R) + 1) = StageMade(y)
  BY StageAppends
<1>4. now.ok = TRUE /\ now.rows = R /\ now.made = M
  BY DEF Stage
<1>5. Stage(j, y) = [ok |-> TRUE, rows |-> StageRows(j, y), made |-> StageMade(y)]
  BY DEF Stage
<1> HIDE DEF x, R, M, row
<1>6. ASSUME FreeLeg(rows, leg) PROVE AddLeg(now, leg) = Stage(j, y)
  <2>1. AddLeg(now, leg) = [ok |-> TRUE, rows |-> Append(R, row), made |-> Append(M, Len(R) + 1)]
    <3> HIDE DEF now
    <3> QED
      BY <1>1, <1>2, <1>4, <1>6, Zenon DEF AddLeg
  <2>2. QED
    BY <1>3, <1>5, <2>1
<1>7. ASSUME ~FreeLeg(rows, leg) PROVE AddLeg(now, leg).ok = FALSE
  <2>1. AddLeg(now, leg) = [now EXCEPT !.ok = FALSE]
    <3> HIDE DEF now
    <3> QED
      BY <1>1, <1>2, <1>4, <1>7, Zenon DEF AddLeg
  <2>2. now = [ok |-> TRUE, rows |-> R, made |-> M]
    BY DEF Stage, R, M
  <2> HIDE DEF now
  <2>3. QED
    BY <2>1, <2>2
<1>8. QED
  BY <1>6, <1>7 DEF Staged

\* The ledger takes a journey by legs just when its seats are free.
LEMMA BookedIfFree ==
  ASSUME TidyHalts, Listed, NEW j, NEW m, Backed(j, query, m),
         \A i \in TicketsOf(j) : Len(j.tickets[i].seats) = query.count
  PROVE  Booked(LegsOf(j)).ok <=> FreeIn(rows, j)
<1> DEFINE n == Len(j.tickets)
           legs == LegsOf(j)
<1>1. /\ n \in Nat /\ TicketsOf(j) = 1..n /\ Len(legs) = n
      /\ \A i \in 1..n : legs[i] = LegOf(j.tickets[i])
  BY LegsCounted DEF Backed, TicketsOf
<1>2. PICK f : Stages(legs, n, f) /\ Booked(legs) = f[n]
  BY <1>1, BookedStages
<1> HIDE DEF n, legs
<1>3. /\ f[0] = [ok |-> TRUE, rows |-> rows, made |-> <<>>]
      /\ \A k \in 1..n : f[k] = AddLeg(f[k - 1], legs[k])
  BY <1>2 DEF Stages
<1> DEFINE Till(k) == \A i \in 1..k : FreeLeg(rows, LegOf(j.tickets[i]))
           Good(k) == (Till(k) => f[k] = Stage(j, k)) /\ (~Till(k) => f[k].ok = FALSE)
           T == {k \in Nat : k <= n => Good(k)}
<1>4. 0 \in T
  <2>1. f[0] = Stage(j, 0)
    BY <1>3, StageStart, Zenon
  <2>2. Till(0)
    OBVIOUS
  <2> HIDE DEF Till
  <2>3. Good(0)
    BY <2>1, <2>2
  <2> HIDE DEF Good
  <2>4. QED
    BY <2>3
<1> HIDE DEF Till, Good
<1>5. ASSUME NEW k \in Nat, k \in T PROVE k + 1 \in T
  <2> SUFFICES ASSUME k + 1 <= n PROVE Good(k + 1)
    OBVIOUS
  <2>1. PICK y \in 1..n : y = k + 1
    BY <1>1
  <2>2. y - 1 = k /\ f[y] = AddLeg(f[k], legs[y]) /\ legs[y] = LegOf(j.tickets[y]) /\ y \in TicketsOf(j)
    <3>1. y - 1 = k
      BY <2>1
    <3>2. f[y] = AddLeg(f[y - 1], legs[y]) /\ legs[y] = LegOf(j.tickets[y]) /\ y \in TicketsOf(j)
      BY <1>1, <1>3, Zenon
    <3>3. QED
      BY <3>1, <3>2, Zenon
  <2>3. (Till(k) => f[k] = Stage(j, k)) /\ (~Till(k) => f[k].ok = FALSE)
    <3>1. Good(k)
      BY <1>1, <1>5
    <3>2. QED
      BY <3>1 DEF Good
  <2>4. /\ FreeLeg(rows, legs[y]) => AddLeg(Stage(j, k), legs[y]) = Stage(j, y)
        /\ ~FreeLeg(rows, legs[y]) => AddLeg(Stage(j, k), legs[y]).ok = FALSE
    <3>1. PICK leg : leg = legs[y]
      OBVIOUS
    <3>2. leg = LegOf(j.tickets[y])
      BY <2>2, <3>1, Zenon
    <3>3. Staged(j, k, y, leg)
      BY <2>1, <2>2, <3>2, StageStep, Zenon
    <3>4. QED
      BY <3>1, <3>3, Zenon DEF Staged
  <2>5. Till(y) <=> Till(k) /\ FreeLeg(rows, legs[y])
    <3>1. \A i \in 1..y : i \in 1..k \/ i = y
      BY <2>1
    <3>2. y \in 1..y /\ \A i \in 1..k : i \in 1..y
      BY <2>1
    <3>3. QED
      BY <2>2, <3>1, <3>2 DEF Till
  <2>6. ASSUME Till(k) PROVE (Till(y) => f[y] = Stage(j, y)) /\ (~Till(y) => f[y].ok = FALSE)
    <3>1. f[y] = AddLeg(Stage(j, k), legs[y])
      BY <2>2, <2>3, <2>6, Zenon
    <3>2. QED
      BY <2>4, <2>5, <2>6, <3>1, Zenon
  <2>7. ASSUME ~Till(k) PROVE f[y].ok = FALSE /\ ~Till(y)
    <3>1. f[k].ok = FALSE
      BY <2>3, <2>7
    <3>2. f[y] = f[k]
      BY <2>2, <3>1, Zenon DEF AddLeg
    <3>3. QED
      BY <2>5, <2>7, <3>1, <3>2, Zenon
  <2>8. Good(y)
    BY <2>6, <2>7, Zenon DEF Good
  <2>9. QED
    BY <2>1, <2>8
<1>6. (Till(n) => f[n] = Stage(j, n)) /\ (~Till(n) => f[n].ok = FALSE)
  <2>1. n \in T
    <3> HIDE DEF T
    <3> QED
      BY <1>1, <1>4, <1>5, SetInduction
  <2>2. Good(n)
    BY <1>1, <2>1
  <2>3. QED
    BY <2>2 DEF Good
<1>7. Stage(j, n).ok = TRUE
  BY DEF Stage
<1>8. Till(n) <=> FreeIn(rows, j)
  BY <1>1, Zenon DEF FreeIn, Till
<1>9. QED
  BY <1>2, <1>6, <1>7, <1>8 DEF legs

\* The whole invariant.
OfferInv == IInv /\ Listed /\ Seating

LEMMA OfferInvHolds == Spec => []OfferInv
<1>1. Init => OfferInv
  BY IInvInit, SeatingInit DEF OfferInv
<1>2. OfferInv /\ [Next]_vars => OfferInv'
  BY IInvStep, ListedStep, SeatingStep DEF OfferInv, IInv
<1>3. QED
  BY <1>1, <1>2, PTL DEF Spec

LEMMA OfferInvStands == TidyHalts /\ OfferInv => OfferStands
<1> SUFFICES ASSUME TidyHalts, OfferInv, phase = "offer", Bookable(journey)
             PROVE  /\ Booked(LegsOf(journey)).ok <=> SeatsFree(journey)
                    /\ version = asked => SeatsFree(journey)
  BY DEF OfferStands
<1>1. Arrived(journey, query, mode) /\ query \in Queries /\ journey.tickets \in Seq(Tickets(query))
  BY DEF OfferInv, IInv, Journeying, Tasked, Shaped
<1>2. Chain(journey, query, mode) /\ journey.tickets # <<>>
  BY <1>1 DEF Arrived
<1>3. query.count \in Nat \ {0}
  BY <1>1, QueriesAssumption
<1>4. \A i \in TicketsOf(journey) : Len(journey.tickets[i].seats) = query.count
  BY DEF Bookable, TicketsOf
<1>5. \A i \in TicketsOf(journey) : journey.tickets[i].seats # <<>>
  BY <1>3, <1>4
<1>6. 1 \in TicketsOf(journey)
  BY <1>1, <1>2 DEF TicketsOf
<1>7. Certain(journey, query)
  BY <1>5, <1>6 DEF OfferInv, Seating, Seatless
<1>8. Backed(journey, query, mode)
  BY <1>1, <1>2, <1>3, <1>5, <1>7 DEF OfferInv, Seating, Certain, Backed
<1>9. Booked(LegsOf(journey)).ok <=> FreeIn(rows, journey)
  BY <1>4, <1>8, BookedIfFree DEF OfferInv
<1>10. SeatsFree(journey) <=> FreeIn(rows, journey)
  BY DEF SeatsFree, FreeIn, FreeLeg
<1>11. QED
  BY <1>9, <1>10 DEF OfferInv, Seating

\* Where no halt passes midnight, the ledger takes every journey offered with
\* seats unless one of them has been sold since (BookingService.book_itinerary
\* and the search's own conditions agree).
THEOREM OffersAreTaken ==
  ASSUME TidyHalts
  PROVE  Spec => []OfferStands
BY OfferInvHolds, OfferInvStands, PTL

-----------------------------------------------------------------------------
\* The seats that are free in stretches

\* One more halt is looked at for the end of a stretch.
Marked(halts, spacing, least, e, i) ==
  IF i - e[Len(e)] >= spacing /\ halts[i + 1].halt >= least THEN Append(e, i) ELSE e

\* The ends found as the halts are gone through.
Marks(halts, spacing, least, n, f) ==
  /\ DOMAIN f = 0..n /\ f = [k \in 0..n |-> f[k]]
  /\ f[0] = <<0>>
  /\ \A k \in 1..n : f[k] = Marked(halts, spacing, least, f[k - 1], k)

LEMMA MarksExist ==
  ASSUME NEW halts, NEW spacing, NEW least, NEW n \in Nat
  PROVE  \E f : Marks(halts, spacing, least, n, f)
<1> DEFINE T == {k \in Nat : \E f : Marks(halts, spacing, least, k, f)}
<1>1. 0 \in T
  <2> DEFINE f == [k \in 0..0 |-> <<0>>]
  <2>1. DOMAIN f = 0..0 /\ f = [k \in 0..0 |-> f[k]] /\ f[0] = <<0>> /\ 1..0 = {}
    OBVIOUS
  <2>2. Marks(halts, spacing, least, 0, f)
    BY <2>1 DEF Marks
  <2>3. QED
    BY <2>2
<1>2. ASSUME NEW k \in Nat, k \in T PROVE k + 1 \in T
  <2>1. PICK f : Marks(halts, spacing, least, k, f)
    BY <1>2
  <2> DEFINE last == Marked(halts, spacing, least, f[k], k + 1)
             g == [m \in 0..(k + 1) |-> IF m = k + 1 THEN last ELSE f[m]]
  <2>2. f[0] = <<0>> /\ \A m \in 1..k : f[m] = Marked(halts, spacing, least, f[m - 1], m)
    BY <2>1 DEF Marks
  <2>3. g[0] = <<0>> /\ DOMAIN g = 0..(k + 1) /\ g[k + 1] = last /\ \A m \in 0..k : g[m] = f[m]
    <3> HIDE DEF last
    <3> QED
      BY <2>2
  <2>4. g = [m \in 0..(k + 1) |-> g[m]]
    <3> HIDE DEF last
    <3> QED
      OBVIOUS
  <2> HIDE DEF g
  <2>5. ASSUME NEW m \in 1..(k + 1) PROVE g[m] = Marked(halts, spacing, least, g[m - 1], m)
    <3>1. g[m - 1] = f[m - 1]
      <4>1. m - 1 \in 0..k
        OBVIOUS
      <4>2. QED
        BY <2>3, <4>1
    <3>2. CASE m = k + 1
      <4>1. m - 1 = k
        BY <3>2
      <4>2. QED
        BY <2>3, <3>1, <3>2, <4>1
    <3>3. CASE m # k + 1
      <4>1. m \in 1..k /\ g[m] = f[m]
        BY <2>3, <3>3
      <4>2. QED
        BY <2>2, <3>1, <4>1
    <3>4. QED
      BY <3>2, <3>3
  <2>6. Marks(halts, spacing, least, k + 1, g)
    BY <2>3, <2>4, <2>5 DEF Marks
  <2>7. QED
    BY <2>6
<1>3. Nat \subseteq T
  <2> HIDE DEF T
  <2> QED
    BY <1>1, <1>2, SetInduction
<1>4. QED
  BY <1>3

\* The ends of the stretches are these and the end of the route.
LEMMA BoundariesMarked ==
  ASSUME NEW halts, NEW spacing, NEW least, NEW n \in Nat, n = Len(halts) - 1 - 1
  PROVE  \E f : /\ Marks(halts, spacing, least, n, f)
                /\ Boundaries(halts, spacing, least) = Append(f[n], Len(halts) - 1)
<1> DEFINE Eq(f) == f = [i \in 0..n |->
                           IF i = 0 THEN <<0>>
                           ELSE IF i - f[i - 1][Len(f[i - 1])] >= spacing /\ halts[i + 1].halt >= least
                                THEN Append(f[i - 1], i) ELSE f[i - 1]]
           t == CHOOSE f : Eq(f)
<1>1. Boundaries(halts, spacing, least) = Append(t[n], Len(halts) - 1)
  BY Zenon DEF Boundaries
<1>2. PICK f : Marks(halts, spacing, least, n, f)
  BY MarksExist
<1>3. Eq(f)
  <2>1. \A k \in 0..n : k # 0 => k \in 1..n
    OBVIOUS
  <2>2. \A i \in 0..n : f[i] = IF i = 0 THEN <<0>>
                               ELSE IF i - f[i - 1][Len(f[i - 1])] >= spacing /\ halts[i + 1].halt >= least
                                    THEN Append(f[i - 1], i) ELSE f[i - 1]
    BY <1>2, <2>1, Zenon DEF Marks, Marked
  <2>3. f = [k \in 0..n |-> f[k]]
    BY <1>2 DEF Marks
  <2>4. QED
    BY <2>2, <2>3, Zenon
<1>4. Eq(t)
  BY <1>3, Zenon
<1> HIDE DEF t
<1>5. Marks(halts, spacing, least, n, t)
  <2>1. 0 \in 0..n /\ \A k \in 1..n : k \in 0..n /\ k # 0
    OBVIOUS
  <2>2. t[0] = <<0>>
    BY <1>4, <2>1, Zenon
  <2>3. \A k \in 1..n : t[k] = Marked(halts, spacing, least, t[k - 1], k)
    BY <1>4, <2>1, Zenon DEF Marked
  <2>4. DOMAIN t = 0..n /\ t = [k \in 0..n |-> t[k]]
    BY <1>4, Zenon
  <2>5. QED
    BY <2>2, <2>3, <2>4, Zenon DEF Marks
<1>6. QED
  BY <1>1, <1>5

\* Numbers in ascending order, none above i.
Climbing(e, i) ==
  /\ e \in Seq(Nat) /\ e # <<>> /\ e[Len(e)] <= i
  /\ \A p, r \in 1..Len(e) : p < r => e[p] < e[r]

LEMMA AppendAscends ==
  ASSUME NEW e, NEW i \in Nat, NEW k \in Nat, Climbing(e, i), e[Len(e)] < k
  PROVE  Climbing(Append(e, k), k)
<1> DEFINE g == Append(e, k)
<1>1. e \in Seq(Nat) /\ Len(e) \in Nat \ {0}
  BY DEF Climbing
<1>2. /\ g \in Seq(Nat) /\ Len(g) = Len(e) + 1 /\ g[Len(g)] = k
      /\ \A p \in 1..Len(e) : g[p] = e[p]
  BY <1>1
<1>3. \A p \in 1..Len(e) : e[p] < k
  <2> SUFFICES ASSUME NEW p \in 1..Len(e) PROVE e[p] < k
    OBVIOUS
  <2>1. e[p] \in Nat /\ e[Len(e)] \in Nat /\ (p = Len(e) \/ e[p] < e[Len(e)])
    BY <1>1 DEF Climbing
  <2>2. QED
    BY <2>1
<1> HIDE DEF g
<1>4. ASSUME NEW p \in 1..Len(g), NEW r \in 1..Len(g), p < r PROVE g[p] < g[r]
  <2>1. p \in 1..Len(e) /\ g[p] = e[p]
    BY <1>1, <1>2, <1>4, SMTT(60)
  <2>2. CASE r = Len(g)
    BY <1>2, <1>3, <2>1, <2>2
  <2>3. CASE r # Len(g)
    <3>1. r \in 1..Len(e) /\ g[r] = e[r]
      BY <1>1, <1>2, <2>3, SMTT(60)
    <3>2. QED
      BY <1>4, <2>1, <3>1 DEF Climbing
  <2>4. QED
    BY <2>2, <2>3
<1>5. g # <<>> /\ k <= k
  BY <1>1, <1>2
<1>6. QED
  BY <1>2, <1>4, <1>5 DEF Climbing, g

LEMMA BoundariesAscend ==
  ASSUME NEW halts, Len(halts) \in Nat, Len(halts) >= 2, NEW spacing \in Nat \ {0}, NEW least
  PROVE  Climbing(Boundaries(halts, spacing, least), Len(halts) - 1)
<1>0. Len(halts) - 1 - 1 \in Nat
  OBVIOUS
<1>1. PICK n \in Nat : n = Len(halts) - 1 - 1
  BY <1>0, Zenon
<1>2. PICK f : /\ Marks(halts, spacing, least, n, f)
               /\ Boundaries(halts, spacing, least) = Append(f[n], Len(halts) - 1)
  BY <1>1, BoundariesMarked, ZenonT(60)
<1> DEFINE T == {k \in Nat : k <= n => Climbing(f[k], k)}
<1>3. 0 \in T
  <2>1. f[0] = <<0>>
    BY <1>2 DEF Marks
  <2>2. Climbing(<<0>>, 0)
    BY DEF Climbing
  <2>3. QED
    BY <2>1, <2>2
<1>4. ASSUME NEW k \in Nat, k \in T PROVE k + 1 \in T
  <2> SUFFICES ASSUME k + 1 <= n PROVE Climbing(f[k + 1], k + 1)
    OBVIOUS
  <2>1. PICK y \in 1..n : y = k + 1
    OBVIOUS
  <2>2. f[y] = Marked(halts, spacing, least, f[k], y) /\ Climbing(f[k], k)
    <3>1. y - 1 = k
      BY <2>1
    <3>2. f[y] = Marked(halts, spacing, least, f[y - 1], y)
      BY <1>2, Zenon DEF Marks
    <3>3. Climbing(f[k], k)
      BY <1>4
    <3>4. QED
      BY <3>1, <3>2, <3>3, Zenon
  <2> DEFINE e == f[k]
  <2>3. Climbing(e, k) /\ e[Len(e)] \in Nat /\ e[Len(e)] <= k
    BY <2>2, SMTT(60) DEF Climbing
  <2> HIDE DEF e
  <2>4. Climbing(e, y)
    BY <2>1, <2>3 DEF Climbing
  <2>5. Climbing(Append(e, y), y)
    BY <2>1, <2>3, AppendAscends
  <2>6. f[y] = e \/ f[y] = Append(e, y)
    BY <2>2 DEF Marked, e
  <2>7. QED
    BY <2>1, <2>4, <2>5, <2>6
<1>5. n \in T
  <2> HIDE DEF T
  <2> QED
    BY <1>1, <1>3, <1>4, SetInduction
<1>6. Climbing(f[n], n)
  BY <1>5
<1>7. f[n][Len(f[n])] < Len(halts) - 1
  BY <1>1, <1>6 DEF Climbing
<1>8. QED
  BY <1>1, <1>2, <1>6, <1>7, AppendAscends

LEMMA WholeTurns ==
  ASSUME NEW n \in Nat \ {0}, NEW a \in Int, NEW b \in Int, NEW r \in Int,
         NEW x, NEW y, x = n * a + r, y = n * b + r, x < y
  PROVE  ~(y - x < n)
<1>1. n * a \in Int /\ n * b \in Int
  OBVIOUS
<1>2. n * a < n * b
  BY <1>1
<1>3. a < b
  BY <1>2
<1>4. n * b >= n * a + n
  BY <1>3
<1>5. QED
  BY <1>1, <1>4

\* Two places less than a turn apart are not the same place in the turn.
LEMMA Turns ==
  ASSUME NEW n \in Nat \ {0}, NEW x \in Nat, NEW y \in Nat, x < y, y - x < n
  PROVE  x % n # y % n
<1> SUFFICES ASSUME x % n = y % n PROVE FALSE
  OBVIOUS
<1>1. PICK a : a \in Int /\ a = x \div n
  <2>1. x \div n \in Int
    OBVIOUS
  <2>2. QED
    BY <2>1, Zenon
<1>2. PICK b : b \in Int /\ b = y \div n
  <2>1. y \div n \in Int
    OBVIOUS
  <2>2. QED
    BY <2>1, Zenon
<1>3. PICK r \in Int : r = x % n
  OBVIOUS
<1>4. x = n * a + r
  BY <1>1, <1>3
<1>5. y = n * b + r
  BY <1>2, <1>3
<1>6. QED
  BY <1>1, <1>2, <1>3, <1>4, <1>5, WholeTurns

\* Seats of two blocks that follow each other are different seats.
LEMMA BlocksDiffer ==
  ASSUME NEW order, Len(order) \in Nat, NEW quota \in Nat \ {0}, 2 * quota <= Len(order),
         \A i, k \in 1..Len(order) : order[i] = order[k] => i = k,
         NEW b \in Nat, NEW d, d = b + 1
  PROVE  FreeInBlock(order, quota, b) \cap FreeInBlock(order, quota, d) = {}
<1> DEFINE n == Len(order)
<1> SUFFICES ASSUME NEW o \in 0..(quota - 1), NEW p \in 0..(quota - 1),
                    order[((b * quota + o) % n) + 1] = order[((d * quota + p) % n) + 1]
             PROVE  FALSE
  BY SMTT(30) DEF FreeInBlock
<1>1. n \in Nat \ {0} /\ 2 * quota <= n
  OBVIOUS
<1> HIDE DEF n
<1>2. PICK x : x \in Nat /\ x = b * quota + o
  <2>1. b * quota \in Nat
    OBVIOUS
  <2>2. QED
    BY <2>1, SMTT(60)
<1>3. PICK y : y \in Nat /\ y = d * quota + p
  <2>1. d * quota \in Nat
    OBVIOUS
  <2>2. QED
    BY <2>1, SMTT(60)
<1>4. d * quota = b * quota + quota
  OBVIOUS
<1>5. x < y /\ y - x < n
  <2>1. b * quota \in Nat
    OBVIOUS
  <2>2. QED
    BY <1>1, <1>2, <1>3, <1>4, <2>1
<1>6. x % n # y % n
  BY <1>1, <1>2, <1>3, <1>5, Turns
<1>7. x % n \in 0..(n - 1) /\ y % n \in 0..(n - 1)
  BY <1>1, <1>2, <1>3
<1>8. (x % n) + 1 \in 1..n /\ (y % n) + 1 \in 1..n /\ (x % n) + 1 # (y % n) + 1
  BY <1>1, <1>6, <1>7, SMTT(60)
<1>9. order[(x % n) + 1] = order[(y % n) + 1]
  BY <1>2, <1>3
<1>10. QED
  BY <1>8, <1>9 DEF n

\* The seed layer of a coach whose seats are free in stretches.
Fragmented(c) == Draws[c].tier \in 3..8

LEMMA EdgesNumbers ==
  ASSUME NEW c \in Coaches, Fragmented(c), Len(Halts[c[1]]) \in Nat, Len(Halts[c[1]]) >= 2
  PROVE  Edges(c) \subseteq Nat
<1> DEFINE ends == Boundaries(Halts[c[1]], Draws[c].spacing, MinSeatChange)
<1>1. Draws[c].spacing \in Nat \ {0}
  BY DrawsAssumption DEF Fragmented
<1>2. Climbing(ends, Len(Halts[c[1]]) - 1)
  BY <1>1, BoundariesAscend
<1>3. ends \in Seq(Nat)
  BY <1>2, Zenon DEF Climbing
<1>4. Edges(c) = Range(ends)
  BY DEF Edges, Fragmented
<1> HIDE DEF ends
<1>5. QED
  BY <1>3, <1>4 DEF Range

\* No seat is free on both sides of the end of a stretch.
LEMMA EndsSeparate ==
  ASSUME NEW c \in Coaches, Fragmented(c), Len(Halts[c[1]]) \in Nat, Len(Halts[c[1]]) >= 2,
         NEW e \in Edges(c), NEW s \in Seats, 0 < e, e < Len(Halts[c[1]]) - 1
  PROVE  ~(e - 1 \notin Seed[c][s] /\ e \notin Seed[c][s])
<1> DEFINE draw == Draws[c]
           halts == Halts[c[1]]
           ends == Boundaries(halts, draw.spacing, MinSeatChange)
           free == UNION {ends[b + 1]..(ends[b + 2] - 1) :
                            b \in {b \in 0..(Len(ends) - 2) : s \in FreeInBlock(draw.order, draw.quota, b)}}
<1>1. /\ Seed[c] = BusyMasks(halts, draw, MinSeatChange)
      /\ draw.spacing \in Nat \ {0} /\ draw.quota \in Nat \ {0} /\ Len(draw.order) \in Nat
      /\ 2 * draw.quota <= Len(draw.order)
      /\ {draw.order[i] : i \in DOMAIN draw.order} = Seats
      /\ \A i, k \in 1..Len(draw.order) : draw.order[i] = draw.order[k] => i = k
  BY DrawsAssumption DEF Fragmented, Range
<1>2. Climbing(ends, Len(halts) - 1)
  BY <1>1, BoundariesAscend
<1>3. draw.tier \in 3..8 /\ e \in Range(ends)
  BY DEF Edges, Fragmented
<1>4. Seed[c][s] = (0..(Len(halts) - 2)) \ free
  <2>1. draw.tier # 9 /\ ~(draw.tier < 3)
    BY <1>3, SMTT(60)
  <2> HIDE DEF draw, halts
  <2>2. QED
    BY <1>1, <2>1, Zenon DEF BusyMasks
<1> HIDE DEF draw, ends, free
<1>5. PICK m \in 1..Len(ends) : e = ends[m]
  BY <1>2, <1>3 DEF Climbing, Range
<1> SUFFICES ASSUME e - 1 \in free, e \in free PROVE FALSE
  <2>1. e - 1 \in 0..(Len(halts) - 2) /\ e \in 0..(Len(halts) - 2)
    BY <1>2, <1>5, SMTT(30) DEF Climbing
  <2>2. QED
    BY <1>4, <2>1, Zenon
<1>6. PICK a \in 0..(Len(ends) - 2) : /\ s \in FreeInBlock(draw.order, draw.quota, a)
                                      /\ e - 1 \in ends[a + 1]..(ends[a + 2] - 1)
  BY DEF free
<1>7. PICK b \in 0..(Len(ends) - 2) : /\ s \in FreeInBlock(draw.order, draw.quota, b)
                                      /\ e \in ends[b + 1]..(ends[b + 2] - 1)
  BY DEF free
<1>8. /\ \A p, r \in 1..Len(ends) : p < r => ends[p] < ends[r]
      /\ \A p \in 1..Len(ends) : ends[p] \in Nat
      /\ Len(ends) \in Nat
  <2>1. ends \in Seq(Nat) /\ \A p, r \in 1..Len(ends) : p < r => ends[p] < ends[r]
    BY <1>2, Zenon DEF Climbing
  <2>2. Len(ends) \in Nat /\ DOMAIN ends = 1..Len(ends)
    BY <2>1
  <2>3. \A p \in 1..Len(ends) : ends[p] \in Nat
    BY <2>1, SMTT(30)
  <2>4. QED
    BY <2>1, <2>2, <2>3, Zenon
<1> HIDE DEF halts
<1>9. /\ a \in Nat /\ b \in Nat
      /\ a + 1 \in 1..Len(ends) /\ a + 2 \in 1..Len(ends)
      /\ b + 1 \in 1..Len(ends) /\ b + 2 \in 1..Len(ends)
  BY <1>8
<1>10. m = a + 2
  <2>1. ~(m <= a + 1)
    BY <1>5, <1>6, <1>8, <1>9, SMTT(30)
  <2>2. ~(a + 2 < m)
    BY <1>5, <1>6, <1>8, <1>9, SMTT(60)
  <2>3. QED
    BY <1>9, <2>1, <2>2
<1>11. m = b + 1
  <2>1. ~(m < b + 1)
    BY <1>5, <1>7, <1>8, <1>9, SMTT(60)
  <2>2. ~(b + 2 <= m)
    BY <1>5, <1>7, <1>8, <1>9, SMTT(30)
  <2>3. QED
    BY <1>9, <2>1, <2>2
<1>12. b = a + 1
  BY <1>9, <1>10, <1>11
<1>13. FreeInBlock(draw.order, draw.quota, a) \cap FreeInBlock(draw.order, draw.quota, b) = {}
  BY <1>1, <1>9, <1>12, BlocksDiffer
<1>14. QED
  BY <1>6, <1>7, <1>13

\* A sound ticket does not pass the end of a stretch.
LEMMA SoundSplits ==
  ASSUME NEW q, NEW x, Sound(x, q), x.seats # <<>>, NEW e \in Edges(CoachOf(x))
  PROVE  ~(LegOf(x).from < e /\ e < LegOf(x).to)
<1> DEFINE c == CoachOf(x)
           from == LastCall(x.train, x.from) - 1
           to   == LastCall(x.train, x.to) - 1
<1>2. Code(x.train, From(x)) = x.from /\ Code(x.train, Into(x)) = x.to
  BY Zenon DEF Sound
<1>3. From(x) \in Route(x.train) /\ Into(x) \in Route(x.train) /\ x.train \in Trains /\ c \in Coaches
  BY Zenon DEF Sound, Ridable
<1>4. PICK a \in DOMAIN x.seats : x.seats[a] \in Seats /\ Seed[c][x.seats[a]] \cap Between(x.train, From(x), Into(x)) = {}
  <2>1. x.seats \in Seq(Seats)
    BY Zenon DEF Sound
  <2>2. PICK a \in DOMAIN x.seats : x.seats[a] \in Seats
    BY <2>1
  <2>3. QED
    BY <2>2, Zenon DEF Sound
<1>5. Between(x.train, From(x), Into(x)) = Span(from, to)
  BY <1>2, <1>3 DEF Between, LastCalls
<1>6. /\ from \in Nat /\ to \in Nat /\ to <= Len(Halts[c[1]]) - 1
      /\ Len(Halts[c[1]]) \in Nat /\ Len(Halts[c[1]]) >= 2
  <2>1. Route(x.train) = 1..Len(Halts[x.train]) /\ Len(Halts[x.train]) \in Nat /\ c[1] = x.train
    BY <1>3, TimetableAssumption DEF Route, CoachOf
  <2>2. LastCall(x.train, x.from) \in Route(x.train) /\ LastCall(x.train, x.to) \in Route(x.train)
    BY <1>2, <1>3, LastCallLaw DEF Calls, Code
  <2>3. From(x) \in Route(x.train) /\ From(x) < Into(x)
    BY Zenon DEF Sound, Ridable
  <2>4. QED
    BY <1>3, <2>1, <2>2, <2>3, SMTT(30)
<1> SUFFICES ASSUME from < e, e < to PROVE FALSE
  BY DEF LegOf
<1>7. Fragmented(c) /\ e \in Edges(c)
  BY DEF Edges, Fragmented
<1>8. e \in Nat
  <2>1. QED
    BY <1>3, <1>6, <1>7, EdgesNumbers DEF CoachOf
<1>9. e - 1 \in Span(from, to) /\ e \in Span(from, to)
  <2>1. Len(Halts[c[1]]) <= LastStop + 1 /\ LastStop \in Nat
    BY <1>3, SearchAssumption, InventoryAssumption DEF CoachOf
  <2>2. QED
    BY <1>6, <1>8, <2>1, SMTT(60) DEF Span, Segments
<1>10. e - 1 \notin Seed[c][x.seats[a]] /\ e \notin Seed[c][x.seats[a]]
  BY <1>4, <1>5, <1>9, Zenon
<1>11. 0 < e /\ e < Len(Halts[c[1]]) - 1
  BY <1>6, <1>8
<1> HIDE DEF c
<1>12. QED
  BY <1>3, <1>4, <1>6, <1>7, <1>10, <1>11, EndsSeparate

LEMMA OfferInvSplits == OfferInv => BoundariesSplit
<1> SUFFICES ASSUME OfferInv, phase = "offer", NEW i \in TicketsOf(journey),
                    journey.tickets[i].seats # <<>>,
                    NEW e \in Edges(CoachOf(journey.tickets[i]))
             PROVE  LET leg == LegOf(journey.tickets[i]) IN ~(leg.from < e /\ e < leg.to)
  BY DEF BoundariesSplit, LegOf, CoachOf
<1>1. Sound(journey.tickets[i], query)
  BY Zenon DEF OfferInv, Seating, Certain, Seatless
<1>2. QED
  BY <1>1, SoundSplits, Zenon

\* In a class whose free seats come in stretches every journey offered changes
\* seats at the end of a stretch it passes, whatever has been sold and
\* whichever seats the hash draws (inventory._busy_masks: crossing a boundary
\* requires a real seat change).
THEOREM SplitsAtBoundaries == Spec => []BoundariesSplit
BY OfferInvHolds, OfferInvSplits, PTL

-----------------------------------------------------------------------------
\* The best a class has

\* A status is answered from what is known of the coach.
LEMMA StatusRead ==
  ASSUME NEW c, NEW one, NEW two, one[c] = two[c] \/ Seats = {}, NEW i, NEW k, NEW n
  PROVE  Status(one, c, i, k, n) = Status(two, c, i, k, n)
<1> DEFINE span == Between(c[1], i, k)
<1> HIDE DEF span
<1>1. FreeOver(one[c], span) = FreeOver(two[c], span)
  BY DEF FreeOver
<1>2. QED
  BY <1>1, Zenon DEF Status, span

LEMMA StatusRanks ==
  ASSUME NEW t \in Trains, NEW i \in Route(t), NEW k \in Route(t), NEW code \in Reservable(t), NEW run,
         NEW c, c = <<t, run, code>>, NEW masks, NEW n
  PROVE  /\ Status(masks, c, i, k, n) \in {"CONFIRMED", "RAC", "WAITLIST", "UNAVAILABLE"}
         /\ Priority(Status(masks, c, i, k, n)) \in 0..9
         /\ Status(masks, c, i, k, n) = "UNAVAILABLE" => Priority(Status(masks, c, i, k, n)) = 9
<1> DEFINE status == Status(masks, c, i, k, n)
<1>1. status \in {"CONFIRMED", "RAC", "WAITLIST", "UNAVAILABLE"}
  BY StatusTyped DEF Statuses
<1> HIDE DEF status
<1>2. Priority(status) \in 0..9 /\ (status = "UNAVAILABLE" => Priority(status) = 9)
  BY <1>1 DEF Priority
<1>3. QED
  BY <1>1, <1>2 DEF status

\* What a coach weighs where nobody is on board: the rank of its status, then its
\* place in the alphabet.
StatusRank    == 0..9
AlphabetPlace == 1..99
CoachWeight(rank, place) == 10000 * rank + place

\* The status counts for more than the place.
LEMMA WeightOrder ==
  ASSUME NEW p \in StatusRank, NEW r \in StatusRank, NEW a \in AlphabetPlace, NEW b \in AlphabetPlace,
         CoachWeight(p, a) <= CoachWeight(r, b)
  PROVE  p <= r
<1>1. p \in Int /\ r \in Int /\ a \in Int /\ b \in Int /\ a >= 1 /\ b <= 99
  BY DEF StatusRank, AlphabetPlace
<1>2. 10000 * p + a <= 10000 * r + b
  BY DEF CoachWeight
<1>3. QED
  BY <1>1, <1>2

\* So the status counts for more where nobody is on board.
LEMMA StatusFirst ==
  ASSUME NEW q, NEW masks, NEW j, NEW i, NEW k, NEW c, NEW d,
         ~Continues(j, c[1]), ~Continues(j, d[1]),
         Priority(Status(masks, c, i, k, q.count)) \in 0..9,
         Priority(Status(masks, d, i, k, q.count)) \in 0..9,
         c[3] \in Range(Alphabet), d[3] \in Range(Alphabet),
         CoachRank(masks, j, q, c, i, k) <= CoachRank(masks, j, q, d, i, k)
  PROVE  Priority(Status(masks, c, i, k, q.count)) <= Priority(Status(masks, d, i, k, q.count))
<1> DEFINE mine   == Priority(Status(masks, c, i, k, q.count))
           theirs == Priority(Status(masks, d, i, k, q.count))
           place(x) == CHOOSE p \in DOMAIN Alphabet : Alphabet[p] = x
<1>1. mine \in StatusRank /\ theirs \in StatusRank
  BY DEF StatusRank
<1>2. place(c[3]) \in AlphabetPlace /\ place(d[3]) \in AlphabetPlace
  <2>1. \A x \in Range(Alphabet) : \E p \in DOMAIN Alphabet : Alphabet[p] = x
    BY DEF Range
  <2>2. place(c[3]) \in DOMAIN Alphabet /\ place(d[3]) \in DOMAIN Alphabet
    BY <2>1, Zenon
  <2>3. DOMAIN Alphabet \subseteq AlphabetPlace
    <3>1. PICK n \in 0..99 : n = Len(Alphabet)
      BY AlphabetAssumption
    <3>2. DOMAIN Alphabet = 1..n
      BY <3>1, AlphabetAssumption
    <3>3. QED
      BY <3>2, SMTT(60) DEF AlphabetPlace
  <2>4. QED
    BY <2>2, <2>3, Zenon
<1>3. CoachWeight(mine, place(c[3])) <= CoachWeight(theirs, place(d[3]))
  <2>1. /\ CoachRank(masks, j, q, c, i, k) = 10000 * mine + 100 * 0 + place(c[3])
        /\ CoachRank(masks, j, q, d, i, k) = 10000 * theirs + 100 * 0 + place(d[3])
    BY DEF CoachRank
  <2> HIDE DEF mine, theirs, place
  <2>2. mine \in Int /\ theirs \in Int /\ place(c[3]) \in Int /\ place(d[3]) \in Int
    BY <1>1, <1>2 DEF StatusRank, AlphabetPlace
  <2>3. CoachWeight(mine, place(c[3])) = 10000 * mine + 100 * 0 + place(c[3])
    BY <2>2 DEF CoachWeight
  <2>4. CoachWeight(theirs, place(d[3])) = 10000 * theirs + 100 * 0 + place(d[3])
    BY <2>2 DEF CoachWeight
  <2>5. QED
    BY <2>1, <2>3, <2>4
<1>4. QED
  BY <1>1, <1>2, <1>3, WeightOrder, Zenon

\* On a first ride to the destination the coach taken has the best status of
\* its class, whatever the others answer.
LEMMA ChosenBest ==
  ASSUME NEW q \in Queries, NEW masks, NEW j, j.tickets = <<>>,
         NEW t \in Trains, NEW i \in Route(t), NEW k \in Route(t), Code(t, k) = q.destination,
         NEW run, NEW code \in Reservable(t), NEW c, c = <<t, run, code>>,
         c \in Chosen(masks, j, q, t, run, i, k),
         NEW other \in Reservable(t), ClassOf[other] = ClassOf[code], NEW d, d = <<t, run, other>>
  PROVE  Priority(Status(masks, c, i, k, q.count)) <= Priority(Status(masks, d, i, k, q.count))
<1> DEFINE mine   == Status(masks, c, i, k, q.count)
           theirs == Status(masks, d, i, k, q.count)
<1>1. Priority(mine) \in 0..9 /\ Priority(theirs) \in 0..9 /\ (theirs = "UNAVAILABLE" => Priority(theirs) = 9)
  <2>1. Priority(mine) \in 0..9
    BY StatusRanks
  <2>2. Priority(theirs) \in 0..9 /\ (theirs = "UNAVAILABLE" => Priority(theirs) = 9)
    BY StatusRanks
  <2>3. QED
    BY <2>1, <2>2
<1>2. ~Continues(j, c[1]) /\ ~Continues(j, d[1])
  BY DEF Continues
<1>3. c[3] = code /\ d[3] = other
  OBVIOUS
<1>4. Offers(masks, j, q, c, i, k)
  BY DEF Chosen
<1>5. CASE Offers(masks, j, q, d, i, k)
  <2>1. CoachRank(masks, j, q, c, i, k) <= CoachRank(masks, j, q, d, i, k)
    BY <1>3, <1>5, SMTT(60) DEF Chosen
  <2>2. c[3] \in Range(Alphabet) /\ d[3] \in Range(Alphabet)
    BY <1>3, AlphabetAssumption
  <2>3. QED
    BY <1>1, <1>2, <2>1, <2>2, StatusFirst, Zenon
<1>6. CASE ~Offers(masks, j, q, d, i, k)
  <2>1. Allowed(q, other)
    BY <1>3, <1>4, Zenon DEF Offers, Allowed
  <2>2. 0 <= MaxShortWalk
    BY SearchAssumption
  <2>3. theirs = "UNAVAILABLE"
    BY <1>2, <1>3, <1>6, <2>1, <2>2, Zenon DEF Offers
  <2>4. QED
    BY <1>1, <2>3
<1>7. QED
  BY <1>5, <1>6

-----------------------------------------------------------------------------
\* Direct journeys

\* A first ticket, and no coach of its class does better on its stretch.
First(x, q) ==
  /\ x.train \in Trains /\ x.coach \in Reservable(x.train) /\ x.from = q.origin
  /\ Ridable(x.train, From(x), Into(x))
  /\ Code(x.train, From(x)) = x.from /\ Code(x.train, Into(x)) = x.to
  /\ x.run = q.date - DaysBefore(x.train, From(x))
  /\ Departs(Halt(x.train, From(x)), x.run) < Arrives(Halt(x.train, Into(x)), x.run)

Foremost(masks, x, q) ==
  /\ x.status = Status(masks, CoachOf(x), From(x), Into(x), q.count)
  /\ \A d \in Reservable(x.train) : ClassOf[d] = ClassOf[x.coach] =>
       Priority(x.status) <= Priority(Status(masks, <<x.train, x.run, d>>, From(x), Into(x), q.count))

\* What is known of a direct journey by legs while nothing has been committed.
Panelling ==
  (phase = "leg" \/ ByLegs) /\ version = asked /\ Len(journey.tickets) = 1 =>
    LET x == journey.tickets[1]
    IN  First(x, query) /\ (x.to = query.destination => Foremost(Current, x, query))

LEMMA PanellingInit == Init => Panelling
<1> SUFFICES ASSUME Init PROVE Panelling
  OBVIOUS
<1>1. phase = "idle"
  BY DEF Init
<1>2. QED
  BY <1>1 DEF Panelling, ByLegs

\* The coaches of a run that is boarded on the date asked for.
LEMMA DirectKnown ==
  ASSUME NEW q \in Queries, q.date \in FirstDay..LastDay, NEW t \in Trains, NEW i \in Route(t), NEW run,
         run = q.date - DaysBefore(t, i), Operates(t, run), NEW code \in Reservable(t),
         NEW c, c = <<t, run, code>>
  PROVE  c \in Coaches
<1>1. DaysBefore(t, i) \in Nat
  BY DaysTyped
<1>2. q.date \in Int /\ MaxJourneyDays \in Nat /\ FirstDay \in Int /\ LastDay \in Int
  BY SearchAssumption, TimetableAssumption, QueriesAssumption
<1>3. run \in (FirstDay - DaysBefore(t, i))..(LastDay + MaxJourneyDays)
  BY <1>1, <1>2
<1>4. QED
  BY <1>3, SearchAssumption

\* No ride has been taken.
Fresh(j, q) == j.tickets = <<>> /\ j.at = q.origin

\* What the inventory read holds of this table.
Reads(masks, table) == \A c \in Coaches : masks[c] \in {Unread, table[c]}

\* What the rides' conditions say of a first ticket.
LEMMA RideFirst ==
  ASSUME NEW q, NEW m, NEW masks, NEW j, Fresh(j, q),
         NEW t, NEW run, NEW code, NEW i, NEW k, Taken(masks, j, q, m, t, run, code, i, k),
         NEW c, c = <<t, run, code>>, NEW x, x = Ridden(masks, j, q, t, run, code, i, k),
         Behind(masks, j, q, x, c, t, run, i, k)
  PROVE  First(x, q)
<1>1. /\ t \in Trains /\ i \in Route(t) /\ k \in Route(t) /\ i < k /\ Code(t, i) = j.at
      /\ \A s \in i..(k - 1) : Segment(t, s) > 0
  BY RideForward
<1>2. /\ x.train = t /\ x.run = run /\ x.from = j.at /\ x.to = Code(t, k) /\ x.coach = code
  BY DEF Ridden
<1>3. From(x) = i /\ Into(x) = k /\ run = q.date - DaysBefore(t, i)
  BY DEF Behind, Fresh
<1>4. code \in Reservable(t) /\ k \in Stretches(j, q, m, t, i, run)
  BY DEF Taken
<1>5. Departs(Halt(t, i), run) < Arrives(Halt(t, k), run)
  <2>1. Alights(j, q, m, t, i, run, k)
    BY <1>4 DEF Stretches
  <2>2. Arrives(Halt(t, k), run) > Departs(Halt(t, i), run)
    BY <2>1 DEF Alights
  <2>3. QED
    BY <1>1, <2>2
<1>6. Ridable(t, i, k)
  BY <1>1 DEF Ridable
<1>7. j.at = q.origin
  BY DEF Fresh
<1>8. QED
  BY <1>1, <1>2, <1>3, <1>4, <1>5, <1>6, <1>7 DEF First

\* Whatever the ledger holds, all of it was read before the coach was taken.
LEMMA RideForemost ==
  ASSUME NEW q \in Queries, q.date \in FirstDay..LastDay, NEW m, NEW masks, NEW j, Fresh(j, q),
         Awaited(j, q, m, masks, <<>>), NEW table, Reads(masks, table),
         NEW t, NEW run, NEW code, NEW i, NEW k, Taken(masks, j, q, m, t, run, code, i, k),
         NEW c, c = <<t, run, code>>, NEW x, x = Ridden(masks, j, q, t, run, code, i, k),
         Behind(masks, j, q, x, c, t, run, i, k), c \in Chosen(masks, j, q, t, run, i, k), x.to = q.destination
  PROVE  Foremost(table, x, q)
<1>1. /\ t \in Trains /\ i \in Route(t) /\ k \in Route(t) /\ i < k /\ Code(t, i) = j.at
  BY RideForward
<1>2. /\ x.train = t /\ x.run = run /\ x.to = Code(t, k) /\ x.coach = code
      /\ x.status = Status(masks, c, i, k, q.count)
  BY DEF Ridden
<1>3. From(x) = i /\ Into(x) = k /\ run = q.date - DaysBefore(t, i) /\ CoachOf(x) = c
  BY DEF Behind, Fresh
<1>4. code \in Reservable(t) /\ Operates(t, run)
  BY DEF Taken, Catches
<1>5. ASSUME NEW e \in Reservable(t), NEW d, d = <<t, run, e>>
      PROVE  Status(masks, d, i, k, q.count) = Status(table, d, i, k, q.count)
  <2>1. d \in Coaches
    BY <1>1, <1>3, <1>4, <1>5, DirectKnown
  <2>2. Seats # {} => masks[d] # Unread
    BY <1>5, <2>1, RunRead
  <2>3. masks[d] = table[d] \/ Seats = {}
    BY <2>1, <2>2 DEF Reads
  <2>4. QED
    BY <2>3, StatusRead
<1>6. x.status = Status(table, c, i, k, q.count)
  BY <1>2, <1>4, <1>5
<1>7. ASSUME NEW e \in Reservable(t), ClassOf[e] = ClassOf[code], NEW d, d = <<t, run, e>>
      PROVE  Priority(x.status) <= Priority(Status(table, d, i, k, q.count))
  <2>1. Priority(Status(masks, c, i, k, q.count)) <= Priority(Status(masks, d, i, k, q.count))
    BY <1>1, <1>2, <1>4, <1>7, ChosenBest, ZenonT(60) DEF Fresh
  <2>2. QED
    BY <1>2, <1>5, <1>7, <2>1
<1>8. QED
  BY <1>2, <1>3, <1>6, <1>7 DEF Foremost

\* The first ride, with everything it needs read, is known.
LEMMA RidePanelled ==
  ASSUME NEW q \in Queries, q.date \in FirstDay..LastDay, NEW m, NEW masks, NEW j, Seated(j, q, m),
         j.at \in Places(q), j.arrives \in Int, q.date * Day <= j.arrives,
         Awaited(j, q, m, masks, <<>>),
         \A c \in Coaches : masks[c] # Unread => Covers(masks[c], c),
         NEW h \in SeatSuccessors(masks, j, q, m), Len(h.tickets) = 1,
         NEW table, \A c \in Coaches : masks[c] \in {Unread, table[c]}
  PROVE  First(h.tickets[1], q) /\ (h.tickets[1].to = q.destination => Foremost(table, h.tickets[1], q))
<1>1. PICK t, run, code, i, k :
        /\ Taken(masks, j, q, m, t, run, code, i, k) /\ h = LegTo(masks, j, q, <<t, run, code>>, i, k)
        /\ <<t, run, code>> \in Chosen(masks, j, q, t, run, i, k)
  BY RidesChosen
<1>2. PICK c : c = <<t, run, code>>
  OBVIOUS
<1>3. PICK x : x = Ridden(masks, j, q, t, run, code, i, k)
  OBVIOUS
<1>4. h.tickets = Append(j.tickets, x)
  <2>1. h = [at |-> Code(t, k), arrives |-> Arrives(Halt(t, k), run), train |-> t, coach |-> code,
              tickets |-> Append(j.tickets, x), transfers |-> Len(j.tickets),
              moving |-> j.moving + SumFunction([s \in i..(k - 1) |-> Segment(t, s)]),
              closed |-> TRUE]
    BY <1>1, <1>3, RideShape, ZenonT(60)
  <2>2. QED
    BY <2>1
<1>5. j.tickets \in Seq(Tickets(q))
  BY DEF Seated, Chain
<1>6. j.tickets = <<>> /\ h.tickets[1] = x
  BY <1>4, <1>5
<1>7. j.at = q.origin
  BY <1>6 DEF Seated, InitialState
<1>8. c \in Coaches => Covers(masks[c], c)
  BY <1>1, <1>2, RideRead DEF Covers
<1>85. Fresh(j, q) /\ Reads(masks, table)
  BY <1>6, <1>7 DEF Fresh, Reads
<1>9. Behind(masks, j, q, x, c, t, run, i, k)
  BY <1>1, <1>2, <1>3, <1>8, RideBehind, Zenon
<1>10. First(x, q)
  BY <1>1, <1>2, <1>3, <1>85, <1>9, RideFirst, Zenon
<1>11. x.to = q.destination => Foremost(table, x, q)
  BY <1>1, <1>2, <1>3, <1>85, <1>9, RideForemost, Zenon
<1>12. QED
  BY <1>6, <1>10, <1>11

LEMMA PanellingStep == IInv /\ Seating /\ Panelling /\ [Next]_vars => Panelling'
<1> SUFFICES ASSUME IInv, Seating, Panelling, [Next]_vars PROVE Panelling'
  OBVIOUS
<1>0. /\ query \in Queries /\ version \in Int /\ asked \in Int /\ asked <= version
      /\ journey.tickets \in Seq(Tickets(query))
  BY DEF IInv, Tasked, Journeying, Shaped
<1>1. CASE UNCHANGED <<rows, version, phase, query, asked, journey, inv>>
  BY <1>1 DEF Panelling, ByLegs, Foremost, Current, Masks
<1>2. ASSUME NEW new, Commit(new), UNCHANGED asked PROVE Panelling'
  <2>1. version' # asked'
    BY <1>0, <1>2 DEF Commit
  <2>2. QED
    BY <2>1 DEF Panelling
<1>3. CASE phase' \notin {"leg", "offer"}
  BY <1>3 DEF Panelling, ByLegs
<1>4. CASE Ask
  <2>1. journey'.tickets = <<>>
    BY <1>4 DEF Ask, InitialState
  <2>2. Len(journey'.tickets) # 1
    BY <2>1
  <2>3. QED
    BY <2>2 DEF Panelling
<1>5. CASE ReadOwn
  BY <1>5 DEF ReadOwn, ledgerVars, taskVars, Panelling, ByLegs, Foremost, Current, Masks
<1>6. CASE Ride
  <2>1. /\ phase = "leg" /\ ~IsGoal(journey, query) /\ due = <<>>
        /\ journey' \in SeatSuccessors(inv, journey, query, mode)
        /\ UNCHANGED <<rows, version, query, mode, asked, phase, inv>>
    BY <1>6 DEF Ride, ledgerVars, taskVars
  <2>2. /\ query.date \in FirstDay..LastDay /\ query.date * Day <= journey.arrives
        /\ Awaited(journey, query, mode, inv, <<>>)
        /\ \A c \in Coaches : inv[c] # Unread => Covers(inv[c], c)
        /\ version = asked => \A c \in Coaches : inv[c] \in {Unread, ReadOf(rows, c)}
    BY <2>1 DEF Seating
  <2>3. Seated(journey, query, mode) /\ journey.at \in Places(query) /\ journey.arrives \in Int
    BY <2>1 DEF IInv, Journeying, Shaped
  <2>4. \A c \in Coaches : Current[c] = ReadOf(rows, c)
    BY DEF Current, Masks, ReadOf
  <2>5. PICK h \in SeatSuccessors(inv, journey, query, mode) : h = journey'
    BY <2>1
  <2>6. PICK table : table = Current
    OBVIOUS
  <2>7. Current' = table
    BY <2>1, <2>6 DEF Current, Masks
  <2> SUFFICES ASSUME version = asked, Len(h.tickets) = 1
               PROVE  /\ First(h.tickets[1], query)
                      /\ h.tickets[1].to = query.destination => Foremost(table, h.tickets[1], query)
    BY <2>1, <2>5, <2>7 DEF Panelling, Foremost
  <2>8. \A c \in Coaches : inv[c] \in {Unread, table[c]}
    BY <2>2, <2>4, <2>6
  <2>9. QED
    BY <1>0, <2>2, <2>3, <2>8, RidePanelled
<1>7. CASE OfferSeats
  BY <1>7 DEF OfferSeats, ledgerVars, taskVars, Panelling, ByLegs, Foremost, Current, Masks
<1>8. CASE OfferRide
  <2>1. phase' = "offer" /\ inv' = Empty
    BY <1>8 DEF OfferRide, Seating, Empty
  <2>2. Empty' = Empty
    BY DEF Empty
  <2>3. QED
    BY <2>1, <2>2 DEF Panelling, ByLegs
<1>9. CASE Call \/ ReadKept \/ Board \/ Continue \/ ChangeCoach \/ ChangeTrain \/ Leave \/ Book
  BY <1>3, <1>9 DEF Call, ReadKept, Board, Continue, ChangeCoach, ChangeTrain, Move, Leave, Book, Closed
<1>10. ASSUME NEW leg \in OthersLegs, OthersSell(leg) PROVE Panelling'
  BY <1>2, <1>10 DEF OthersSell, taskVars
<1>11. ASSUME NEW i \in DOMAIN rows, OthersCancel(i) PROVE Panelling'
  BY <1>2, <1>11 DEF OthersCancel, taskVars
<1>12. QED
  BY <1>1, <1>4, <1>5, <1>6, <1>7, <1>8, <1>9, <1>10, <1>11 DEF Next, vars

\* The least of a set with a least element.
LEMMA LeastIs ==
  ASSUME NEW S, S \subseteq Int, NEW x \in S, \A y \in S : x <= y
  PROVE  Least(S) = x
<1>1. S # {} /\ \E z \in S : \A y \in S : z <= y
  OBVIOUS
<1>2. /\ Least(S) \in S /\ \A y \in S : Least(S) <= y
  <2>1. Least(S) = CHOOSE z \in S : \A y \in S : z <= y
    BY <1>1 DEF Least
  <2>2. QED
    BY <1>1, <2>1
<1>3. Least(S) \in Int /\ x \in Int /\ Least(S) <= x /\ x <= Least(S)
  BY <1>2
<1>4. QED
  BY <1>3

\* A direct ride that is the foremost of its class is on the list.
LEMMA FirstOnPanel ==
  ASSUME NEW x, NEW q, First(x, q), Foremost(Current, x, q), x.to = q.destination
  PROVE  OnPanel(x, q)
<1> DEFINE t    == x.train
           from == IndexOf(t, q.origin)
           to   == IndexOf(t, q.destination)
           e    == From(x)
<1>1. /\ t \in Trains /\ x.coach \in Reservable(t) /\ e \in Route(t) /\ to \in Route(t) /\ e < to
      /\ Code(t, e) = q.origin /\ Code(t, to) = q.destination
      /\ x.run = q.date - DaysBefore(t, e)
      /\ Departs(Halt(t, e), x.run) < Arrives(Halt(t, to), x.run)
  BY DEF First, Ridable, Into
<1>2. Into(x) = to /\ e = LastCall(t, q.origin)
  BY DEF First, Into, From
<1> HIDE DEF e
<1>3. from \in Route(t) /\ Code(t, from) = q.origin /\ from \in Calls(t, q.origin)
  BY <1>1, FirstCall DEF Calls, Code
<1>4. Halt(t, e) = Halt(t, from) /\ from <= e
  <2>1. LET k == LastCall(t, Code(t, from)) IN Halt(t, k) = Halt(t, from) /\ (k = from \/ k = from + 1)
    BY <1>1, <1>3, HaltTwice
  <2>2. Halt(t, e) = Halt(t, from) /\ (e = from \/ e = from + 1)
    BY <1>2, <1>3, <2>1
  <2>3. from \in Int
    BY <1>1, <1>3, TimetableAssumption DEF Route
  <2>4. QED
    BY <2>2, <2>3
<1> HIDE DEF from, to
<1>5. from < to
  <2>1. Route(t) \subseteq Int
    BY <1>1, TimetableAssumption DEF Route
  <2>2. QED
    BY <1>1, <1>3, <1>4, <2>1, SMTT(60)
<1>6. Direct(t, q)
  <2>1. to \in Calls(t, q.destination)
    BY <1>1 DEF Calls, Code
  <2>2. Reaches(t, q.destination, from)
    BY <1>5, <2>1 DEF Reaches
  <2>3. Halt(t, from).halt # 0 /\ Halt(t, to).halt # 0
    BY <1>1, <1>3, RealHaltsAssumption
  <2>4. QED
    BY <1>3, <2>2, <2>3 DEF Direct, from, to
<1>7. /\ x.run = q.date - DaysBefore(t, from)
      /\ Arrives(Halt(t, to), x.run) > Departs(Halt(t, from), x.run)
  <2>1. DaysBefore(t, from) = DaysBefore(t, e)
    BY <1>4 DEF DaysBefore
  <2>2. Departs(Halt(t, e), x.run) < Arrives(Halt(t, to), x.run)
    BY <1>1
  <2>3. QED
    BY <1>1, <1>4, <2>1, <2>2
<1> DEFINE answer(d) == Priority(Status([k \in Coaches |-> Masks(k)], <<t, x.run, d>>, from, to, q.count))
           class     == {d \in Reservable(t) : ClassOf[d] = ClassOf[x.coach]}
<1>8. Shown(t, x.run, q, ClassOf[x.coach]) = {answer(d) : d \in class}
  BY DEF Shown, from, to
<1>9. ASSUME NEW d \in class
      PROVE  /\ answer(d) = Priority(Status(Current, <<t, x.run, d>>, e, to, q.count))
             /\ answer(d) \in Int /\ Priority(x.status) <= answer(d)
  <2>1. PICK c : c = <<t, x.run, d>>
    OBVIOUS
  <2>2. c[1] = t
    BY <2>1
  <2>3. Status(Current, c, from, to, q.count) = Status(Current, c, e, to, q.count)
    <3>1. Code(c[1], from) = Code(c[1], e)
      BY <1>1, <1>3, <2>2
    <3>2. Between(c[1], from, to) = Between(c[1], e, to)
      BY <1>1, <1>3, <2>2, <3>1 DEF Between, LastCalls
    <3>3. QED
      BY <3>1, <3>2, Zenon DEF Status
  <2>4. answer(d) = Priority(Status(Current, c, from, to, q.count))
    BY <2>1 DEF Current
  <2>5. Priority(Status(Current, c, from, to, q.count)) \in 0..9
    BY <1>1, <1>3, <2>1, StatusRanks
  <2>6. Priority(x.status) <= Priority(Status(Current, c, e, to, q.count))
    BY <1>2, <2>1 DEF Foremost, e
  <2> HIDE DEF answer
  <2>7. QED
    BY <2>1, <2>3, <2>4, <2>5, <2>6
<1>10. x.coach \in class /\ answer(x.coach) = Priority(x.status)
  <2>1. x.coach \in class
    BY <1>1
  <2>2. x.status = Status(Current, <<t, x.run, x.coach>>, e, to, q.count)
    BY <1>2 DEF Foremost, CoachOf, e
  <2>3. QED
    BY <1>9, <2>1, <2>2
<1> HIDE DEF answer, class
<1>11. Least({answer(d) : d \in class}) = Priority(x.status)
  <2>1. PICK S : S = {answer(d) : d \in class}
    OBVIOUS
  <2>2. PICK p : p = Priority(x.status)
    OBVIOUS
  <2>3. S \subseteq Int /\ p \in S /\ \A y \in S : p <= y
    BY <1>9, <1>10, <2>1, <2>2
  <2>4. Least(S) = p
    BY <2>3, LeastIs
  <2>5. QED
    BY <2>1, <2>2, <2>4
<1>12. QED
  BY <1>6, <1>7, <1>8, <1>11 DEF OnPanel, from, to

\* The list of direct services agrees with the search: what the search offers
\* directly while nothing is committed, with every coach of the train read one
\* after another, the list shows too, with the same status
\* (SeatSuccessors and web.direct_trains).
THEOREM DirectsAreListed == Spec => []DirectOnPanel
<1>1. Init => OfferInv /\ Panelling
  BY IInvInit, SeatingInit, PanellingInit DEF OfferInv
<1>2. OfferInv /\ Panelling /\ [Next]_vars => (OfferInv /\ Panelling)'
  BY IInvStep, ListedStep, SeatingStep, PanellingStep DEF OfferInv, IInv
<1>3. OfferInv /\ Panelling => DirectOnPanel
  <2> SUFFICES ASSUME OfferInv, Panelling, ByLegs, version = asked, Len(journey.tickets) = 1
               PROVE  OnPanel(journey.tickets[1], query)
    BY DEF DirectOnPanel
  <2>1. Arrived(journey, query, mode) /\ journey.tickets \in Seq(Tickets(query))
    BY DEF OfferInv, IInv, Journeying, Shaped, ByLegs
  <2>2. journey.tickets[1].to = query.destination
    BY <2>1 DEF Arrived, Last
  <2>3. First(journey.tickets[1], query) /\ Foremost(Current, journey.tickets[1], query)
    BY <2>2 DEF Panelling
  <2>4. QED
    BY <2>2, <2>3, FirstOnPanel
<1>4. QED
  BY <1>1, <1>2, <1>3, PTL DEF Spec
=============================================================================
