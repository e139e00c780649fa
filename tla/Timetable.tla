------------------------------ MODULE Timetable ------------------------------
(***************************************************************************)
(* The reference data of railway.db that journeys are made of: the real    *)
(* halts of each train with their clock times, its running days and its    *)
(* rake, and the graph of fastest rides between neighbouring halts from    *)
(* which the search estimates what a journey still takes                   *)
(* (src/data_store.py, src/constraint_checks.py, src/rail_graph.py,        *)
(* src/heuristic.py).                                                      *)
(*                                                                         *)
(* A date is a day number, whose remainder by seven is its weekday; a      *)
(* datetime is a minute number.  A halt is [code, arr, dep, day, halt]:    *)
(* two clock times, the day of the journey and the length of the halt,     *)
(* each of which may be missing.                                           *)
(***************************************************************************)
EXTENDS Integers, Sequences, FiniteSets, SequencesExt

CONSTANTS
  Trains,
  Halts,              \* the real halts of a train, in order
  RunsOn,             \* the weekdays a train starts on
  Rakes,              \* the coach codes of a train in physical order
  ClassOf,            \* the travel class of a coach code, or None
  Queue,              \* what a full coach answers for a stretch: RAC, WAITLIST or UNAVAILABLE
  FirstDay, LastDay   \* the booking window

Missing   == -1
None      == "none"
Day       == 1440
Infinite  == 1000000

Clock == {Missing} \cup 0..(Day - 1)

\* A halt is as long as its times say, on the clock.
ASSUME TimetableAssumption ==
  /\ IsFiniteSet(Trains) /\ None \notin Trains
  /\ \A t \in Trains : Len(Halts[t]) \in Nat /\ DOMAIN Halts[t] = 1..Len(Halts[t])
  /\ \A t \in Trains : \A i \in DOMAIN Halts[t] :
       LET h == Halts[t][i]
       IN  /\ h.arr \in Clock /\ h.dep \in Clock /\ h.day \in {Missing} \cup (Nat \ {0})
           /\ h.halt = IF Missing \in {h.arr, h.dep} THEN Missing ELSE (h.dep - h.arr) % Day
  /\ FirstDay \in Nat /\ LastDay \in Int

-----------------------------------------------------------------------------
\* How the extracts are made from the raw timetable

\* The halt of a train on the clock: it may pass midnight.
HaltMinutes(arr, dep) == IF Missing \in {arr, dep} THEN Missing ELSE (dep - arr) % Day

\* Real halts: both ends of the route and wherever the train waits.
Converted(raw) ==
  LET stops == [i \in DOMAIN raw |->
                  [code |-> raw[i].code, arr |-> raw[i].arr, dep |-> raw[i].dep,
                   day |-> raw[i].day, halt |-> HaltMinutes(raw[i].arr, raw[i].dep)]]
      real  == {i \in DOMAIN raw : i \in {1, Len(raw)} \/ stops[i].halt > 0}
  IN  [k \in 1..Cardinality(real) |->
         stops[CHOOSE i \in real : Cardinality({j \in real : j <= i}) = k]]

-----------------------------------------------------------------------------
\* Times

Datetime(stop, clock, run) ==
  IF clock = Missing THEN Missing
  ELSE (run + (IF stop.day = Missing THEN 0 ELSE stop.day - 1)) * Day + clock

Departs(stop, run) == Datetime(stop, stop.dep, run)
Arrives(stop, run) == Datetime(stop, stop.arr, run)
DateOf(minute)     == minute \div Day

\* Minutes from one halt to the next; not positive when the data contradict
\* themselves, and then nobody rides there.
SegmentMinutes(a, b) ==
  IF Missing \in {a.dep, b.arr} THEN Missing
  ELSE IF Missing \in {a.day, b.day}
       THEN IF b.arr < a.dep THEN b.arr - a.dep + Day ELSE b.arr - a.dep
       ELSE (b.day * Day + b.arr) - (a.day * Day + a.dep)

Segment(train, i) == SegmentMinutes(Halts[train][i], Halts[train][i + 1])

\* A train halts at a station once, or the data have the halt twice, and then
\* nobody rides from the one to the other.
ASSUME RoutesAssumption ==
  \A t \in Trains : \A i, k \in DOMAIN Halts[t] :
    i < k /\ Halts[t][i].code = Halts[t][k].code =>
      k = i + 1 /\ Halts[t][k] = Halts[t][i] /\ Segment(t, i) <= 0

-----------------------------------------------------------------------------
\* Runs and routes

Operates(train, run)   == run % 7 \in RunsOn[train]
RunsOnDate(train, day) == day \in FirstDay..LastDay /\ Operates(train, day)

Route(train)        == DOMAIN Halts[train]
Calls(train, code)  == {i \in Route(train) : Halts[train][i].code = code}
IndexOf(train, code) == CHOOSE i \in Calls(train, code) : \A j \in Calls(train, code) : i <= j

\* The inventory and the ledger go by the last, when a halt is there twice.
LastCall(train, code) == CHOOSE i \in Calls(train, code) : \A j \in Calls(train, code) : j <= i

\* The train has a halt at `code' after its halt number i.
Reaches(train, code, i) == \E j \in Calls(train, code) : j > i

Stations == UNION {{Halts[t][i].code : i \in Route(t)} : t \in Trains}

\* Coaches of a rake that can be reserved.
Reservable(train) == {c \in Range(Rakes[train]) : ClassOf[c] # None}

Position(train, coach) ==
  CHOOSE p \in DOMAIN Rakes[train] :
    Rakes[train][p] = coach /\ \A q \in 1..(p - 1) : Rakes[train][q] # coach

CoachDistance(train, a, b) ==
  IF Position(train, a) < Position(train, b) THEN Position(train, b) - Position(train, a)
  ELSE Position(train, a) - Position(train, b)

-----------------------------------------------------------------------------
\* The graph of fastest rides and the estimate

Least(S) == IF S = {} THEN Infinite ELSE CHOOSE x \in S : \A y \in S : x <= y

Rides == UNION {{t} \X (1..(Len(Halts[t]) - 1)) : t \in Trains}

\* Fault: the train that was read last sets the weight.
WeightOfLast(u, v) ==
  LET minutes == {Segment(r[1], r[2]) : r \in {r \in Rides :
                    Halts[r[1]][r[2]].code = u /\ Halts[r[1]][r[2] + 1].code = v}}
      usable  == {m \in minutes : m > 0}
  IN  IF usable = {} THEN Infinite ELSE CHOOSE x \in usable : \A y \in usable : y <= x

\* The fastest train sets the weight; segments that contradict themselves set none.
Weight(u, v) ==
  LET minutes == {Segment(r[1], r[2]) : r \in {r \in Rides :
                    Halts[r[1]][r[2]].code = u /\ Halts[r[1]][r[2] + 1].code = v}}
  IN  Least({m \in minutes : m > 0})

Weights == [u \in Stations |-> [v \in Stations |-> Weight(u, v)]]

\* Shortest paths of at most n rides to `goal'.
Paths(goal) ==
  LET within[n \in 0..Cardinality(Stations)] ==
        IF n = 0 THEN [s \in Stations |-> IF s = goal THEN 0 ELSE Infinite]
        ELSE [s \in Stations |->
                Least({within[n - 1][s]} \cup {Weights[s][v] + within[n - 1][v] : v \in Stations})]
  IN  within[Cardinality(Stations)]

Distances == [goal \in Stations |-> Paths(goal)]

Estimate(from, goal) ==
  IF from = goal THEN 0
  ELSE IF goal \notin Stations \/ from \notin Stations THEN Infinite
  ELSE Distances[goal][from]
=============================================================================
