---------------------------- MODULE BookingLedger ----------------------------
(***************************************************************************)
(* BookingStore and BookingService (src/booking_store.py): several         *)
(* connections to one bookings.db, each carrying out booking requests.     *)
(*                                                                         *)
(* A connection is a program that opened the ledger: the web server, which *)
(* runs one request at a time on its connection, a CLI session, a script.  *)
(* SQLite lets one connection at a time hold the write lock.  The holder   *)
(* works on its own copy of the rows (`work'); the others, readers and     *)
(* waiting writers alike, see the last committed rows (`ledger').  A crash *)
(* throws the copy away.                                                   *)
(*                                                                         *)
(* Outside BookingStore.transaction() a statement that writes begins a     *)
(* transaction of Python's own, which only a COMMIT ends: a cancellation   *)
(* that times out leaves it open (`open').                                 *)
(***************************************************************************)
EXTENDS SeatInventory

CONSTANTS
  Conns, NoConn,      \* connections to the ledger file
  Ids,                \* booking ids; a bound on the rows ever kept
  Journeys, NoJourney,\* itinerary references (SIM-...)
  StationAt,          \* station of each stop of each run
  DepartAt, ArriveAt, \* scheduled minutes, counted from one midnight
  Sellable,           \* <<coach, from, to>> with a timetable, a layout and a fare
  FirstDay, LastDay,  \* the booking window
  Requests,           \* what clients ask to book
  Counts,             \* passenger counts a rebooking may ask for
  MinSeatChange, MinTrainChange, MaxJourneyDays

DayMinutes == 1440

Leg == [coach : Coaches, from : Stops, to : Stops, auto : BOOLEAN, seats : Seq(Nat)]

ASSUME LedgerAssumption ==
  /\ NoConn \notin Conns
  /\ NoJourney \notin Journeys
  /\ DepartAt \in [Runs -> [Stops -> Nat]]
  /\ ArriveAt \in [Runs -> [Stops -> Nat]]
  /\ Sellable \subseteq {t \in Coaches \X Stops \X Stops : t[2] < t[3]}
  /\ \A r \in Requests :
       /\ r.kind \in {"single", "itinerary"}
       /\ r.count \in Nat \ {0}
       /\ r.legs \in Seq(Leg)
       /\ Len(r.legs) \in 1..3
       /\ r.kind = "single" => Len(r.legs) = 1
  /\ Counts \subseteq Nat \ {0}
  /\ \A n \in {FirstDay, LastDay, MinSeatChange, MinTrainChange, MaxJourneyDays} : n \in Nat

Row == [coach : Coaches, from : Stops, to : Stops, seats : Seq(Seats),
        journey : Journeys \cup {NoJourney}, status : {"ACTIVE", "CANCELLED"}]

\* The changes a client can ask of a saved booking: DELETE (`cancel'), PATCH
\* with status CANCELLED (`drop'), PATCH otherwise (`rebook'); and the CLI
\* demonstration's reset of the whole table (`clear').
Changes == [kind : {"cancel", "drop", "rebook"}, id : Ids]
\* GET /api/bookings and the like read the rows (`look').
Clear   == [kind |-> "clear"]
Look    == [kind |-> "look"]
NoJob   == [kind |-> "none"]
Jobs    == Requests \cup Changes \cup {Clear, Look}

\* The jobs that run inside BookingStore.transaction().
Transactional == {"single", "itinerary", "rebook", "drop"}

\* What a connection may be left in when its request is over: no transaction;
\* one that holds no lock; one that has read and shares the file; one that
\* holds the write lock; one that also has rows it could not commit.
Open == {"no", "begun", "reading", "writing", "unsaved"}

Phases == {"idle", "asked", "txn", "commit", "found", "written",
           "ok", "refused", "asserted"}

VARIABLES
  ledger,   \* committed rows, by id
  work,     \* rows as the holder of the write lock sees them
  lock,     \* the connection that holds SQLite's write lock
  open,     \* the transaction each connection is in outside transaction()
  phase,    \* how far each connection is with its job
  job,      \* the request each connection is carrying out
  made,     \* ids of the legs a booking transaction has inserted, in order
  retired   \* ids of rows that clear() deleted: a uuid is never drawn twice

vars == <<ledger, work, lock, open, phase, job, made, retired>>

-----------------------------------------------------------------------------
(* Allocation of one leg: BookingService.book *)

Departure(leg) == DepartAt[RunOf[leg.coach]][leg.from]
Arrival(leg)   == ArriveAt[RunOf[leg.coach]][leg.to]
DayOf(minute)  == minute \div DayMinutes

\* A leg of an itinerary may depart up to MaxJourneyDays after the window.
InWindow(leg, journey) ==
  /\ FirstDay <= DayOf(Departure(leg))
  /\ DayOf(Departure(leg)) <= LastDay + (IF journey = NoJourney THEN 0 ELSE MaxJourneyDays)

\* The seats the request names, or else the first that are free.
Selected(rows, leg, n) ==
  LET free == Available(rows, leg.coach, leg.from, leg.to)
  IN  IF ~leg.auto THEN leg.seats
      ELSE IF Cardinality(free) < n THEN <<>> ELSE FirstFree(free, n)

\* Fault: seats the client names are taken without looking whether they are free.
AllocatableUnchecked(rows, leg, n) ==
  LET seats == Selected(rows, leg, n)
  IN  /\ Len(seats) = n
      /\ \A i \in DOMAIN seats : seats[i] \in Seats

Allocatable(rows, leg, n) ==
  LET seats == Selected(rows, leg, n)
  IN  /\ Len(seats) = n
      /\ \A i, k \in DOMAIN seats : i # k => seats[i] # seats[k]
      /\ \A i \in DOMAIN seats :
           /\ seats[i] \in Seats
           /\ seats[i] \in Available(rows, leg.coach, leg.from, leg.to)

Bookable(rows, leg, n, journey) ==
  /\ <<leg.coach, leg.from, leg.to>> \in Sellable
  /\ Arrival(leg) > Departure(leg)
  /\ InWindow(leg, journey)
  /\ Allocatable(rows, leg, n)

NewRow(rows, leg, n, journey) ==
  [coach |-> leg.coach, from |-> leg.from, to |-> leg.to,
   seats |-> Selected(rows, leg, n), journey |-> journey, status |-> "ACTIVE"]

FreshIds(rows) == Ids \ (DOMAIN rows \cup DOMAIN ledger \cup retired)

FreshJourneys == Journeys \ {ledger[i].journey : i \in DOMAIN ledger}

Insert(rows, id, row) ==
  [i \in DOMAIN rows \cup {id} |-> IF i = id THEN row ELSE rows[i]]
Delete(rows, id)    == [i \in DOMAIN rows \ {id} |-> rows[i]]
\* Fault: a status the table's CHECK does not know.
CancelledMisspelt(rows, id) == [rows EXCEPT ![id].status = "CANCELED"]
Cancelled(rows, id) == [rows EXCEPT ![id].status = "CANCELLED"]

-----------------------------------------------------------------------------
(* An itinerary's legs against each other: BookingService.book_itinerary *)

\* Fault: five minutes are taken to be enough for any change.
ConnectsTooTight(first, last, next) ==
  /\ StationAt[RunOf[last.coach]][last.to] = StationAt[RunOf[next.coach]][next.from]
  /\ Departure(next) >= Arrival(last) + MinSeatChange
  /\ ~(last.coach = next.coach /\ last.seats = next.seats)

\* `next' may follow `last' in a journey whose first leg is `first'.
Connects(first, last, next) ==
  LET sameRun == RunOf[last.coach] = RunOf[next.coach]
  IN  /\ StationAt[RunOf[last.coach]][last.to] = StationAt[RunOf[next.coach]][next.from]
      /\ Departure(next) >= Arrival(last)
           + (IF sameRun THEN MinSeatChange ELSE MinTrainChange)
      /\ ~(last.coach = next.coach /\ last.seats = next.seats)
      /\ Arrival(next) - Departure(first) < (MaxJourneyDays + 1) * DayMinutes

\* The first leg must depart in the window and is itself bounded in length.
Opens(row) ==
  /\ InWindow(row, NoJourney)
  /\ Arrival(row) - Departure(row) < (MaxJourneyDays + 1) * DayMinutes

\* Whether the row just inserted satisfies the itinerary built so far.
Follows(rows, sofar, row) ==
  IF sofar = <<>> THEN Opens(row)
  ELSE Connects(rows[sofar[1]], rows[sofar[Len(sofar)]], row)

NextLeg(c) == job[c].legs[Len(made[c]) + 1]

\* The reference of the journey under construction; the first leg draws it.
JourneyRefs(c) ==
  IF job[c].kind = "single" THEN {NoJourney}
  ELSE IF made[c] = <<>> THEN FreshJourneys
  ELSE {work[made[c][1]].journey}

CanAdd(c, journey) ==
  LET leg == NextLeg(c)
  IN  /\ Bookable(work, leg, job[c].count, journey)
      /\ job[c].kind = "itinerary" =>
           Follows(work, made[c], NewRow(work, leg, job[c].count, journey))

-----------------------------------------------------------------------------
(* Rebooking: cancel, book again without naming seats, copy, delete the copy *)

\* The seats go to a coach of the same train and run date.
CoachesOfRun(row) == {k \in Coaches : RunOf[k] = RunOf[row.coach]}

RebookLeg(row, coach) ==
  [coach |-> coach, from |-> row.from, to |-> row.to, auto |-> TRUE, seats |-> <<>>]

PassengerCounts(row) == Counts \cup {Len(row.seats)}

\* Fault: the replacement stays and the original is deleted.
RebookedUnderNewId(rows, id, coach, n, new) ==
  LET freed == Cancelled(rows, id)
  IN  Delete(Insert(freed, new,
                    NewRow(freed, RebookLeg(rows[id], coach), n, rows[id].journey)), id)

Rebooked(rows, id, coach, n, new) ==
  LET freed    == Cancelled(rows, id)
      journey  == rows[id].journey
      replaced == Insert(freed, new, NewRow(freed, RebookLeg(rows[id], coach), n, journey))
      copied   == [replaced EXCEPT ![id].seats  = replaced[new].seats,
                                   ![id].coach  = replaced[new].coach,
                                   ![id].status = "ACTIVE"]
  IN  Delete(copied, new)

CanRebook(rows, id, coach, n) ==
  Bookable(Cancelled(rows, id), RebookLeg(rows[id], coach), n, rows[id].journey)

-----------------------------------------------------------------------------
(* The steps of a connection *)

Goto(c, from, to) == phase[c] = from /\ phase' = [phase EXCEPT ![c] = to]

\* Another connection holds the write lock until c's busy_timeout runs out.
Waits(c) == lock \notin {NoConn, c}

\* Connections that keep a shared lock, for which a COMMIT waits in vain.
Readers(c) == {d \in Conns \ {c} : open[d] = "reading"}

\* A COMMIT that gave up keeps everyone out who has not read before it.
ShutOut(c) == open[c] # "reading" /\ \E d \in Conns \ {c} : open[d] = "unsaved"

\* The rows c reads: its own copy if it has one.
Seen(c) == IF lock = c THEN work ELSE ledger

\* A SELECT in a transaction takes the shared lock and keeps it.
AfterRead(c) == [open EXCEPT ![c] = IF @ = "begun" THEN "reading" ELSE @]

Init ==
  /\ ledger = <<>>
  /\ work = <<>>
  /\ lock = NoConn
  /\ open = [c \in Conns |-> "no"]
  /\ phase = [c \in Conns |-> "idle"]
  /\ job = [c \in Conns |-> NoJob]
  /\ made = [c \in Conns |-> <<>>]
  /\ retired = {}

\* Bound: a booking is asked for only while ids remain for it and for every
\* booking or rebooking already under way.
RowsWanted(j) ==
  CASE j.kind \in {"single", "itinerary"} -> Len(j.legs)
    [] j.kind = "rebook" -> 1
    [] OTHER -> 0

RoomFor(j) ==
  LET pending == {c \in Conns : phase[c] \in {"asked", "txn", "commit"}}
      wanted  == RowsWanted(j) + Cardinality(
                   UNION {{c} \X (1..RowsWanted(job[c])) : c \in pending})
  IN  wanted = 0 \/ wanted <= Cardinality(Ids \ (DOMAIN ledger \cup retired))

\* A client asks for j.  It only knows ids that some answer has shown it.
Ask(c, j) ==
  /\ Goto(c, "idle", "asked")
  /\ j \in Changes => j.id \in DOMAIN ledger \cup retired
  /\ RoomFor(j)
  /\ job' = [job EXCEPT ![c] = j]
  /\ UNCHANGED <<ledger, work, lock, open, made, retired>>

Begin(c) ==
  /\ job[c].kind \in Transactional
  /\ lock = NoConn
  /\ open[c] = "no"
  /\ Goto(c, "asked", "txn")
  /\ lock' = c
  /\ work' = ledger
  /\ made' = [made EXCEPT ![c] = <<>>]
  /\ UNCHANGED <<ledger, open, job, retired>>

\* BEGIN IMMEDIATE inside a transaction: SQLite takes the write lock first and
\* raises then, and the transaction stays open.
BeginWithin(c) ==
  /\ job[c].kind \in Transactional
  /\ open[c] # "no"
  /\ ~Waits(c)
  /\ Goto(c, "asked", "refused")
  /\ lock' = c
  /\ work' = Seen(c)
  /\ open' = [open EXCEPT ![c] = IF @ = "unsaved" THEN @ ELSE "writing"]
  /\ UNCHANGED <<ledger, job, made, retired>>

\* BEGIN IMMEDIATE times out.
Busy(c) ==
  /\ job[c].kind \in Transactional
  /\ Waits(c)
  /\ Goto(c, "asked", "refused")
  /\ UNCHANGED <<ledger, work, lock, open, job, made, retired>>

\* Fault: create() commits although a transaction is open around it.
InsertLegCommitting(c) ==
  /\ phase[c] = "txn"
  /\ job[c].kind \in {"single", "itinerary"}
  /\ \E journey \in JourneyRefs(c), id \in FreshIds(work) :
       /\ CanAdd(c, journey)
       /\ work' = Insert(work, id, NewRow(work, NextLeg(c), job[c].count, journey))
       /\ made' = [made EXCEPT ![c] = Append(@, id)]
  /\ phase' = [phase EXCEPT ![c] = IF Len(made[c]) + 1 = Len(job[c].legs)
                                   THEN "commit" ELSE "txn"]
  /\ ledger' = work'
  /\ UNCHANGED <<lock, open, job, retired>>

InsertLeg(c) ==
  /\ phase[c] = "txn"
  /\ job[c].kind \in {"single", "itinerary"}
  /\ \E journey \in JourneyRefs(c), id \in FreshIds(work) :
       /\ CanAdd(c, journey)
       /\ work' = Insert(work, id, NewRow(work, NextLeg(c), job[c].count, journey))
       /\ made' = [made EXCEPT ![c] = Append(@, id)]
  /\ phase' = [phase EXCEPT ![c] = IF Len(made[c]) + 1 = Len(job[c].legs)
                                   THEN "commit" ELSE "txn"]
  /\ UNCHANGED <<ledger, lock, open, job, retired>>

Rebook(c) ==
  /\ Goto(c, "txn", "commit")
  /\ job[c].kind = "rebook"
  /\ job[c].id \in DOMAIN work
  /\ \E coach \in CoachesOfRun(work[job[c].id]), n \in PassengerCounts(work[job[c].id]),
        new \in FreshIds(work) :
       /\ CanRebook(work, job[c].id, coach, n)
       /\ work' = Rebooked(work, job[c].id, coach, n, new)
  /\ UNCHANGED <<ledger, lock, open, job, made, retired>>

Drop(c) ==
  /\ job[c].kind = "drop"
  /\ job[c].id \in DOMAIN work
  /\ work' = Cancelled(work, job[c].id)
  /\ Goto(c, "txn", "commit")
  /\ UNCHANGED <<ledger, lock, open, job, made, retired>>

\* Some check of the transaction's body fails: BookingError, ROLLBACK.
Fails(c) ==
  \/ /\ job[c].kind \in {"single", "itinerary"}
     /\ \A journey \in JourneyRefs(c) : ~CanAdd(c, journey)
  \/ /\ job[c].kind \in {"rebook", "drop"}
     /\ job[c].id \notin DOMAIN work
  \/ /\ job[c].kind = "rebook"
     /\ job[c].id \in DOMAIN work
     /\ \E coach \in CoachesOfRun(work[job[c].id]),
           n \in PassengerCounts(work[job[c].id]) :
          ~CanRebook(work, job[c].id, coach, n)

\* Fault: an error leaves the transaction open.
RollbackForgotten(c) ==
  /\ Goto(c, "txn", "refused")
  /\ Fails(c)
  /\ open' = [open EXCEPT ![c] = "unsaved"]
  /\ UNCHANGED <<ledger, work, lock, job, made, retired>>

\* The copy is thrown away and the lock given back.
Discard(c) ==
  /\ lock' = NoConn
  /\ work' = <<>>
  /\ made' = [made EXCEPT ![c] = <<>>]

Rollback(c) ==
  /\ Goto(c, "txn", "refused")
  /\ Fails(c)
  /\ Discard(c)
  /\ UNCHANGED <<ledger, open, job, retired>>

Commit(c) ==
  /\ Readers(c) = {}
  /\ Goto(c, "commit", "ok")
  /\ ledger' = work
  /\ Discard(c)
  /\ UNCHANGED <<open, job, retired>>

\* Fault: a COMMIT that times out is tried again.
CommitAgain(c) ==
  /\ Readers(c) # {}
  /\ phase[c] = "commit"
  /\ UNCHANGED vars

\* A connection that goes on reading makes COMMIT time out: ROLLBACK.
CommitBusy(c) ==
  /\ Readers(c) # {}
  /\ Goto(c, "commit", "refused")
  /\ Discard(c)
  /\ UNCHANGED <<ledger, open, job, retired>>

(* DELETE /api/bookings/ID: get, then an UPDATE of its own, then get again *)

CancelFind(c) ==
  /\ job[c].kind = "cancel"
  /\ ~ShutOut(c)
  /\ Goto(c, "asked", IF job[c].id \in DOMAIN Seen(c) THEN "found" ELSE "refused")
  /\ open' = AfterRead(c)
  /\ UNCHANGED <<ledger, work, lock, job, made, retired>>

Updated(c) ==
  IF job[c].id \in DOMAIN Seen(c) THEN Cancelled(Seen(c), job[c].id) ELSE Seen(c)

\* Fault: the UPDATE does not wait for a transaction in progress, which then
\* commits its own copy of the row over it.
CancelWriteUnlocked(c) ==
  /\ Goto(c, "found", "written")
  /\ ledger' = IF job[c].id \in DOMAIN ledger THEN Cancelled(ledger, job[c].id) ELSE ledger
  /\ UNCHANGED <<work, lock, open, job, made, retired>>

\* UPDATE and COMMIT; whatever the connection had left open is committed too.
CancelWrite(c) ==
  /\ ~Waits(c)
  /\ Readers(c) = {}
  /\ Goto(c, "found", "written")
  /\ ledger' = Updated(c)
  /\ lock' = NoConn
  /\ work' = <<>>
  /\ open' = [open EXCEPT ![c] = "no"]
  /\ UNCHANGED <<job, made, retired>>

\* The UPDATE times out.  Python has begun a transaction before it.
CancelBusy(c) ==
  /\ Waits(c)
  /\ Goto(c, "found", "refused")
  /\ open' = [open EXCEPT ![c] = IF @ = "no" THEN "begun" ELSE @]
  /\ UNCHANGED <<ledger, work, lock, job, made, retired>>

\* The COMMIT times out, and nothing rolls the UPDATE back.
CancelUnsaved(c) ==
  /\ ~Waits(c)
  /\ Readers(c) # {}
  /\ Goto(c, "found", "refused")
  /\ lock' = c
  /\ work' = Updated(c)
  /\ open' = [open EXCEPT ![c] = "unsaved"]
  /\ UNCHANGED <<ledger, job, made, retired>>

\* The SELECT may time out; `assert updated is not None'.
CancelReread(c) ==
  /\ Goto(c, "written", IF ShutOut(c) THEN "refused"
                        ELSE IF job[c].id \in DOMAIN ledger THEN "ok" ELSE "asserted")
  /\ UNCHANGED <<ledger, work, lock, open, job, made, retired>>

LookUp(c) ==
  /\ job[c].kind = "look"
  /\ ~ShutOut(c)
  /\ Goto(c, "asked", "ok")
  /\ open' = AfterRead(c)
  /\ UNCHANGED <<ledger, work, lock, job, made, retired>>

\* A SELECT times out.
ReadBusy(c) ==
  /\ job[c].kind \in {"cancel", "look"}
  /\ ShutOut(c)
  /\ Goto(c, "asked", "refused")
  /\ UNCHANGED <<ledger, work, lock, open, job, made, retired>>

ClearAll(c) ==
  /\ job[c].kind = "clear"
  /\ ~Waits(c)
  /\ Readers(c) = {}
  /\ Goto(c, "asked", "ok")
  /\ ledger' = <<>>
  /\ retired' = retired \cup DOMAIN ledger
  /\ lock' = NoConn
  /\ work' = <<>>
  /\ open' = [open EXCEPT ![c] = "no"]
  /\ UNCHANGED <<job, made>>

\* The answer has been sent; the connection is ready for its next request.
Return(c) ==
  /\ phase[c] \in {"ok", "refused", "asserted"}
  /\ phase' = [phase EXCEPT ![c] = "idle"]
  /\ job' = [job EXCEPT ![c] = NoJob]
  /\ UNCHANGED <<ledger, work, lock, open, made, retired>>

\* The program ends and is started again; SQLite discards what it had not
\* committed and frees its locks.
Restart(c) ==
  /\ phase' = [phase EXCEPT ![c] = "idle"]
  /\ job' = [job EXCEPT ![c] = NoJob]
  /\ made' = [made EXCEPT ![c] = <<>>]
  /\ open' = [open EXCEPT ![c] = "no"]
  /\ lock' = IF lock = c THEN NoConn ELSE lock
  /\ work' = IF lock = c THEN <<>> ELSE work
  /\ UNCHANGED <<ledger, retired>>

Crash(c) == (phase[c] # "idle" \/ open[c] # "no") /\ Restart(c)

\* The demonstration's DELETE or COMMIT times out, which ends its program.
ClearBusy(c) ==
  /\ job[c].kind = "clear"
  /\ phase[c] = "asked"
  /\ Waits(c) \/ Readers(c) # {}
  /\ Restart(c)

\* What a connection does of its own accord once it has a job.
Step(c) ==
  \/ Begin(c) \/ BeginWithin(c) \/ Busy(c)
  \/ InsertLeg(c) \/ Rebook(c) \/ Drop(c) \/ Rollback(c) \/ Commit(c) \/ CommitBusy(c)
  \/ CancelFind(c) \/ CancelWrite(c) \/ CancelBusy(c) \/ CancelUnsaved(c) \/ CancelReread(c)
  \/ LookUp(c) \/ ReadBusy(c) \/ ClearAll(c) \/ ClearBusy(c) \/ Return(c)

Next == \E c \in Conns : Step(c) \/ Crash(c) \/ \E j \in Jobs : Ask(c, j)

Spec == Init /\ [][Next]_vars

-----------------------------------------------------------------------------
TypeOK ==
  /\ DOMAIN ledger \subseteq Ids /\ \A i \in DOMAIN ledger : ledger[i] \in Row
  /\ DOMAIN work \subseteq Ids /\ \A i \in DOMAIN work : work[i] \in Row
  /\ lock \in Conns \cup {NoConn}
  /\ open \in [Conns -> Open]
  /\ phase \in [Conns -> Phases]
  /\ job \in [Conns -> Jobs \cup {NoJob}]
  /\ made \in [Conns -> Seq(Ids)]
  /\ retired \subseteq Ids
-----------------------------------------------------------------------------
(* Why the ledger stays exclusive: the parts of the inductive invariant *)

\* The write lock is held by the connection inside transaction(), or by one
\* that its last request left holding it.
LockHeld ==
  \A c \in Conns :
    /\ lock = c <=> phase[c] \in {"txn", "commit"} \/ open[c] \in {"writing", "unsaved"}
    /\ phase[c] \in {"txn", "commit"} => open[c] = "no"

\* The legs a transaction has inserted are rows of its copy, and while it is
\* inserting there is one left to insert.
LegsInserted ==
  \A c \in Conns :
    /\ phase[c] # "idle" => job[c] \in Jobs
    /\ phase[c] \in {"txn", "commit"} => \A k \in DOMAIN made[c] : made[c][k] \in DOMAIN work
    /\ phase[c] = "txn" /\ job[c].kind \in {"single", "itinerary"} =>
         Len(made[c]) < Len(job[c].legs)

\* The copy that a commit publishes is exclusive at every moment, a rebooking's
\* cancel-and-book-again included (booking_store.py:561-580).
LedgerInv == LockHeld /\ LegsInserted /\ Exclusive(ledger) /\ Exclusive(work)

-----------------------------------------------------------------------------
(* Safety *)

\* Two passengers are never given the same berth: the committed ledger holds
\* no two active rows that share a seat on a segment, and none on a segment
\* the seed gave away.  BEGIN IMMEDIATE spans the check and the insert
\* (booking_store.py:500-524), rebooking included.
SeatExclusive == Exclusive(ledger)

Trip(row) == <<RunOf[row.coach], row.from, row.to>>
RowsOf(journey) == {i \in DOMAIN ledger : ledger[i].journey = journey}

\* An itinerary is in the ledger with all of its legs or with none, whatever
\* its transaction met on the way: a refused leg, a crash, another writer.
WholeItineraries ==
  \A g \in {ledger[i].journey : i \in DOMAIN ledger} \ {NoJourney} :
    \E r \in Requests :
      /\ r.kind = "itinerary"
      /\ Cardinality(RowsOf(g)) = Len(r.legs)
      /\ {Trip(ledger[i]) : i \in RowsOf(g)} = {Trip(r.legs[k]) : k \in 1..Len(r.legs)}

\* A passenger can make every change of a saved journey: between two of its
\* legs there is always the time the timetable needs, five minutes on the same
\* run and twenty between trains, also after a leg has been rebooked.
ChangesCanBeMade ==
  \A i, k \in DOMAIN ledger :
    /\ i # k
    /\ ledger[i].journey = ledger[k].journey
    /\ ledger[i].journey # NoJourney
    => LET buffer == IF RunOf[ledger[i].coach] = RunOf[ledger[k].coach]
                     THEN MinSeatChange ELSE MinTrainChange
       IN  \/ Arrival(ledger[i]) + buffer <= Departure(ledger[k])
           \/ Arrival(ledger[k]) + buffer <= Departure(ledger[i])

\* The audit trail: a row leaves the ledger only by clear(), and while it is
\* there it keeps its run, its stretch of the route and its journey; a
\* rebooking never shows its temporary second row.
HistoryKept ==
  [][\A i \in DOMAIN ledger :
       \/ \E c \in Conns : job[c].kind = "clear" /\ phase[c] = "asked" /\ phase'[c] = "ok"
       \/ /\ i \in DOMAIN ledger'
          /\ Trip(ledger'[i]) = Trip(ledger[i])
          /\ ledger'[i].journey = ledger[i].journey]_ledger

-----------------------------------------------------------------------------
\* The connections together carry out the register: every committed change is
\* a whole sale, cancellation, move or wipe of it.
Register == INSTANCE SeatRegister WITH rows <- ledger

ImplementsRegister == Register!Spec

\* Nobody waits for ever, for the write lock, for the end of a read or for a
\* COMMIT, although a connection may keep any of these up while it is idle:
\* whoever has a request in hand can go on or be refused
\* (booking_store.py:204, 248-260).
NobodyStuck == \A c \in Conns : phase[c] # "idle" => ENABLED <<Step(c)>>_vars

\* "We couldn't complete that request. Please try again." (web.py:460): once no
\* other connection is at work, who asks again to book gets to its transaction.
RetryBegins ==
  \A c \in Conns :
    /\ phase[c] = "asked"
    /\ job[c].kind \in Transactional
    /\ \A d \in Conns \ {c} : phase[d] = "idle"
    => lock = NoConn /\ open[c] = "no"
=============================================================================
