---------------------------- MODULE LedgerUpgrade ----------------------------
(***************************************************************************)
(* Opening bookings.db: BookingStore.__init__ (src/booking_store.py) brings *)
(* a ledger of any age up to this version, backs it up first, and pins the *)
(* seat seed of the runs that were booked before.  Several programs (the   *)
(* server, a CLI session) may open the same file at once and each may stop *)
(* anywhere.                                                               *)
(*                                                                         *)
(* The statements SQLite commits one by one are actions of their own; what *)
(* lies between BEGIN IMMEDIATE and COMMIT is one action, for nobody sees  *)
(* the inside of it.  A wait for the write lock that times out ends the    *)
(* opening like Stop does.                                                 *)
(***************************************************************************)
EXTENDS Integers, FiniteSets

CONSTANTS
  Programs,   \* programs that open the ledger
  Runs,       \* (train, run date) pairs
  Fields,     \* how many columns the seat upgrade adds (5)
  EnvProfile  \* SPLITRAIL_INVENTORY_PROFILE in each program's environment

Standard == "standard-v1"
Busy     == "busy-v2"
Profiles == {Standard, Busy}

ASSUME UpgradeAssumption ==
  /\ Fields \in Nat \ {0}
  /\ EnvProfile \in [Programs -> Profiles]

None     == "none"        \* no simulation_meta row
Old      == "segment-v1"
Current  == "segment-v2"  \* INVENTORY_VERSION
Other    == "segment-v9"  \* written by some later program
Versions == {None, Old, Current, Other}

\* inventory_run_profiles with the default profile; NoTable before its creation.
NoTable  == [dflt |-> None, pinned |-> {}, table |-> FALSE]
Policies == [dflt : Profiles \cup {None}, pinned : SUBSET Runs, table : BOOLEAN]

\* A backup file: absent, there but without the rows, or a copy of the ledger
\* as it was before the upgrade or after it.
Copies == {"absent", "empty", "before", "after"}

VARIABLES
  columns,   \* how many of the added columns the table has
  version,   \* inventory_version
  policy,    \* seed profiles of the runs
  booked,    \* runs with a row, cancelled ones included
  seatsCopy, \* bookings.db.pre-seats.bak
  busyCopy,  \* bookings.db.pre-busy.bak
  pc,        \* where each program is in __init__
  saw,       \* what it has read: columns and version
  historic   \* runs booked under segment-v1 (history)

vars == <<columns, version, policy, booked, seatsCopy, busyCopy, pc, saw, historic>>

Steps == {"closed", "inspect", "count", "find", "copyseats", "copyingseats", "alter",
          "version", "copybusy", "copyingbusy", "migrate", "open", "failed"}

\* BookingStore.inventory_profile
Profile(r) ==
  IF ~policy.table \/ r \in policy.pinned \/ policy.dflt = None THEN Standard
  ELSE policy.dflt

-----------------------------------------------------------------------------
\* The ledgers there are: new or count-only; segment-v1; this version's; and
\* one of a later version.
Vintage(cols, v, p) ==
  /\ columns = cols /\ version = v /\ policy = p
  /\ historic = IF v = Old THEN booked ELSE {}

Init ==
  /\ booked \in SUBSET Runs
  /\ \/ Vintage(0, None, NoTable)
     \/ Vintage(Fields, Old, NoTable)
     \/ \E d \in Profiles, s \in SUBSET Runs :
          Vintage(Fields, Current, [dflt |-> d, pinned |-> s, table |-> TRUE])
     \/ Vintage(Fields, Other, NoTable)
  /\ seatsCopy = "absent" /\ busyCopy = "absent"
  /\ pc = [p \in Programs |-> "closed"]
  /\ saw = [p \in Programs |-> [columns |-> 0, version |-> None]]

Goto(p, from, to) == pc[p] = from /\ pc' = [pc EXCEPT ![p] = to]

Start(p) ==
  /\ Goto(p, "closed", "inspect")
  /\ UNCHANGED <<columns, version, policy, booked, seatsCopy, busyCopy, saw, historic>>

\* PRAGMA table_info
Inspect(p) ==
  /\ Goto(p, "inspect", IF columns = 0 THEN "count" ELSE "alter")
  /\ saw' = [saw EXCEPT ![p].columns = columns]
  /\ UNCHANGED <<columns, version, policy, booked, seatsCopy, busyCopy, historic>>

\* A table without rows needs no copy.
CountRows(p) ==
  /\ Goto(p, "count", IF booked = {} THEN "alter" ELSE "find")
  /\ UNCHANGED <<columns, version, policy, booked, seatsCopy, busyCopy, saw, historic>>

FindCopy(p) ==
  /\ Goto(p, "find", IF seatsCopy = "absent" THEN "copyseats" ELSE "alter")
  /\ UNCHANGED <<columns, version, policy, booked, seatsCopy, busyCopy, saw, historic>>

\* Opening the copy creates the file; its pages are written in one transaction.
CopySeats(p) ==
  /\ Goto(p, "copyseats", "copyingseats")
  /\ seatsCopy' = IF seatsCopy = "absent" THEN "empty" ELSE seatsCopy
  /\ UNCHANGED <<columns, version, policy, booked, busyCopy, saw, historic>>

SeatsCopied(p) ==
  /\ Goto(p, "copyingseats", "alter")
  /\ seatsCopy' = IF columns = 0 THEN "before" ELSE "after"
  /\ UNCHANGED <<columns, version, policy, booked, busyCopy, saw, historic>>

\* Fault: one column is taken to stand for all of them.
AddColumnIfNone(p) ==
  /\ pc[p] = "alter"
  /\ \/ /\ columns = saw[p].columns
        /\ saw[p].columns \in 0..(Fields - 1)
        /\ columns' = columns + 1
        /\ saw' = [saw EXCEPT ![p].columns = Fields]
        /\ UNCHANGED pc
     \/ /\ saw[p].columns = Fields
        /\ pc' = [pc EXCEPT ![p] = "version"]
        /\ UNCHANGED <<columns, saw>>
  /\ UNCHANGED <<version, policy, booked, seatsCopy, busyCopy, historic>>

\* ALTER TABLE for every column that was missing at Inspect, one at a time; it
\* fails on a column that another program has added since.
AddColumn(p) ==
  /\ pc[p] = "alter"
  /\ \/ /\ saw[p].columns < Fields
        /\ columns = saw[p].columns
        /\ columns' = columns + 1
        /\ saw' = [saw EXCEPT ![p].columns = @ + 1]
        /\ UNCHANGED pc
     \/ /\ saw[p].columns < columns
        /\ pc' = [pc EXCEPT ![p] = "failed"]
        /\ UNCHANGED <<columns, saw>>
     \/ /\ saw[p].columns = Fields
        /\ pc' = [pc EXCEPT ![p] = "version"]
        /\ UNCHANGED <<columns, saw>>
  /\ UNCHANGED <<version, policy, booked, seatsCopy, busyCopy, historic>>

\* Fault: the version is stamped as soon as it has been read.
ReadVersionStamping(p) ==
  /\ Goto(p, "version",
          IF version = Other THEN "failed"
          ELSE IF version = Old /\ busyCopy = "absent" THEN "copybusy" ELSE "migrate")
  /\ saw' = [saw EXCEPT ![p].version = version]
  /\ version' = IF version = Other THEN Other ELSE Current
  /\ UNCHANGED <<columns, policy, booked, seatsCopy, busyCopy, historic>>

\* Reads inventory_version outside any transaction, refuses one it does not
\* know, and looks whether a segment-v1 ledger has been backed up.
ReadVersion(p) ==
  /\ Goto(p, "version",
          IF version = Other THEN "failed"
          ELSE IF version = Old /\ busyCopy = "absent" THEN "copybusy" ELSE "migrate")
  /\ saw' = [saw EXCEPT ![p].version = version]
  /\ UNCHANGED <<columns, version, policy, booked, seatsCopy, busyCopy, historic>>

CopyBusy(p) ==
  /\ Goto(p, "copybusy", "copyingbusy")
  /\ busyCopy' = IF busyCopy = "absent" THEN "empty" ELSE busyCopy
  /\ UNCHANGED <<columns, version, policy, booked, seatsCopy, saw, historic>>

BusyCopied(p) ==
  /\ Goto(p, "copyingbusy", "migrate")
  /\ busyCopy' = IF version = Old THEN "before" ELSE "after"
  /\ UNCHANGED <<columns, version, policy, booked, seatsCopy, saw, historic>>

\* The transaction at the end: the version is the one read before it began.
Migrate(p) ==
  /\ Goto(p, "migrate", "open")
  /\ policy' = [policy EXCEPT !.table = TRUE,
                              !.pinned = IF saw[p].version = Old THEN @ \cup booked ELSE @,
                              !.dflt = IF @ = None THEN EnvProfile[p] ELSE @]
  /\ version' = Current
  /\ UNCHANGED <<columns, booked, seatsCopy, busyCopy, saw, historic>>

\* A booking on run r by a program that has the ledger open.
Book(p, r) ==
  /\ pc[p] = "open"
  /\ booked' = booked \cup {r}
  /\ UNCHANGED <<columns, version, policy, seatsCopy, busyCopy, pc, saw, historic>>

\* clear(): the demonstration's reset.
Clear(p) ==
  /\ pc[p] = "open"
  /\ booked' = {}
  /\ UNCHANGED <<columns, version, policy, seatsCopy, busyCopy, pc, saw, historic>>

\* The program ends or dies; a copy being written is rolled back.
Stop(p) ==
  /\ pc[p] # "closed"
  /\ pc' = [pc EXCEPT ![p] = "closed"]
  /\ saw' = [saw EXCEPT ![p] = [columns |-> 0, version |-> None]]
  /\ UNCHANGED <<columns, version, policy, booked, seatsCopy, busyCopy, historic>>

Next ==
  \E p \in Programs :
    \/ Start(p) \/ Inspect(p) \/ CountRows(p) \/ FindCopy(p) \/ CopySeats(p)
    \/ SeatsCopied(p) \/ AddColumn(p) \/ ReadVersion(p) \/ CopyBusy(p) \/ BusyCopied(p)
    \/ Migrate(p) \/ Clear(p) \/ Stop(p) \/ \E r \in Runs : Book(p, r)

Spec == Init /\ [][Next]_vars
-----------------------------------------------------------------------------
TypeOK ==
  /\ columns \in 0..Fields
  /\ version \in Versions
  /\ policy \in Policies
  /\ booked \subseteq Runs /\ historic \subseteq Runs
  /\ {seatsCopy, busyCopy} \subseteq Copies
  /\ pc \in [Programs -> Steps]
  /\ saw \in [Programs -> [columns : 0..Fields, version : Versions]]

\* Every run that was booked under segment-v1 keeps the seed its passengers
\* were seated by, whichever programs open the ledger, together or after a
\* crash, and whatever their environments ask for.
HistoricKept == \A r \in historic : Profile(r) = Standard

\* Why: until the pins are written the ledger still says segment-v1, and a
\* program that saw another version did so when there was nothing to pin.
PinsBeforeVersion ==
  /\ version = Old => ~policy.table
  /\ historic # {} => version \in {Old, Current}
  /\ version = Old => historic = booked
  /\ version = Current => historic \subseteq policy.pinned
  /\ \A p \in Programs :
       /\ pc[p] = "open" => version = Current
       /\ pc[p] \in {"copybusy", "copyingbusy", "migrate"} =>
            \/ saw[p].version = version
            \/ saw[p].version \in {None, Old} /\ version = Current

\* A program serves requests only from a ledger that has every column, this
\* version and a seed policy, also after an upgrade that stopped half way.
ReadyWhenOpen ==
  \A p \in Programs : pc[p] = "open" =>
    columns = Fields /\ version = Current /\ policy.table

\* A run that has bookings in a versioned ledger is never reseeded.
SeedKept ==
  [][\A r \in booked \cap booked' : version \in {Old, Current} => Profile(r)' = Profile(r)]_vars
=============================================================================
