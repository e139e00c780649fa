------------------------------- MODULE Startup -------------------------------
(***************************************************************************)
(* How a program comes up (src/demo_scenarios.py, used by web.py and       *)
(* cli.py): ensure_database builds railway.db when it is missing or was    *)
(* built for another day or network, build_system opens it and only then   *)
(* the ledger (LedgerUpgrade).  Programs start at any time beside others,  *)
(* days pass, and each may die between any two steps.                      *)
(*                                                                         *)
(* A build is written to a temporary file of its own (build in             *)
(* data_source/build_sqlite_db.py) and moved over railway.db; whoever has  *)
(* the old file open keeps reading the old file.                           *)
(***************************************************************************)
EXTENDS LedgerUpgrade

CONSTANTS
  LastDay,   \* bound: days that pass
  Network    \* SPLITRAIL_NETWORK_PROFILE in each program's environment

ASSUME StartupAssumption == LastDay \in Nat \ {0} /\ Network \in [Programs -> STRING]

\* A reference file: for which day and network, and whether all is in it.
Build(day, network, whole) == [day |-> day, network |-> network, whole |-> whole]
NoFile == Build(0, None, FALSE)

VARIABLES
  today,
  railway,   \* railway.db
  kept,      \* railway.db.pre-rebuild.bak: whether it is there
  temp,      \* the file each program builds
  store,     \* what each program's RailDataStore has open
  workers,   \* and what its search workers have
  at,        \* where each program is before it opens the ledger
  asked,     \* the day it looked at railway.db
  alone      \* programs beside which no other has been starting (history)

ledger  == vars
startup == <<today, railway, kept, temp, store, workers, at, asked, alone>>

Files  == {NoFile} \cup [day : 1..LastDay, network : {Network[p] : p \in Programs},
                         whole : BOOLEAN]
Phases == {"off", "build", "building", "backup", "replace", "store", "pool", "ledger"}

StartupInit ==
  /\ Init
  /\ today = 1
  /\ railway \in {NoFile} \cup {Build(1, Network[p], TRUE) : p \in Programs}
  /\ kept = FALSE
  /\ temp = [p \in Programs |-> NoFile]
  /\ store = [p \in Programs |-> NoFile] /\ workers = [p \in Programs |-> NoFile]
  /\ at = [p \in Programs |-> "off"]
  /\ asked = [p \in Programs |-> 0]
  /\ alone = {}

GoOn(p, from, to) == at[p] = from /\ at' = [at EXCEPT ![p] = to]
Starting(p) == at[p] # "off" /\ pc[p] = "closed"

\* Fault: a window that began earlier still counts.
StaleWhenOver(p) == railway.day > today \/ railway.network # Network[p]

\* window_is_stale()
Stale(p) == railway.day # today \/ railway.network # Network[p]

\* ensure_database: a probe reads db_meta and is closed again.
Ensure(p) ==
  /\ GoOn(p, "off", IF railway = NoFile \/ Stale(p) THEN "build" ELSE "store")
  /\ asked' = [asked EXCEPT ![p] = today]
  /\ alone' = {q \in alone \ {p} : ~Starting(q)}
               \cup {q \in {p} : \A r \in Programs \ {p} : ~Starting(r)}
  /\ UNCHANGED <<ledger, today, railway, kept, temp, store, workers>>

\* Fault: the tables are written into railway.db itself.
BeginBuildInPlace(p) ==
  /\ GoOn(p, "build", "building")
  /\ temp' = [temp EXCEPT ![p] = Build(today, Network[p], FALSE)]
  /\ railway' = Build(today, Network[p], FALSE)
  /\ UNCHANGED <<ledger, today, kept, store, workers, asked, alone>>

\* _build starts with today's window, in a file mkstemp has named.
BeginBuild(p) ==
  /\ GoOn(p, "build", "building")
  /\ temp' = [temp EXCEPT ![p] = Build(today, Network[p], FALSE)]
  /\ UNCHANGED <<ledger, today, railway, kept, store, workers, asked, alone>>

EndBuild(p) ==
  /\ GoOn(p, "building", "backup")
  /\ temp' = [temp EXCEPT ![p].whole = TRUE]
  /\ UNCHANGED <<ledger, today, railway, kept, store, workers, asked, alone>>

\* The copy of the file that is about to go, if nobody has made one.
Backup(p) ==
  /\ GoOn(p, "backup", "replace")
  /\ kept' = (kept \/ railway # NoFile)
  /\ UNCHANGED <<ledger, today, railway, temp, store, workers, asked, alone>>

\* os.replace()
Replace(p) ==
  /\ GoOn(p, "replace", "store")
  /\ railway' = temp[p]
  /\ temp' = [temp EXCEPT ![p] = NoFile]
  /\ UNCHANGED <<ledger, today, kept, store, workers, asked, alone>>

\* build_system: the store, and the graph it is read into.
OpenStore(p) ==
  /\ GoOn(p, "store", "pool")
  /\ store' = [store EXCEPT ![p] = railway]
  /\ UNCHANGED <<ledger, today, railway, kept, temp, workers, asked, alone>>

\* The pool warms up: every worker opens railway.db by its name.
OpenWorkers(p) ==
  /\ GoOn(p, "pool", "ledger")
  /\ workers' = [workers EXCEPT ![p] = railway]
  /\ UNCHANGED <<ledger, today, railway, kept, temp, store, asked, alone>>

\* Then the ledger, and after it the requests.
OpenLedger(p) ==
  /\ at[p] = "ledger"
  /\ \/ Start(p) \/ Inspect(p) \/ CountRows(p) \/ FindCopy(p) \/ CopySeats(p)
     \/ SeatsCopied(p) \/ AddColumn(p) \/ ReadVersion(p) \/ CopyBusy(p) \/ BusyCopied(p)
     \/ Migrate(p)
  /\ UNCHANGED startup

Serve(p) ==
  /\ at[p] = "ledger"
  /\ Clear(p) \/ \E r \in Runs : Book(p, r)
  /\ UNCHANGED startup

\* System.close(), or the program dies; a temporary file is left or removed.
End(p) ==
  /\ at[p] # "off"
  /\ IF pc[p] = "closed" THEN UNCHANGED ledger ELSE Stop(p)
  /\ at' = [at EXCEPT ![p] = "off"]
  /\ temp' = [temp EXCEPT ![p] = NoFile]
  /\ store' = [store EXCEPT ![p] = NoFile]
  /\ workers' = [workers EXCEPT ![p] = NoFile]
  /\ asked' = [asked EXCEPT ![p] = 0]
  /\ alone' = alone \ {p}
  /\ UNCHANGED <<today, railway, kept>>

\* Midnight.
Tomorrow ==
  /\ today < LastDay /\ today' = today + 1
  /\ UNCHANGED <<ledger, railway, kept, temp, store, workers, at, asked, alone>>

StartupNext ==
  \/ Tomorrow
  \/ \E p \in Programs :
       \/ Ensure(p) \/ BeginBuild(p) \/ EndBuild(p) \/ Backup(p) \/ Replace(p)
       \/ OpenStore(p) \/ OpenWorkers(p) \/ OpenLedger(p) \/ Serve(p) \/ End(p)

StartupSpec == StartupInit /\ [][StartupNext]_<<ledger, startup>>
-----------------------------------------------------------------------------
StartupTypeOK ==
  /\ TypeOK
  /\ today \in 1..LastDay /\ railway \in Files /\ kept \in BOOLEAN
  /\ temp \in [Programs -> Files] /\ {store, workers} \subseteq [Programs -> Files]
  /\ at \in [Programs -> Phases] /\ asked \in [Programs -> 0..LastDay]
  /\ alone \subseteq Programs
  /\ \A p \in Programs : pc[p] # "closed" => at[p] = "ledger"

\* railway.db is absent or a complete build, and so is what any program reads,
\* although programs rebuild it at the same time, beside running ones, and die
\* in the middle of it.
FileWhole ==
  /\ railway = NoFile \/ railway.whole
  /\ \A p \in Programs : at[p] = "ledger" => store[p].whole /\ workers[p].whole

\* A program that came up with no other starting beside it serves its own
\* network and a window that begins no earlier than the day it started on, and
\* its workers search the build its store answers from.
FreshWhenAlone ==
  \A p \in alone : pc[p] = "open" =>
    /\ store[p].network = Network[p] /\ store[p].day >= asked[p]
    /\ workers[p] = store[p]
=============================================================================
