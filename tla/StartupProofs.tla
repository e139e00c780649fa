---------------------------- MODULE StartupProofs ----------------------------
(***************************************************************************)
(* What opening a ledger keeps, for every number of programs, runs and     *)
(* columns, and what a program that has come up reads, for every number of *)
(* days and networks.                                                      *)
(***************************************************************************)
EXTENDS Startup, TLAPS

\* Past the columns; past the version.
Late   == {"version", "copybusy", "copyingbusy", "migrate", "open"}
Acting == {"copybusy", "copyingbusy", "migrate"}

\* Columns are only ever added, and a program goes on when it has seen all.
ColumnsSeen ==
  \A p \in Programs :
    /\ saw[p].columns <= columns
    /\ pc[p] \in Late => columns = Fields

\* This version's ledgers have a policy; nobody acts on an unknown version.
PolicyThere ==
  /\ version = Current => policy.table
  /\ \A p \in Programs : pc[p] \in Acting => saw[p].version # Other

UpgradeInv == TypeOK /\ PinsBeforeVersion /\ ColumnsSeen /\ PolicyThere

\* Ledgers of every vintage, with no program open, satisfy the invariant.
LEMMA UpgradeStarts == Init => UpgradeInv
<1> SUFFICES ASSUME Init PROVE UpgradeInv
  OBVIOUS
<1>1. TypeOK
  <2>1. policy = NoTable \/ \E d \in Profiles, s \in SUBSET Runs :
                             policy = [dflt |-> d, pinned |-> s, table |-> TRUE]
    BY DEF Init, Vintage
  <2>2. policy \in Policies
    <3>1. CASE policy = NoTable
      BY <3>1, Zenon DEF Policies, NoTable
    <3>2. ASSUME NEW d \in Profiles, NEW s \in SUBSET Runs,
                 policy = [dflt |-> d, pinned |-> s, table |-> TRUE]
          PROVE  policy \in Policies
      BY <3>2, Zenon DEF Policies
    <3> QED
      BY <2>1, <3>1, <3>2
  <2>3. version \in Versions /\ columns \in 0..Fields /\ booked \subseteq Runs /\ historic \subseteq Runs
    BY UpgradeAssumption DEF Init, Vintage, Versions
  <2>4. saw \in [Programs -> [columns : 0..Fields, version : Versions]]
    BY UpgradeAssumption DEF Init, Versions
  <2> QED
    BY <2>2, <2>3, <2>4 DEF Init, TypeOK, Copies, Steps
<1>2. PinsBeforeVersion
  BY DEF Init, Vintage, PinsBeforeVersion, NoTable, None, Old, Current, Other
<1>3. ColumnsSeen
  BY UpgradeAssumption DEF Init, Vintage, ColumnsSeen, Late
<1>4. PolicyThere
  BY DEF Init, Vintage, PolicyThere, NoTable, Acting, None, Old, Current, Other
<1> QED
  BY <1>1, <1>2, <1>3, <1>4 DEF UpgradeInv

\* Every statement of BookingStore.__init__, and every request and crash, keeps it.
LEMMA UpgradeKept == UpgradeInv /\ [Next]_vars => UpgradeInv'
<1> SUFFICES ASSUME UpgradeInv, [Next]_vars PROVE UpgradeInv'
  OBVIOUS
<1> USE UpgradeAssumption DEF UpgradeInv
<1>1. ASSUME NEW p \in Programs, Start(p) PROVE UpgradeInv'
  BY <1>1 DEF Start, Goto, TypeOK, Steps, PinsBeforeVersion, ColumnsSeen, PolicyThere, Late, Acting
<1>2. ASSUME NEW p \in Programs, Inspect(p) PROVE UpgradeInv'
  BY <1>2 DEF Inspect, Goto, TypeOK, Steps, PinsBeforeVersion, ColumnsSeen, PolicyThere, Late, Acting
<1>3. ASSUME NEW p \in Programs, CopySeats(p) PROVE UpgradeInv'
  BY <1>3 DEF CopySeats, Goto, TypeOK, Steps, Copies, PinsBeforeVersion, ColumnsSeen, PolicyThere,
     Late, Acting
<1>4. ASSUME NEW p \in Programs, SeatsCopied(p) PROVE UpgradeInv'
  BY <1>4 DEF SeatsCopied, Goto, TypeOK, Steps, Copies, PinsBeforeVersion, ColumnsSeen, PolicyThere,
     Late, Acting
<1>5. ASSUME NEW p \in Programs, AddColumn(p) PROVE UpgradeInv'
  <2>1. TypeOK'
    BY <1>5 DEF AddColumn, TypeOK, Steps
  <2>2. PinsBeforeVersion' /\ PolicyThere'
    BY <1>5 DEF AddColumn, TypeOK, PinsBeforeVersion, PolicyThere, Acting
  <2>3. ColumnsSeen'
    BY <1>5 DEF AddColumn, TypeOK, ColumnsSeen, Late
  <2> QED BY <2>1, <2>2, <2>3
<1>6. ASSUME NEW p \in Programs, ReadVersion(p) PROVE UpgradeInv'
  BY <1>6 DEF ReadVersion, Goto, TypeOK, Steps, PinsBeforeVersion, ColumnsSeen, PolicyThere, Late,
     Acting
<1>7. ASSUME NEW p \in Programs, CopyBusy(p) PROVE UpgradeInv'
  BY <1>7 DEF CopyBusy, Goto, TypeOK, Steps, Copies, PinsBeforeVersion, ColumnsSeen, PolicyThere,
     Late, Acting
<1>8. ASSUME NEW p \in Programs, BusyCopied(p) PROVE UpgradeInv'
  BY <1>8 DEF BusyCopied, Goto, TypeOK, Steps, Copies, PinsBeforeVersion, ColumnsSeen, PolicyThere,
     Late, Acting
<1>9. ASSUME NEW p \in Programs, Migrate(p) PROVE UpgradeInv'
  <2>1. TypeOK'
    BY <1>9 DEF Migrate, Goto, TypeOK, Steps, Versions, Policies, Profiles
  <2>2. \A r \in historic : r \in policy'.pinned
    BY <1>9 DEF Migrate, Goto, TypeOK, Policies, PinsBeforeVersion, PolicyThere, Acting, None, Old,
       Current, Other
  <2>3. PinsBeforeVersion'
    BY <1>9, <2>2 DEF Migrate, Goto, TypeOK, Versions, PinsBeforeVersion, PolicyThere, Acting, None,
       Old, Current, Other
  <2>4. ColumnsSeen' /\ PolicyThere'
    BY <1>9 DEF Migrate, Goto, TypeOK, Policies, ColumnsSeen, PolicyThere, Late, Acting
  <2> QED BY <2>1, <2>3, <2>4
<1>10. ASSUME NEW p \in Programs, Clear(p) PROVE UpgradeInv'
  BY <1>10 DEF Clear, TypeOK, PinsBeforeVersion, ColumnsSeen, PolicyThere, Old, Current
<1>11. ASSUME NEW p \in Programs, Stop(p) PROVE UpgradeInv'
  BY <1>11 DEF Stop, TypeOK, Steps, Versions, PinsBeforeVersion, ColumnsSeen, PolicyThere, Late, Acting
<1>12. ASSUME NEW p \in Programs, NEW r \in Runs, Book(p, r) PROVE UpgradeInv'
  BY <1>12 DEF Book, TypeOK, PinsBeforeVersion, ColumnsSeen, PolicyThere, Old, Current
<1>13. ASSUME NEW p \in Programs, CountRows(p) \/ FindCopy(p) PROVE UpgradeInv'
  BY <1>13 DEF CountRows, FindCopy, Goto, TypeOK, Steps, PinsBeforeVersion, ColumnsSeen, PolicyThere,
     Late, Acting
<1>14. CASE UNCHANGED vars
  BY <1>14 DEF vars, TypeOK, PinsBeforeVersion, ColumnsSeen, PolicyThere
<1> QED
  BY <1>1, <1>2, <1>3, <1>4, <1>5, <1>6, <1>7, <1>8, <1>9, <1>10, <1>11, <1>12, <1>13, <1>14 DEF Next

\* The invariant says what a passenger and a reader of the ledger care for.
LEMMA UpgradeMeans == UpgradeInv => HistoricKept /\ ReadyWhenOpen
<1> SUFFICES ASSUME UpgradeInv PROVE HistoricKept /\ ReadyWhenOpen
  OBVIOUS
<1>1. HistoricKept
  BY DEF UpgradeInv, PinsBeforeVersion, HistoricKept, Profile
<1>2. ReadyWhenOpen
  BY DEF UpgradeInv, PinsBeforeVersion, ColumnsSeen, PolicyThere, ReadyWhenOpen, Late
<1> QED
  BY <1>1, <1>2

-----------------------------------------------------------------------------
(* Coming up *)

\* Every step of a program that starts or serves is one of opening the ledger,
\* or none of the ledger's.
LEMMA StartupOpens == [StartupNext]_<<ledger, startup>> => [Next]_vars
<1> SUFFICES ASSUME [StartupNext]_<<ledger, startup>> PROVE [Next]_vars
  OBVIOUS
<1>1. ASSUME NEW p \in Programs, OpenLedger(p) PROVE Next
  BY <1>1 DEF OpenLedger, Next
<1>2. ASSUME NEW p \in Programs, Serve(p) PROVE Next
  BY <1>2 DEF Serve, Next
<1>3. ASSUME NEW p \in Programs, End(p) PROVE [Next]_vars
  BY <1>3 DEF End, Next, ledger
<1>4. ASSUME NEW p \in Programs,
             Ensure(p) \/ BeginBuild(p) \/ EndBuild(p) \/ Backup(p) \/ Replace(p)
               \/ OpenStore(p) \/ OpenWorkers(p)
      PROVE  UNCHANGED vars
  BY <1>4 DEF Ensure, BeginBuild, EndBuild, Backup, Replace, OpenStore, OpenWorkers, ledger
<1>5. CASE Tomorrow
  BY <1>5 DEF Tomorrow, ledger
<1>6. CASE UNCHANGED <<ledger, startup>>
  BY <1>6 DEF ledger
<1> QED
  BY <1>1, <1>2, <1>3, <1>4, <1>5, <1>6 DEF StartupNext

\* A program that starts, serves and stops opens its ledger as LedgerUpgrade
\* says, whatever it does to railway.db before.
THEOREM StartupImplementsUpgrade == StartupSpec => Spec
<1>1. StartupInit => Init
  BY DEF StartupInit
<1> QED
  BY <1>1, StartupOpens, PTL DEF StartupSpec, Spec

\* The invariant of the upgrade holds however programs open, crash and book.
THEOREM UpgradeInvariance == Spec => []UpgradeInv
  BY UpgradeStarts, UpgradeKept, PTL DEF Spec

\* Runs booked under segment-v1 keep their seed: for every number of programs,
\* environments, runs and columns, with crashes between any two statements.
THEOREM HistoricSeedsKept == StartupSpec => []HistoricKept
<1>1. UpgradeInv => HistoricKept
  BY UpgradeMeans
<1> QED
  BY <1>1, StartupImplementsUpgrade, UpgradeInvariance, PTL

\* No program serves from a ledger that is upgraded only in part.
THEOREM LedgerReady == StartupSpec => []ReadyWhenOpen
<1>1. UpgradeInv => ReadyWhenOpen
  BY UpgradeMeans
<1> QED
  BY <1>1, StartupImplementsUpgrade, UpgradeInvariance, PTL

-----------------------------------------------------------------------------
(* railway.db *)

\* What is published, moved into place or opened is complete.
BuildsWhole ==
  /\ railway = NoFile \/ railway.whole
  /\ \A p \in Programs :
       /\ at[p] = "building" => temp[p] # NoFile
       /\ at[p] \in {"backup", "replace"} => temp[p].whole
       /\ at[p] \in {"store", "pool", "ledger"} => railway.whole
       /\ at[p] \in {"pool", "ledger"} => store[p].whole
       /\ at[p] = "ledger" => workers[p].whole

\* While a program starts alone, what it builds and finds is of its own.
OwnBuild ==
  \A p \in Programs :
    /\ asked[p] <= today
    /\ p \in alone /\ Starting(p) =>
         /\ \A q \in Programs \ {p} : ~Starting(q)
         /\ at[p] \in {"building", "backup", "replace"} =>
              temp[p].network = Network[p] /\ temp[p].day >= asked[p]
         /\ at[p] \in {"store", "pool", "ledger"} =>
              railway.network = Network[p] /\ railway.day >= asked[p]
         /\ at[p] \in {"pool", "ledger"} => store[p] = railway
         /\ at[p] = "ledger" => workers[p] = railway
    /\ p \in alone /\ pc[p] # "closed" =>
         /\ store[p].network = Network[p] /\ store[p].day >= asked[p]
         /\ workers[p] = store[p]

StartupInv == UpgradeInv /\ StartupTypeOK /\ BuildsWhole /\ OwnBuild

\* Before any program starts, the invariant of the start-up holds.
LEMMA StartupStarts == StartupInit => StartupInv
<1> SUFFICES ASSUME StartupInit PROVE StartupInv
  OBVIOUS
<1>1. UpgradeInv /\ TypeOK /\ \A p \in Programs : pc[p] = "closed"
  BY UpgradeStarts DEF StartupInit, UpgradeInv, Init
<1>2. StartupTypeOK
  <2>1. NoFile \in Files
    BY DEF Files
  <2>2. railway \in Files
    <3>1. ASSUME NEW p \in Programs, railway = Build(1, Network[p], TRUE) PROVE railway \in Files
      BY <3>1, StartupAssumption DEF Files, Build
    <3> QED
      BY <2>1, <3>1 DEF StartupInit
  <2>3. today \in 1..LastDay /\ asked \in [Programs -> 0..LastDay]
    BY StartupAssumption DEF StartupInit
  <2>4. at \in [Programs -> Phases] /\ alone \subseteq Programs /\ kept \in BOOLEAN
    BY DEF StartupInit, Phases
  <2>5. temp \in [Programs -> Files] /\ {store, workers} \subseteq [Programs -> Files]
    BY <2>1 DEF StartupInit
  <2> QED
    BY <1>1, <2>2, <2>3, <2>4, <2>5 DEF StartupTypeOK
<1>3. BuildsWhole
  BY DEF StartupInit, BuildsWhole, Build, NoFile
<1>4. OwnBuild
  BY <1>1 DEF StartupInit, OwnBuild, Starting
<1> QED
  BY <1>1, <1>2, <1>3, <1>4 DEF StartupInv

\* Every step of a start, a rebuild, a shutdown and every midnight keeps it.
LEMMA StartupKept ==
  StartupInv /\ [StartupNext]_<<ledger, startup>> => StartupInv'
<1> SUFFICES ASSUME StartupInv, [StartupNext]_<<ledger, startup>> PROVE StartupInv'
  OBVIOUS
<1> USE StartupAssumption DEF StartupInv
<1>0. UpgradeInv' /\ TypeOK'
  BY StartupOpens, UpgradeKept DEF UpgradeInv
<1>1. ASSUME NEW p \in Programs, Ensure(p) PROVE StartupInv'
  <2>1. StartupTypeOK'
    BY <1>0, <1>1 DEF Ensure, GoOn, ledger, vars, StartupTypeOK, Phases
  <2>2. BuildsWhole'
    BY <1>1 DEF Ensure, GoOn, StartupTypeOK, BuildsWhole
  <2>3. OwnBuild'
    <3>1. ASSUME NEW q \in Programs, q # p PROVE q \in alone' => q \in alone /\ ~Starting(q)
      BY <1>1, <3>1 DEF Ensure
    <3>2. p \in alone' => \A r \in Programs \ {p} : ~Starting(r)
      BY <1>1 DEF Ensure, StartupTypeOK, Starting, GoOn
    <3>3. \A r \in Programs \ {p} : Starting(r)' <=> Starting(r)
      BY <1>1 DEF Ensure, GoOn, ledger, vars, StartupTypeOK, Starting
    <3>4. pc[p] = "closed" /\ pc' = pc /\ asked'[p] = today /\ today' = today /\ today \in Nat
      BY <1>1 DEF Ensure, GoOn, ledger, vars, StartupTypeOK
    <3>5. \/ at'[p] = "build"
          \/ at'[p] = "store" /\ railway.day = today /\ railway.network = Network[p]
      BY <1>1 DEF Ensure, GoOn, Stale, StartupTypeOK
    <3>6. /\ railway' = railway /\ store' = store /\ workers' = workers /\ temp' = temp
          /\ \A q \in Programs \ {p} : asked'[q] = asked[q] /\ at'[q] = at[q]
      BY <1>1 DEF Ensure, GoOn, StartupTypeOK
    <3> QED
      BY <3>1, <3>2, <3>3, <3>4, <3>5, <3>6 DEF OwnBuild
  <2> QED
    BY <1>0, <2>1, <2>2, <2>3
<1>2. ASSUME NEW p \in Programs, BeginBuild(p) PROVE StartupInv'
  <2>1. Build(today, Network[p], FALSE) \in Files
    BY DEF StartupTypeOK, Files, Build
  <2>2. StartupTypeOK'
    BY <1>0, <1>2, <2>1 DEF BeginBuild, GoOn, ledger, vars, StartupTypeOK, Phases
  <2>3. BuildsWhole'
    <3>1. Build(today, Network[p], FALSE) # NoFile
      BY DEF StartupTypeOK, Build, NoFile
    <3> QED
      BY <1>2, <3>1 DEF BeginBuild, GoOn, StartupTypeOK, BuildsWhole
  <2>4. OwnBuild'
    BY <1>2 DEF BeginBuild, GoOn, Build, ledger, vars, StartupTypeOK, OwnBuild, Starting
  <2> QED
    BY <1>0, <2>2, <2>3, <2>4
<1>3. ASSUME NEW p \in Programs, EndBuild(p) PROVE StartupInv'
  <2>1. [temp[p] EXCEPT !.whole = TRUE] \in Files
    <3> DEFINE Built == [day : 1..LastDay, network : {Network[q] : q \in Programs}, whole : BOOLEAN]
    <3>1. temp[p] \in Built
      <4>1. temp[p] \in Files /\ temp[p] # NoFile
        BY <1>3 DEF EndBuild, GoOn, BuildsWhole, StartupTypeOK
      <4> QED
        BY <4>1, Zenon DEF Files
    <3>2. ASSUME NEW b \in Built PROVE [b EXCEPT !.whole = TRUE] \in Built
      BY <3>2
    <3> QED
      BY <3>1, <3>2, Zenon DEF Files
  <2>2. StartupTypeOK'
    BY <1>0, <1>3, <2>1 DEF EndBuild, GoOn, ledger, vars, StartupTypeOK, Phases
  <2>3. BuildsWhole'
    BY <1>3 DEF EndBuild, GoOn, StartupTypeOK, BuildsWhole
  <2>4. OwnBuild'
    BY <1>3 DEF EndBuild, GoOn, ledger, vars, StartupTypeOK, OwnBuild, Starting
  <2> QED
    BY <1>0, <2>2, <2>3, <2>4
<1>4. ASSUME NEW p \in Programs, Backup(p) PROVE StartupInv'
  <2>1. StartupTypeOK'
    BY <1>0, <1>4 DEF Backup, GoOn, ledger, vars, StartupTypeOK, Phases
  <2>2. BuildsWhole'
    BY <1>4 DEF Backup, GoOn, StartupTypeOK, BuildsWhole
  <2>3. OwnBuild'
    BY <1>4 DEF Backup, GoOn, ledger, vars, StartupTypeOK, OwnBuild, Starting
  <2> QED
    BY <1>0, <2>1, <2>2, <2>3
<1>5. ASSUME NEW p \in Programs, Replace(p) PROVE StartupInv'
  <2>1. StartupTypeOK'
    BY <1>0, <1>5 DEF Replace, GoOn, ledger, vars, StartupTypeOK, Phases, Files
  <2>2. BuildsWhole'
    BY <1>5 DEF Replace, GoOn, StartupTypeOK, BuildsWhole
  <2>3. OwnBuild'
    BY <1>5 DEF Replace, GoOn, ledger, vars, StartupTypeOK, OwnBuild, Starting
  <2> QED
    BY <1>0, <2>1, <2>2, <2>3
<1>6. ASSUME NEW p \in Programs, OpenStore(p) PROVE StartupInv'
  <2>1. StartupTypeOK'
    BY <1>0, <1>6 DEF OpenStore, GoOn, ledger, vars, StartupTypeOK, Phases
  <2>2. BuildsWhole'
    BY <1>6 DEF OpenStore, GoOn, StartupTypeOK, BuildsWhole
  <2>3. OwnBuild'
    BY <1>6 DEF OpenStore, GoOn, ledger, vars, StartupTypeOK, OwnBuild, Starting
  <2> QED
    BY <1>0, <2>1, <2>2, <2>3
<1>7. ASSUME NEW p \in Programs, OpenWorkers(p) PROVE StartupInv'
  <2>1. StartupTypeOK'
    BY <1>0, <1>7 DEF OpenWorkers, GoOn, ledger, vars, StartupTypeOK, Phases
  <2>2. BuildsWhole'
    BY <1>7 DEF OpenWorkers, GoOn, StartupTypeOK, BuildsWhole
  <2>3. OwnBuild'
    BY <1>7 DEF OpenWorkers, GoOn, ledger, vars, StartupTypeOK, OwnBuild, Starting
  <2> QED
    BY <1>0, <2>1, <2>2, <2>3
<1>8. ASSUME NEW p \in Programs, OpenLedger(p) \/ Serve(p) PROVE StartupInv'
  <2>1. at[p] = "ledger" /\ UNCHANGED startup
    BY <1>8 DEF OpenLedger, Serve
  <2>2. /\ \A q \in Programs : q # p => pc'[q] = pc[q]
        /\ pc[p] # "closed" => pc'[p] # "closed"
    BY <1>8 DEF OpenLedger, Serve, Start, Inspect, CountRows, FindCopy, CopySeats, SeatsCopied,
       AddColumn, ReadVersion, CopyBusy, BusyCopied, Migrate, Clear, Book, Goto, StartupTypeOK, TypeOK
  <2>3. StartupTypeOK'
    BY <1>0, <2>1, <2>2 DEF startup, StartupTypeOK
  <2>4. BuildsWhole'
    BY <2>1 DEF startup, BuildsWhole
  <2>5. OwnBuild'
    BY <2>1, <2>2 DEF startup, StartupTypeOK, OwnBuild, Starting
  <2> QED
    BY <1>0, <2>3, <2>4, <2>5
<1>9. ASSUME NEW p \in Programs, End(p) PROVE StartupInv'
  <2>1. /\ \A q \in Programs : q # p => pc'[q] = pc[q]
        /\ pc'[p] = "closed"
    BY <1>9 DEF End, Stop, ledger, vars, StartupTypeOK, TypeOK
  <2>2. StartupTypeOK'
    <3>1. NoFile \in Files /\ 0 \in 0..LastDay /\ "off" \in Phases
      BY DEF Files, Phases
    <3> QED
      BY <1>0, <1>9, <2>1, <3>1 DEF End, StartupTypeOK
  <2>3. BuildsWhole'
    BY <1>9 DEF End, StartupTypeOK, BuildsWhole
  <2>4. OwnBuild'
    BY <1>9, <2>1 DEF End, StartupTypeOK, OwnBuild, Starting
  <2> QED
    BY <1>0, <2>2, <2>3, <2>4
<1>10. CASE Tomorrow
  <2>1. StartupTypeOK'
    BY <1>0, <1>10 DEF Tomorrow, ledger, vars, StartupTypeOK
  <2>2. BuildsWhole'
    BY <1>10 DEF Tomorrow, BuildsWhole
  <2>3. OwnBuild'
    BY <1>10 DEF Tomorrow, ledger, vars, StartupTypeOK, OwnBuild, Starting
  <2> QED
    BY <1>0, <2>1, <2>2, <2>3
<1>11. CASE UNCHANGED <<ledger, startup>>
  BY <1>0, <1>11 DEF ledger, vars, startup, StartupTypeOK, BuildsWhole, OwnBuild, Starting
<1> QED
  BY <1>1, <1>2, <1>3, <1>4, <1>5, <1>6, <1>7, <1>8, <1>9, <1>10, <1>11 DEF StartupNext

\* What is known of railway.db, of temporary files and of open stores holds always.
THEOREM StartupInvariance == StartupSpec => []StartupInv
  BY StartupStarts, StartupKept, PTL DEF StartupSpec

\* railway.db is complete at every moment, and so is what every program reads,
\* with any number of programs that build, start and die beside each other.
THEOREM FileIsWhole == StartupSpec => []FileWhole
<1>1. StartupInv => FileWhole
  BY DEF StartupInv, BuildsWhole, FileWhole
<1> QED
  BY <1>1, StartupInvariance, PTL

\* A program that starts alone serves its own network and a window of the day
\* it started on or later, in its store and its workers alike.
THEOREM FreshIfAlone == StartupSpec => []FreshWhenAlone
<1>1. StartupInv => FreshWhenAlone
  BY DEF StartupInv, StartupTypeOK, OwnBuild, FreshWhenAlone
<1> QED
  BY <1>1, StartupInvariance, PTL
=============================================================================
