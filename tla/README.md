# SplitRail: TLA+ models, checks and proofs

SplitRail searches split-ticket train journeys, offers real seats of a simulated
inventory and books them in a ledger that several programs may have open. This
directory holds TLA+ models of the parts of it that are hard to test, the TLC
configurations that check them on small instances, and proofs, checked by TLAPS,
that the main results hold for every instance.

`P` below is `src/split-ticket-train-booking/`; line numbers refer to the files
there unless a path says otherwise.

## 1. Inventory

| Part | State it keeps | Operations | Talks to |
|---|---|---|---|
| Booking ledger (`P/src/booking_store.py`) | tables `bookings`, `simulation_meta`, `inventory_run_profiles`; one SQLite connection and a transaction depth per program | create, update, cancel, delete, clear; `transaction()`; `book`, `book_itinerary`, `rebook`; opening and upgrading a file of any age | SQLite (write lock, shared locks, busy timeout), seat inventory |
| Seat inventory (`P/src/inventory.py`) | per-instance caches of routes, coaches and busy masks; the seed layer is a pure function of (profile, train, run date, coach) | `occupied`, `available`, `snapshot` | reads the ledger, reads railway.db |
| Reference store (`P/src/data_store.py`) | connection to railway.db, the inventory kept with the ledger's `data_version` | timetable and coach queries, `get_availability`, `inventory()`, `window_is_stale` | ledger, rebuild |
| Start-up and rebuild (`demo_scenarios.py`, `demo_window.py`, `build_sqlite_db.py`) | railway.db on disk, its backup, temporary files | `ensure_database`, `build`, `build_system`, `close` | store, ledger, worker pool |
| Web server (`P/web.py`) | `ENGINE_LOCK`, one engine (one connection) shared by all handler threads | GET/POST/PATCH/DELETE handlers, static pages, shutdown | everything below it |
| The page (`P/web/app.js`, `explain.js`) | the last query, its options and direct trains, the booking under review, the reservation panel, comparisons | submit, filter, review, confirm, cancel, refresh, tabs | the server, by fetches that overlap |
| Search loops (`search_astar.py`, `search_ucs.py`, `search_bfs.py`) | frontier, finalized set, best costs, parents, goals; all local to a call | one search | successor generators |
| Successors (`successors*.py`, `constraint_checks.py`, `seat_search.py`, `state.py`, `rail_graph.py`, `heuristic.py`) | none but counters | next tickets or next halts of a journey; the estimate | inventory, reference store |
| Agents, worker pool, coordinator (`P/src/agents/`) | a pool of two processes with stores of their own | propose, evaluate, resolve, rank | search |
| Fares and distances (`fare_model.py`, `distance.py`) | none | fare of a ticket | |
| Live lookups, explanations, traces, baseline, offline tools | none that another part reads | | see section 5 |

### What is hard here

* *Interleaving over one file.* A web server, a CLI and tests may open one ledger.
  `cancel` is an UPDATE between two reads outside any transaction; `rebook`
  cancels, books a second row, copies it over the first and deletes it.
* *Atomicity and failure.* An itinerary's later leg may be refused, the write lock
  may not be granted, a COMMIT may not get past a reader, the program may die at any
  statement. A cancellation writes outside `transaction()`: when it times out, the
  transaction that Python began for it stays open.
* *Upgrade and start.* `BookingStore.__init__` is a dozen statements over a file
  that another program may be upgrading; before it, each program may be rebuilding
  railway.db, for a network profile of its own, over midnight.
* *Threads.* Handler threads share one connection and one transaction depth;
  correctness rests on `ENGINE_LOCK`; shutdown closes the connection under running
  handlers.
* *Order and budget.* The candidates' order rests on a consistent estimate, on
  the goal test at the pop and on the tie-break; a budget may end the search
  at any pop.
* *Stale data.* A search reads the ledger coach by coach, another reader keeps
  what it read under a version, the page keeps what it was told; all the while
  other programs commit.
* *Partial failure.* One search raises, a worker process dies, an evaluation of one
  candidate fails, an answer to the page is lost.

`PROJECT.json` lists each hazard at its line with the properties that watch it.

## 2. Modules

```
SeatInventory ─┬─ SeatRegister ........... what the ledger promises (abstract)
               ├─ BookingLedger ───────── refines SeatRegister
               │    ├─ BookingLedgerProofs
               │    └─ MCBookingLedger                     ledger, ledger_retry
               ├─ LegacyLedger ── MCLegacyLedger                        legacy
               └─ SeatLegs ─ StopMoves ─ Journeys ─┬─ JourneysProofs
      Timetable ──┘        SeedLayer, Lists ──┘    └─ MCJourneys
                                                          journeys, midnight
LedgerUpgrade ─┬─ MCLedgerUpgrade                               upgrade_reseed
               └─ Startup ─┬─ StartupProofs
                           └─ MCStartup                                upgrade
WebServer ── WebServerProofs                                               web
Explanation ── Browser ─┬─ BrowserProofs
                        └─ MCBrowser                    browser, browser_rerun
BestFirstSearch ─┬─ BestFirstSearchProofs
                 └─ MCBestFirstSearch                                   search
Fares, Lists ── Coordinator ─┬─ CoordinatorProofs
                             └─ MCCoordinator                     coordinator
Lists ── ListsProofs (used by the proofs of Coordinator and Journeys)
```

**SeatInventory** is the arithmetic of `inventory.py`: a seat's bit mask is the set
of route segments whose bit is set, `Occupied` is the seed mask with the span of
every active row that holds the seat, `Available` the seats with no bit on the
span. A "coach" is a (train, run date, coach) key.

**BookingLedger** has one variable for the committed rows (`ledger`), one for the
copy of whoever holds the write lock (`work`), the holder (`lock`), and per connection
its request (`job`), how far it is (`phase`), the legs it has inserted (`made`) and the
transaction it is in outside `transaction()` (`open`). `Begin` is `BEGIN IMMEDIATE`,
`InsertLeg` one turn of `book_itinerary`'s loop with all checks of `book()`, `Rebook` and
`Drop` the two ways of `rebook()`, `Rollback` the error path, `Commit` the commit;
`CancelFind`, `CancelWrite`, `CancelReread` are the three accesses of a DELETE
request; `LookUp` is any request that only reads; `ClearAll` is the CLI's clear;
`Crash` is a death and a restart at any point.

Any of these may time out. `BEGIN IMMEDIATE` that does not get the lock (`Busy`) and a
COMMIT of `transaction()` that a reader holds up (`CommitBusy`, rolled back) leave nothing.
`update()` has no rollback: Python issues a BEGIN of its own before the UPDATE, so when the
UPDATE times out the connection is in a transaction without a lock (`CancelBusy`, `open`
= "begun"), which its next SELECT turns into one that keeps a shared lock ("reading");
when the COMMIT times out, it keeps the write lock, its copy, and a pending lock that
refuses new readers (`CancelUnsaved`, "unsaved", `ShutOut`). In any of these the next
`BEGIN IMMEDIATE` raises, after SQLite has taken the write lock for it (`BeginWithin`,
"writing"). The next cancellation that succeeds commits whatever is open. How a connection
that keeps a shared lock holds up others' COMMITs is SQLite's rollback journal, which is
what the ledger uses (no other journal mode is set). A SELECT that merely runs while
another program commits is not modelled: it ends in much less than the ten seconds of the
busy timeout.
`book()` makes its checks of the timetable before it opens its transaction;
the model makes them inside, which changes nothing because the timetable is
constant here.

**SeatRegister** is the promise: rows change by whole sales, cancellations, moves
and wipes that keep seats exclusive. `ImplementsRegister` says that BookingLedger
implements it with `rows <- ledger`.

**LedgerUpgrade** goes through `BookingStore.__init__` statement by statement
(`Inspect`, `CountRows` and `FindCopy` are its three looks at the file), for
several programs with environments of their own, over ledgers of each vintage
(count-only, segment-v1, current, unknown), with a crash (`Stop`) anywhere.
Columns are counted; a backup file is absent, there but empty, or a copy from
before or after the upgrade.

**Startup** puts before it what a program does to come up: `Ensure` looks at
railway.db and at today, `BeginBuild` to `Replace` are the rebuild into a
temporary file and `os.replace`, `OpenStore` and `OpenWorkers` the two times the
file is opened by its name, `OpenLedger` the steps of LedgerUpgrade. A file is
the day and the network it was built for and whether it is complete. Programs
die (`End`) and days pass (`Tomorrow`) at any point.

**LegacyLedger** is the reading of count-only rows by `occupied()`: each takes the
first seats that the rows before it leave, anew at each read.

**Timetable** is what railway.db says of trains: halts converted as
`convert_schedules.py` does, with clock times, day and halt; datetimes, segment
minutes, running days, the graph of fastest rides and its shortest paths.
**SeedLayer** is the busy-v2 seed layer with the hash as a parameter (a draw per
coach). **SeatLegs** is `SeatSuccessors`: whole tickets with seats (a halt that the data
have twice is, to the inventory, its last, `LastCalls`), from a set of
masks. **StopMoves** is the pair of older generators that move halt by halt.
**Journeys** composes them with a ledger that changes: a search follows one branch;
before each step it reads the coaches that the step needs and that it has not read
yet (`ReadOwn` into the search's inventory, `ReadKept` into the store's, which `Call`
throws away when the version has moved), and between any two reads others sell and
cancel. `OfferSeats` and `OfferRide` end the branch, `Book` sends the offer to the
ledger's checks (an instance of BookingLedger's operators, `Ledger`).

**WebServer** has a state per handler thread (`pc`, `socket`, `kind`, `answer`), the
lock's holder, and the shared connection (`depth`, `staged`, `saved`, `conn`, and
`left`, whether a cancellation that timed out left its transaction open). Other
programs are not in it; what they do to it is that any statement may time out
(`BeginFails`, `CancelFails`, an error from `AbortWork`). A size that the server
refuses is a request that is complete with its head.
A booking is a transaction of two statements; which statements is
BookingLedger's business.

**Explanation** and **Browser** are the page. Every handler is cut at its awaits:
`Submit` and `SearchDone`/`SearchFails`, `Confirm` and `Booked`/`BookingFails`,
`Cancel` and its ends, `ListLoaded`, `RerunSearched`, `RerunDone`/`RerunFails` for
the refresh that follows a change; `Arrived` for a comparison. A fetch under way is
a record in `search`, `chain` or `measuring`; the server answers any of them at any
time, and `Mishap` refuses or loses one, before or after the server has acted.
`held` is the ledger as the page can tell it: which review holds a journey's seats.
A journey has one leg here. The panel and its cancel buttons are per leg (`app.js:204`),
so a journey of several would be one row each, cancelled one by one by the same handler;
and the split dialog (`app.js:254-284`), which only journeys with a change have, ends in
the same `reserve()` (`app.js:284`).

**BestFirstSearch** is the loop that A*, uniform-cost and breadth-first search
share. `Arrive`, `GiveUp` and `Expand` are the three things that follow a pop,
`OutOfBudget` the check at the head (expansions, or time at any moment),
`Exhausted` an empty frontier, `Shortlist` what `search_seats` does with the
result. A query is a graph with costs, an estimate, goals and signatures;
`SearchAssumption` says what the code guarantees of it: costs do not fall
along a move (minutes are positive), the estimate is a shortest distance in a graph
with edges no dearer than rides (so consistent, zero at the destination only;
`EstimateConsistent` checks that of the real graph in `journeys`, and
`SearchFitsLoop` proves it), and the start is
no goal (`web.py:59` refuses equal ends, and `is_goal` needs a train).
Since a journey state carries its whole history, its cost belongs to it, and the
re-push of a known state at a lower cost (`known <= child_g`) cannot happen;
`Sound` shows that the pop of a stale entry cannot either.

**Lists** is what sorting and filtering are made of here: the place of an element is
the number of elements before it, and a sorted list is the function from places to
elements (the community modules' `SortSeq` and `SelectSeq` are opaque to the prover).

**Fares** are base fare by bands, charges, class factor and tax, and the distance of a
route, which is the sum of the distances of its hops; how far two points are apart is
a parameter without a shorter detour (`DistanceAssumption`). **Coordinator** is `resolve()`: both searches at once in threads or worker
processes (`Propose`, `SearchRaises`, `WorkerDies`), `Pool` merges and prunes,
`Evaluate` gives or fails one evaluation of one candidate, `Recommend` scores, ranks
and marks the front. A search that raises fails the request while the other runs on
(`OrphanEnds`).

`map` in `PROJECT.json` names the lines each definition stands for. Definitions
that begin "Fault:" are mutations used to show that the properties can fail;
no specification uses them.

## 3. Runs

| Run | Question | Bounds |
|---|---|---|
| `ledger` | do two programs keep the ledger right? `SeatExclusive`, `WholeItineraries`, `ChangesCanBeMade`, `HistoryKept`, `ImplementsRegister`; can whoever has a request in hand always go on or be refused? `NobodyStuck` | 2 connections, 3 rows ever, 2 journeys, 3 coaches of 2 runs, 2 seats, 3 halts, 6 booking requests |
| `ledger_retry` (violation) | once nobody else is at work, does a booking asked for again get to its transaction? | 2 connections, 2 rows, 2 requests |
| `upgrade` | does every program come up on complete files, without reseeding historic runs? `HistoricKept`, `ReadyWhenOpen`, `FileWhole`, `FreshWhenAlone` | 2 programs with different environments and networks, 2 runs, 2 columns to add, 2 days |
| `upgrade_reseed` (violation) | does a run with bookings ever change its seed? | 2 programs, no days |
| `legacy` (violation) | do count-only rows keep their berths? | 2 old rows, 4 rows, 2 seats, 3 halts |
| `journeys` | is what is offered bookable and what was asked for, whatever is committed meanwhile? `OfferStands`, `WithinQuery`, `KeptAgrees`, `BoundariesSplit`, `DirectOnPanel`, `EstimateConsistent` | 3 trains (one that started the day before, one with contradicting times and a station its data name twice), 6 dated coaches, 2 seats, 4 queries, both generators, 1 commit |
| `midnight` (violation) | do a train's times add up? | the same network with a halt over midnight |
| `web` | are requests atomic, answers true, pages and API served? | 2 threads, 5 kinds of request |
| `browser` | is a booking what was reviewed, and does the page tell of one search? `BookedAsReviewed`, `PageAgrees`, `MeasuredOnIt`, `SearchReturns`, `LoadingEnds` | 2 queries of 2 journeys, 2 chains under way, three kinds of session (`SessionsOf`) with up to 2 searches, 2 reviews, 2 uses of the tabs, 1 mishap |
| `browser_rerun` (violation) | does the explanation describe the cards above it? | same |
| `search` | do the three loops find the best, in order, missing nothing, and end? | 5 states in 6 shapes, costs 1..3, 8 sets of goals, two estimates, k in {1, 2}, budget 4, second limit 3 |
| `coordinator` | is every candidate ranked once, by evidence, and every request resolved? `NothingLost`, `EvidenceFirst`, `FrontCovers`, `SplitsCostMore`, `Resolved` | 2 agents, 8 plans in 8 lists, 3 trains, both ways of running searches, 2 workers |

Why these are enough. Two connections, programs, threads or chains are the least
that interleave, and every conflict in the code is between two (one lock, one row,
one file, one global). Three rows allow an itinerary and a row that competes with
one of its legs, or a rebooking with its temporary second row beside a competitor.
The seed of the small coach leaves one seat whole and one in part, so that the
first free seat differs by stretch. One change in the timetable can be made (25
minutes between trains), one is too short (10) and one has no change of seat. Two
columns are the least that can be half added; two days hold one midnight, and a
program that builds across it. In `journeys` the network has a halt long enough
for a change of seat and one that is not, a train that cannot be caught in time, a
coach whose free seats come in stretches and one whose do not, and queries that do
and do not limit class, region, changes and walks; one commit is enough to make
any picture a mixture, since it can fall between any two reads. The page's
sessions are the combinations in which two things of a kind can be under way.
For the search, five states hold a branching at each of two levels, a diamond
(one state generated by two parents), a dead end and a chain; costs from 1 to 3
give ties as well as inversions of generation order; the budget of 4 can end a
search before, between and after the goals. The coordinator's plans hold a direct
ride and its split, two plans alike, one on a waiting list, one by night, one
without a price and one in a class not asked for. Bounds are named in the modules
(`Ids` and `RoomFor`, `MaxRows`, `OldRows`, `MaxExpanded`, `LastDay`, `MaxCommits`,
`MaxChains`, `MaxReviews`, `Sessions`).

Every property of a passing run has a mutation of the model that violates it
(`mutants` in `PROJECT.json`).

`ledger` uses symmetry in connections, ids and journeys and checks safety only
(`NobodyStuck` is a state predicate, although it asks what is enabled);
the runs with liveness use none. `upgrade` has 4,142,476 distinct states, `ledger`
638,700 and `web` 34,250. Deadlock is checked except in `web` (a server
whose connections are all finished is at rest), `search` (a search that has
returned stops) and the two browser runs (a session that has spent its bounds is
over). In the others someone can always do something.

`PageAgrees` leaves out what the code does not promise: while two things overlap,
or after one was lost, the page may be a mixture until the next search; the
history variable `crossed` says when. `browser_rerun` asks without it.

### Fairness

* `ledger`, `ledger_retry`: none. `NobodyStuck` says of each state that a connection
  with a request has a step; together with a scheduler that runs programs, and a
  `busy_timeout` that ends every wait (`booking_store.py:204`), no wait is for ever.
* `web`: weak fairness of each handler thread. Browsers are not fair; that bodies
  arrive or the browser hangs up is a hypothesis of `EngineServes` alone.
  Each thread serves one connection and connections are finite, so a free lock is
  not taken from a waiting thread for ever.
* `browser`: weak fairness of the event loop's two ends of a search and of the
  server's answers to the search, the direct trains and the comparisons; an answer
  that is lost counts as an error, as `fetch` rejects then. Nothing is assumed of
  the passenger.
* `search`, `coordinator`: weak fairness of the loop, of each search, of each
  evaluation and of the final step; all are bounded by limits of their own.

### Disagreements the runs show

* `ledger_retry`: a cancellation that timed out at its UPDATE leaves Python's BEGIN open;
  from then on every booking on that connection fails at `BEGIN IMMEDIATE` and is told
  "Please try again" (`web.py:460`), and the failed BEGIN keeps the write lock, so that other
  programs' bookings fail too. It ends with the next cancellation on that connection that
  succeeds, or with the program.
* `legacy`: after one cancellation a count-only row moves onto a seat sold since,
  and its old berth is sold again; docs say old bookings consume capacity
  conservatively.
* `upgrade_reseed`: the version is read before `BEGIN IMMEDIATE`; a program
  overtaken by another's upgrade pins, and so reseeds, a run booked since.
* `midnight`: the extract's one day per halt is the day of the arrival, but is used
  for the departure too; a train that waits over midnight leaves before it arrives.
* `browser_rerun`: a refresh after a booking reads the global query again after an
  await; a search made meanwhile puts the old options under the new explanation,
  which a comment says cannot happen.

Other observations, in the models but without a run of their own:

* `web.py:514` reads a request's body with the engine's lock held: one browser that
  stalls after its headers keeps all API requests waiting (`EngineServes` therefore
  has its hypothesis; web.py:38-39 promises more). `PagesServed` is about static pages,
  which go round the lock; no property forbids the starvation of the API.
* `booking_store.py:417`: when the COMMIT of a cancellation times out, the request is answered
  with an error, but the cancellation stays written in the open transaction and is
  published by the connection's next one that succeeds. The register allows it (several
  bookings may be cancelled in one step), and so do `SeatExclusive` and `HistoryKept`.
* When one search raises, `resolve()` throws the other's plans away. `NothingLost` is about
  requests that are answered with a ranking; that such a request is resolved at all is
  `Resolved`.
* `booking_store.py:213`: opening the backup creates its file, so a crash during the
  copy leaves an empty one that later starts take for the backup.
* `booking_store.py:419`: `assert updated is not None` fails when another program
  clears the ledger between a cancel's UPDATE and the read after it (phase
  "asserted" of BookingLedger).
* `seat_search.py:180`: direct services are appended behind the shortlist in
  generation order, whereas proposal.py:41 calls the rank cheapest first.
* `data_store.py:244` calls it safe to open railway.db as immutable because nothing
  writes it while the application runs. Another program's start does replace it;
  the replacement is a new file, so an open one stays whole (`FileWhole`), but a
  program's workers may open another build than its store when two start together
  (hence `FreshWhenAlone`).

## 4. Proofs

`tlapm` checks `BookingLedgerProofs`, `BestFirstSearchProofs`, `StartupProofs`,
`WebServerProofs`, `BrowserProofs`, `CoordinatorProofs`, `JourneysProofs` and the laws of
lists and sums they share, `ListsProofs`, to the last leaf. What is assumed of the
constants are the named `ASSUME`s of the modules proved about (`InventoryAssumption`,
`LedgerAssumption`, `SearchAssumption`, `UpgradeAssumption`, `StartupAssumption`,
`ServerAssumption`, `ExplanationAssumption`, `BrowserAssumption`, `DistanceAssumption`,
`PlansAssumption`, `QueryAssumption`, `TimetableAssumption`, `RoutesAssumption`,
`CatalogueAssumption`, `QueriesAssumption`, `WindowAssumption`, `DrawsAssumption`,
`RealHaltsAssumption`, `AlphabetAssumption`); TLC evaluates each of them on the
instances of the runs.

Inductions over data are made in first order: the induction theorems of the library
take a predicate, which the provers cannot instantiate, but a *set* of numbers (or of
subsets) that is closed under the step can be a constant of a lemma (`SetInduction`,
`FiniteInduction`). A recursive function is reached through the equation it satisfies:
a function that satisfies it exists by induction, so the one that is chosen does.

**Ledger** (any number of connections, coaches, runs, seats, stops, rows, journeys
and requests). `SeatExclusive` is not inductive: a commit publishes `work`. The
invariant is `TypeOK /\ LedgerInv`: the write lock is held by the one connection inside
`transaction()` or by one whose last request left it with the lock (`LockHeld`; never both,
since a transaction is begun only where none is open), what a sale has inserted is in
its copy and one leg is left (`LegsInserted`), and both the ledger and the copy are
exclusive. `InsertKeepsExclusive` says that a row on seats that `available()` reports keeps
rows exclusive; `ExclusiveEmbeds` that cancelling, deleting and copying do; `SeenSound`
that what a connection reads, its copy or the ledger, is sound either way. Theorems:
`Invariance`, `TypeCorrect`, `LedgerSound`, `NoDoubleBooking` (`Spec => []SeatExclusive`).

**Ledger and register.** That a commit is one whole change is a statement about the
copy at that moment, so the invariant `RegInv` measures the copy against the ledger all
the time (`Underway`): that of a sale is the ledger with the first legs of the request
added (`Sold`), that of a change the ledger before it or with one booking moved or
cancelled, and what is held outside `transaction()` differs by cancellations alone
(`Cancellations`), however many have failed to commit. The ledger cannot move underneath,
since other writers need the lock (`OthersUnderway`). `SoldGrows` is the step of the
sale, `StepChanges` the result: a step of any connection makes at most one whole
change of the committed rows. From it follow `LedgerImplementsRegister`
(`Spec => Register!Spec`), `HistoryIsKept`, `ItinerariesWhole`, and `ChangesPossible`.
The last needs a hypothesis, that a change of train takes no less than a change of
seat: `book_itinerary` compares neighbours only, and from the first to the third leg
one can change in time because `InTimeOn` adds two changes up. The defaults (20 and 5
minutes, `P/src/config.py:13-14`) satisfy it; the environment may set others and
nothing checks them against each other.

**Search** (any set of graphs that satisfies `SearchAssumption`, any k, any budget).
The invariant is `TypeOK /\ Sound /\ InOrder /\ LoopInv`. The argument:

1. `KeyGrows`: the order of the frontier does not fall from a state to its
   successors (consistency of the estimate).
2. `PopsLeast`: what is popped has the least rank. For a heap that is the definition;
   for the queue it needs `Queued`: entries are in order of level and span two
   levels at most.
3. Hence `InOrder`: nothing in the frontier ranks below anything expanded.
   `PushedAreNew` and `AllNewArePushed` give it for `Expand`, together with `Sound`.
4. `Frontline`: a state that may be visited is expanded or ranks no lower than all
   that are. Visited states are the *least closed set* that holds the start,
   defined without recursion (`Reachable`), so the proof shows that the states in
   question contain the start and are closed; no induction over paths is needed.
5. `SearchSound` (`Sound`) and `ExpandsInOrder` (`InOrder`) are conjuncts of the
   invariant; `BestAreFound`, `NothingIsMissed` and `AStarExpandsLess` follow from
   `Frontline`, `GoalsKept` and `Outcome`.

**Coordinator** (any number of agents, plans and workers, any lists of plans, any failures).
The invariant follows what each search and each evaluation has to give to what is
pooled and ranked. That a ranking holds every option once and in order is a law of
`Listing` (`ListingLaw`); that whatever is dominated is dominated by one on the front is
an induction over the finite set of options (`FrontIsEnough`); totals are sums over a
plan's tickets. Theorems: `TypeCorrect`, `EveryPlanOffered`, `FailedComeLast`,
`FrontIsEnough`, `SplitsNeverPay`. The last is about fares: `Telescopic`, that the base
fare of a whole distance is at most the sum of those of its parts since the marginal rate
falls, `SplitCostMore`, which adds the charges of each ticket, and `RideCostsLess`, for a
ride over any number of halts.

**Start-up** (any number of programs, environments, networks, runs and days).
`StartupImplementsUpgrade`: what a program does to railway.db leaves the ledger's
variables alone, so Startup implements LedgerUpgrade and what holds of the latter
holds of the former. `UpgradeInv` says why historic runs keep their seed: whoever is
about to write the version has pinned them (`PinsBeforeVersion`), what a program
believes of the columns is so (`ColumnsSeen`), and every open program finds the policy
in place (`PolicyThere`). `StartupInv` follows each file from its temporary name to
its readers. Theorems: `HistoricSeedsKept`, `LedgerReady`, `FileIsWhole`,
`FreshIfAlone`.

**Web server** (any number of handler threads and kinds of request, a shutdown
anywhere). `ServerInv`: the thread in the critical section is the lock's holder
(`LockHeld`), what is staged on the shared connection is its own or a cancellation that
could not be committed (`StagedOwn`), and what is saved is a whole request
(`SavedWhole`). Theorems: `AllOrNothing`, `ToldTheTruth`.

**The page** (any number of chains, queries and questions). `PageInv`: comparisons are
kept under what they are about and the panel shows one of them (`PanelRight`); the
journey a chain books is the one its review showed (`Reviewing`, `InDialog`, `UnderWay`),
and the ledger holds no other for that review (`Held`). Theorems: `PageTypeCorrect`,
`MeasuredRight`, `BookedRight`, and `PageShowsOneSearch` (`PageAgrees`), for sessions of any
length with any mishaps.

**Journeys** (any timetable, rakes, seeds, queries and sales that satisfy the
assumptions). The invariant is `IInv == Stamped /\ Tasked /\ Journeying /\ UpToDate`.

* `Stamped` says what the store's inventory holds under the version it was made at;
  `KeptIsCurrent` (`KeptAgrees`) follows.
* `Journeying` says what a journey is in each phase. A `Chain` is tickets that join
  (`Joins`: place, time and seats of every change), from the origin on, each to a place not
  seen before. Between two tickets a journey is `Seated`; halt by halt it is `Moved`, and
  whoever is `Aboard` has come forward from where he boarded and could close his ticket;
  at the end it has `Arrived`.
* `UpToDate` says that while nothing has been committed since the question, what was read
  is what the ledger holds, so that a ticket that could be closed still can.

`JourneysTypeCorrect` holds as it stands. `OffersAnswer` (`WithinQuery`) has one
hypothesis, `DayHalts`: no train waits over midnight where one may change seats. The extract
keeps one day for the arrival and the departure of a halt, and 6 of the 7185 halts of the
two extracts (5 of them long enough for a change) do pass midnight; the run `midnight`
shows what happens there. `RoutesAssumption` allows for the one train of the extracts
whose data name a station twice (12777 at YPR).

`EstimateNeverMisleads` (`EstimateConsistent`) has no hypothesis. The estimate is the
table after as many rounds of relaxation as there are stations. Of the functions that no
ride shortens, the pointwise highest is reached from the start or by a ride everywhere
(`HighestReached`); no round falls below it (`RoundsBounded`); and each round settles
one more station, of those that are left the nearest (`RoundSettles`), since weights are
positive. So the last round is a fixed point, a hop changes the estimate by no more than its
minutes (`HopConsistent`), and a ride is its hops (`RideConsistent`, over the sum).

Two theorems make of this what the repository claims of the estimate.
`EstimateIsLowerBound` (`LowerBound`) is the claim of `P/src/rail_graph.py:10-14` that the
heuristic is admissible: a journey offered, by either generator, took no less than was
estimated between the two stations. Its invariant is `Ahead`: what was spent and what is
still estimated are together never less than the first estimate. `SearchFitsLoop`
(`FitsLoop`) joins Journeys to BestFirstSearch, whose theorems hold for any graph that
satisfies `SearchAssumption`: the journeys a search by legs looks at are such a graph, with
the moving time for the cost and the tickets for the moves. It needs, besides consistency,
that the estimate is zero at the goal only (`EstimateZero`): the table is the highest of the
functions that no ride shortens (`PathsSettle`), and one of them is 1 everywhere but at the
goal. The conjuncts of `SearchAssumption` about `Infinite` compare with a number what the
code compares with the float `inf`. `DeadEndsStayDead` (`StaysFar`) proves the one that says
something of the graph, that out of reach stays out of reach, from `FarAway`: no hop is longer
than some M, and M for each station and once more is less than `Infinite` (in the checked
instance 6 times 640 minutes against a million). The other two bound costs and are not
stated of the journeys.

`OffersAreTaken` (`OfferStands`) says that the search's conditions and the ledger's, which
are different code over different data, agree on every journey offered with seats. Its
invariant `OfferInv` adds `Seating`: a ticket with seats has a `Sound` ride behind it (a run
of the train within the days the inventory holds, halts in order, every segment with a
time, as many different seats as passengers, none of them in the seed layer over the
stretch); tickets of one train are of one run; every coach of the next departures is
being read or has been (`Awaited`), so that no seat is taken from a coach that was not read;
and until something is committed the seats taken are free in the ledger. That the ledger
then sells the legs is a fact about one table: after k legs the transaction holds the
rows and one more for each of them (`Stage`), each leg is `Sellable` and follows the one
before it (`LegAccepted`), and earlier legs of the journey take none of its seats
(`FreeBeside`); so the sale succeeds just when the seats are free (`BookedIfFree`). Its
hypothesis is `TidyHalts`: no halt passes midnight, and none has times without a day. The
checked instance satisfies it; of the extracts the halts named above do not, and the
ledger, which compares times along the route, then refuses what was offered.
`WindowAssumption` ties together two numbers of the code that the agreement rests on: the
ledger's literal 7 and 4 days around the window (`booking_store.py:595`) and the search's
`MAX_JOURNEY_DAYS`.

`SplitsAtBoundaries` (`BoundariesSplit`) has no hypothesis. `Boundaries` is a recursive
function; the lists it goes through are `Climbing`, one halt after another
(`BoundariesAscend`), so an end of a stretch is the last segment of one block and the first
of the next. The seats of two such blocks are fewer than one turn apart in the order the
hash draws (`Turns`, `BlocksDiffer`), hence different, and a `Sound` ticket takes only seats
that the seed layer leaves free. `DrawsAssumption` says what `_busy_masks` draws from:
an order of all the seats, and a quota of which two fit in a coach (the code's is a
sixteenth of the seats, at most four, or one).

`DirectsAreListed` (`DirectOnPanel`) has no hypothesis either. `Panelling` says what is known
of a journey of one ticket by legs while nothing has been committed: it is boarded on the
day asked for (`First`), and no coach of its class answers better on its stretch
(`Foremost`). A ride establishes it because every coach of the run was read before any was
taken (`RunRead`), a coach that is not offered answers `UNAVAILABLE`, and the rank puts the
status before the walk and the place in the alphabet (`ChosenBest`). `AlphabetAssumption`
keeps the parts of the rank apart, and `RealHaltsAssumption` says that no route of the
extracts ends in passing: the list leaves such a train out and the search would not.

**Only model-checked.** `NobodyStuck`, which asks what is enabled, and liveness
(`PagesServed`, `EngineServes`, `Ends`, `Resolved`, `SearchReturns`, `LoadingEnds`): the
prover has no ENABLED. Every other safety property of the passing runs, and every action
property among them, is a theorem.

## 5. Not modelled, and why

* *Live lookups* (`live_cache.py`, `live_trains.py`): `web.py` defines them and no
  handler calls them, so no state of the running program depends on them.
* *Explanations' texts, traces, telemetry, the baseline agent*: they present or
  measure; no other part reads what they produce. What the page does with the
  comparisons is in Explanation.
* *Data preparation and tools* (`data_source/` but for the conversion of halts and
  the rebuild, `tools/`), `synthetic_availability.py`: they run once, over files.
* *Validation of request shapes, JSON, HTML, the command line* but for `clear()`:
  single-call behaviour that unit tests cover. Limits that validation guarantees
  are assumptions on the requests of the models.
* *The hash behind the seed and the older seed profile*: parameters; whatever they
  draw is admitted.
* *Rounding of money to the paisa, distances on a sphere*: Fares counts in units in
  which all rates are whole; the distance of two points is a parameter.
* *Display counters* of the searches and `search_limit_reason`.
* *A pinned `SPLITRAIL_WINDOW_START`*: the window then never becomes stale, which
  leaves Startup fewer behaviours.
* Two things seen on the way: the docs list `GET /api/bookings/ID`, which `do_GET`
  answers with 404; and a count-only ledger without a version has no runs pinned,
  although `P/README.md:51` speaks of all existing ones.

## 6. What is left

Nothing of the running program that keeps state another part reads is left out
altogether. Worth adding, in this order: the older seed profile as operators (so that a
changed default can be checked against stored bookings), the CLI as a second kind of
client of Journeys and BookingLedger with the stale proposals it keeps between its
prompts.
