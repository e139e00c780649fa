------------------------------- MODULE Browser -------------------------------
(***************************************************************************)
(* The page (web/app.js) and the requests it has under way: a search with  *)
(* its two fetches, and after a booking or a cancellation a chain of       *)
(* fetches, the reservation list, the search again, the direct trains.     *)
(* Every await lets the other handlers run.  The server's answers come in  *)
(* any order; a request or its answer may be lost, and what was lost may   *)
(* have been done.                                                         *)
(*                                                                         *)
(* A journey is a query and a number: the seats its card names.  The       *)
(* server's book_itinerary is modelled by what it promises, all of the     *)
(* named seats or none (BookingLedger).                                    *)
(*                                                                         *)
(* Bound: a journey has one leg.  The reservation panel has a row, and a   *)
(* cancel button, for each leg, so here it has one for each review; and    *)
(* the split dialog, which cards of journeys with changes open and whose   *)
(* buttons end in the same reserve(), does not arise.                      *)
(***************************************************************************)
EXTENDS Explanation

CONSTANTS
  Choices,      \* journeys a query has
  MaxChains,    \* bound: bookings and cancellations under way at once
  MaxReviews,   \* bound: journeys reviewed
  Sessions      \* bounds: how often a session does what

ASSUME BrowserAssumption ==
  /\ MaxChains \in Nat /\ MaxReviews \in Nat
  /\ Sessions \subseteq [searches : Nat, reviews : 0..MaxReviews, tabs : Nat, mishaps : Nat]

Journeys  == Queries \X Choices
NoJourney == <<NoQuery, NoQuery>>
Chains    == 1..MaxChains
Others    == MaxReviews + 1      \* other passengers

VARIABLES
  busy, lastQuery, options, directTrains,  \* globals of app.js
  page,       \* what renderOptions painted last, or blank
  search,     \* the search under way and its two fetches
  chain,      \* bookings and cancellations under way
  pending,    \* pendingBooking
  dialog,     \* the modal review: open, its journey, form visible, confirm enabled
  listed,     \* bookings in the reservation panel
  pressed,    \* those whose cancel button is disabled
  held,       \* the ledger: which review holds a journey's seats; 0: nobody
  reviews,    \* how many reviews there have been
  left,       \* what the session has left
  reviewed,   \* the journey each review showed (history)
  crossed     \* requests overlapped or got lost since the last search (history)

globals == <<busy, lastQuery, options, directTrains, page>>
booking == <<pending, dialog, reviews, reviewed>>
panelOf == <<listed, pressed>>
vars == <<explanation, globals, search, chain, booking, panelOf, held,
          left, crossed>>

Free(q) == {j \in Journeys : j[1] = q /\ held[j] = 0}
Mine    == {<<j, held[j]>> : j \in {i \in Journeys : held[i] \in 1..MaxReviews}}

Nothing == [query |-> NoQuery, free |-> {}]
Answers == [query : Queries \cup {NoQuery}, free : SUBSET Journeys]
Blank   == [title |-> NoQuery, cards |-> Nothing, trains |-> NoQuery]
Fetch   == {"out", "ok", "refused", "lost"}
NoSearch == [query |-> NoQuery, main |-> "lost", direct |-> "lost", free |-> {}]
Idle    == [at |-> "idle", net |-> "out", journey |-> NoJourney, review |-> 0,
            query |-> NoQuery, free |-> {}, mine |-> {}, result |-> NoQuery]

Init ==
  /\ InitExplanation
  /\ busy = FALSE /\ lastQuery = NoQuery /\ options = Nothing
  /\ directTrains = NoQuery /\ page = Blank
  /\ search = NoSearch
  /\ chain = [c \in Chains |-> Idle]
  /\ pending = NoJourney
  /\ dialog = [open |-> FALSE, journey |-> NoJourney, form |-> FALSE, confirm |-> FALSE]
  /\ listed = {} /\ pressed = {}
  /\ held = [j \in Journeys |-> 0]
  /\ reviews = 0 /\ left \in Sessions
  /\ reviewed = [r \in 1..MaxReviews |-> NoJourney]
  /\ crossed = FALSE

Spend(what) == left[what] > 0 /\ left' = [left EXCEPT ![what] = @ - 1]

\* renderOptions(), over the values the globals have by then.
Paint == page' = [title |-> lastQuery', cards |-> options', trains |-> directTrains']

\* Two things under way at once.
Overlap ==
  \/ busy /\ \E c \in Chains : chain[c].at # "idle"
  \/ \E c, d \in Chains : c # d /\ chain[c].at # "idle" /\ chain[d].at # "idle"

Track == crossed' = (\/ Overlap' \/ left'.mishaps # left.mishaps
                     \/ crossed /\ left'.searches = left.searches)

-----------------------------------------------------------------------------
(* Searching: the submit handler up to its await, and after it *)

\* The form or a sample route; a query with one station twice is turned away.
Submit(q) ==
  /\ ~busy /\ ~dialog.open
  /\ Spend("searches")
  /\ busy' = TRUE /\ page' = Blank /\ directTrains' = NoQuery
  /\ search' = [query |-> q, main |-> "out", direct |-> "out", free |-> {}]
  /\ Hide
  /\ UNCHANGED <<lastQuery, options, chain, booking, panelOf, held>>
  /\ Track

\* Fault: the button comes back only after a success.
SearchFailsBusy ==
  /\ busy
  /\ search.main = "lost" \/ (search.main = "refused" /\ search.direct # "out")
  /\ options' = Nothing /\ lastQuery' = NoQuery /\ page' = Blank
  /\ search' = NoSearch
  /\ Hide
  /\ UNCHANGED <<busy, directTrains, chain, booking, panelOf, held, left>>
  /\ Track

SearchFails ==
  /\ busy
  /\ search.main = "lost" \/ (search.main = "refused" /\ search.direct # "out")
  /\ busy' = FALSE
  /\ options' = Nothing /\ lastQuery' = NoQuery /\ page' = Blank
  /\ search' = NoSearch
  /\ Hide
  /\ UNCHANGED <<directTrains, chain, booking, panelOf, held, left>>
  /\ Track

SearchDone ==
  /\ busy /\ search.main = "ok" /\ search.direct # "out"
  /\ busy' = FALSE
  /\ directTrains' = IF search.direct = "ok" THEN search.query ELSE NoQuery
  /\ options' = [query |-> search.query, free |-> search.free]
  /\ lastQuery' = search.query
  /\ Paint
  /\ Show(search.query, search.query)
  /\ search' = NoSearch
  /\ UNCHANGED <<chain, booking, panelOf, held, left>>
  /\ Track

\* Filters, the sort order (not while busy) and the reset button (then too)
\* paint what the globals hold.
Refilter ==
  /\ lastQuery # NoQuery /\ ~dialog.open
  /\ UNCHANGED <<busy, lastQuery, options, directTrains>>
  /\ Paint
  /\ UNCHANGED <<explanation, search, chain, booking, panelOf, held, left>>
  /\ Track

-----------------------------------------------------------------------------
(* Booking and cancelling *)

\* Fault: a journey still pending is kept.
ReserveKeeping(j) ==
  /\ ~busy /\ lastQuery # NoQuery /\ ~dialog.open
  /\ j \in page.cards.free \cap options.free
  /\ Spend("reviews") /\ reviews' = reviews + 1
  /\ pending' = IF pending = NoJourney THEN j ELSE pending
  /\ dialog' = [open |-> TRUE, journey |-> j, form |-> TRUE, confirm |-> TRUE]
  /\ reviewed' = [reviewed EXCEPT ![reviews'] = j]
  /\ UNCHANGED <<explanation, globals, search, chain, panelOf, held>>
  /\ Track

\* reserve(): a painted card whose journey is still among the options.
Reserve(j) ==
  /\ ~busy /\ lastQuery # NoQuery /\ ~dialog.open
  /\ j \in page.cards.free \cap options.free
  /\ Spend("reviews") /\ reviews' = reviews + 1
  /\ pending' = j
  /\ dialog' = [open |-> TRUE, journey |-> j, form |-> TRUE, confirm |-> TRUE]
  /\ reviewed' = [reviewed EXCEPT ![reviews'] = j]
  /\ UNCHANGED <<explanation, globals, search, chain, panelOf, held>>
  /\ Track

CloseDialog ==
  /\ dialog.open
  /\ dialog' = [dialog EXCEPT !.open = FALSE]
  /\ UNCHANGED <<explanation, globals, search, chain, pending, reviews, reviewed,
                 panelOf, held, left>>
  /\ Track

Begin(c, at, j, r) ==
  /\ chain[c].at = "idle" /\ \A d \in 1..(c - 1) : chain[d].at # "idle"
  /\ chain' = [chain EXCEPT ![c] = [Idle EXCEPT !.at = at, !.journey = j, !.review = r]]

Confirm(c) ==
  /\ dialog.open /\ dialog.form /\ dialog.confirm /\ pending # NoJourney
  /\ Begin(c, "book", pending, reviews)
  /\ dialog' = [dialog EXCEPT !.confirm = FALSE]
  /\ UNCHANGED <<explanation, globals, search, pending, reviews, reviewed, panelOf,
                 held, left>>
  /\ Track

\* cancelBooking(): booking <<j, r>> of the panel.
Cancel(c, j, r) ==
  /\ <<j, r>> \in listed \ pressed /\ ~dialog.open
  /\ Begin(c, "cancel", j, r)
  /\ pressed' = pressed \cup {<<j, r>>}
  /\ UNCHANGED <<explanation, globals, search, booking, listed, held, left>>
  /\ Track

\* The next fetch of a chain.
Then(c, at, q) == chain' = [chain EXCEPT ![c] = [Idle EXCEPT !.at = at, !.query = q]]
Finish(c)      == chain' = [chain EXCEPT ![c] = Idle]
Back(c, at)    == chain[c].at = at /\ chain[c].net = "ok"
Bad(c, at)     == chain[c].at = at /\ chain[c].net \in {"refused", "lost"}

Booked(c) ==
  /\ Back(c, "book")
  /\ pending' = NoJourney
  /\ dialog' = [dialog EXCEPT !.form = FALSE]
  /\ Then(c, "list", NoQuery)
  /\ UNCHANGED <<explanation, globals, search, reviews, reviewed, panelOf, held, left>>
  /\ Track

\* The error is shown and the passenger may confirm again.
BookingFails(c) ==
  /\ Bad(c, "book")
  /\ dialog' = [dialog EXCEPT !.confirm = TRUE]
  /\ Finish(c)
  /\ UNCHANGED <<explanation, globals, search, pending, reviews, reviewed, panelOf,
                 held, left>>
  /\ Track

Cancelled(c) ==
  /\ Back(c, "cancel")
  /\ Then(c, "list", NoQuery)
  /\ UNCHANGED <<explanation, globals, search, booking, panelOf, held, left>>
  /\ Track

CancelFails(c) ==
  /\ Bad(c, "cancel")
  /\ pressed' = pressed \ {<<chain[c].journey, chain[c].review>>}
  /\ Finish(c)
  /\ UNCHANGED <<explanation, globals, search, booking, listed, held, left>>
  /\ Track

\* Fault: the search is run again although there is none on the page.
ListLoadedAlways(c) ==
  /\ chain[c].at = "list" /\ chain[c].net # "out"
  /\ listed' = IF chain[c].net = "ok" THEN chain[c].mine ELSE {}
  /\ pressed' = {}
  /\ Then(c, "search", lastQuery)
  /\ UNCHANGED <<explanation, globals, search, booking, held, left>>
  /\ Track

\* loadBookings() and the start of rerun(); a list that failed hides the panel.
ListLoaded(c) ==
  /\ chain[c].at = "list" /\ chain[c].net # "out"
  /\ listed' = IF chain[c].net = "ok" THEN chain[c].mine ELSE {}
  /\ pressed' = {}
  /\ IF lastQuery = NoQuery THEN Finish(c) ELSE Then(c, "search", lastQuery)
  /\ UNCHANGED <<explanation, globals, search, booking, held, left>>
  /\ Track

\* Fault: the cards keep the options they had.
RerunSearchedKeeping(c) ==
  /\ Back(c, "search")
  /\ chain' = [chain EXCEPT ![c] = [@ EXCEPT !.at = "direct", !.net = "out", !.free = {},
                                             !.result = chain[c].query, !.query = lastQuery]]
  /\ UNCHANGED <<explanation, globals, search, booking, panelOf, held, left>>
  /\ Track

\* rerun() after its first await: the second fetch reads lastQuery again.
RerunSearched(c) ==
  /\ Back(c, "search")
  /\ options' = [query |-> chain[c].query, free |-> chain[c].free]
  /\ chain' = [chain EXCEPT ![c] = [@ EXCEPT !.at = "direct", !.net = "out", !.free = {},
                                             !.result = chain[c].query, !.query = lastQuery]]
  /\ UNCHANGED <<explanation, busy, lastQuery, directTrains, page, search, booking,
                 panelOf, held, left>>
  /\ Track

\* rerun() after its second: renderOptions throws when a failed search has
\* taken lastQuery away.
RerunDone(c) ==
  /\ Back(c, "direct")
  /\ directTrains' = chain[c].query
  /\ UNCHANGED <<busy, lastQuery, options>>
  /\ IF lastQuery = NoQuery THEN UNCHANGED <<page, explanation>>
     ELSE Paint /\ Show(chain[c].result, lastQuery)
  /\ Finish(c)
  /\ UNCHANGED <<search, booking, panelOf, held, left>>
  /\ Track

RerunFails(c) ==
  /\ Bad(c, "search") \/ Bad(c, "direct")
  /\ Finish(c)
  /\ UNCHANGED <<explanation, globals, search, booking, panelOf, held, left>>
  /\ Track

-----------------------------------------------------------------------------
(* The server and the network *)

Env == UNCHANGED <<globals, booking, panelOf, left>>

ServeSearch ==
  /\ busy /\ search.main = "out"
  /\ search' = [search EXCEPT !.main = "ok", !.free = Free(search.query)]
  /\ Env /\ UNCHANGED <<explanation, chain, held>>
  /\ Track

ServeDirect ==
  /\ busy /\ search.direct = "out"
  /\ search' = [search EXCEPT !.direct = "ok"]
  /\ Env /\ UNCHANGED <<explanation, chain, held>>
  /\ Track

Served(c, net) == chain' = [chain EXCEPT ![c].net = net]

\* book_itinerary: the named seats, or a refusal.
ServeBooking(c) ==
  LET j == chain[c].journey IN
  /\ chain[c].at = "book" /\ chain[c].net = "out"
  /\ held' = IF held[j] = 0 THEN [held EXCEPT ![j] = chain[c].review] ELSE held
  /\ Served(c, IF held[j] = 0 THEN "ok" ELSE "refused")
  /\ Env /\ UNCHANGED <<explanation, search>>
  /\ Track

\* cancel_booking: of the booking with that id, if it is still active.
ServeCancel(c) ==
  LET j == chain[c].journey IN
  /\ chain[c].at = "cancel" /\ chain[c].net = "out"
  /\ held' = IF held[j] = chain[c].review THEN [held EXCEPT ![j] = 0] ELSE held
  /\ Served(c, "ok")
  /\ Env /\ UNCHANGED <<explanation, search>>
  /\ Track

ServeRead(c) ==
  LET r == chain[c] IN
  /\ r.at \in {"list", "search", "direct"} /\ r.net = "out"
  /\ chain' = [chain EXCEPT ![c] =
       [r EXCEPT !.net  = IF r.at = "direct" /\ r.query = NoQuery THEN "refused" ELSE "ok",
                 !.mine = IF r.at = "list" THEN Mine ELSE {},
                 !.free = IF r.at = "search" THEN Free(r.query) ELSE {}]]
  /\ Env /\ UNCHANGED <<explanation, search, held>>
  /\ Track

Measure(k) == Arrived(k, TRUE) /\ Env /\ UNCHANGED <<search, chain, held>> /\ Track

(* Mishaps *)

\* The search is refused or fails, or no answer comes.
LoseSearch ==
  /\ busy /\ search.main \in {"out", "ok"} /\ Spend("mishaps")
  /\ \E x \in {"refused", "lost"} : search' = [search EXCEPT !.main = x]
  /\ UNCHANGED <<globals, booking, panelOf, explanation, chain, held>>
  /\ Track

LoseDirect ==
  /\ busy /\ search.direct \in {"out", "ok"} /\ Spend("mishaps")
  /\ search' = [search EXCEPT !.direct = "lost"]
  /\ UNCHANGED <<globals, booking, panelOf, explanation, chain, held>>
  /\ Track

\* A request of a chain, before or after the server has done what it asks.
LoseRequest(c) ==
  /\ chain[c].at # "idle" /\ chain[c].net \in {"out", "ok"} /\ Spend("mishaps")
  /\ Served(c, "lost")
  /\ UNCHANGED <<globals, booking, panelOf, explanation, search, held>>
  /\ Track

MeasureFails(k) ==
  /\ Spend("mishaps") /\ Arrived(k, FALSE)
  /\ UNCHANGED <<globals, booking, panelOf, search, chain, held>>
  /\ Track

\* Another passenger books the seats of a journey.
OthersBuy(j) ==
  /\ held[j] = 0 /\ Spend("mishaps")
  /\ held' = [held EXCEPT ![j] = Others]
  /\ UNCHANGED <<globals, booking, panelOf, explanation, search, chain>>
  /\ Track

Mishap ==
  \/ LoseSearch \/ LoseDirect
  \/ \E c \in Chains : LoseRequest(c)
  \/ \E k \in Keys : MeasureFails(k)
  \/ \E j \in Journeys : OthersBuy(j)

-----------------------------------------------------------------------------
UseTabs ==
  /\ Spend("tabs") /\ ~dialog.open
  /\ (\E open \in BOOLEAN : OpenTab(open)) \/ (\E m \in Modes : PickMode(m))
  /\ UNCHANGED <<globals, search, chain, booking, panelOf, held>>
  /\ Track

Passenger ==
  \/ \E q \in Queries : Submit(q)
  \/ \E j \in Journeys : Reserve(j)
  \/ \E c \in Chains : Confirm(c) \/ \E j \in Journeys, r \in 1..MaxReviews : Cancel(c, j, r)
  \/ CloseDialog \/ Refilter \/ UseTabs

Handlers ==
  \/ SearchDone \/ SearchFails
  \/ \E c \in Chains :
       \/ Booked(c) \/ BookingFails(c) \/ Cancelled(c) \/ CancelFails(c)
       \/ ListLoaded(c) \/ RerunSearched(c) \/ RerunDone(c) \/ RerunFails(c)

Server ==
  \/ ServeSearch \/ ServeDirect
  \/ \E c \in Chains : ServeBooking(c) \/ ServeCancel(c) \/ ServeRead(c)
  \/ \E k \in Keys : Measure(k)

Next == Passenger \/ Handlers \/ Server \/ Mishap

\* The event loop runs what has come back, and every request is answered in
\* the end: it has a thread of its own in the server (WebServer), and the
\* search is bounded by its limits (BestFirstSearch).
Fairness ==
  /\ WF_vars(SearchDone \/ SearchFails)
  /\ WF_vars(ServeSearch) /\ WF_vars(ServeDirect)
  /\ \A k \in Keys : WF_vars(Measure(k))

Spec == Init /\ [][Next]_vars /\ Fairness
-----------------------------------------------------------------------------
TypeOK ==
  /\ ExplanationTypeOK
  /\ busy \in BOOLEAN /\ lastQuery \in Queries \cup {NoQuery}
  /\ options \in Answers /\ directTrains \in Queries \cup {NoQuery}
  /\ page \in [title : Queries \cup {NoQuery}, cards : Answers,
               trains : Queries \cup {NoQuery}]
  /\ search.main \in Fetch /\ search.direct \in Fetch
  /\ \A c \in Chains :
       /\ chain[c].at \in {"idle", "book", "cancel", "list", "search", "direct"}
       /\ chain[c].at = "search" => chain[c].query \in Queries
       /\ chain[c].at \in {"book", "cancel"} => chain[c].journey \in Journeys
  /\ held \in [Journeys -> 0..Others] /\ reviews \in 0..MaxReviews
  /\ listed \cup pressed \subseteq Journeys \X (1..MaxReviews)

\* What the ledger holds for a review is the journey that review showed, once,
\* also after answers that were lost and confirmed again, and with a second
\* review opened while the first was still on its way.
BookedAsReviewed ==
  /\ \A r \in 1..reviews : {j \in Journeys : held[j] = r} \subseteq {reviewed[r]}
  /\ dialog.form => pending = dialog.journey

\* When nothing overlapped and nothing got lost, the title, the cards, the
\* direct trains and the explanation tell of one search; and once everything
\* is answered, the cards show the ledger as the page's own bookings and
\* cancellations left it.
PageAgrees ==
  ~busy /\ ~crossed /\ page # Blank =>
    /\ page.cards.query = page.title
    /\ page.trains \in {page.title, NoQuery}
    /\ ~explained.hidden => explained.result = page.title /\ explained.query = page.title
    /\ (\A c \in Chains : chain[c].at = "idle") => page.cards.free = Free(page.title)

\* The search button comes back, whatever becomes of the search.
SearchReturns == busy ~> ~busy

\* The explanation describes the search whose cards are above it.
ExplainsTheCards ==
  page # Blank /\ ~explained.hidden =>
    explained.result = page.cards.query /\ explained.query = page.cards.query
=============================================================================
