---------------------------- MODULE BrowserProofs ----------------------------
(***************************************************************************)
(* That a booking is for the journey the passenger reviewed, and a         *)
(* comparison is about the query above it, whatever the order in which     *)
(* answers come in, for all queries, journeys, search spaces and for any   *)
(* number of requests under way.                                           *)
(***************************************************************************)
EXTENDS Browser, TLAPS

-----------------------------------------------------------------------------
(* The explanation panel *)

Described == [hidden : BOOLEAN, result : Queries \cup {NoQuery},
              query : Queries \cup {NoQuery}, search : BOOLEAN, mode : Modes]

\* What may be known of a key.
About(k) == {Unknown, Loading, Broken, Measured(k)}
Right(known) == \A k \in Keys : known[k] \in About(k)

\* What is shown is of a query, and the panel's answer is about what is shown.
PanelRight ==
  /\ explained \in Described
  /\ explained.search \/ ~explained.hidden => explained.query \in Queries
  /\ comparisons = [k \in Keys |-> comparisons[k]] /\ Right(comparisons)
  /\ explained.search => panel \in About(Key(explained))

\* render() leaves a panel that agrees with what has been measured.
LEMMA RenderedRight ==
  ASSUME NEW e \in Described, e.search \/ ~e.hidden => e.query \in Queries,
         NEW known, known = [k \in Keys |-> known[k]], Right(known), Rendered(e, known)
  PROVE  PanelRight'
<1>1. explained' \in Described /\ (explained'.search \/ ~explained'.hidden => explained'.query \in Queries)
  BY DEF Rendered
<1>2. CASE e.search /\ known[Key(e)] = Unknown
  <2>1. Key(e) \in Keys
    BY <1>2 DEF Key, Keys, Described
  <2>2. comparisons' = [known EXCEPT ![Key(e)] = Loading] /\ panel' = Loading
    BY <1>2 DEF Rendered
  <2>3. comparisons' = [k \in Keys |-> IF k = Key(e) THEN Loading ELSE known[k]]
    BY <2>1, <2>2
  <2> QED
    BY <1>1, <2>2, <2>3 DEF PanelRight, Right, About
<1>3. CASE ~(e.search /\ known[Key(e)] = Unknown)
  <2>1. comparisons' = known /\ explained' = e
    BY <1>3 DEF Rendered
  <2>2. e.search => panel' = known[Key(e)] /\ Key(e) \in Keys
    BY <1>3 DEF Rendered, Key, Keys, Described
  <2> QED
    BY <1>1, <2>1, <2>2 DEF PanelRight, Right
<1> QED
  BY <1>2, <1>3

\* So does show(), which forgets the earlier measurements.
LEMMA ShowRight ==
  ASSUME PanelRight, NEW result \in Queries, NEW query \in Queries, Show(result, query)
  PROVE  PanelRight'
<1> DEFINE e == [explained EXCEPT !.hidden = FALSE, !.result = result, !.query = query,
                   !.mode = IF explained.query = query THEN @ ELSE Best[result]]
           known == [k \in Keys |-> Unknown]
<1>1. e \in Described
  BY ExplanationAssumption DEF PanelRight, Described
<1>2. e.query = query
  BY DEF PanelRight, Described
<1>3. known = [k \in Keys |-> known[k]] /\ Right(known)
  BY DEF Right, About
<1>4. Rendered(e, known)
  BY DEF Show
<1> HIDE DEF e, known
<1> QED
  BY <1>1, <1>2, <1>3, <1>4, RenderedRight

\* So does hide().
LEMMA HideRight == PanelRight /\ Hide => PanelRight'
<1> SUFFICES ASSUME PanelRight, Hide PROVE PanelRight'
  OBVIOUS
<1>1. explained' \in Described /\ explained'.search = explained.search
       /\ explained'.query = explained.query /\ explained'.hidden
       /\ Key(explained') = Key(explained)
  BY DEF Hide, PanelRight, Described, Key
<1> QED
  BY <1>1 DEF Hide, PanelRight

\* So do the tabs and the choice of the search space.
LEMMA TabsRight ==
  ASSUME PanelRight, (\E open \in BOOLEAN : OpenTab(open)) \/ (\E m \in Modes : PickMode(m))
  PROVE  PanelRight'
<1>1. ASSUME NEW open \in BOOLEAN, OpenTab(open) PROVE PanelRight'
  <2> DEFINE e == [explained EXCEPT !.search = open]
  <2>1. e \in Described /\ e.query = explained.query
    BY DEF PanelRight, Described
  <2>2. e.query \in Queries /\ Rendered(e, comparisons)
    BY <1>1, <2>1 DEF OpenTab, PanelRight
  <2> QED
    BY <2>1, <2>2, RenderedRight DEF PanelRight
<1>2. ASSUME NEW m \in Modes, PickMode(m) PROVE PanelRight'
  <2> DEFINE e == [explained EXCEPT !.mode = m]
  <2>1. e \in Described /\ e.query = explained.query
    BY DEF PanelRight, Described
  <2>2. e.query \in Queries /\ Rendered(e, comparisons)
    BY <1>2, <2>1 DEF PickMode, PanelRight
  <2> QED
    BY <2>1, <2>2, RenderedRight DEF PanelRight
<1> QED
  BY <1>1, <1>2

\* So does an answer, or an error, to any question still under way.
LEMMA ArrivedRight ==
  ASSUME PanelRight, NEW k \in Keys, NEW ok \in BOOLEAN, Arrived(k, ok)
  PROVE  PanelRight'
<1>1. comparisons' = [l \in Keys |-> IF l = k THEN (IF ok THEN Measured(k) ELSE Broken)
                                     ELSE comparisons[l]]
  BY DEF Arrived, PanelRight
<1>2. Right(comparisons') /\ explained' = explained
  BY <1>1 DEF Arrived, PanelRight, Right, About
<1>3. (panel' = comparisons'[k] /\ k = Key(explained)) \/ panel' = panel
  BY DEF Arrived
<1> QED
  BY <1>1, <1>2, <1>3 DEF PanelRight, Right

-----------------------------------------------------------------------------
(* The page *)

Trips == [at : {"idle", "book", "cancel", "list", "search", "direct"}, net : Fetch,
          journey : Journeys \cup {NoJourney}, review : 0..MaxReviews,
          query : Queries \cup {NoQuery}, free : SUBSET Journeys,
          mine : SUBSET (Journeys \X (1..MaxReviews)), result : Queries \cup {NoQuery}]

PageTypes ==
  /\ lastQuery \in Queries \cup {NoQuery}
  /\ search \in [query : Queries \cup {NoQuery}, main : Fetch, direct : Fetch,
                 free : SUBSET Journeys]
  /\ busy => search.query \in Queries
  /\ chain \in [Chains -> Trips]
  /\ \A c \in Chains : /\ chain[c].at = "search" => chain[c].query \in Queries
                       /\ chain[c].at = "direct" => chain[c].result \in Queries

\* A booking under way, or done, is of the journey that was reviewed.
Reviewing ==
  /\ reviews \in 0..MaxReviews
  /\ left \in [searches : Nat, reviews : Nat, tabs : Nat, mishaps : Nat]
  /\ reviews + left.reviews <= MaxReviews
  /\ reviewed \in [1..MaxReviews -> Journeys \cup {NoJourney}]

InDialog ==
  /\ pending \in Journeys \cup {NoJourney}
  /\ dialog \in [open : BOOLEAN, journey : Journeys \cup {NoJourney}, form : BOOLEAN,
                 confirm : BOOLEAN]
  /\ dialog.form => reviews >= 1 /\ pending = dialog.journey /\ pending = reviewed[reviews]

UnderWay ==
  \A c \in Chains : chain[c].at = "book" =>
    chain[c].review \in 1..reviews /\ chain[c].journey = reviewed[chain[c].review]

Held ==
  /\ held \in [Journeys -> 0..Others]
  /\ \A j \in Journeys :
       /\ held[j] <= reviews \/ held[j] = Others
       /\ held[j] \in 1..reviews => j = reviewed[held[j]]

PageInv == PanelRight /\ PageTypes /\ Reviewing /\ InDialog /\ UnderWay /\ Held

\* The page as it is loaded satisfies the invariant.
LEMMA PageStarts == Init => PageInv
<1> SUFFICES ASSUME Init PROVE PageInv
  OBVIOUS
<1> USE ExplanationAssumption, BrowserAssumption DEF Init
<1>1. PanelRight
  <2>1. (CHOOSE m \in Modes : TRUE) \in Modes
    OBVIOUS
  <2> QED
    BY <2>1 DEF InitExplanation, PanelRight, Described, Right, About
<1>2. PageTypes
  BY DEF PageTypes, Trips, NoSearch, Idle, Fetch
<1>3. Reviewing /\ InDialog /\ UnderWay /\ Held
  BY DEF Reviewing, InDialog, UnderWay, Held, Others, Idle
<1> QED
  BY <1>1, <1>2, <1>3 DEF PageInv

\* A chain moves to a stage whose queries are there; the types stay.
LEMMA TripsTyped ==
  ASSUME PageTypes, NEW c \in Chains, NEW t \in Trips,
         t.at = "search" => t.query \in Queries,
         t.at = "direct" => t.result \in Queries,
         chain' = [chain EXCEPT ![c] = t], UNCHANGED <<lastQuery, search, busy>>
  PROVE  PageTypes'
BY DEF PageTypes

\* A chain that is over is well formed, too.
LEMMA IdleTrip == Idle \in Trips
BY BrowserAssumption DEF Idle, Trips, Fetch

\* Every handler, every answer and every mishap keeps the invariant.
LEMMA PageKept == PageInv /\ [Next]_vars => PageInv'
<1> SUFFICES ASSUME PageInv, [Next]_vars PROVE PageInv'
  OBVIOUS
<1> USE ExplanationAssumption, BrowserAssumption DEF PageInv
<1>1. ASSUME NEW q \in Queries, Submit(q) PROVE PageInv'
  <2>1. PanelRight'
    BY <1>1, HideRight DEF Submit
  <2>2. PageTypes'
    BY <1>1 DEF Submit, Spend, globals, PageTypes, Trips, Idle, Fetch, NoSearch
  <2>3. Reviewing'
    BY <1>1, SMTT(30) DEF Submit, Spend, booking, Reviewing
  <2>4. InDialog'
    BY <1>1 DEF Submit, Spend, booking, Reviewing, InDialog
  <2>5. UnderWay'
    BY <1>1 DEF Submit, Spend, booking, PageTypes, Trips, Idle, Reviewing, InDialog, UnderWay
  <2>6. Held'
    BY <1>1 DEF Submit, Spend, booking, Reviewing, UnderWay, Held
  <2> QED
    BY <2>1, <2>2, <2>3, <2>4, <2>5, <2>6
<1>2. ASSUME NEW j \in Journeys, Reserve(j) PROVE PageInv'
  <2>1. PanelRight'
    BY <1>2 DEF Reserve, explanation, PanelRight, Right
  <2>2. PageTypes'
    BY <1>2 DEF Reserve, Spend, globals, PageTypes, Trips, Idle, Fetch, NoSearch
  <2>3. Reviewing'
    BY <1>2, SMTT(30) DEF Reserve, Spend, booking, Reviewing
  <2>4. InDialog'
    BY <1>2 DEF Reserve, Spend, booking, Reviewing, InDialog
  <2>5. UnderWay'
    BY <1>2 DEF Reserve, Spend, booking, PageTypes, Trips, Idle, Reviewing, InDialog, UnderWay
  <2>6. Held'
    <3>1. reviews' = reviews + 1 /\ reviews' <= MaxReviews /\ reviews \in Nat /\ held' = held
      BY <1>2 DEF Reserve, Spend, Reviewing
    <3>2. \A i \in 1..reviews : reviewed'[i] = reviewed[i]
      BY <1>2, <3>1 DEF Reserve, Reviewing
    <3> QED
      BY <3>1, <3>2 DEF Held, Others
  <2> QED
    BY <2>1, <2>2, <2>3, <2>4, <2>5, <2>6
<1>3. ASSUME NEW c \in Chains, Confirm(c) PROVE PageInv'
  <2>1. PanelRight'
    BY <1>3 DEF Confirm, explanation, PanelRight, Right
  <2>2. PageTypes'
    <3> DEFINE t == [Idle EXCEPT !.at = "book", !.journey = pending, !.review = reviews]
    <3>1. t \in Trips
      <4>1. reviews \in 0..MaxReviews /\ pending \in Journeys \cup {NoJourney}
        BY DEF Reviewing, InDialog
      <4> QED
        BY <4>1, IdleTrip DEF Trips
    <3>2. (t.at = "search" => t.query \in Queries) /\ (t.at = "direct" => t.result \in Queries)
      BY <1>3, IdleTrip DEF Confirm, Begin, Reviewing, InDialog, Trips
    <3>3. chain' = [chain EXCEPT ![c] = t] /\ UNCHANGED <<lastQuery, search, busy>>
      BY <1>3 DEF Confirm, Begin, Reviewing, InDialog, globals
    <3> HIDE DEF t
    <3> QED
      BY <3>1, <3>2, <3>3, TripsTyped
  <2>3. Reviewing'
    BY <1>3 DEF Confirm, Begin, booking, Reviewing
  <2>4. InDialog'
    BY <1>3 DEF Confirm, Begin, booking, Reviewing, InDialog
  <2>5. UnderWay'
    BY <1>3 DEF Confirm, Begin, booking, PageTypes, Trips, Idle, Reviewing, InDialog, UnderWay
  <2>6. Held'
    BY <1>3 DEF Confirm, Begin, booking, Reviewing, UnderWay, Held
  <2> QED
    BY <2>1, <2>2, <2>3, <2>4, <2>5, <2>6
<1>4. ASSUME NEW c \in Chains, NEW j \in Journeys, NEW r \in 1..MaxReviews,
             Cancel(c, j, r) PROVE PageInv'
  <2>1. PanelRight'
    BY <1>4 DEF Cancel, explanation, PanelRight, Right
  <2>2. PageTypes'
    <3> DEFINE t == [Idle EXCEPT !.at = "cancel", !.journey = j, !.review = r]
    <3>1. t \in Trips
      <4>1. r \in 0..MaxReviews
        BY BrowserAssumption
      <4> QED
        BY <4>1, IdleTrip DEF Trips
    <3>2. (t.at = "search" => t.query \in Queries) /\ (t.at = "direct" => t.result \in Queries)
      BY <1>4, IdleTrip DEF Cancel, Begin, Trips
    <3>3. chain' = [chain EXCEPT ![c] = t] /\ UNCHANGED <<lastQuery, search, busy>>
      BY <1>4 DEF Cancel, Begin, globals
    <3> HIDE DEF t
    <3> QED
      BY <3>1, <3>2, <3>3, TripsTyped
  <2>3. Reviewing'
    BY <1>4 DEF Cancel, Begin, booking, Reviewing
  <2>4. InDialog'
    BY <1>4 DEF Cancel, Begin, booking, Reviewing, InDialog
  <2>5. UnderWay'
    BY <1>4 DEF Cancel, Begin, booking, PageTypes, Trips, Idle, Reviewing, InDialog, UnderWay
  <2>6. Held'
    BY <1>4 DEF Cancel, Begin, booking, Reviewing, UnderWay, Held
  <2> QED
    BY <2>1, <2>2, <2>3, <2>4, <2>5, <2>6
<1>5. CASE CloseDialog
  <2>1. PanelRight'
    BY <1>5 DEF CloseDialog, explanation, PanelRight, Right
  <2>2. PageTypes'
    BY <1>5 DEF CloseDialog, globals, PageTypes, Trips, Idle, Fetch, NoSearch
  <2>3. Reviewing'
    BY <1>5 DEF CloseDialog, booking, Reviewing
  <2>4. InDialog'
    BY <1>5 DEF CloseDialog, booking, Reviewing, InDialog
  <2>5. UnderWay'
    BY <1>5 DEF CloseDialog, booking, PageTypes, Trips, Idle, Reviewing, InDialog, UnderWay
  <2>6. Held'
    BY <1>5 DEF CloseDialog, booking, Reviewing, UnderWay, Held
  <2> QED
    BY <2>1, <2>2, <2>3, <2>4, <2>5, <2>6
<1>6. CASE Refilter
  <2>1. PanelRight'
    BY <1>6 DEF Refilter, explanation, PanelRight, Right
  <2>2. PageTypes'
    BY <1>6 DEF Refilter, globals, PageTypes, Trips, Idle, Fetch, NoSearch
  <2>3. Reviewing'
    BY <1>6 DEF Refilter, booking, Reviewing
  <2>4. InDialog'
    BY <1>6 DEF Refilter, booking, Reviewing, InDialog
  <2>5. UnderWay'
    BY <1>6 DEF Refilter, booking, PageTypes, Trips, Idle, Reviewing, InDialog, UnderWay
  <2>6. Held'
    BY <1>6 DEF Refilter, booking, Reviewing, UnderWay, Held
  <2> QED
    BY <2>1, <2>2, <2>3, <2>4, <2>5, <2>6
<1>7. CASE UseTabs
  <2>1. PanelRight'
    BY <1>7, TabsRight DEF UseTabs
  <2>2. PageTypes'
    BY <1>7 DEF UseTabs, Spend, globals, PageTypes, Trips, Idle, Fetch, NoSearch
  <2>3. Reviewing'
    BY <1>7, SMTT(30) DEF UseTabs, Spend, booking, Reviewing
  <2>4. InDialog'
    BY <1>7 DEF UseTabs, Spend, booking, Reviewing, InDialog
  <2>5. UnderWay'
    BY <1>7 DEF UseTabs, Spend, booking, PageTypes, Trips, Idle, Reviewing, InDialog, UnderWay
  <2>6. Held'
    BY <1>7 DEF UseTabs, Spend, booking, Reviewing, UnderWay, Held
  <2> QED
    BY <2>1, <2>2, <2>3, <2>4, <2>5, <2>6
<1>8. CASE SearchDone
  <2>1. PanelRight'
    BY <1>8, ShowRight DEF SearchDone, PageTypes
  <2>2. PageTypes'
    BY <1>8 DEF SearchDone, globals, PageTypes, Trips, Idle, Fetch, NoSearch
  <2>3. Reviewing'
    BY <1>8 DEF SearchDone, booking, Reviewing
  <2>4. InDialog'
    BY <1>8 DEF SearchDone, booking, Reviewing, InDialog
  <2>5. UnderWay'
    BY <1>8 DEF SearchDone, booking, PageTypes, Trips, Idle, Reviewing, InDialog, UnderWay
  <2>6. Held'
    BY <1>8 DEF SearchDone, booking, Reviewing, UnderWay, Held
  <2> QED
    BY <2>1, <2>2, <2>3, <2>4, <2>5, <2>6
<1>9. CASE SearchFails
  <2>1. PanelRight'
    BY <1>9, HideRight DEF SearchFails
  <2>2. PageTypes'
    BY <1>9 DEF SearchFails, globals, PageTypes, Trips, Idle, Fetch, NoSearch
  <2>3. Reviewing'
    BY <1>9 DEF SearchFails, booking, Reviewing
  <2>4. InDialog'
    BY <1>9 DEF SearchFails, booking, Reviewing, InDialog
  <2>5. UnderWay'
    BY <1>9 DEF SearchFails, booking, PageTypes, Trips, Idle, Reviewing, InDialog, UnderWay
  <2>6. Held'
    BY <1>9 DEF SearchFails, booking, Reviewing, UnderWay, Held
  <2> QED
    BY <2>1, <2>2, <2>3, <2>4, <2>5, <2>6
<1>10. ASSUME NEW c \in Chains, Booked(c) PROVE PageInv'
  <2>1. PanelRight'
    BY <1>10 DEF Booked, explanation, PanelRight, Right
  <2>2. PageTypes'
    <3> DEFINE t == [Idle EXCEPT !.at = "list", !.query = NoQuery]
    <3>1. t \in Trips
      BY <1>10, IdleTrip, BrowserAssumption, ZenonT(40) DEF Booked, Then, Trips, Fetch
    <3>2. (t.at = "search" => t.query \in Queries) /\ (t.at = "direct" => t.result \in Queries)
      BY <1>10, IdleTrip DEF Booked, Then, Trips
    <3>3. chain' = [chain EXCEPT ![c] = t] /\ UNCHANGED <<lastQuery, search, busy>>
      BY <1>10 DEF Booked, Then, globals
    <3> HIDE DEF t
    <3> QED
      BY <3>1, <3>2, <3>3, TripsTyped
  <2>3. Reviewing'
    BY <1>10 DEF Booked, Back, Then, booking, Reviewing
  <2>4. InDialog'
    BY <1>10 DEF Booked, Back, Then, booking, Reviewing, InDialog
  <2>5. UnderWay'
    BY <1>10 DEF Booked, Back, Then, booking, PageTypes, Trips, Idle, Reviewing, InDialog,
       UnderWay
  <2>6. Held'
    BY <1>10 DEF Booked, Back, Then, booking, Reviewing, UnderWay, Held
  <2> QED
    BY <2>1, <2>2, <2>3, <2>4, <2>5, <2>6
<1>11. ASSUME NEW c \in Chains, BookingFails(c) PROVE PageInv'
  <2>1. PanelRight'
    BY <1>11 DEF BookingFails, explanation, PanelRight, Right
  <2>2. PageTypes'
    BY <1>11 DEF BookingFails, Bad, Finish, globals, PageTypes, Trips, Idle, Fetch, NoSearch
  <2>3. Reviewing'
    BY <1>11 DEF BookingFails, Bad, Finish, booking, Reviewing
  <2>4. InDialog'
    BY <1>11 DEF BookingFails, Bad, Finish, booking, Reviewing, InDialog
  <2>5. UnderWay'
    BY <1>11 DEF BookingFails, Bad, Finish, booking, PageTypes, Trips, Idle, Reviewing,
       InDialog, UnderWay
  <2>6. Held'
    BY <1>11 DEF BookingFails, Bad, Finish, booking, Reviewing, UnderWay, Held
  <2> QED
    BY <2>1, <2>2, <2>3, <2>4, <2>5, <2>6
<1>12. ASSUME NEW c \in Chains, Cancelled(c) PROVE PageInv'
  <2>1. PanelRight'
    BY <1>12 DEF Cancelled, explanation, PanelRight, Right
  <2>2. PageTypes'
    <3> DEFINE t == [Idle EXCEPT !.at = "list", !.query = NoQuery]
    <3>1. t \in Trips
      BY <1>12, IdleTrip, BrowserAssumption, ZenonT(40) DEF Cancelled, Then, Trips, Fetch
    <3>2. (t.at = "search" => t.query \in Queries) /\ (t.at = "direct" => t.result \in Queries)
      BY <1>12, IdleTrip DEF Cancelled, Then, Trips
    <3>3. chain' = [chain EXCEPT ![c] = t] /\ UNCHANGED <<lastQuery, search, busy>>
      BY <1>12 DEF Cancelled, Then, globals
    <3> HIDE DEF t
    <3> QED
      BY <3>1, <3>2, <3>3, TripsTyped
  <2>3. Reviewing'
    BY <1>12 DEF Cancelled, Back, Then, booking, Reviewing
  <2>4. InDialog'
    BY <1>12 DEF Cancelled, Back, Then, booking, Reviewing, InDialog
  <2>5. UnderWay'
    BY <1>12 DEF Cancelled, Back, Then, booking, PageTypes, Trips, Idle, Reviewing, InDialog,
       UnderWay
  <2>6. Held'
    BY <1>12 DEF Cancelled, Back, Then, booking, Reviewing, UnderWay, Held
  <2> QED
    BY <2>1, <2>2, <2>3, <2>4, <2>5, <2>6
<1>13. ASSUME NEW c \in Chains, CancelFails(c) PROVE PageInv'
  <2>1. PanelRight'
    BY <1>13 DEF CancelFails, explanation, PanelRight, Right
  <2>2. PageTypes'
    BY <1>13 DEF CancelFails, Bad, Finish, globals, PageTypes, Trips, Idle, Fetch, NoSearch
  <2>3. Reviewing'
    BY <1>13 DEF CancelFails, Bad, Finish, booking, Reviewing
  <2>4. InDialog'
    BY <1>13 DEF CancelFails, Bad, Finish, booking, Reviewing, InDialog
  <2>5. UnderWay'
    BY <1>13 DEF CancelFails, Bad, Finish, booking, PageTypes, Trips, Idle, Reviewing,
       InDialog, UnderWay
  <2>6. Held'
    BY <1>13 DEF CancelFails, Bad, Finish, booking, Reviewing, UnderWay, Held
  <2> QED
    BY <2>1, <2>2, <2>3, <2>4, <2>5, <2>6
<1>14. ASSUME NEW c \in Chains, ListLoaded(c) PROVE PageInv'
  <2>1. PanelRight'
    BY <1>14 DEF ListLoaded, explanation, PanelRight, Right
  <2>2. PageTypes'
    <3> DEFINE t == IF lastQuery = NoQuery THEN Idle ELSE [Idle EXCEPT !.at = "search", !.query = lastQuery]
    <3>1. t \in Trips
      BY <1>14, IdleTrip, BrowserAssumption, ZenonT(40) DEF ListLoaded, Then, Finish, PageTypes, Trips,
         Fetch
    <3>2. (t.at = "search" => t.query \in Queries) /\ (t.at = "direct" => t.result \in Queries)
      BY <1>14 DEF PageTypes, Idle
    <3>3. chain' = [chain EXCEPT ![c] = t] /\ UNCHANGED <<lastQuery, search, busy>>
      BY <1>14 DEF ListLoaded, Then, Finish, PageTypes, globals
    <3> HIDE DEF t
    <3> QED
      BY <3>1, <3>2, <3>3, TripsTyped
  <2>3. Reviewing'
    BY <1>14 DEF ListLoaded, Then, Finish, booking, Reviewing
  <2>4. InDialog'
    BY <1>14 DEF ListLoaded, Then, Finish, booking, Reviewing, InDialog
  <2>5. UnderWay'
    <3>1. \A d \in Chains \ {c} : chain'[d] = chain[d]
      BY <1>14 DEF ListLoaded, Then, Finish, PageTypes
    <3>2. Idle.at = "idle" /\ [Idle EXCEPT !.at = "search", !.query = lastQuery].at = "search"
      BY DEF Idle
    <3>3. chain'[c].at \in {"idle", "search"}
      BY <1>14, <3>2 DEF ListLoaded, Then, Finish, PageTypes
    <3> QED
      BY <1>14, <3>1, <3>3 DEF ListLoaded, booking, UnderWay
  <2>6. Held'
    BY <1>14 DEF ListLoaded, Then, Finish, booking, Reviewing, UnderWay, Held
  <2> QED
    BY <2>1, <2>2, <2>3, <2>4, <2>5, <2>6
<1>15. ASSUME NEW c \in Chains, RerunSearched(c) PROVE PageInv'
  <2>1. PanelRight'
    BY <1>15 DEF RerunSearched, explanation, PanelRight, Right
  <2>2. PageTypes'
    <3> DEFINE t == [chain[c] EXCEPT !.at = "direct", !.net = "out", !.free = {},
                                  !.result = chain[c].query, !.query = lastQuery]
    <3>1. t \in Trips
      BY <1>15, IdleTrip, BrowserAssumption, ZenonT(40) DEF RerunSearched, Back, PageTypes, Trips, Fetch
    <3>2. (t.at = "search" => t.query \in Queries) /\ (t.at = "direct" => t.result \in Queries)
      BY <1>15, IdleTrip DEF RerunSearched, Back, PageTypes, Trips
    <3>3. chain' = [chain EXCEPT ![c] = t] /\ UNCHANGED <<lastQuery, search, busy>>
      BY <1>15 DEF RerunSearched, Back, PageTypes, globals
    <3> HIDE DEF t
    <3> QED
      BY <3>1, <3>2, <3>3, TripsTyped
  <2>3. Reviewing'
    BY <1>15 DEF RerunSearched, Back, booking, Reviewing
  <2>4. InDialog'
    BY <1>15 DEF RerunSearched, Back, booking, Reviewing, InDialog
  <2>5. UnderWay'
    BY <1>15 DEF RerunSearched, Back, booking, PageTypes, Trips, Idle, Reviewing, InDialog,
       UnderWay
  <2>6. Held'
    BY <1>15 DEF RerunSearched, Back, booking, Reviewing, UnderWay, Held
  <2> QED
    BY <2>1, <2>2, <2>3, <2>4, <2>5, <2>6
<1>16. ASSUME NEW c \in Chains, RerunDone(c) PROVE PageInv'
  <2>1. PanelRight'
    <3>1. CASE lastQuery = NoQuery
      BY <1>16, <3>1 DEF RerunDone, explanation, PanelRight, Right
    <3>2. CASE lastQuery # NoQuery
      BY <1>16, <3>2, ShowRight DEF RerunDone, Back, PageTypes
    <3> QED
      BY <3>1, <3>2
  <2>2. PageTypes'
    BY <1>16 DEF RerunDone, Back, Finish, globals, PageTypes, Trips, Idle, Fetch, NoSearch
  <2>3. Reviewing'
    BY <1>16 DEF RerunDone, Back, Finish, booking, Reviewing
  <2>4. InDialog'
    BY <1>16 DEF RerunDone, Back, Finish, booking, Reviewing, InDialog
  <2>5. UnderWay'
    BY <1>16 DEF RerunDone, Back, Finish, booking, PageTypes, Trips, Idle, Reviewing,
       InDialog, UnderWay
  <2>6. Held'
    BY <1>16 DEF RerunDone, Back, Finish, booking, Reviewing, UnderWay, Held
  <2> QED
    BY <2>1, <2>2, <2>3, <2>4, <2>5, <2>6
<1>17. ASSUME NEW c \in Chains, RerunFails(c) PROVE PageInv'
  <2>1. PanelRight'
    BY <1>17 DEF RerunFails, explanation, PanelRight, Right
  <2>2. PageTypes'
    BY <1>17 DEF RerunFails, Bad, Finish, globals, PageTypes, Trips, Idle, Fetch, NoSearch
  <2>3. Reviewing'
    BY <1>17 DEF RerunFails, Bad, Finish, booking, Reviewing
  <2>4. InDialog'
    BY <1>17 DEF RerunFails, Bad, Finish, booking, Reviewing, InDialog
  <2>5. UnderWay'
    BY <1>17 DEF RerunFails, Bad, Finish, booking, PageTypes, Trips, Idle, Reviewing,
       InDialog, UnderWay
  <2>6. Held'
    BY <1>17 DEF RerunFails, Bad, Finish, booking, Reviewing, UnderWay, Held
  <2> QED
    BY <2>1, <2>2, <2>3, <2>4, <2>5, <2>6
<1>18. CASE ServeSearch
  <2>1. PanelRight'
    BY <1>18 DEF ServeSearch, Env, explanation, PanelRight, Right
  <2>2. PageTypes'
    BY <1>18 DEF ServeSearch, Env, Free, globals, PageTypes, Trips, Idle, Fetch, NoSearch
  <2>3. Reviewing'
    BY <1>18 DEF ServeSearch, Env, Free, booking, Reviewing
  <2>4. InDialog'
    BY <1>18 DEF ServeSearch, Env, Free, booking, Reviewing, InDialog
  <2>5. UnderWay'
    BY <1>18 DEF ServeSearch, Env, Free, booking, PageTypes, Trips, Idle, Reviewing, InDialog,
       UnderWay
  <2>6. Held'
    BY <1>18 DEF ServeSearch, Env, Free, booking, Reviewing, UnderWay, Held
  <2> QED
    BY <2>1, <2>2, <2>3, <2>4, <2>5, <2>6
<1>19. CASE ServeDirect
  <2>1. PanelRight'
    BY <1>19 DEF ServeDirect, Env, explanation, PanelRight, Right
  <2>2. PageTypes'
    BY <1>19 DEF ServeDirect, Env, globals, PageTypes, Trips, Idle, Fetch, NoSearch
  <2>3. Reviewing'
    BY <1>19 DEF ServeDirect, Env, booking, Reviewing
  <2>4. InDialog'
    BY <1>19 DEF ServeDirect, Env, booking, Reviewing, InDialog
  <2>5. UnderWay'
    BY <1>19 DEF ServeDirect, Env, booking, PageTypes, Trips, Idle, Reviewing, InDialog,
       UnderWay
  <2>6. Held'
    BY <1>19 DEF ServeDirect, Env, booking, Reviewing, UnderWay, Held
  <2> QED
    BY <2>1, <2>2, <2>3, <2>4, <2>5, <2>6
<1>20. ASSUME NEW c \in Chains, ServeBooking(c) PROVE PageInv'
  <2>1. PanelRight'
    BY <1>20 DEF ServeBooking, Env, explanation, PanelRight, Right
  <2>2. PageTypes'
    BY <1>20 DEF ServeBooking, Served, Env, globals, PageTypes, Trips, Idle, Fetch, NoSearch
  <2>3. Reviewing'
    BY <1>20 DEF ServeBooking, Served, Env, booking, Reviewing
  <2>4. InDialog'
    BY <1>20 DEF ServeBooking, Served, Env, booking, Reviewing, InDialog
  <2>5. UnderWay'
    BY <1>20 DEF ServeBooking, Served, Env, booking, PageTypes, Trips, Idle, Reviewing,
       InDialog, UnderWay
  <2>6. Held'
    <3> DEFINE j == chain[c].journey
               r == chain[c].review
    <3>1. held' = held \/ held' = [held EXCEPT ![j] = r]
      BY <1>20 DEF ServeBooking
    <3>2. UNCHANGED <<reviews, reviewed>> /\ reviews \in 0..MaxReviews
      BY <1>20 DEF ServeBooking, Env, booking, Reviewing
    <3>3. r \in 1..reviews /\ j = reviewed[r]
      BY <1>20 DEF ServeBooking, UnderWay
    <3> HIDE DEF j, r
    <3> QED
      BY <3>1, <3>2, <3>3 DEF Held, Others
  <2> QED
    BY <2>1, <2>2, <2>3, <2>4, <2>5, <2>6
<1>21. ASSUME NEW c \in Chains, ServeCancel(c) PROVE PageInv'
  <2>1. PanelRight'
    BY <1>21 DEF ServeCancel, Env, explanation, PanelRight, Right
  <2>2. PageTypes'
    BY <1>21, SMTT(60) DEF ServeCancel, Served, Env, globals, PageTypes, Trips, Idle, Fetch, NoSearch
  <2>3. Reviewing'
    BY <1>21 DEF ServeCancel, Served, Env, booking, Reviewing
  <2>4. InDialog'
    BY <1>21 DEF ServeCancel, Served, Env, booking, Reviewing, InDialog
  <2>5. UnderWay'
    BY <1>21 DEF ServeCancel, Served, Env, booking, PageTypes, Trips, Idle, Reviewing,
       InDialog, UnderWay
  <2>6. Held'
    <3>1. held' = held \/ held' = [held EXCEPT ![chain[c].journey] = 0]
      BY <1>21 DEF ServeCancel
    <3>2. UNCHANGED <<reviews, reviewed>> /\ reviews \in Nat
      BY <1>21 DEF ServeCancel, Env, booking, Reviewing
    <3> QED
      BY <3>1, <3>2 DEF Held, Others
  <2> QED
    BY <2>1, <2>2, <2>3, <2>4, <2>5, <2>6
<1>22. ASSUME NEW c \in Chains, ServeRead(c) PROVE PageInv'
  <2>1. PanelRight'
    BY <1>22 DEF ServeRead, Env, explanation, PanelRight, Right
  <2>2. PageTypes'
    <3> DEFINE t == [chain[c] EXCEPT !.net  = IF chain[c].at = "direct" /\ chain[c].query = NoQuery
                                              THEN "refused" ELSE "ok",
                                  !.mine = IF chain[c].at = "list" THEN Mine ELSE {},
                                  !.free = IF chain[c].at = "search" THEN Free(chain[c].query) ELSE {}]
    <3>1. t \in Trips
      <4>1. chain[c] \in Trips
        BY DEF PageTypes
      <4>2. /\ (IF chain[c].at = "list" THEN Mine ELSE {}) \in SUBSET (Journeys \X (1..MaxReviews))
            /\ (IF chain[c].at = "search" THEN Free(chain[c].query) ELSE {}) \in SUBSET Journeys
        BY DEF Mine, Free
      <4> QED
        BY <4>1, <4>2, ZenonT(120) DEF Trips, Fetch
    <3>2. (t.at = "search" => t.query \in Queries) /\ (t.at = "direct" => t.result \in Queries)
      BY <1>22, IdleTrip DEF ServeRead, Mine, Free, PageTypes, Trips
    <3>3. chain' = [chain EXCEPT ![c] = t] /\ UNCHANGED <<lastQuery, search, busy>>
      BY <1>22 DEF ServeRead, Mine, Free, PageTypes, globals, Env
    <3> HIDE DEF t
    <3> QED
      BY <3>1, <3>2, <3>3, TripsTyped
  <2>3. Reviewing'
    BY <1>22 DEF ServeRead, Env, Mine, Free, booking, Reviewing
  <2>4. InDialog'
    BY <1>22 DEF ServeRead, Env, Mine, Free, booking, Reviewing, InDialog
  <2>5. UnderWay'
    BY <1>22 DEF ServeRead, Env, Mine, Free, booking, PageTypes, Trips, Idle, Reviewing,
       InDialog, UnderWay
  <2>6. Held'
    BY <1>22 DEF ServeRead, Env, Mine, Free, booking, Reviewing, UnderWay, Held
  <2> QED
    BY <2>1, <2>2, <2>3, <2>4, <2>5, <2>6
<1>23. ASSUME NEW k \in Keys, Measure(k) PROVE PageInv'
  <2>1. PanelRight'
    BY <1>23, ArrivedRight DEF Measure
  <2>2. PageTypes'
    BY <1>23 DEF Measure, Env, globals, PageTypes, Trips, Idle, Fetch, NoSearch
  <2>3. Reviewing'
    BY <1>23 DEF Measure, Env, booking, Reviewing
  <2>4. InDialog'
    BY <1>23 DEF Measure, Env, booking, Reviewing, InDialog
  <2>5. UnderWay'
    BY <1>23 DEF Measure, Env, booking, PageTypes, Trips, Idle, Reviewing, InDialog, UnderWay
  <2>6. Held'
    BY <1>23 DEF Measure, Env, booking, Reviewing, UnderWay, Held
  <2> QED
    BY <2>1, <2>2, <2>3, <2>4, <2>5, <2>6
<1>24. CASE LoseSearch
  <2>1. PanelRight'
    BY <1>24 DEF LoseSearch, explanation, PanelRight, Right
  <2>2. PageTypes'
    BY <1>24 DEF LoseSearch, Spend, globals, PageTypes, Trips, Idle, Fetch, NoSearch
  <2>3. Reviewing'
    BY <1>24, SMTT(30) DEF LoseSearch, Spend, booking, Reviewing
  <2>4. InDialog'
    BY <1>24 DEF LoseSearch, Spend, booking, Reviewing, InDialog
  <2>5. UnderWay'
    BY <1>24 DEF LoseSearch, Spend, booking, PageTypes, Trips, Idle, Reviewing, InDialog,
       UnderWay
  <2>6. Held'
    BY <1>24 DEF LoseSearch, Spend, booking, Reviewing, UnderWay, Held
  <2> QED
    BY <2>1, <2>2, <2>3, <2>4, <2>5, <2>6
<1>25. CASE LoseDirect
  <2>1. PanelRight'
    BY <1>25 DEF LoseDirect, explanation, PanelRight, Right
  <2>2. PageTypes'
    BY <1>25 DEF LoseDirect, Spend, globals, PageTypes, Trips, Idle, Fetch, NoSearch
  <2>3. Reviewing'
    BY <1>25, SMTT(30) DEF LoseDirect, Spend, booking, Reviewing
  <2>4. InDialog'
    BY <1>25 DEF LoseDirect, Spend, booking, Reviewing, InDialog
  <2>5. UnderWay'
    BY <1>25 DEF LoseDirect, Spend, booking, PageTypes, Trips, Idle, Reviewing, InDialog,
       UnderWay
  <2>6. Held'
    BY <1>25 DEF LoseDirect, Spend, booking, Reviewing, UnderWay, Held
  <2> QED
    BY <2>1, <2>2, <2>3, <2>4, <2>5, <2>6
<1>26. ASSUME NEW c \in Chains, LoseRequest(c) PROVE PageInv'
  <2>1. PanelRight'
    BY <1>26 DEF LoseRequest, explanation, PanelRight, Right
  <2>2. PageTypes'
    <3> DEFINE t == [chain[c] EXCEPT !.net = "lost"]
    <3>1. t \in Trips
      BY <1>26, IdleTrip, BrowserAssumption, ZenonT(40) DEF LoseRequest, Served, PageTypes, Trips, Fetch
    <3>2. (t.at = "search" => t.query \in Queries) /\ (t.at = "direct" => t.result \in Queries)
      BY <1>26, IdleTrip DEF LoseRequest, Served, PageTypes, Trips
    <3>3. chain' = [chain EXCEPT ![c] = t] /\ UNCHANGED <<lastQuery, search, busy>>
      BY <1>26 DEF LoseRequest, Served, PageTypes, globals
    <3> HIDE DEF t
    <3> QED
      BY <3>1, <3>2, <3>3, TripsTyped
  <2>3. Reviewing'
    BY <1>26, SMTT(30) DEF LoseRequest, Served, Spend, booking, Reviewing
  <2>4. InDialog'
    BY <1>26 DEF LoseRequest, Served, Spend, booking, Reviewing, InDialog
  <2>5. UnderWay'
    BY <1>26 DEF LoseRequest, Served, Spend, booking, PageTypes, Trips, Idle, Reviewing,
       InDialog, UnderWay
  <2>6. Held'
    BY <1>26 DEF LoseRequest, Served, Spend, booking, Reviewing, UnderWay, Held
  <2> QED
    BY <2>1, <2>2, <2>3, <2>4, <2>5, <2>6
<1>27. ASSUME NEW k \in Keys, MeasureFails(k) PROVE PageInv'
  <2>1. PanelRight'
    BY <1>27, ArrivedRight DEF MeasureFails
  <2>2. PageTypes'
    BY <1>27 DEF MeasureFails, Spend, globals, PageTypes, Trips, Idle, Fetch, NoSearch
  <2>3. Reviewing'
    BY <1>27, SMTT(30) DEF MeasureFails, Spend, booking, Reviewing
  <2>4. InDialog'
    BY <1>27 DEF MeasureFails, Spend, booking, Reviewing, InDialog
  <2>5. UnderWay'
    BY <1>27 DEF MeasureFails, Spend, booking, PageTypes, Trips, Idle, Reviewing, InDialog,
       UnderWay
  <2>6. Held'
    BY <1>27 DEF MeasureFails, Spend, booking, Reviewing, UnderWay, Held
  <2> QED
    BY <2>1, <2>2, <2>3, <2>4, <2>5, <2>6
<1>28. ASSUME NEW j \in Journeys, OthersBuy(j) PROVE PageInv'
  <2>1. PanelRight'
    BY <1>28 DEF OthersBuy, explanation, PanelRight, Right
  <2>2. PageTypes'
    BY <1>28 DEF OthersBuy, Spend, Others, globals, PageTypes, Trips, Idle, Fetch, NoSearch
  <2>3. Reviewing'
    BY <1>28, SMTT(60) DEF OthersBuy, Spend, Others, booking, Reviewing
  <2>4. InDialog'
    BY <1>28 DEF OthersBuy, Spend, Others, booking, Reviewing, InDialog
  <2>5. UnderWay'
    BY <1>28 DEF OthersBuy, Spend, Others, booking, PageTypes, Trips, Idle, Reviewing,
       InDialog, UnderWay
  <2>6. Held'
    BY <1>28 DEF OthersBuy, Spend, Others, booking, Reviewing, UnderWay, Held
  <2> QED
    BY <2>1, <2>2, <2>3, <2>4, <2>5, <2>6
<1>29. CASE UNCHANGED vars
  BY <1>29 DEF vars, explanation, globals, booking, PanelRight, Right, PageTypes, Reviewing,
     InDialog, UnderWay, Held, booking
<1> QED
  BY <1>1, <1>2, <1>3, <1>4, <1>5, <1>6, <1>7, <1>8, <1>9, <1>10, <1>11, <1>12, <1>13, <1>14,
     <1>15, <1>16, <1>17, <1>18, <1>19, <1>20, <1>21, <1>22, <1>23, <1>24, <1>25, <1>26, <1>27, <1>28, <1>29
  DEF Next, Passenger, Handlers, Server, Mishap

\* The invariant of the page holds in every reachable state.
THEOREM PageInvariance == Spec => []PageInv
  BY PageStarts, PageKept, PTL DEF Spec

\* The comparison on the search tab was measured on the query and the search
\* space above it, for any number of questions in flight.
THEOREM MeasuredRight == Spec => []MeasuredOnIt
<1>1. PageInv => MeasuredOnIt
  BY DEF PageInv, PanelRight, About, Unknown, Loading, Broken, Measured, MeasuredOnIt
<1> QED
  BY <1>1, PageInvariance, PTL

\* The ledger holds for a review at most the journey that it showed, whatever
\* is lost, confirmed again or reviewed meanwhile.
THEOREM BookedRight == Spec => []BookedAsReviewed
<1>1. PageInv => BookedAsReviewed
  BY BrowserAssumption, ZenonT(60) DEF PageInv, Reviewing, InDialog, Held, BookedAsReviewed, Others
<1> QED
  BY <1>1, PageInvariance, PTL

-----------------------------------------------------------------------------
(* What is painted *)

PanelTyped ==
  /\ comparisons \in [Keys -> Comparison]
  /\ measuring \in [Keys -> Nat]
  /\ panel \in Comparison

PageTyped ==
  /\ busy \in BOOLEAN /\ options \in Answers /\ directTrains \in Queries \cup {NoQuery}
  /\ page \in [title : Queries \cup {NoQuery}, cards : Answers, trains : Queries \cup {NoQuery}]
  /\ listed \cup pressed \subseteq Journeys \X (1..MaxReviews)

OfJourneys ==
  \A c \in Chains : chain[c].at \in {"book", "cancel"} => chain[c].journey \in Journeys

\* render() keeps the panel well formed: it counts one more question at most.
LEMMA RenderedTyped ==
  ASSUME PanelTyped, NEW e \in Described, e.search => e.query \in Queries,
         NEW known \in [Keys -> Comparison], Rendered(e, known)
  PROVE  PanelTyped'
<1>1. e.search => Key(e) \in Keys
  BY DEF Key, Keys, Described
<1>2. Loading \in Comparison
  BY DEF Comparison
<1>3. CASE e.search /\ known[Key(e)] = Unknown
  BY <1>1, <1>2, <1>3 DEF Rendered, PanelTyped
<1>4. CASE ~(e.search /\ known[Key(e)] = Unknown)
  BY <1>1, <1>4 DEF Rendered, PanelTyped
<1>5. QED
  BY <1>3, <1>4

\* The tabs show another side of the same explanation.
LEMMA TabsShown ==
  ASSUME PanelRight,
         (\E open \in BOOLEAN : OpenTab(open)) \/ (\E m \in Modes : PickMode(m))
  PROVE  /\ \E e \in Described : Rendered(e, comparisons) /\ e.query \in Queries
         /\ explained'.hidden = explained.hidden
         /\ explained'.result = explained.result /\ explained'.query = explained.query
<1> DEFINE Same(e) == /\ Rendered(e, comparisons) /\ e.query \in Queries
                      /\ e.hidden = explained.hidden /\ e.result = explained.result
                      /\ e.query = explained.query
<1>1. ASSUME NEW open \in BOOLEAN, OpenTab(open) PROVE \E e \in Described : Same(e)
  <2>1. [explained EXCEPT !.search = open] \in Described
    BY DEF PanelRight, Described
  <2>2. QED
    BY <1>1, <2>1 DEF OpenTab, PanelRight, Described
<1>2. ASSUME NEW m \in Modes, PickMode(m) PROVE \E e \in Described : Same(e)
  <2>1. [explained EXCEPT !.mode = m] \in Described
    BY DEF PanelRight, Described
  <2>2. QED
    BY <1>2, <2>1 DEF PickMode, PanelRight, Described
<1>3. PICK e \in Described : Same(e)
  BY <1>1, <1>2
<1>4. QED
  BY <1>3 DEF Rendered

\* So do a finished search and the tabs.
LEMMA ShowTyped ==
  ASSUME PanelRight, PanelTyped, NEW result \in Queries, NEW query \in Queries, Show(result, query)
  PROVE  PanelTyped'
<1> DEFINE e == [explained EXCEPT !.hidden = FALSE, !.result = result, !.query = query,
                   !.mode = IF explained.query = query THEN @ ELSE Best[result]]
           known == [k \in Keys |-> Unknown]
<1>1. e \in Described /\ e.query \in Queries
  BY ExplanationAssumption DEF PanelRight, Described
<1>2. known \in [Keys -> Comparison]
  BY DEF Comparison
<1>3. Rendered(e, known)
  BY DEF Show
<1> HIDE DEF e, known
<1>4. QED
  BY <1>1, <1>2, <1>3, RenderedTyped

LEMMA TabsTyped ==
  ASSUME PanelRight, PanelTyped,
         (\E open \in BOOLEAN : OpenTab(open)) \/ (\E m \in Modes : PickMode(m))
  PROVE  PanelTyped'
<1>1. PICK e \in Described : Rendered(e, comparisons) /\ e.query \in Queries
  BY TabsShown
<1>2. QED
  BY <1>1, RenderedTyped DEF PanelTyped

\* So does an answer to a question.
LEMMA ArrivedTyped ==
  ASSUME PanelTyped, NEW k \in Keys, NEW ok \in BOOLEAN, Arrived(k, ok)
  PROVE  PanelTyped'
<1>1. (IF ok THEN Measured(k) ELSE Broken) \in Comparison
  BY DEF Comparison
<1>2. comparisons' \in [Keys -> Comparison]
  BY <1>1 DEF Arrived, PanelTyped
<1>3. measuring' \in [Keys -> Nat]
  BY DEF Arrived, PanelTyped
<1>4. panel' \in Comparison
  BY <1>2 DEF Arrived, PanelTyped
<1>5. QED
  BY <1>2, <1>3, <1>4 DEF PanelTyped

\* Nothing but journeys is painted, and the reservation panel lists bookings.
LEMMA PaintedTyped ==
  ASSUME PageInv, PanelTyped, PageTyped, OfJourneys, [Next]_vars
  PROVE  PanelTyped' /\ PageTyped' /\ OfJourneys'
<1> USE DEF PageInv
<1>1. \A q : Free(q) \subseteq Journeys
  BY DEF Free
<1>2. Nothing \in Answers /\ Blank.cards = Nothing
  BY DEF Nothing, Answers, Blank
<1>3. PanelTyped'
  <2>1. CASE UNCHANGED <<comparisons, measuring, panel>>
    BY <2>1 DEF PanelTyped
  <2>2. ASSUME NEW result \in Queries, NEW query \in Queries, Show(result, query) PROVE PanelTyped'
    BY <2>2, ShowTyped
  <2>3. CASE UseTabs
    BY <2>3, TabsTyped DEF UseTabs
  <2>4. ASSUME NEW k \in Keys, NEW ok \in BOOLEAN, Arrived(k, ok) PROVE PanelTyped'
    BY <2>4, ArrivedTyped
  <2>5. CASE SearchDone
    BY <2>2, <2>5 DEF SearchDone, PageTypes
  <2>6. ASSUME NEW c \in Chains, RerunDone(c) PROVE PanelTyped'
    <3>1. chain[c].result \in Queries
      BY <2>6 DEF RerunDone, Back, PageTypes
    <3>2. CASE lastQuery = NoQuery
      BY <2>1, <2>6, <3>2 DEF RerunDone, explanation
    <3>3. CASE lastQuery # NoQuery
      <4>1. lastQuery \in Queries /\ Show(chain[c].result, lastQuery)
        BY <2>6, <3>3 DEF RerunDone, PageTypes
      <4>2. QED
        BY <2>2, <3>1, <4>1
    <3>4. QED
      BY <3>2, <3>3
  <2>7. CASE Mishap
    <3>1. ASSUME NEW k \in Keys, MeasureFails(k) PROVE PanelTyped'
      BY <2>4, <3>1 DEF MeasureFails
    <3>2. CASE LoseSearch \/ LoseDirect \/ (\E c \in Chains : LoseRequest(c)) \/ (\E j \in Journeys : OthersBuy(j))
      BY <2>1, <3>2 DEF LoseSearch, LoseDirect, LoseRequest, OthersBuy, explanation
    <3>3. QED
      BY <2>7, <3>1, <3>2 DEF Mishap
  <2>8. CASE Passenger
    <3>1. CASE (\E j \in Journeys : Reserve(j)) \/ CloseDialog \/ Refilter
      BY <2>1, <3>1 DEF Reserve, CloseDialog, Refilter, explanation
    <3>2. ASSUME NEW c \in Chains, Confirm(c) \/ \E j \in Journeys, r \in 1..MaxReviews : Cancel(c, j, r)
          PROVE  PanelTyped'
      BY <2>1, <3>2 DEF Confirm, Cancel, explanation
    <3>3. CASE \E q \in Queries : Submit(q)
      BY <2>1, <3>3 DEF Submit, Hide
    <3>4. QED
      BY <2>3, <2>8, <3>1, <3>2, <3>3 DEF Passenger
  <2>9. CASE Handlers
    <3>1. ASSUME NEW c \in Chains,
                 \/ Booked(c) \/ BookingFails(c) \/ Cancelled(c) \/ CancelFails(c)
                 \/ ListLoaded(c) \/ RerunSearched(c) \/ RerunFails(c)
          PROVE  PanelTyped'
      BY <2>1, <3>1 DEF Booked, BookingFails, Cancelled, CancelFails, ListLoaded, RerunSearched,
         RerunFails, explanation
    <3>2. CASE SearchFails
      BY <2>1, <3>2 DEF SearchFails, Hide
    <3>3. QED
      BY <2>5, <2>6, <2>9, <3>1, <3>2 DEF Handlers
  <2>10. CASE Server
    <3>1. ASSUME NEW k \in Keys, Measure(k) PROVE PanelTyped'
      BY <2>4, <3>1 DEF Measure
    <3>2. CASE ServeSearch \/ ServeDirect \/ \E c \in Chains : ServeBooking(c) \/ ServeCancel(c) \/ ServeRead(c)
      BY <2>1, <3>2, ZenonT(60) DEF ServeSearch, ServeDirect, ServeBooking, ServeCancel, ServeRead, explanation
    <3>3. QED
      BY <2>10, <3>1, <3>2 DEF Server
  <2>11. QED
    BY <2>1, <2>7, <2>8, <2>9, <2>10 DEF Next, vars, explanation
<1>4. PageTyped'
  <2>1. CASE UNCHANGED <<globals, panelOf>>
    BY <2>1 DEF PageTyped, globals, panelOf
  <2>2. ASSUME NEW c \in Chains,
               \/ Booked(c) \/ BookingFails(c) \/ Cancelled(c) \/ CancelFails(c)
               \/ ListLoaded(c) \/ RerunSearched(c) \/ RerunDone(c) \/ RerunFails(c)
        PROVE  PageTyped'
    <3>1. CASE Booked(c) \/ BookingFails(c) \/ Cancelled(c) \/ RerunFails(c)
      BY <2>1, <3>1 DEF Booked, BookingFails, Cancelled, RerunFails
    <3>2. CASE CancelFails(c)
      BY <3>2 DEF CancelFails, PageTyped, globals
    <3>3. CASE ListLoaded(c)
      <4>1. listed' \subseteq Journeys \X (1..MaxReviews) /\ pressed' = {} /\ UNCHANGED globals
        BY <3>3 DEF ListLoaded, PageTypes, Trips
      <4>2. QED
        BY <4>1 DEF PageTyped, globals
    <3>4. CASE RerunSearched(c)
      <4>1. chain[c].query \in Queries /\ chain[c].free \in SUBSET Journeys
        BY <3>4 DEF RerunSearched, Back, PageTypes, Trips
      <4>2. options' \in Answers
        BY <3>4, <4>1 DEF RerunSearched, Answers
      <4>3. QED
        BY <3>4, <4>2 DEF RerunSearched, PageTyped, panelOf
    <3>5. CASE RerunDone(c)
      <4>1. chain[c].query \in Queries \cup {NoQuery} /\ lastQuery \in Queries \cup {NoQuery}
        BY DEF PageTypes, Trips
      <4>2. page' \in [title : Queries \cup {NoQuery}, cards : Answers, trains : Queries \cup {NoQuery}]
        BY <3>5, <4>1 DEF RerunDone, Paint, PageTyped
      <4>3. QED
        BY <3>5, <4>1, <4>2 DEF RerunDone, PageTyped, panelOf
    <3>6. QED
      BY <2>2, <3>1, <3>2, <3>3, <3>4, <3>5
  <2>3. CASE SearchDone
    <3>1. search.query \in Queries /\ search.free \in SUBSET Journeys
      BY <2>3 DEF SearchDone, PageTypes
    <3>2. options' \in Answers /\ lastQuery' \in Queries /\ directTrains' \in Queries \cup {NoQuery}
      BY <2>3, <3>1 DEF SearchDone, Answers
    <3>3. page' \in [title : Queries \cup {NoQuery}, cards : Answers, trains : Queries \cup {NoQuery}]
      BY <2>3, <3>2 DEF SearchDone, Paint
    <3>4. QED
      BY <2>3, <3>2, <3>3 DEF SearchDone, PageTyped, panelOf
  <2>4. CASE SearchFails
    BY <1>2, <2>4 DEF SearchFails, PageTyped, panelOf, Blank
  <2>5. CASE Handlers
    BY <2>2, <2>3, <2>4, <2>5 DEF Handlers
  <2>6. CASE Passenger
    <3>1. ASSUME NEW q \in Queries, Submit(q) PROVE PageTyped'
      BY <1>2, <3>1 DEF Submit, PageTyped, panelOf, Blank
    <3>2. CASE Refilter
      <4>1. page' \in [title : Queries \cup {NoQuery}, cards : Answers, trains : Queries \cup {NoQuery}]
        BY <3>2 DEF Refilter, Paint, PageTyped, PageTypes
      <4>2. QED
        BY <3>2, <4>1 DEF Refilter, PageTyped, panelOf
    <3>3. ASSUME NEW c \in Chains, NEW j \in Journeys, NEW r \in 1..MaxReviews, Cancel(c, j, r)
          PROVE  PageTyped'
      BY <3>3 DEF Cancel, PageTyped, globals
    <3>4. CASE (\E j \in Journeys : Reserve(j)) \/ (\E c \in Chains : Confirm(c)) \/ CloseDialog \/ UseTabs
      BY <2>1, <3>4, SMTT(60) DEF Reserve, Confirm, CloseDialog, UseTabs, panelOf
    <3>5. QED
      BY <2>6, <3>1, <3>2, <3>3, <3>4 DEF Passenger
  <2>7. CASE Server
    BY <2>1, <2>7, ZenonT(60) DEF Server, ServeSearch, ServeDirect, ServeBooking, ServeCancel, ServeRead, Measure, Env
  <2>8. CASE Mishap
    BY <2>1, <2>8 DEF Mishap, LoseSearch, LoseDirect, LoseRequest, MeasureFails, OthersBuy
  <2>9. QED
    BY <2>1, <2>5, <2>6, <2>7, <2>8 DEF Next, vars
<1>5. OfJourneys'
  <2>1. CASE UNCHANGED chain
    BY <2>1 DEF OfJourneys
  <2>2. ASSUME NEW c \in Chains, NEW t \in Trips, t.at \in {"book", "cancel"} => t.journey \in Journeys,
               chain' = [chain EXCEPT ![c] = t]
        PROVE  OfJourneys'
    BY <2>2 DEF OfJourneys, PageTypes
  <2>3. ASSUME NEW c \in Chains, Confirm(c) PROVE OfJourneys'
    <3>1. pending \in Journeys
      BY <2>3 DEF Confirm, InDialog
    <3> DEFINE t == [Idle EXCEPT !.at = "book", !.journey = pending, !.review = reviews]
    <3>2. t \in Trips /\ t.journey \in Journeys
      BY <3>1, IdleTrip DEF Trips, Reviewing
    <3>3. chain' = [chain EXCEPT ![c] = t]
      BY <2>3 DEF Confirm, Begin
    <3> HIDE DEF t
    <3>4. QED
      BY <2>2, <3>2, <3>3
  <2>4. ASSUME NEW c \in Chains, NEW j \in Journeys, NEW r \in 1..MaxReviews, Cancel(c, j, r) PROVE OfJourneys'
    <3> DEFINE t == [Idle EXCEPT !.at = "cancel", !.journey = j, !.review = r]
    <3>1. r \in 0..MaxReviews
      BY BrowserAssumption
    <3>2. t \in Trips /\ t.journey \in Journeys
      BY <3>1, IdleTrip DEF Trips
    <3>3. chain' = [chain EXCEPT ![c] = t]
      BY <2>4 DEF Cancel, Begin
    <3> HIDE DEF t
    <3>4. QED
      BY <2>2, <3>2, <3>3
  <2>5. ASSUME NEW c \in Chains,
               \/ Booked(c) \/ BookingFails(c) \/ Cancelled(c) \/ CancelFails(c)
               \/ ListLoaded(c) \/ RerunSearched(c) \/ RerunDone(c) \/ RerunFails(c)
        PROVE  OfJourneys'
    <3>1. chain[c] \in Trips /\ Idle.at = "idle"
      BY DEF PageTypes, Idle
    <3>2. ASSUME NEW t, chain' = [chain EXCEPT ![c] = t], t.at \notin {"book", "cancel"}
          PROVE  OfJourneys'
      BY <3>2 DEF OfJourneys, PageTypes
    <3>3. ASSUME NEW at \in {"list", "search"}, NEW q, Then(c, at, q) PROVE OfJourneys'
      BY <3>2, <3>3, IdleTrip DEF Then, Trips
    <3>4. ASSUME Finish(c) PROVE OfJourneys'
      BY <3>1, <3>2, <3>4 DEF Finish
    <3>5. CASE RerunSearched(c)
      BY <3>1, <3>2, <3>5 DEF RerunSearched, Trips
    <3>6. QED
      BY <2>5, <3>3, <3>4, <3>5 DEF Booked, BookingFails, Cancelled, CancelFails, ListLoaded,
         RerunDone, RerunFails
  <2>6. CASE Handlers
    BY <2>1, <2>5, <2>6 DEF Handlers, SearchDone, SearchFails
  <2>7. CASE Passenger
    BY <2>1, <2>3, <2>4, <2>7 DEF Passenger, Submit, Reserve, CloseDialog, Refilter, UseTabs
  <2>8. ASSUME NEW c \in Chains, NEW net, Served(c, net) PROVE OfJourneys'
    BY <2>8 DEF Served, OfJourneys, PageTypes, Trips
  <2>9. CASE Server
    <3>1. ASSUME NEW c \in Chains, ServeBooking(c) \/ ServeCancel(c) PROVE OfJourneys'
      BY <2>8, <3>1 DEF ServeBooking, ServeCancel
    <3>2. ASSUME NEW c \in Chains, ServeRead(c) PROVE OfJourneys'
      BY <3>2 DEF ServeRead, OfJourneys, PageTypes, Trips
    <3>3. QED
      BY <2>1, <2>9, <3>1, <3>2 DEF Server, ServeSearch, ServeDirect, Measure
  <2>10. CASE Mishap
    BY <2>1, <2>8, <2>10 DEF Mishap, LoseSearch, LoseDirect, LoseRequest, MeasureFails, OthersBuy
  <2>11. QED
    BY <2>1, <2>6, <2>7, <2>9, <2>10 DEF Next, vars
<1>6. QED
  BY <1>3, <1>4, <1>5

\* The page, its panels and its requests are always well formed.
THEOREM PageTypeCorrect == Spec => []TypeOK
<1>1. Init => PanelTyped /\ PageTyped /\ OfJourneys
  <2> SUFFICES ASSUME Init PROVE PanelTyped /\ PageTyped /\ OfJourneys
    OBVIOUS
  <2>1. Unknown \in Comparison /\ Nothing \in Answers
    BY DEF Comparison, Nothing, Answers
  <2>2. PanelTyped
    BY <2>1 DEF Init, InitExplanation, PanelTyped
  <2>3. OfJourneys
    BY DEF Init, OfJourneys, Idle
  <2>4. QED
    BY <2>1, <2>2, <2>3 DEF Init, PageTyped, Blank
<1>2. PageInv /\ PanelTyped /\ PageTyped /\ OfJourneys => TypeOK
  <2> SUFFICES ASSUME PageInv, PanelTyped, PageTyped, OfJourneys PROVE TypeOK
    OBVIOUS
  <2>1. ExplanationTypeOK
    BY DEF PageInv, PanelRight, PanelTyped, Described, ExplanationTypeOK
  <2>2. \A c \in Chains :
          /\ chain[c].at \in {"idle", "book", "cancel", "list", "search", "direct"}
          /\ chain[c].at = "search" => chain[c].query \in Queries
    BY DEF PageInv, PageTypes, Trips
  <2>3. QED
    BY <2>1, <2>2 DEF PageInv, PageTypes, PageTyped, Reviewing, Held, OfJourneys, TypeOK
<1>3. QED
  BY <1>1, <1>2, PageInvariance, PaintedTyped, PTL DEF Spec

-----------------------------------------------------------------------------
(* What the page shows of the ledger *)

\* The search under way was answered by the ledger as it still is.
Searched ==
  busy => /\ search.main \in {"out", "ok"} /\ search.direct \in {"out", "ok"}
          /\ search.main = "ok" => search.free = Free(search.query)

\* All that is painted and remembered is of the last search.
OneQuery ==
  ~busy =>
    IF lastQuery = NoQuery THEN page = Blank
    ELSE /\ options.query = lastQuery /\ directTrains \in {lastQuery, NoQuery}
         /\ ~explained.hidden => explained.result = lastQuery /\ explained.query = lastQuery
         /\ page # Blank => /\ page.title = lastQuery /\ page.cards.query = lastQuery
                            /\ page.trains \in {lastQuery, NoQuery}

\* A chain that has changed nothing at the server.
Untouched(t) ==
  \/ t.at = "idle"
  \/ t.at = "book" /\ t.net \in {"out", "refused"}
  \/ t.at = "cancel" /\ t.net = "out"

UpToDate ==
  ~busy /\ lastQuery # NoQuery /\ (\A c \in Chains : Untouched(chain[c])) =>
    /\ options.free = Free(lastQuery)
    /\ page # Blank => page.cards.free = Free(lastQuery)

\* A chain refreshes the page for the last query, and has read the ledger as
\* it still is.
Refresh(t) ==
  /\ t.at \notin {"idle", "book"} => t.net # "refused"
  /\ t.at # "idle" => t.net # "lost"
  /\ t.at = "search" => t.query = lastQuery /\ (t.net = "ok" => t.free = Free(lastQuery))
  /\ t.at = "direct" => /\ t.query = lastQuery /\ t.result = lastQuery
                        /\ options.free = Free(lastQuery)

Refreshing == \A c \in Chains : Refresh(chain[c])

\* Nothing overlaps and nothing has got lost since the last search.
Agreement   == ~Overlap /\ Searched /\ OneQuery /\ UpToDate /\ Refreshing
Undisturbed == ~crossed => Agreement

\* What is known to be undisturbed after a step was so before it, unless the
\* step is a new search.
LEMMA Tracked ==
  ASSUME Track, ~crossed'
  PROVE  ~Overlap' /\ left'.mishaps = left.mishaps /\ (~crossed \/ left'.searches # left.searches)
BY DEF Track

\* A step that neither changes the ledger nor paints anything.
LEMMA NothingPainted ==
  ASSUME Agreement, ~Overlap',
         UNCHANGED <<busy, lastQuery, options, directTrains, page, search, chain, held>>,
         explained'.hidden = explained.hidden,
         explained'.result = explained.result, explained'.query = explained.query
  PROVE  Agreement'
<1>1. \A q : Free(q)' = Free(q)
  BY DEF Free
<1>2. Searched'
  BY <1>1 DEF Agreement, Searched
<1>3. OneQuery'
  BY DEF Agreement, OneQuery
<1>4. UpToDate'
  BY <1>1 DEF Agreement, UpToDate
<1>5. Refreshing'
  BY <1>1 DEF Agreement, Refreshing, Refresh
<1>6. QED
  BY <1>2, <1>3, <1>4, <1>5 DEF Agreement

\* A step of one chain, or of the server for it.  The ledger only changes
\* with a chain that refreshes the page afterwards.
LEMMA ChainStep ==
  ASSUME Agreement, ~Overlap', chain \in [Chains -> Trips], UNCHANGED <<globals, explanation, search>>,
         NEW c \in Chains, NEW t \in Trips, chain' = [chain EXCEPT ![c] = t],
         Untouched(t) => Untouched(chain[c]) /\ held' = held, Refresh(t)'
  PROVE  Agreement'
<1>1. chain'[c] = t /\ \A d \in Chains : d # c => chain'[d] = chain[d]
  OBVIOUS
<1>2. t.at # "idle" => \A d \in Chains : d # c => chain[d].at = "idle"
  BY <1>1 DEF Overlap
<1>3. held' # held => t.at # "idle"
  BY DEF Untouched
<1>4. held' = held => \A q : Free(q)' = Free(q)
  BY DEF Free
<1>5. Searched'
  <2>1. busy => t.at = "idle"
    BY <1>1 DEF Overlap, globals
  <2>2. QED
    BY <1>3, <1>4, <2>1 DEF Agreement, Searched, globals
<1>6. OneQuery'
  BY DEF Agreement, OneQuery, globals, explanation
<1>7. UpToDate'
  <2> SUFFICES ASSUME \A d \in Chains : Untouched(chain'[d])
               PROVE  UpToDate'
    BY DEF UpToDate
  <2>1. held' = held /\ \A d \in Chains : Untouched(chain[d])
    BY <1>1
  <2>2. QED
    BY <1>4, <2>1 DEF Agreement, UpToDate, globals
<1>8. Refreshing'
  <2> SUFFICES ASSUME NEW d \in Chains PROVE Refresh(chain[d])'
    BY DEF Refreshing
  <2>1. CASE d = c
    BY <1>1, <2>1 DEF Refresh
  <2>2. CASE d # c /\ held' = held
    <3>1. chain'[d] = chain[d] /\ Refresh(chain[d])
      BY <1>1, <2>2 DEF Agreement, Refreshing
    <3>2. QED
      BY <1>4, <2>2, <3>1 DEF Refresh, globals
  <2>3. CASE d # c /\ held' # held
    <3>1. chain'[d] = chain[d] /\ chain[d].at = "idle" /\ Refresh(chain[d])
      BY <1>1, <1>2, <1>3, <2>3 DEF Agreement, Refreshing
    <3>2. QED
      BY <3>1 DEF Refresh
  <2>4. QED
    BY <2>1, <2>2, <2>3
<1>9. QED
  BY <1>5, <1>6, <1>7, <1>8 DEF Agreement

\* What the passenger and the handlers of a chain do to it.
LEMMA ChainMoves ==
  ASSUME PageInv, Agreement, ~Overlap', NEW c \in Chains,
         \/ Confirm(c) \/ (\E j \in Journeys, r \in 1..MaxReviews : Cancel(c, j, r))
         \/ Booked(c) \/ BookingFails(c) \/ Cancelled(c) \/ CancelFails(c)
         \/ ListLoaded(c) \/ RerunFails(c)
  PROVE  Agreement'
<1>0. chain \in [Chains -> Trips] /\ chain[c] \in Trips /\ Refresh(chain[c]) /\ Idle \in Trips
  BY IdleTrip DEF PageInv, PageTypes, Agreement, Refreshing
<1>1. UNCHANGED <<globals, explanation, search, held>>
  BY DEF Confirm, Cancel, Booked, BookingFails, Cancelled, CancelFails, ListLoaded, RerunFails
<1>2. ASSUME NEW t \in Trips, chain' = [chain EXCEPT ![c] = t],
             Untouched(t) => Untouched(chain[c]), t.net = "out",
             t.at = "search" => t.query = lastQuery, t.at # "direct"
      PROVE  Agreement'
  <2>1. Refresh(t)'
    BY <1>1, <1>2 DEF Refresh, globals
  <2>2. QED
    BY <1>0, <1>1, <1>2, <2>1, ChainStep
<1>3. CASE Confirm(c)
  <2> DEFINE t == [Idle EXCEPT !.at = "book", !.journey = pending, !.review = reviews]
  <2>1. pending \in Journeys \cup {NoJourney} /\ reviews \in 0..MaxReviews
    BY DEF PageInv, InDialog, Reviewing
  <2>2. t \in Trips /\ t.net = "out" /\ t.at = "book"
    BY <1>0, <2>1 DEF Trips, Idle
  <2>3. chain' = [chain EXCEPT ![c] = t] /\ Untouched(chain[c])
    BY <1>3 DEF Confirm, Begin, Untouched
  <2> HIDE DEF t
  <2>4. QED
    BY <1>2, <2>2, <2>3
<1>4. ASSUME NEW j \in Journeys, NEW r \in 1..MaxReviews, Cancel(c, j, r) PROVE Agreement'
  <2> DEFINE t == [Idle EXCEPT !.at = "cancel", !.journey = j, !.review = r]
  <2>1. r \in 0..MaxReviews
    BY BrowserAssumption
  <2>2. t \in Trips /\ t.net = "out" /\ t.at = "cancel"
    BY <1>0, <2>1 DEF Trips, Idle
  <2>3. chain' = [chain EXCEPT ![c] = t] /\ Untouched(chain[c])
    BY <1>4 DEF Cancel, Begin, Untouched
  <2> HIDE DEF t
  <2>4. QED
    BY <1>2, <2>2, <2>3
<1>5. ASSUME NEW at \in {"list", "search"}, NEW q \in Queries \cup {NoQuery}, Then(c, at, q),
             at = "search" => q = lastQuery
      PROVE  Agreement'
  <2> DEFINE t == [Idle EXCEPT !.at = at, !.query = q]
  <2>1. t \in Trips /\ t.net = "out" /\ t.at = at /\ t.query = q
    BY <1>0, ZenonT(60) DEF Trips, Idle
  <2>2. chain' = [chain EXCEPT ![c] = t] /\ ~ Untouched(t)
    BY <1>5, <2>1 DEF Then, Untouched
  <2> HIDE DEF t
  <2>3. QED
    BY <1>2, <1>5, <2>1, <2>2
<1>6. CASE Booked(c) \/ Cancelled(c)
  BY <1>5, <1>6 DEF Booked, Cancelled
<1>7. CASE BookingFails(c)
  <2>1. Untouched(chain[c])
    BY <1>0, <1>7 DEF BookingFails, Bad, Refresh, Untouched
  <2>2. QED
    BY <1>0, <1>2, <1>7, <2>1 DEF BookingFails, Finish, Idle
<1>8. CASE CancelFails(c) \/ RerunFails(c)
  BY <1>0, <1>8 DEF CancelFails, RerunFails, Bad, Refresh
<1>9. CASE ListLoaded(c)
  <2>1. CASE lastQuery # NoQuery
    <3>1. lastQuery \in Queries \cup {NoQuery} /\ Then(c, "search", lastQuery)
      BY <1>9, <2>1 DEF ListLoaded, PageInv, PageTypes
    <3>2. QED
      BY <1>5, <3>1
  <2>2. CASE lastQuery = NoQuery
    <3>1. chain' = [chain EXCEPT ![c] = Idle]
      BY <1>9, <2>2 DEF ListLoaded, Finish
    <3>2. chain'[c] = Idle /\ \A d \in Chains : d # c => chain'[d] = chain[d]
      BY <1>0, <3>1
    <3>3. UpToDate'
      BY <1>1, <2>2 DEF UpToDate, globals
    <3>4. Searched' /\ OneQuery'
      BY <1>1 DEF Agreement, Searched, OneQuery, Free, globals, explanation
    <3>5. Refreshing'
      <4> SUFFICES ASSUME NEW d \in Chains PROVE Refresh(chain[d])'
        BY DEF Refreshing
      <4>1. CASE d = c
        BY <3>2, <4>1 DEF Refresh, Idle
      <4>2. CASE d # c
        BY <1>1, <3>2, <4>2 DEF Agreement, Refreshing, Refresh, Free, globals
      <4>3. QED
        BY <4>1, <4>2
    <3>6. QED
      BY <3>3, <3>4, <3>5 DEF Agreement
  <2>3. QED
    BY <2>1, <2>2
<1>10. QED
  BY <1>3, <1>4, <1>6, <1>7, <1>8, <1>9

\* What the server does for a chain.
LEMMA ServerMoves ==
  ASSUME PageInv, Agreement, ~Overlap', NEW c \in Chains,
         ServeBooking(c) \/ ServeCancel(c) \/ ServeRead(c)
  PROVE  Agreement'
<1>0. chain \in [Chains -> Trips] /\ chain[c] \in Trips /\ Refresh(chain[c])
  BY DEF PageInv, PageTypes, Agreement, Refreshing
<1>1. UNCHANGED <<globals, explanation, search>>
  BY DEF ServeBooking, ServeCancel, ServeRead, Env
<1>2. ASSUME NEW net \in {"ok", "refused"}, Served(c, net), chain[c].at \in {"book", "cancel"},
             chain[c].net = "out", net = "refused" => chain[c].at = "book" /\ held' = held
      PROVE  Agreement'
  <2> DEFINE s == [chain[c] EXCEPT !.net = net]
  <2>0. s \in Trips /\ s.net = net /\ s.at = chain[c].at
    BY <1>0 DEF Trips, Fetch
  <2>1. PICK t \in Trips : t = s /\ t.net = net /\ t.at = chain[c].at
    <3> HIDE DEF s
    <3> QED
      BY <2>0
  <2>2. chain' = [chain EXCEPT ![c] = t]
    BY <1>0, <1>2, <2>1 DEF Served
  <2>3. Untouched(t) => Untouched(chain[c]) /\ held' = held
    BY <1>2, <2>1 DEF Untouched
  <2>4. Refresh(t)'
    BY <1>2, <2>1 DEF Refresh
  <2>5. QED
    BY <1>0, <1>1, <2>1, <2>2, <2>3, <2>4, ChainStep
<1>3. CASE ServeBooking(c)
  <2>1. CASE held[chain[c].journey] = 0
    BY <1>2, <1>3, <2>1 DEF ServeBooking
  <2>2. CASE held[chain[c].journey] # 0
    BY <1>2, <1>3, <2>2 DEF ServeBooking
  <2>3. QED
    BY <2>1, <2>2
<1>4. CASE ServeCancel(c)
  BY <1>2, <1>4 DEF ServeCancel
<1>5. CASE ServeRead(c)
  <2> DEFINE r == chain[c]
             s == [r EXCEPT !.net  = IF r.at = "direct" /\ r.query = NoQuery THEN "refused" ELSE "ok",
                            !.mine = IF r.at = "list" THEN Mine ELSE {},
                            !.free = IF r.at = "search" THEN Free(r.query) ELSE {}]
  <2>1. chain' = [chain EXCEPT ![c] = s] /\ r.at \in {"list", "search", "direct"} /\ held' = held
    BY <1>5 DEF ServeRead
  <2>2. Mine \subseteq Journeys \X (1..MaxReviews) /\ Free(r.query) \subseteq Journeys
    BY DEF Mine, Free
  <2>3. PICK t \in Trips :
          /\ t = s /\ t.at = r.at /\ t.query = r.query /\ t.result = r.result
          /\ t.net = IF r.at = "direct" /\ r.query = NoQuery THEN "refused" ELSE "ok"
          /\ r.at = "search" => t.free = Free(r.query)
    <3>1. /\ s \in Trips /\ s.at = r.at /\ s.query = r.query /\ s.result = r.result
          /\ s.net = IF r.at = "direct" /\ r.query = NoQuery THEN "refused" ELSE "ok"
          /\ r.at = "search" => s.free = Free(r.query)
      BY <1>0, <2>2, ZenonT(60) DEF Trips, Fetch
    <3> HIDE DEF s, r
    <3>2. QED
      BY <3>1
  <2>4. r.at = "direct" => r.query # NoQuery
    <3>1. r.at = "direct" => r.result \in Queries /\ r.query = r.result
      BY <1>0 DEF PageInv, PageTypes, Refresh
    <3>2. QED
      BY <3>1, ExplanationAssumption
  <2> HIDE DEF s
  <2>5. Free(lastQuery)' = Free(lastQuery)
    BY <1>1, <2>1 DEF Free, globals
  <2>6. Refresh(t)'
    BY <1>0, <1>1, <2>1, <2>3, <2>4, <2>5 DEF Refresh, globals
  <2>7. ~ Untouched(t)
    BY <2>1, <2>3 DEF Untouched
  <2>8. QED
    BY <1>0, <1>1, <2>1, <2>3, <2>6, <2>7, ChainStep
<1>6. QED
  BY <1>3, <1>4, <1>5

\* A search answered while nothing else went on, and its page.
LEMMA SearchMoves ==
  ASSUME PageInv, Agreement, ~Overlap',
         SearchDone \/ SearchFails \/ Refilter \/ ServeSearch \/ ServeDirect
  PROVE  Agreement'
<1>0. /\ lastQuery \in Queries \cup {NoQuery} /\ NoQuery \notin Queries
      /\ busy => search.query \in Queries
      /\ search \in [query : Queries \cup {NoQuery}, main : Fetch, direct : Fetch, free : SUBSET Journeys]
  BY ExplanationAssumption DEF PageInv, PageTypes
<1>1. chain' = chain /\ held' = held
  BY DEF SearchDone, SearchFails, Refilter, ServeSearch, ServeDirect
<1>2. \A q : Free(q)' = Free(q)
  BY <1>1 DEF Free
<1>3. busy => \A c \in Chains : chain[c].at = "idle"
  BY DEF Agreement, Overlap
<1>4. CASE SearchDone
  <2>1. /\ search.main = "ok" /\ search.direct \in {"out", "ok"} /\ search.free = Free(search.query)
        /\ busy /\ search.query \in Queries
    BY <1>0, <1>4 DEF SearchDone, Agreement, Searched
  <2>2. /\ busy' = FALSE /\ lastQuery' = search.query /\ directTrains' \in {search.query, NoQuery}
        /\ options' = [query |-> search.query, free |-> search.free]
        /\ page' = [title |-> lastQuery', cards |-> options', trains |-> directTrains']
    BY <1>4 DEF SearchDone, Paint
  <2>3. explained'.result = search.query /\ explained'.query = search.query
    <3>1. explained \in Described
      BY DEF PageInv, PanelRight
    <3>2. Show(search.query, search.query)
      BY <1>4 DEF SearchDone
    <3>3. QED
      BY <3>1, <3>2 DEF Show, Rendered, Described
  <2>4. Searched' /\ OneQuery'
    BY <1>0, <2>1, <2>2, <2>3 DEF Searched, OneQuery
  <2>5. UpToDate'
    BY <1>2, <2>1, <2>2 DEF UpToDate
  <2>6. Refreshing'
    BY <1>1, <1>3, <2>1 DEF Agreement, Refreshing, Refresh
  <2>7. QED
    BY <2>4, <2>5, <2>6 DEF Agreement
<1>5. CASE SearchFails
  <2>1. ~ busy' /\ busy /\ lastQuery' = NoQuery /\ page' = Blank
    BY <1>5 DEF SearchFails
  <2>2. Searched' /\ OneQuery' /\ UpToDate'
    BY <2>1 DEF Searched, OneQuery, UpToDate
  <2>3. Refreshing'
    BY <1>1, <1>3, <2>1 DEF Agreement, Refreshing, Refresh
  <2>4. QED
    BY <2>2, <2>3 DEF Agreement
<1>6. CASE Refilter
  <2>1. /\ lastQuery # NoQuery
        /\ UNCHANGED <<busy, lastQuery, options, directTrains, search>> /\ explained' = explained
        /\ page' = [title |-> lastQuery, cards |-> options, trains |-> directTrains]
    BY <1>6 DEF Refilter, Paint, explanation
  <2>2. Searched'
    BY <1>2, <2>1 DEF Agreement, Searched
  <2>3. OneQuery'
    BY <2>1 DEF Agreement, OneQuery
  <2>4. UpToDate'
    BY <1>1, <1>2, <2>1 DEF Agreement, UpToDate
  <2>5. Refreshing'
    BY <1>1, <1>2, <2>1 DEF Agreement, Refreshing, Refresh
  <2>6. QED
    BY <2>2, <2>3, <2>4, <2>5 DEF Agreement
<1>7. CASE ServeSearch \/ ServeDirect
  <2>1. UNCHANGED <<busy, lastQuery, options, directTrains, page, explained>> /\ busy
    BY <1>7 DEF ServeSearch, ServeDirect, Env, globals, explanation
  <2>2. Searched'
    <3>1. CASE ServeSearch
      <4>1. /\ search'.main = "ok" /\ search'.query = search.query /\ search'.free = Free(search.query)
            /\ search'.direct = search.direct
        BY <1>0, <3>1 DEF ServeSearch
      <4>2. QED
        BY <1>2, <2>1, <4>1 DEF Agreement, Searched
    <3>2. CASE ServeDirect
      <4>1. /\ search'.main = search.main /\ search'.query = search.query /\ search'.free = search.free
            /\ search'.direct = "ok"
        BY <1>0, <3>2 DEF ServeDirect
      <4>2. QED
        BY <1>2, <2>1, <4>1 DEF Agreement, Searched
    <3>3. QED
      BY <1>7, <3>1, <3>2
  <2>3. OneQuery' /\ UpToDate'
    BY <2>1 DEF OneQuery, UpToDate
  <2>4. Refreshing'
    BY <1>1, <1>2, <2>1 DEF Agreement, Refreshing, Refresh
  <2>5. QED
    BY <2>2, <2>3, <2>4 DEF Agreement
<1>8. QED
  BY <1>4, <1>5, <1>6, <1>7

\* The refresh after a booking or a cancellation.
LEMMA RerunMoves ==
  ASSUME PageInv, Agreement, ~Overlap', NEW c \in Chains, RerunSearched(c) \/ RerunDone(c)
  PROVE  Agreement'
<1>0. /\ chain \in [Chains -> Trips] /\ chain[c] \in Trips /\ Refresh(chain[c])
      /\ lastQuery \in Queries \cup {NoQuery} /\ NoQuery \notin Queries
      /\ chain[c].at = "search" => chain[c].query \in Queries
      /\ chain[c].at = "direct" => chain[c].result \in Queries
  BY ExplanationAssumption DEF PageInv, PageTypes, Agreement, Refreshing
<1>1. chain[c].at # "idle" /\ held' = held /\ UNCHANGED <<busy, lastQuery, search>>
  BY DEF RerunSearched, RerunDone, Back
<1>2. \A q : Free(q)' = Free(q)
  BY <1>1 DEF Free
<1>3. ~ busy /\ \A d \in Chains : d # c => chain[d].at = "idle"
  BY <1>1 DEF Agreement, Overlap
<1>4. Searched'
  BY <1>1, <1>3 DEF Searched
<1>5. CASE RerunSearched(c)
  <2> DEFINE s == [chain[c] EXCEPT !.at = "direct", !.net = "out", !.free = {},
                                   !.result = chain[c].query, !.query = lastQuery]
  <2>1. /\ chain[c].at = "search" /\ chain[c].query = lastQuery /\ chain[c].free = Free(lastQuery)
        /\ options' = [query |-> chain[c].query, free |-> chain[c].free]
        /\ chain' = [chain EXCEPT ![c] = s]
        /\ UNCHANGED <<directTrains, page, explained>>
    BY <1>0, <1>5 DEF RerunSearched, Back, Refresh, explanation
  <2>2. s.at = "direct" /\ s.net = "out" /\ s.query = lastQuery /\ s.result = lastQuery
    BY <1>0, <2>1 DEF Trips
  <2>3. chain'[c] = s /\ \A d \in Chains : d # c => chain'[d] = chain[d]
    BY <1>0, <2>1
  <2> HIDE DEF s
  <2>4. OneQuery'
    BY <1>0, <1>1, <1>3, <2>1 DEF Agreement, OneQuery
  <2>5. UpToDate'
    BY <2>2, <2>3 DEF UpToDate, Untouched
  <2>6. Refreshing'
    <3> SUFFICES ASSUME NEW d \in Chains PROVE Refresh(chain[d])'
      BY DEF Refreshing
    <3>1. CASE d = c
      BY <1>1, <1>2, <2>1, <2>2, <2>3, <3>1 DEF Refresh
    <3>2. CASE d # c
      BY <1>3, <2>3, <3>2 DEF Agreement, Refreshing, Refresh
    <3>3. QED
      BY <3>1, <3>2
  <2>7. QED
    BY <1>4, <2>4, <2>5, <2>6 DEF Agreement
<1>6. CASE RerunDone(c)
  <2>1. /\ chain[c].query = lastQuery /\ chain[c].result = lastQuery /\ lastQuery # NoQuery
        /\ options.free = Free(lastQuery)
    BY <1>0, <1>6 DEF RerunDone, Back, Refresh
  <2>2. /\ directTrains' = lastQuery /\ options' = options
        /\ page' = [title |-> lastQuery, cards |-> options, trains |-> lastQuery]
        /\ Show(lastQuery, lastQuery) /\ chain' = [chain EXCEPT ![c] = Idle]
    BY <1>6, <2>1 DEF RerunDone, Paint, Finish
  <2>3. explained'.result = lastQuery /\ explained'.query = lastQuery
    <3>1. explained \in Described
      BY DEF PageInv, PanelRight
    <3>2. QED
      BY <2>2, <3>1 DEF Show, Rendered, Described
  <2>4. OneQuery'
    BY <1>1, <1>3, <2>1, <2>2, <2>3 DEF Agreement, OneQuery
  <2>5. UpToDate'
    BY <1>1, <1>2, <2>1, <2>2 DEF UpToDate
  <2>6. Refreshing'
    <3> SUFFICES ASSUME NEW d \in Chains PROVE Refresh(chain[d])'
      BY DEF Refreshing
    <3>1. chain'[d] = IF d = c THEN Idle ELSE chain[d]
      BY <1>0, <2>2
    <3>2. CASE d = c
      BY <3>1, <3>2 DEF Refresh, Idle
    <3>3. CASE d # c
      BY <1>3, <3>1, <3>3 DEF Agreement, Refreshing, Refresh
    <3>4. QED
      BY <3>2, <3>3
  <2>7. QED
    BY <1>4, <2>4, <2>5, <2>6 DEF Agreement
<1>7. QED
  BY <1>5, <1>6

\* A new search starts from nothing.
LEMMA SubmitMoves ==
  ASSUME PageInv, NEW q \in Queries, Submit(q), ~Overlap'
  PROVE  Agreement'
<1>1. /\ busy' = TRUE /\ chain' = chain
      /\ search' = [query |-> q, main |-> "out", direct |-> "out", free |-> {}]
  BY DEF Submit
<1>2. \A c \in Chains : chain'[c].at = "idle"
  BY <1>1 DEF Overlap
<1>3. Searched' /\ OneQuery' /\ UpToDate'
  BY <1>1 DEF Searched, OneQuery, UpToDate
<1>4. Refreshing'
  BY <1>1, <1>2 DEF Refreshing, Refresh
<1>5. QED
  BY <1>3, <1>4 DEF Agreement

\* While nothing overlaps and nothing gets lost, the page, its explanation and
\* the requests under way agree, after every step.
LEMMA UndisturbedKept ==
  ASSUME PageInv, Undisturbed, [Next]_vars
  PROVE  Undisturbed'
<1> SUFFICES ASSUME ~ crossed' PROVE Agreement'
  BY DEF Undisturbed
<1>1. CASE UNCHANGED vars
  <2>1. /\ ~ crossed /\ Agreement
        /\ UNCHANGED <<busy, lastQuery, options, directTrains, page, search, chain, held, explained>>
    BY <1>1 DEF vars, globals, explanation, Undisturbed
  <2>2. ~ Overlap'
    BY <2>1 DEF Agreement, Overlap
  <2>3. QED
    BY <2>1, <2>2, NothingPainted
<1>2. CASE Next
  <2>1. Track
    BY <1>2, ZenonT(60) DEF Next, Passenger, Handlers, Server, Mishap, Submit, Reserve, Confirm, Cancel, CloseDialog,
       Refilter, UseTabs, SearchDone, SearchFails, Booked, BookingFails, Cancelled, CancelFails,
       ListLoaded, RerunSearched, RerunDone, RerunFails, ServeSearch, ServeDirect, ServeBooking,
       ServeCancel, ServeRead, Measure, LoseSearch, LoseDirect, LoseRequest, MeasureFails, OthersBuy
  <2>2. ~ Overlap' /\ left'.mishaps = left.mishaps /\ (~crossed \/ left'.searches # left.searches)
    BY <2>1, Tracked
  <2>3. left \in [searches : Nat, reviews : Nat, tabs : Nat, mishaps : Nat]
    BY DEF PageInv, Reviewing
  <2>4. ASSUME NEW q \in Queries, Submit(q) PROVE Agreement'
    BY <2>2, <2>4, SubmitMoves
  <2>5. CASE Mishap
    <3>1. Spend("mishaps")
      BY <2>5 DEF Mishap, LoseSearch, LoseDirect, LoseRequest, MeasureFails, OthersBuy
    <3>2. left'.mishaps = left.mishaps - 1
      BY <2>3, <3>1 DEF Spend
    <3>3. QED
      BY <2>2, <2>3, <3>2
  <2>6. ASSUME left'.searches = left.searches PROVE Agreement
    BY <2>2, <2>6 DEF Undisturbed
  <2>7. ASSUME UNCHANGED left PROVE Agreement
    BY <2>6, <2>7
  <2>8. ASSUME NEW what \in {"reviews", "tabs"}, Spend(what) PROVE Agreement
    BY <2>3, <2>6, <2>8 DEF Spend
  <2>9. CASE Passenger
    <3>1. ASSUME NEW j \in Journeys, Reserve(j) PROVE Agreement'
      <4>1. Agreement
        BY <2>8, <3>1 DEF Reserve
      <4>2. QED
        BY <2>2, <3>1, <4>1, NothingPainted DEF Reserve, globals, explanation
    <3>2. ASSUME NEW c \in Chains, Confirm(c) \/ \E j \in Journeys, r \in 1..MaxReviews : Cancel(c, j, r)
          PROVE  Agreement'
      <4>1. Agreement
        BY <2>7, <3>2 DEF Confirm, Cancel
      <4>2. QED
        BY <2>2, <3>2, <4>1, ChainMoves
    <3>3. CASE CloseDialog
      <4>1. Agreement
        BY <2>7, <3>3 DEF CloseDialog
      <4>2. QED
        BY <2>2, <3>3, <4>1, NothingPainted DEF CloseDialog, globals, explanation
    <3>4. CASE Refilter
      <4>1. Agreement
        BY <2>7, <3>4 DEF Refilter
      <4>2. QED
        BY <2>2, <3>4, <4>1, SearchMoves
    <3>5. CASE UseTabs
      <4>1. Agreement
        BY <2>8, <3>5 DEF UseTabs
      <4>2. /\ explained'.hidden = explained.hidden
            /\ explained'.result = explained.result /\ explained'.query = explained.query
        BY <3>5, TabsShown DEF UseTabs, PageInv
      <4>3. QED
        BY <2>2, <3>5, <4>1, <4>2, NothingPainted DEF UseTabs, globals
    <3>6. QED
      BY <2>4, <2>9, <3>1, <3>2, <3>3, <3>4, <3>5 DEF Passenger
  <2>10. CASE Handlers
    <3>1. CASE SearchDone \/ SearchFails
      <4>1. Agreement
        BY <2>7, <3>1 DEF SearchDone, SearchFails
      <4>2. QED
        BY <2>2, <3>1, <4>1, SearchMoves
    <3>2. ASSUME NEW c \in Chains, RerunSearched(c) \/ RerunDone(c) PROVE Agreement'
      <4>1. Agreement
        BY <2>7, <3>2 DEF RerunSearched, RerunDone
      <4>2. QED
        BY <2>2, <3>2, <4>1, RerunMoves
    <3>3. ASSUME NEW c \in Chains,
                 \/ Booked(c) \/ BookingFails(c) \/ Cancelled(c) \/ CancelFails(c)
                 \/ ListLoaded(c) \/ RerunFails(c)
          PROVE  Agreement'
      <4>1. Agreement
        BY <2>7, <3>3 DEF Booked, BookingFails, Cancelled, CancelFails, ListLoaded, RerunFails
      <4>2. QED
        BY <2>2, <3>3, <4>1, ChainMoves
    <3>4. QED
      BY <2>10, <3>1, <3>2, <3>3 DEF Handlers
  <2>11. CASE Server
    <3>1. CASE ServeSearch \/ ServeDirect
      <4>1. Agreement
        BY <2>7, <3>1 DEF ServeSearch, ServeDirect, Env
      <4>2. QED
        BY <2>2, <3>1, <4>1, SearchMoves
    <3>2. ASSUME NEW c \in Chains, ServeBooking(c) \/ ServeCancel(c) \/ ServeRead(c) PROVE Agreement'
      <4>1. Agreement
        BY <2>7, <3>2 DEF ServeBooking, ServeCancel, ServeRead, Env
      <4>2. QED
        BY <2>2, <3>2, <4>1, ServerMoves
    <3>3. ASSUME NEW k \in Keys, Measure(k) PROVE Agreement'
      <4>1. Agreement
        BY <2>7, <3>3 DEF Measure, Env
      <4>2. QED
        BY <2>2, <3>3, <4>1, NothingPainted DEF Measure, Arrived, Env, globals
    <3>4. QED
      BY <2>11, <3>1, <3>2, <3>3 DEF Server
  <2>12. QED
    BY <1>2, <2>5, <2>9, <2>10, <2>11, SMTT(60) DEF Next
<1>3. QED
  BY <1>1, <1>2

\* What the page shows is of one search, and of the ledger as the page's own
\* bookings and cancellations left it, unless something overlapped or got lost.
THEOREM PageShowsOneSearch == Spec => []PageAgrees
<1>1. Init => Undisturbed
  <2> SUFFICES ASSUME Init PROVE Agreement
    BY DEF Undisturbed
  <2>1. ~ Overlap /\ Searched
    BY DEF Init, Overlap, Searched, Idle
  <2>2. OneQuery /\ UpToDate
    BY DEF Init, OneQuery, UpToDate
  <2>3. Refreshing
    BY DEF Init, Refreshing, Refresh, Idle
  <2>4. QED
    BY <2>1, <2>2, <2>3 DEF Agreement
<1>2. PageInv /\ Undisturbed => PageAgrees
  <2> SUFFICES ASSUME PageInv, Undisturbed, ~busy, ~crossed, page # Blank
               PROVE  /\ page.cards.query = page.title
                      /\ page.trains \in {page.title, NoQuery}
                      /\ ~explained.hidden => explained.result = page.title /\ explained.query = page.title
                      /\ (\A c \in Chains : chain[c].at = "idle") => page.cards.free = Free(page.title)
    BY DEF PageAgrees
  <2>1. OneQuery /\ UpToDate
    BY DEF Undisturbed, Agreement
  <2>2. lastQuery # NoQuery /\ page.title = lastQuery
    BY <2>1 DEF OneQuery
  <2>3. (\A c \in Chains : chain[c].at = "idle") => page.cards.free = Free(lastQuery)
    BY <2>1, <2>2 DEF UpToDate, Untouched
  <2>4. QED
    BY <2>1, <2>2, <2>3 DEF OneQuery
<1>3. QED
  BY <1>1, <1>2, PageInvariance, UndisturbedKept, PTL DEF Spec
=============================================================================
