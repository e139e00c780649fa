----------------------------- MODULE Explanation -----------------------------
(***************************************************************************)
(* The explanation panel under the results (web/explain.js): the search it *)
(* describes, the open tab, and the comparisons of BFS, UCS and A* that it *)
(* asks the server for, one per query and search space.                    *)
(***************************************************************************)
EXTENDS Naturals, FiniteSets

CONSTANTS
  Queries, NoQuery,  \* searches a passenger makes; none
  Modes,             \* search spaces
  Best               \* the one each query's best option comes from

ASSUME ExplanationAssumption ==
  NoQuery \notin Queries /\ Modes # {} /\ Best \in [Queries -> Modes]

Keys == Queries \X Modes

VARIABLES
  explained,    \* hidden, whose result, which query, the search tab open, mode
  comparisons,  \* what is known of each key
  measuring,    \* requests under way for each key
  panel         \* the comparison on the search tab

explanation == <<explained, comparisons, measuring, panel>>

Unknown == [state |-> "absent", key |-> <<NoQuery, NoQuery>>]
Loading == [state |-> "loading", key |-> <<NoQuery, NoQuery>>]
Broken  == [state |-> "error", key |-> <<NoQuery, NoQuery>>]
Measured(k)  == [state |-> "ready", key |-> k]
Comparison == {Unknown, Loading, Broken} \cup {Measured(k) : k \in Keys}

\* comparisonKey()
Key(e) == <<e.query, e.mode>>

InitExplanation ==
  /\ explained = [hidden |-> TRUE, result |-> NoQuery, query |-> NoQuery,
                  search |-> FALSE, mode |-> CHOOSE m \in Modes : TRUE]
  /\ comparisons = [k \in Keys |-> Unknown]
  /\ measuring = [k \in Keys |-> 0]
  /\ panel = Unknown

\* render(): the search tab asks for a comparison nobody has asked for yet.
Rendered(e, known) ==
  /\ explained' = e
  /\ IF e.search /\ known[Key(e)] = Unknown
     THEN /\ comparisons' = [known EXCEPT ![Key(e)] = Loading]
          /\ measuring' = [measuring EXCEPT ![Key(e)] = @ + 1]
          /\ panel' = Loading
     ELSE /\ comparisons' = known
          /\ panel' = IF e.search THEN known[Key(e)] ELSE panel
          /\ UNCHANGED measuring

\* A finished search is shown; a new query picks the space of its best option,
\* and what was measured before is forgotten.
Show(result, query) ==
  Rendered([explained EXCEPT !.hidden = FALSE, !.result = result, !.query = query,
                             !.mode = IF explained.query = query THEN @ ELSE Best[result]],
           [k \in Keys |-> Unknown])

Hide ==
  /\ explained' = [explained EXCEPT !.hidden = TRUE]
  /\ UNCHANGED <<comparisons, measuring, panel>>

\* The passenger opens or leaves the search tab, or picks the other space.
OpenTab(open) ==
  /\ ~explained.hidden /\ explained.search # open
  /\ Rendered([explained EXCEPT !.search = open], comparisons)

PickMode(m) ==
  /\ ~explained.hidden /\ explained.search /\ explained.mode # m
  /\ Rendered([explained EXCEPT !.mode = m], comparisons)

\* Fault: an answer is taken to be the one the panel is waiting for.
ArrivedAnywhere(k, ok) ==
  /\ measuring[k] > 0
  /\ measuring' = [measuring EXCEPT ![k] = @ - 1]
  /\ comparisons' = [comparisons EXCEPT ![Key(explained)] =
                       IF ok THEN Measured(k) ELSE Broken]
  /\ panel' = IF explained.search THEN comparisons'[Key(explained)] ELSE panel
  /\ UNCHANGED explained

\* Fault: an error leaves the entry as it was.
ArrivedIfGood(k, ok) ==
  /\ measuring[k] > 0
  /\ measuring' = [measuring EXCEPT ![k] = @ - 1]
  /\ comparisons' = IF ok THEN [comparisons EXCEPT ![k] = Measured(k)] ELSE comparisons
  /\ panel' = IF explained.search /\ k = Key(explained) THEN comparisons'[k] ELSE panel
  /\ UNCHANGED explained

\* The answer, or its error, is kept under the key it was asked for and
\* painted when the panel still shows that key.
Arrived(k, ok) ==
  /\ measuring[k] > 0
  /\ measuring' = [measuring EXCEPT ![k] = @ - 1]
  /\ comparisons' = [comparisons EXCEPT ![k] = IF ok THEN Measured(k) ELSE Broken]
  /\ panel' = IF explained.search /\ k = Key(explained) THEN comparisons'[k] ELSE panel
  /\ UNCHANGED explained
-----------------------------------------------------------------------------
ExplanationTypeOK ==
  /\ explained \in [hidden : BOOLEAN, result : Queries \cup {NoQuery},
                    query : Queries \cup {NoQuery}, search : BOOLEAN, mode : Modes]
  /\ comparisons \in [Keys -> Comparison]
  /\ measuring \in [Keys -> Nat]
  /\ panel \in Comparison

\* The comparison a passenger reads was measured on the query and the search
\* space named above it, however the answers of earlier questions come in.
MeasuredOnIt ==
  explained.search /\ panel.state = "ready" => panel.key = Key(explained)

\* "Running BFS, UCS and A* on your query" is replaced by an answer or by an
\* error, or the passenger turns away.
LoadingEnds ==
  (explained.search /\ panel = Loading) ~> (~explained.search \/ panel # Loading)
=============================================================================
