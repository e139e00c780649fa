--------------------------- MODULE BestFirstSearch ---------------------------
(***************************************************************************)
(* The loop shared by A*, uniform-cost and breadth-first search            *)
(* (src/search_astar.py, search_ucs.py, search_bfs.py), and the shortlist  *)
(* that search_seats (src/seat_search.py) makes of its goals.              *)
(*                                                                         *)
(* A node is a journey state.  It carries its whole history, so its cost   *)
(* (cumulative_time_minutes) and the number of moves that led to it belong *)
(* to the node.  Which nodes follow which, what they cost and which of     *)
(* them arrive is the query's; here a query is one of a set of graphs.     *)
(*                                                                         *)
(* The three loops differ in what the frontier is ordered by and in how    *)
(* many goals they collect.  `visited' of breadth-first search is Known,   *)
(* and finalized keeps what it has popped for the properties only.  The    *)
(* pop of a stale entry (`if state in finalized: continue') is not         *)
(* modelled: Sound shows that none is left.                                *)
(***************************************************************************)
EXTENDS Integers, Sequences, FiniteSets

CONSTANTS
  Nodes, NoNode,
  Queries,
  Infinite,       \* the estimate for a station that cannot reach the goal
  MaxExpanded,    \* limit_expansions of search_budget
  EnoughExpanded  \* max_expansions: enough looking for further candidates

Children(q, n) == {q.succ[n][i] : i \in DOMAIN q.succ[n]}

\* Fault: what is to go counts, what was spent does not.
KeyGreedy(q, n) == IF q.algorithm = "A*" THEN q.h[n] ELSE IF q.algorithm = "UCS" THEN q.cost[n] ELSE 0

\* Fault: the estimate is left out.
KeyBlind(q, n) == IF q.algorithm = "BFS" THEN 0 ELSE q.cost[n]

\* What a heap orders the frontier by; breadth-first search has none.
Key(q, n) ==
  CASE q.algorithm = "A*"  -> IF q.h[n] = Infinite THEN Infinite ELSE q.cost[n] + q.h[n]
    [] q.algorithm = "UCS" -> q.cost[n]
    [] q.algorithm = "BFS" -> 0

QueryType ==
  [algorithm : {"A*", "UCS", "BFS"},
   mode  : {"plain", "same_train", "different_train"},
   k     : Nat \ {0},              \* goals to collect
   start : Nodes,
   succ  : [Nodes -> Seq(Nodes)],  \* in the order the generator lists them
   cost  : [Nodes -> Nat],         \* moving minutes
   moves : [Nodes -> Nat],         \* tickets
   h     : [Nodes -> Nat],         \* estimated minutes to go
   goals : SUBSET Nodes,
   sig   : [Nodes -> Nodes]]       \* signatures, by a representative

\* Time does not run backwards, and the estimate is consistent: shortest
\* distances in a graph whose edges are no dearer than the rides they stand for.
ASSUME SearchAssumption ==
  /\ NoNode \notin Nodes
  /\ {Infinite, MaxExpanded, EnoughExpanded} \subseteq Nat
  /\ Queries \subseteq QueryType
  /\ \A q \in Queries :
       /\ q.algorithm # "A*" => q.k = 1
       /\ q.start \notin q.goals
       /\ \A n \in Nodes :
            /\ n \in q.goals <=> q.h[n] = 0
            /\ q.cost[n] < Infinite
            /\ q.h[n] # Infinite => q.cost[n] + q.h[n] < Infinite
            /\ \A c \in Children(q, n) :
                 /\ q.cost[n] <= q.cost[c]
                 /\ q.moves[c] = q.moves[n] + 1
                 /\ q.h[n] = Infinite => q.h[c] = Infinite
                 /\ q.h[c] # Infinite => q.cost[n] + q.h[n] <= q.cost[c] + q.h[c]

VARIABLES
  query,
  frontier,   \* heap or queue: entries [node, no], no counting the pushes
  counter,
  parent,     \* parents; its domain is that of best_g, and visited of BFS
  finalized,
  goals,      \* goals collected, in the order they were popped
  expanded,   \* nodes_expanded
  truncated,
  pc,
  offers      \* what search_seats returns

vars == <<query, frontier, counter, parent, finalized, goals, expanded, truncated, pc, offers>>

InFrontier == {e.node : e \in frontier}
Known      == DOMAIN parent
Collected  == {goals[i] : i \in DOMAIN goals}
-----------------------------------------------------------------------------
Init ==
  /\ query \in Queries
  /\ frontier = {[node |-> query.start, no |-> 0]}
  /\ counter = 1
  /\ parent = [n \in {query.start} |-> NoNode]
  /\ finalized = {}
  /\ goals = <<>>
  /\ expanded = 0
  /\ truncated = FALSE
  /\ pc = "loop"
  /\ offers = <<>>

\* Fault: the search stops and does not say so.
OutOfBudgetSilently ==
  /\ pc = "loop"
  /\ frontier # {}
  /\ pc' = "done"
  /\ UNCHANGED <<query, frontier, counter, parent, finalized, goals, expanded, truncated, offers>>

\* At the head of the loop: out of expansions, or of time at any moment.
OutOfBudget ==
  /\ pc = "loop"
  /\ frontier # {}
  /\ truncated' = TRUE
  /\ pc' = "done"
  /\ UNCHANGED <<query, frontier, counter, parent, finalized, goals, expanded, offers>>

\* Fault: an empty frontier ends the search only if there is something to return.
ExhaustedWithGoals ==
  /\ pc = "loop"
  /\ frontier = {}
  /\ goals # <<>>
  /\ pc' = "done"
  /\ UNCHANGED <<query, frontier, counter, parent, finalized, goals, expanded, truncated, offers>>

Exhausted ==
  /\ pc = "loop"
  /\ frontier = {}
  /\ pc' = "done"
  /\ UNCHANGED <<query, frontier, counter, parent, finalized, goals, expanded, truncated, offers>>

\* Fault: ties and all, last in, first out.
LeastLatest(e) == e \in frontier /\ \A o \in frontier : e.no >= o.no

\* The entry heappop or popleft returns: ties are broken first in, first out.
Least(e) ==
  /\ e \in frontier
  /\ \A o \in frontier :
       \/ Key(query, e.node) < Key(query, o.node)
       \/ Key(query, e.node) = Key(query, o.node) /\ e.no <= o.no

Pop(e) ==
  /\ pc = "loop"
  /\ expanded < MaxExpanded
  /\ Least(e)
  /\ finalized' = finalized \cup {e.node}

Signatures == {query.sig[g] : g \in Collected}

Arrive(e) ==
  /\ Pop(e)
  /\ e.node \in query.goals
  /\ goals' = IF query.sig[e.node] \in Signatures THEN goals ELSE Append(goals, e.node)
  /\ pc' = IF Len(goals') >= query.k THEN "done" ELSE "loop"
  /\ frontier' = frontier \ {e}
  /\ UNCHANGED <<query, counter, parent, expanded, truncated, offers>>

\* Some goals are there and the search for more has gone on for long enough.
GiveUp(e) ==
  /\ Pop(e)
  /\ e.node \notin query.goals
  /\ goals # <<>> /\ expanded >= EnoughExpanded
  /\ frontier' = frontier \ {e}
  /\ truncated' = TRUE
  /\ pc' = "done"
  /\ UNCHANGED <<query, counter, parent, goals, expanded, offers>>

\* Fault: successors are pushed whether they are known or not.
FreshAll(n) == DOMAIN query.succ[n]

\* Positions of the successors that are new; one that is known is known at
\* the same cost, for the cost is part of the state.
Fresh(n) ==
  {i \in DOMAIN query.succ[n] :
     /\ query.succ[n][i] \notin Known
     /\ \A k \in 1..(i - 1) : query.succ[n][k] # query.succ[n][i]}

Expand(e) ==
  /\ Pop(e)
  /\ e.node \notin query.goals
  /\ goals = <<>> \/ expanded < EnoughExpanded
  /\ expanded' = expanded + 1
  /\ frontier' = (frontier \ {e}) \cup
       {[node |-> query.succ[e.node][i], no |-> counter + i] : i \in Fresh(e.node)}
  /\ counter' = counter + Len(query.succ[e.node]) + 1
  /\ parent' = [n \in Known \cup Children(query, e.node) |->
                  IF n \in Known THEN parent[n] ELSE e.node]
  /\ UNCHANGED <<query, goals, truncated, pc, offers>>

Return ==
  /\ pc = "done"
  /\ pc' = "returned"
  /\ UNCHANGED <<query, frontier, counter, parent, finalized, goals, expanded, truncated>>

\* search_seats: direct services are appended to a same-train shortlist, and
\* left out of a different-train one.
Shortlist ==
  /\ Return
  /\ offers' =
       CASE query.mode = "plain" -> goals
         [] query.mode = "same_train" ->
              goals \o SelectSeq(query.succ[query.start],
                                 LAMBDA g : g \in query.goals \ Collected)
         [] query.mode = "different_train" ->
              SelectSeq(goals, LAMBDA g : query.moves[g] > 1)

Next ==
  \/ OutOfBudget \/ Exhausted \/ Shortlist
  \/ \E e \in frontier : Arrive(e) \/ GiveUp(e) \/ Expand(e)

Spec     == Init /\ [][Next]_vars
FairSpec == Spec /\ WF_vars(Next)
-----------------------------------------------------------------------------
\* What a search minimises: moving minutes, or moves.
Merit(n) == IF query.algorithm = "BFS" THEN query.moves[n] ELSE query.cost[n]

\* The order in which nodes leave the frontier.
Rank(n) == IF query.algorithm = "BFS" THEN query.moves[n] ELSE Key(query, n)

\* Nodes that a search may visit: the least set with the start that is closed
\* under the successors of all but goals, which are never expanded.
Closed(s) == \A n \in s \ query.goals : Children(query, n) \subseteq s
Reachable == {n \in Nodes : \A s \in SUBSET Nodes : query.start \in s /\ Closed(s) => n \in s}

TypeOK ==
  /\ query \in QueryType
  /\ frontier \subseteq [node : Nodes, no : Nat]
  /\ counter \in Nat
  /\ Known \subseteq Nodes
  /\ parent \in [Known -> Known \cup {NoNode}]
  /\ finalized \subseteq Nodes
  /\ goals \in Seq(Nodes)
  /\ expanded \in Nat
  /\ truncated \in BOOLEAN
  /\ pc \in {"loop", "done", "returned"}

\* No state is in the frontier twice or after it was expanded, so no stale
\* entry is ever popped; and the parents of a known state are a path to it
\* from the start, whatever order the states were found in.
Sound ==
  /\ query.start \in Known
  /\ InFrontier \cup finalized = Known
  /\ InFrontier \cap finalized = {}
  /\ \A e, o \in frontier : e.node = o.node => e = o
  /\ \A n \in Known \ {query.start} :
       parent[n] \in finalized /\ n \in Children(query, parent[n])

\* "BFS depth, UCS g and A* f are each non-decreasing along their own
\* expansion order": what waits is never better than what has been expanded.
InOrder == \A n \in finalized, m \in InFrontier : Rank(n) <= Rank(m)

\* What the loops keep between two pops, and why their results are right.
Numbered == \A e, o \in frontier : e.no < counter /\ (e.no = o.no => e = o)

\* A queue holds the rest of one level, then the next.
Queued ==
  query.algorithm = "BFS" => \A e, o \in frontier :
    /\ e.no < o.no => query.moves[e.node] <= query.moves[o.node]
    /\ query.moves[o.node] <= query.moves[e.node] + 1

\* All that follows an expanded state is known; GiveUp alone takes a state
\* from the frontier and leaves it unexpanded, and it takes the last.
Followed ==
  \A n \in finalized \ query.goals :
    \/ Children(query, n) \subseteq Known
    \/ truncated /\ \A m \in finalized : Rank(m) <= Rank(n)

GoalsKept ==
  /\ Collected \subseteq finalized \cap query.goals
  /\ \A i, k \in DOMAIN goals : i < k => Merit(goals[i]) <= Merit(goals[k])
  /\ \A g \in finalized \cap query.goals : \E i \in DOMAIN goals :
       query.sig[goals[i]] = query.sig[g] /\ Merit(goals[i]) <= Merit(g)

Outcome ==
  /\ pc = "loop" => ~truncated /\ Len(goals) < query.k
  /\ pc # "loop" /\ ~truncated => frontier = {} \/ Len(goals) >= query.k
  /\ query.k = 1 /\ goals # <<>> => \A n \in finalized : Rank(n) <= Rank(goals[1])

LoopInv == Numbered /\ Queued /\ Followed /\ GoalsKept /\ Outcome

\* The goals are the best there are, in order: a goal that is not among them
\* (nor one with its signature that is as good) is no better than any of
\* them, also if the search ran out of budget after the first.
BestFound ==
  /\ \A i, k \in DOMAIN goals : i < k => Merit(goals[i]) <= Merit(goals[k])
  /\ \A g \in Reachable \cap query.goals :
       \/ \E i \in DOMAIN goals :
            query.sig[goals[i]] = query.sig[g] /\ Merit(goals[i]) <= Merit(g)
       \/ \A i \in DOMAIN goals : Merit(goals[i]) <= Merit(g)

\* A search that ends with too few goals and does not say it was cut short
\* has missed nothing: "no journey" means that there is none.
NothingMissed ==
  pc # "loop" /\ ~truncated /\ Len(goals) < query.k =>
    \A g \in Reachable \cap query.goals : query.sig[g] \in Signatures

\* "A* expands no more than UCS": to its first goal A* expands states cheaper
\* than that goal only, and those uniform-cost search expands all of.
NoMoreThanUCS ==
  goals # <<>> /\ query.k = 1 =>
    /\ query.algorithm = "A*" =>
         \A n \in finalized \ query.goals : query.cost[n] < query.cost[goals[1]]
    /\ query.algorithm = "UCS" =>
         \A n \in Reachable \ query.goals :
           query.cost[n] < query.cost[goals[1]] => n \in finalized

\* Every search ends, also one that no budget stops.
Ends == <>(pc = "returned")
=============================================================================
