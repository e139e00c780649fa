------------------------ MODULE BestFirstSearchProofs ------------------------
(***************************************************************************)
(* Proofs about BestFirstSearch, for any set of graphs with a consistent   *)
(* estimate, any number of goals to collect and any budget.                *)
(***************************************************************************)
EXTENDS BestFirstSearch, WellFoundedInduction, TLAPS

\* The inductive invariant.
IInv == query \in Queries /\ TypeOK /\ Sound /\ InOrder /\ LoopInv

-----------------------------------------------------------------------------
(* Lemmas about a query *)

\* What the fields of a query hold.
LEMMA QueryFields ==
  ASSUME NEW q \in Queries
  PROVE  /\ q.algorithm \in {"A*", "UCS", "BFS"}
         /\ q.k \in Nat \ {0}
         /\ q.start \in Nodes
         /\ q.goals \subseteq Nodes
         /\ \A n \in Nodes : /\ q.cost[n] \in Nat /\ q.moves[n] \in Nat /\ q.h[n] \in Nat
                             /\ q.succ[n] \in Seq(Nodes)
                             /\ Children(q, n) \subseteq Nodes
                             /\ Key(q, n) \in Nat
<1>1. q \in QueryType
  BY SearchAssumption
<1>2. \A n \in Nodes : q.succ[n] \in Seq(Nodes)
  BY <1>1 DEF QueryType
<1>3. \A n \in Nodes : Children(q, n) \subseteq Nodes
  BY <1>2 DEF Children
<1>4. \A n \in Nodes : q.cost[n] \in Nat /\ q.moves[n] \in Nat /\ q.h[n] \in Nat
  BY <1>1 DEF QueryType
<1>5. q.algorithm \in {"A*", "UCS", "BFS"}
  BY <1>1 DEF QueryType
<1>6. \A n \in Nodes : Key(q, n) \in Nat
  BY <1>4, <1>5, SearchAssumption DEF Key
<1> QED
  BY <1>1, <1>2, <1>3, <1>4, <1>5, <1>6 DEF QueryType

\* The order of the frontier does not go down from a state to its successors:
\* the estimate is consistent, costs and moves grow.
LEMMA KeyGrows ==
  ASSUME NEW q \in Queries, NEW n \in Nodes, NEW c \in Children(q, n)
  PROVE  /\ c \in Nodes
         /\ Key(q, n) <= Key(q, c)
         /\ q.moves[c] = q.moves[n] + 1
<1>1. c \in Nodes
  BY QueryFields
<1>2. /\ q.cost[n] <= q.cost[c]
      /\ q.moves[c] = q.moves[n] + 1
      /\ q.h[n] = Infinite => q.h[c] = Infinite
      /\ q.h[c] # Infinite => q.cost[n] + q.h[n] <= q.cost[c] + q.h[c]
  BY SearchAssumption
<1>3. q.h[n] # Infinite => q.cost[n] + q.h[n] < Infinite
  BY SearchAssumption
<1>4. Infinite \in Nat
  BY SearchAssumption
<1>5. /\ q.cost[n] \in Nat /\ q.cost[c] \in Nat /\ q.h[n] \in Nat /\ q.h[c] \in Nat
  BY <1>1, QueryFields
<1>6. Key(q, n) <= Key(q, c)
  <2>1. CASE q.algorithm = "A*"
    BY <2>1, <1>2, <1>3, <1>4, <1>5 DEF Key
  <2>2. CASE q.algorithm = "UCS"
    BY <2>2, <1>2 DEF Key
  <2>3. CASE q.algorithm = "BFS"
    BY <2>3 DEF Key
  <2> QED
    BY <2>1, <2>2, <2>3, QueryFields
<1> QED
  BY <1>1, <1>2, <1>6

\* At a goal nothing is left to estimate.
LEMMA KeyOfGoal ==
  ASSUME NEW q \in Queries, NEW g \in q.goals, q.algorithm # "BFS"
  PROVE  Key(q, g) = q.cost[g]
<1>1. g \in Nodes /\ q.cost[g] \in Nat
  BY QueryFields
<1>2. q.h[g] = 0 /\ q.cost[g] < Infinite /\ Infinite \in Nat
  BY <1>1, SearchAssumption
<1>3. q.algorithm \in {"A*", "UCS"}
  BY QueryFields
<1> QED
  BY <1>1, <1>2, <1>3 DEF Key

\* The same for the rank of states in the current query.
LEMMA RankFacts ==
  ASSUME query \in Queries
  PROVE  /\ \A n \in Nodes : Rank(n) \in Nat /\ Merit(n) \in Nat
         /\ \A g \in query.goals : Rank(g) = Merit(g)
         /\ \A n \in Nodes : \A c \in Children(query, n) : c \in Nodes /\ Rank(n) <= Rank(c)
<1>1. \A n \in Nodes : Rank(n) \in Nat /\ Merit(n) \in Nat
  BY QueryFields DEF Rank, Merit
<1>2. \A g \in query.goals : Rank(g) = Merit(g)
  BY KeyOfGoal DEF Rank, Merit
<1>3. ASSUME NEW n \in Nodes, NEW c \in Children(query, n)
      PROVE  c \in Nodes /\ Rank(n) <= Rank(c)
  <2>1. /\ c \in Nodes /\ Key(query, n) <= Key(query, c)
        /\ query.moves[c] = query.moves[n] + 1
    BY KeyGrows
  <2>2. query.moves[n] \in Nat
    BY QueryFields
  <2> QED
    BY <2>1, <2>2 DEF Rank
<1> QED
  BY <1>1, <1>2, <1>3

-----------------------------------------------------------------------------
(* What is popped is least *)

\* The entry a pop returns has the least rank of all, also in breadth-first
\* search, where the queue keeps no order but that of arrival.
LEMMA PopsLeast ==
  ASSUME IInv, NEW e \in frontier, Least(e)
  PROVE  \A o \in frontier : Rank(e.node) <= Rank(o.node)
<1> SUFFICES ASSUME NEW o \in frontier
             PROVE  Rank(e.node) <= Rank(o.node)
  OBVIOUS
<1>1. e.node \in Nodes /\ o.node \in Nodes /\ e.no \in Nat /\ o.no \in Nat
  BY DEF IInv, TypeOK
<1>2. /\ Key(query, e.node) \in Nat /\ Key(query, o.node) \in Nat
      /\ query.moves[e.node] \in Nat /\ query.moves[o.node] \in Nat
  BY <1>1, QueryFields DEF IInv
<1>3. \/ Key(query, e.node) < Key(query, o.node)
      \/ Key(query, e.node) = Key(query, o.node) /\ e.no <= o.no
  BY DEF Least
<1>4. CASE query.algorithm = "BFS"
  <2>1. Key(query, e.node) = 0 /\ Key(query, o.node) = 0
    BY <1>4 DEF Key
  <2>2. e.no < o.no \/ e = o
    BY <2>1, <1>1, <1>3 DEF IInv, LoopInv, Numbered
  <2>3. query.moves[e.node] <= query.moves[o.node]
    BY <2>2, <1>2, <1>4 DEF IInv, LoopInv, Queued
  <2> QED
    BY <2>3, <1>4 DEF Rank
<1>5. CASE query.algorithm # "BFS"
  BY <1>2, <1>3, <1>5 DEF Rank
<1> QED
  BY <1>4, <1>5

\* Whatever may be visited has been, or is no better than all that has been.
LEMMA Frontline ==
  ASSUME IInv, NEW n \in Reachable
  PROVE  n \in finalized \/ \A m \in finalized : Rank(m) <= Rank(n)
<1> DEFINE S == {x \in Nodes : x \in finalized \/ \A m \in finalized : Rank(m) <= Rank(x)}
<1>0. query \in Queries /\ finalized \subseteq Nodes /\ Known \subseteq Nodes
  BY DEF IInv, TypeOK
<1>1. ASSUME NEW x \in Known
      PROVE  x \in S
  BY <1>0, <1>1 DEF IInv, Sound, InOrder
<1>2. query.start \in S
  BY <1>1 DEF IInv, Sound
<1>3. ASSUME NEW x \in S \ query.goals, NEW c \in Children(query, x)
      PROVE  c \in S
  <2>1. c \in Nodes /\ Rank(x) <= Rank(c) /\ Rank(x) \in Nat /\ Rank(c) \in Nat
    BY <1>0, RankFacts
  <2>2. \A m \in finalized : Rank(m) \in Nat
    BY <1>0, RankFacts
  <2>3. CASE \A m \in finalized : Rank(m) <= Rank(x)
    <3>1. \A m \in finalized : Rank(m) <= Rank(c)
      BY <2>1, <2>2, <2>3
    <3> QED
      BY <3>1, <2>1
  <2>4. CASE x \in finalized /\ Children(query, x) \subseteq Known
    BY <1>1, <2>4
  <2> QED
    BY <2>3, <2>4, <1>3 DEF IInv, LoopInv, Followed
<1>4. Closed(S)
  BY <1>3 DEF Closed
<1>5. n \in S
  <2>1. S \in SUBSET Nodes
    OBVIOUS
  <2> QED
    BY <1>2, <1>4, <2>1 DEF Reachable
<1> QED
  BY <1>5

-----------------------------------------------------------------------------
(* The steps *)

\* A set of natural numbers with a member has a least one.
LEMMA LeastOf ==
  ASSUME NEW S \in SUBSET Nat, S # {}
  PROVE  \E i \in S : \A k \in S : i <= k
<1> DEFINE Less == {p \in Nat \X Nat : p[1] < p[2]}
<1>1. OpToRel(<, Nat) = Less
  BY Zenon DEF OpToRel
<1>2. IsWellFoundedOn(Less, Nat)
  BY <1>1, NatLessThanWellFounded, Zenon
<1>3. PICK x \in S : \A y \in S : <<y, x>> \notin Less
  BY <1>2, WFMin, Zenon
<1>4. \A y \in S : ~(y < x)
  BY <1>3
<1> QED
  BY <1>4

\* The query never changes, and neither does what it says of its states.
LEMMA SameQuery ==
  ASSUME query' = query
  PROVE  /\ \A n : Rank(n)' = Rank(n)
         /\ \A n : Merit(n)' = Merit(n)
<1>1. \A n : Rank(n)' = Rank(n)
  BY DEF Rank, Key
<1>2. \A n : Merit(n)' = Merit(n)
  BY DEF Merit
<1> QED
  BY <1>1, <1>2

\* The loop starts with the start alone.
LEMMA Starts == Init => IInv
<1> SUFFICES ASSUME Init
             PROVE  IInv
  OBVIOUS
<1> USE DEF Init
<1>0. query \in Queries /\ query \in QueryType /\ query.start \in Nodes
  BY QueryFields, SearchAssumption
<1>1. TypeOK
  <2>1. Known = {query.start}
    BY DEF Known
  <2>2. parent \in [Known -> Known \cup {NoNode}]
    BY <2>1
  <2>3. frontier \subseteq [node : Nodes, no : Nat] /\ goals \in Seq(Nodes)
    BY <1>0
  <2> QED
    BY <1>0, <2>1, <2>2, <2>3 DEF TypeOK
<1>2. Sound
  BY DEF Sound, Known, InFrontier
<1>3. InOrder
  BY DEF InOrder
<1>4. Numbered /\ Followed
  BY DEF Numbered, Followed
<1>5. Queued
  BY <1>0, QueryFields DEF Queued
<1>6. GoalsKept
  BY DEF GoalsKept, Collected
<1>7. Outcome
  BY <1>0, QueryFields DEF Outcome
<1> QED
  BY <1>0, <1>1, <1>2, <1>3, <1>4, <1>5, <1>6, <1>7 DEF IInv, LoopInv

\* Ending the loop, returning, and steps that change nothing of it.
LEMMA EndKeeps ==
  ASSUME IInv, OutOfBudget \/ Exhausted \/ Shortlist \/ UNCHANGED vars
  PROVE  IInv'
<1>1. UNCHANGED <<query, frontier, counter, parent, finalized, goals, expanded>>
  BY DEF OutOfBudget, Exhausted, Shortlist, Return, vars
<1>2. /\ pc' \in {"loop", "done", "returned"} /\ truncated' \in BOOLEAN
      /\ truncated => truncated'
      /\ pc' = "loop" => pc = "loop" /\ ~truncated'
      /\ pc' # "loop" /\ ~truncated' => frontier = {} \/ (pc # "loop" /\ ~truncated)
  <2>1. /\ pc \in {"loop", "done", "returned"} /\ truncated \in BOOLEAN
        /\ pc = "loop" => ~truncated
    BY DEF IInv, TypeOK, LoopInv, Outcome
  <2>2. CASE OutOfBudget
    BY <2>1, <2>2 DEF OutOfBudget
  <2>3. CASE Exhausted
    BY <2>1, <2>3 DEF Exhausted
  <2>4. CASE Return
    BY <2>1, <2>4 DEF Return
  <2>5. CASE UNCHANGED vars
    BY <2>1, <2>5 DEF vars
  <2> QED
    BY <2>2, <2>3, <2>4, <2>5 DEF Shortlist
<1>3. (\A n : Rank(n)' = Rank(n)) /\ (\A n : Merit(n)' = Merit(n))
  BY <1>1, SameQuery
<1>4. TypeOK'
  BY <1>1, <1>2 DEF IInv, TypeOK, Known
<1>5. Sound'
  BY <1>1 DEF IInv, Sound, Known, InFrontier, Children
<1>6. InOrder'
  BY <1>1, <1>3 DEF IInv, InOrder, InFrontier
<1>7. Numbered' /\ Queued'
  BY <1>1 DEF IInv, LoopInv, Numbered, Queued
<1>8. Followed'
  BY <1>1, <1>2, <1>3 DEF IInv, LoopInv, Followed, Known, Children
<1>9. GoalsKept'
  BY <1>1, <1>3 DEF IInv, LoopInv, GoalsKept, Collected
<1>10. Outcome'
  BY <1>1, <1>2, <1>3 DEF IInv, LoopInv, Outcome
<1> QED
  BY <1>1, <1>4, <1>5, <1>6, <1>7, <1>8, <1>9, <1>10 DEF IInv, LoopInv

\* What popping an entry does to the frontier and to the expanded states, and
\* what it means for the order.
LEMMA PopKeeps ==
  ASSUME IInv, NEW e \in frontier, Pop(e)
  PROVE  /\ e.node \in Nodes /\ e.node \in Known /\ e.node \notin finalized
         /\ finalized' = finalized \cup {e.node}
         /\ finalized' \subseteq Nodes
         /\ pc = "loop" /\ ~truncated /\ Len(goals) < query.k
         /\ \A o \in frontier \ {e} : o.node # e.node
         /\ \A o \in frontier \ {e} : o.node \in Known /\ o.node \notin finalized'
         /\ \A n \in Known : n \in finalized' \/ \E o \in frontier \ {e} : o.node = n
         /\ \A n \in finalized' : Rank(n) <= Rank(e.node)
         /\ \A n \in finalized', o \in frontier \ {e} : Rank(n) <= Rank(o.node)
<1>0. query \in Queries /\ finalized \subseteq Nodes /\ Known \subseteq Nodes
  BY DEF IInv, TypeOK
<1>1. e.node \in Nodes /\ e.node \in InFrontier
  BY DEF IInv, TypeOK, InFrontier
<1>2. finalized' = finalized \cup {e.node} /\ pc = "loop" /\ Least(e)
  BY DEF Pop
<1>3. \A o \in frontier \ {e} : o.node # e.node
  BY DEF IInv, Sound
<1>4. \A o \in frontier : o.node \in InFrontier /\ o.node \in Known /\ o.node \notin finalized
  BY DEF IInv, Sound, InFrontier
<1>5. \A n \in Known : n \in finalized' \/ \E o \in frontier \ {e} : o.node = n
  BY <1>2 DEF IInv, Sound, InFrontier
<1>6. \A n \in finalized' : Rank(n) <= Rank(e.node)
  <2>1. \A n \in finalized : Rank(n) <= Rank(e.node)
    BY <1>1 DEF IInv, InOrder
  <2>2. Rank(e.node) \in Nat
    BY <1>0, <1>1, RankFacts
  <2> QED
    BY <1>2, <2>1, <2>2
<1>7. \A n \in finalized', o \in frontier \ {e} : Rank(n) <= Rank(o.node)
  <2>1. \A o \in frontier : Rank(e.node) <= Rank(o.node)
    BY <1>2, PopsLeast
  <2>2. \A n \in finalized, o \in frontier : Rank(n) <= Rank(o.node)
    BY <1>4 DEF IInv, InOrder
  <2> QED
    BY <1>2, <2>1, <2>2
<1>8. ~truncated /\ Len(goals) < query.k
  BY <1>2 DEF IInv, LoopInv, Outcome
<1> QED
  BY <1>0, <1>1, <1>2, <1>3, <1>4, <1>5, <1>6, <1>7, <1>8

\* Taking an entry away keeps what the loop knows of the frontier.
LEMMA RemoveKeeps ==
  ASSUME IInv, NEW e \in frontier, Pop(e),
         query' = query, frontier' = frontier \ {e}, counter' = counter, parent' = parent
  PROVE  Sound' /\ InOrder' /\ Numbered' /\ Queued'
<1>1. Sound'
  <2>1. query'.start \in Known'
    BY DEF IInv, Sound, Known
  <2>2. (InFrontier \cup finalized)' = Known' /\ (InFrontier \cap finalized)' = {}
    <3>1. finalized' \subseteq Known
      BY PopKeeps DEF IInv, Sound
    <3>2. \A o \in frontier' : o.node \in Known /\ o.node \notin finalized'
      BY PopKeeps
    <3>3. \A n \in Known : n \in finalized' \/ \E o \in frontier' : o.node = n
      BY PopKeeps
    <3>4. Known' = Known
      BY DEF Known
    <3>5. \A n : n \in InFrontier' <=> \E o \in frontier' : o.node = n
      BY DEF InFrontier
    <3> QED
      BY <3>1, <3>2, <3>3, <3>4, <3>5
  <2>3. \A a, b \in frontier' : a.node = b.node => a = b
    BY DEF IInv, Sound
  <2>4. \A n \in Known' \ {query'.start} :
          parent'[n] \in finalized' /\ n \in Children(query', parent'[n])
    BY PopKeeps DEF IInv, Sound, Known
  <2> QED
    BY <2>1, <2>2, <2>3, <2>4 DEF Sound, Children
<1>2. InOrder'
  BY PopKeeps, SameQuery DEF InOrder, InFrontier
<1>3. Numbered' /\ Queued'
  BY DEF IInv, LoopInv, Numbered, Queued
<1> QED
  BY <1>1, <1>2, <1>3

\* Popping a goal: it is at least as good as what comes after it, and no
\* better than the goals before it.
LEMMA ArriveKeeps ==
  ASSUME IInv, NEW e \in frontier, Arrive(e)
  PROVE  IInv'
<1>0. /\ Pop(e) /\ e.node \in query.goals
      /\ frontier' = frontier \ {e}
      /\ UNCHANGED <<query, counter, parent, expanded, truncated>>
      /\ goals' = IF query.sig[e.node] \in Signatures THEN goals ELSE Append(goals, e.node)
      /\ pc' = IF Len(goals') >= query.k THEN "done" ELSE "loop"
  BY DEF Arrive
<1>1. query \in Queries /\ goals \in Seq(Nodes) /\ e.node \in Nodes
  BY <1>0, PopKeeps DEF IInv, TypeOK
<1>2. goals' \in Seq(Nodes)
  BY <1>0, <1>1
<1>3. TypeOK'
  <2>1. finalized' \subseteq Nodes
    BY <1>0, PopKeeps
  <2> QED
    BY <1>0, <1>2, <2>1 DEF IInv, TypeOK, Known
<1>4. Sound' /\ InOrder' /\ Numbered' /\ Queued'
  BY <1>0, RemoveKeeps
<1>5. (\A n : Rank(n)' = Rank(n)) /\ (\A n : Merit(n)' = Merit(n))
  BY <1>0, SameQuery
<1>6. finalized' = finalized \cup {e.node} /\ ~truncated
  BY <1>0, PopKeeps
<1>7. Followed'
  BY <1>0, <1>5, <1>6 DEF IInv, LoopInv, Followed, Known, Children
<1>8. \A i \in DOMAIN goals : /\ goals[i] \in finalized \cap query.goals
                              /\ goals[i] \in Nodes
                              /\ Merit(goals[i]) <= Merit(e.node)
  <2>1. \A i \in DOMAIN goals : goals[i] \in finalized \cap query.goals
    BY DEF IInv, LoopInv, GoalsKept, Collected
  <2>2. \A i \in DOMAIN goals : Rank(goals[i]) <= Rank(e.node)
    BY <1>0, <2>1, PopKeeps
  <2> QED
    BY <1>0, <1>1, <2>1, <2>2, RankFacts
<1>9. GoalsKept'
  <2>1. CASE query.sig[e.node] \in Signatures
    <3>1. goals' = goals
      BY <1>0, <2>1
    <3>2. \E i \in DOMAIN goals : query.sig[goals[i]] = query.sig[e.node]
      BY <2>1 DEF Signatures, Collected
    <3>3. \A i \in DOMAIN goals' : goals'[i] \in finalized' \cap query.goals
      BY <1>6, <1>8, <3>1
    <3>4. \A i, k \in DOMAIN goals' : i < k => Merit(goals'[i]) <= Merit(goals'[k])
      BY <3>1 DEF IInv, LoopInv, GoalsKept
    <3>5. \A g \in finalized' \cap query.goals : \E i \in DOMAIN goals' :
            query.sig[goals'[i]] = query.sig[g] /\ Merit(goals'[i]) <= Merit(g)
      BY <1>6, <1>8, <3>1, <3>2 DEF IInv, LoopInv, GoalsKept
    <3> QED
      BY <1>0, <1>5, <3>3, <3>4, <3>5, SMTT(30) DEF GoalsKept, Collected
  <2>2. CASE query.sig[e.node] \notin Signatures
    <3>1. /\ goals' = Append(goals, e.node)
          /\ Len(goals) \in Nat /\ DOMAIN goals = 1..Len(goals)
          /\ DOMAIN goals' = 1..(Len(goals) + 1)
          /\ \A i \in DOMAIN goals : goals'[i] = goals[i]
          /\ goals'[Len(goals) + 1] = e.node
      BY <1>0, <1>1, <2>2
    <3>2. \A i \in DOMAIN goals' : goals'[i] \in finalized' \cap query.goals
      BY <1>0, <1>6, <1>8, <3>1
    <3>3. \A i, k \in DOMAIN goals' : i < k => Merit(goals'[i]) <= Merit(goals'[k])
      BY <1>8, <3>1 DEF IInv, LoopInv, GoalsKept
    <3>4. \A g \in finalized' \cap query.goals : \E i \in DOMAIN goals' :
            query.sig[goals'[i]] = query.sig[g] /\ Merit(goals'[i]) <= Merit(g)
      <4>1. Merit(e.node) <= Merit(e.node)
        BY <1>1, RankFacts
      <4>2. Len(goals) + 1 \in DOMAIN goals'
        BY <3>1
      <4>3. \A i \in DOMAIN goals : i \in DOMAIN goals'
        BY <3>1
      <4> QED
        BY <1>6, <3>1, <4>1, <4>2, <4>3 DEF IInv, LoopInv, GoalsKept
    <3> QED
      BY <1>0, <1>5, <3>2, <3>3, <3>4 DEF GoalsKept, Collected
  <2> QED
    BY <2>1, <2>2
<1>10. Outcome'
  <2>1. Len(goals') \in Nat /\ query.k \in Nat
    BY <1>1, <1>2, QueryFields
  <2>2. query.k = 1 => goals' = <<e.node>>
    <3> SUFFICES ASSUME query.k = 1
                 PROVE  goals' = <<e.node>>
      OBVIOUS
    <3>1. goals = <<>>
      BY <1>0, <1>1, PopKeeps
    <3>2. Signatures = {}
      BY <3>1 DEF Signatures, Collected
    <3> QED
      BY <1>0, <3>1, <3>2
  <2>3. query.k = 1 => \A n \in finalized' : Rank(n) <= Rank(goals'[1])
    BY <1>0, <2>2, PopKeeps
  <2> QED
    BY <1>0, <1>5, <1>6, <2>1, <2>3 DEF Outcome
<1> QED
  BY <1>0, <1>1, <1>3, <1>4, <1>7, <1>9, <1>10 DEF IInv, LoopInv

\* Giving up leaves one state unexpanded, and it is the last that was popped.
LEMMA GiveUpKeeps ==
  ASSUME IInv, NEW e \in frontier, GiveUp(e)
  PROVE  IInv'
<1>0. /\ Pop(e) /\ e.node \notin query.goals /\ goals # <<>>
      /\ frontier' = frontier \ {e}
      /\ UNCHANGED <<query, counter, parent, expanded, goals>>
      /\ truncated' = TRUE /\ pc' = "done"
  BY DEF GiveUp
<1>1. query \in Queries /\ goals \in Seq(Nodes)
  BY DEF IInv, TypeOK
<1>2. TypeOK'
  <2>1. finalized' \subseteq Nodes
    BY <1>0, PopKeeps
  <2> QED
    BY <1>0, <2>1 DEF IInv, TypeOK, Known
<1>3. Sound' /\ InOrder' /\ Numbered' /\ Queued'
  BY <1>0, RemoveKeeps
<1>4. (\A n : Rank(n)' = Rank(n)) /\ (\A n : Merit(n)' = Merit(n))
  BY <1>0, SameQuery
<1>5. finalized' = finalized \cup {e.node} /\ ~truncated
  BY <1>0, PopKeeps
<1>6. Followed'
  <2>1. \A m \in finalized' : Rank(m) <= Rank(e.node)
    BY <1>0, PopKeeps
  <2> QED
    BY <1>0, <1>4, <1>5, <2>1 DEF IInv, LoopInv, Followed, Known, Children
<1>7. GoalsKept'
  BY <1>0, <1>4, <1>5 DEF IInv, LoopInv, GoalsKept, Collected
<1>8. Outcome'
  <2>1. query.k # 1
    BY <1>0, <1>1, PopKeeps
  <2> QED
    BY <1>0, <2>1 DEF Outcome
<1> QED
  BY <1>0, <1>1, <1>2, <1>3, <1>6, <1>7, <1>8 DEF IInv, LoopInv

\* Expanding a state: what is pushed was not known before, ranks no less than
\* the state, and in breadth-first search lies one level below it.
LEMMA PushedAreNew ==
  ASSUME IInv, NEW e \in frontier, Expand(e),
         NEW o \in frontier' \ (frontier \ {e})
  PROVE  /\ o.node \in Nodes /\ o.node \in Children(query, e.node) /\ o.node \notin Known
         /\ o.no \in Nat /\ counter < o.no /\ o.no < counter'
         /\ Rank(e.node) <= Rank(o.node)
         /\ query.moves[o.node] = query.moves[e.node] + 1
<1>0. query \in Queries /\ counter \in Nat /\ e.node \in Nodes
  BY DEF IInv, TypeOK
<1> DEFINE next == query.succ[e.node]
<1>1. next \in Seq(Nodes)
  BY <1>0, QueryFields
<1>2. PICK i \in Fresh(e.node) : o = [node |-> next[i], no |-> counter + i]
  BY DEF Expand
<1>3. i \in 1..Len(next) /\ next[i] \notin Known
  BY <1>1, <1>2 DEF Fresh
<1>4. next[i] \in Children(query, e.node)
  BY <1>1, <1>3 DEF Children
<1>5. counter' = counter + Len(next) + 1
  BY DEF Expand
<1>6. /\ next[i] \in Nodes /\ Rank(e.node) <= Rank(next[i])
      /\ query.moves[next[i]] = query.moves[e.node] + 1
  BY <1>0, <1>4, RankFacts, KeyGrows
<1>7. o.node = next[i] /\ o.no = counter + i
  BY <1>2
<1> HIDE DEF next
<1> QED
  BY <1>0, <1>1, <1>3, <1>4, <1>5, <1>6, <1>7

\* Every successor that was not known is pushed, and once.
LEMMA AllNewArePushed ==
  ASSUME IInv, NEW e \in frontier, Expand(e)
  PROVE  /\ \A c \in Children(query, e.node) \ Known :
              \E o \in frontier' \ (frontier \ {e}) : o.node = c
         /\ \A a, b \in frontier' \ (frontier \ {e}) :
              a.node = b.node \/ a.no = b.no => a = b
<1>0. query \in Queries /\ counter \in Nat /\ e.node \in Nodes /\ frontier \subseteq [node : Nodes, no : Nat]
  BY DEF IInv, TypeOK
<1> DEFINE next == query.succ[e.node]
           push == {[node |-> next[i], no |-> counter + i] : i \in Fresh(e.node)}
<1>1. next \in Seq(Nodes) /\ DOMAIN next = 1..Len(next) /\ Len(next) \in Nat
  BY <1>0, QueryFields
<1>2. frontier' = (frontier \ {e}) \cup push
  BY DEF Expand
<1>3. ASSUME NEW c \in Children(query, e.node) \ Known
      PROVE  \E i \in Fresh(e.node) : next[i] = c
  <2> DEFINE At == {i \in 1..Len(next) : next[i] = c}
  <2>1. At # {} /\ At \subseteq Nat
    BY <1>1, <1>3 DEF Children
  <2>2. PICK i \in At : \A k \in At : i <= k
    BY <2>1, LeastOf
  <2>3. i \in Fresh(e.node)
    BY <1>1, <1>3, <2>2 DEF Fresh
  <2> QED
    BY <2>2, <2>3
<1>4. ASSUME NEW c \in Children(query, e.node) \ Known
      PROVE  \E o \in frontier' \ (frontier \ {e}) : o.node = c
  <2>1. PICK i \in Fresh(e.node) : next[i] = c
    BY <1>3
  <2>2. [node |-> next[i], no |-> counter + i] \in push
    OBVIOUS
  <2>3. \A o \in frontier \ {e} : o.node \in Known
    BY DEF IInv, Sound, InFrontier
  <2> QED
    BY <1>2, <2>1, <2>2, <2>3
<1>5. ASSUME NEW i \in Fresh(e.node), NEW k \in Fresh(e.node),
             next[i] = next[k] \/ counter + i = counter + k
      PROVE  i = k
  <2>1. i \in 1..Len(next) /\ k \in 1..Len(next)
    BY <1>1 DEF Fresh
  <2>2. CASE next[i] = next[k]
    <3>1. ~(i < k) /\ ~(k < i)
      BY <1>1, <2>1, <2>2 DEF Fresh
    <3> QED
      BY <1>1, <2>1, <3>1
  <2>3. CASE counter + i = counter + k
    BY <1>0, <1>1, <2>1, <2>3
  <2> QED
    BY <1>5, <2>2, <2>3
<1>6. ASSUME NEW a \in push, NEW b \in push, a.node = b.node \/ a.no = b.no
      PROVE  a = b
  <2>1. PICK i \in Fresh(e.node) : a = [node |-> next[i], no |-> counter + i]
    OBVIOUS
  <2>2. PICK k \in Fresh(e.node) : b = [node |-> next[k], no |-> counter + k]
    OBVIOUS
  <2>3. i = k
    BY <1>5, <1>6, <2>1, <2>2
  <2> QED
    BY <2>1, <2>2, <2>3
<1> QED
  BY <1>2, <1>4, <1>6
\* Expanding a state.
LEMMA ExpandKeeps ==
  ASSUME IInv, NEW e \in frontier, Expand(e)
  PROVE  IInv'
<1> DEFINE rest == frontier \ {e}
           new  == frontier' \ (frontier \ {e})
<1>0. /\ Pop(e) /\ e.node \notin query.goals
      /\ UNCHANGED <<query, goals, truncated, pc>>
      /\ rest \subseteq frontier'
      /\ expanded' = expanded + 1
      /\ counter' = counter + Len(query.succ[e.node]) + 1
      /\ parent' = [n \in Known \cup Children(query, e.node) |->
                      IF n \in Known THEN parent[n] ELSE e.node]
  BY DEF Expand
<1>1. /\ query \in Queries /\ counter \in Nat /\ expanded \in Nat /\ e.node \in Nodes
      /\ Known \subseteq Nodes /\ parent \in [Known -> Known \cup {NoNode}]
  BY DEF IInv, TypeOK
<1>2. /\ Known' = Known \cup Children(query, e.node)
      /\ \A n \in Known : parent'[n] = parent[n]
      /\ \A n \in Known' \ Known : parent'[n] = e.node
  BY <1>0 DEF Known
<1>3. /\ e.node \in Known /\ finalized' = finalized \cup {e.node} /\ finalized' \subseteq Nodes
      /\ finalized' \subseteq Known
      /\ \A o \in rest : o.node \in Known /\ o.node \notin finalized'
      /\ \A n \in Known : n \in finalized' \/ \E o \in rest : o.node = n
      /\ \A n \in finalized' : Rank(n) <= Rank(e.node)
      /\ \A n \in finalized', o \in rest : Rank(n) <= Rank(o.node)
  <2>1. finalized \subseteq Known
    BY DEF IInv, Sound
  <2> QED
    BY <1>0, <2>1, PopKeeps
<1>4. \A o \in new : /\ o.node \in Nodes /\ o.node \in Children(query, e.node) /\ o.node \notin Known
                     /\ o.no \in Nat /\ counter < o.no /\ o.no < counter'
                     /\ Rank(e.node) <= Rank(o.node)
                     /\ query.moves[o.node] = query.moves[e.node] + 1
  BY PushedAreNew
<1>5. /\ \A c \in Children(query, e.node) \ Known : \E o \in new : o.node = c
      /\ \A a, b \in new : a.node = b.node \/ a.no = b.no => a = b
  BY AllNewArePushed
<1>6. \A o \in frontier' : o \in rest \/ o \in new
  OBVIOUS
<1>7. \A o \in rest : o \in frontier /\ o.node \in Nodes /\ o.no \in Nat /\ o.no < counter
  BY DEF IInv, TypeOK, LoopInv, Numbered
<1>8. Len(query.succ[e.node]) \in Nat /\ counter' \in Nat /\ counter < counter'
  <2>1. query.succ[e.node] \in Seq(Nodes)
    BY <1>1, QueryFields
  <2>2. Len(query.succ[e.node]) \in Nat
    BY <2>1
  <2> QED
    BY <1>0, <1>1, <2>2
<1>9. (\A n : Rank(n)' = Rank(n)) /\ (\A n : Merit(n)' = Merit(n))
  BY <1>0, SameQuery
<1>10. TypeOK'
  <2>1. frontier' \subseteq [node : Nodes, no : Nat]
    <3>1. new \subseteq [node : Nodes, no : Nat]
      <4> SUFFICES ASSUME NEW o \in new
                   PROVE  o \in [node : Nodes, no : Nat]
        OBVIOUS
      <4>1. \E i \in Fresh(e.node) : o = [node |-> query.succ[e.node][i], no |-> counter + i]
        BY DEF Expand
      <4> QED
        BY <1>4, <4>1
    <3>2. rest \subseteq [node : Nodes, no : Nat]
      BY DEF IInv, TypeOK
    <3> QED
      BY <3>1, <3>2
  <2>2. Known' \subseteq Nodes
    BY <1>1, <1>2, QueryFields
  <2>3. parent' \in [Known' -> Known' \cup {NoNode}]
    BY <1>0, <1>1, <1>2, <1>3
  <2> QED
    BY <1>0, <1>1, <1>3, <1>8, <2>1, <2>2, <2>3 DEF IInv, TypeOK
<1>11. Sound'
  <2>1. \A o \in frontier' : o.node \in Known' /\ o.node \notin finalized'
    BY <1>2, <1>3, <1>4, <1>6
  <2>2. \A n \in Known' : n \in finalized' \/ \E o \in frontier' : o.node = n
    BY <1>0, <1>2, <1>3, <1>5
  <2>3. finalized' \subseteq Known'
    BY <1>2, <1>3
  <2>4. (InFrontier \cup finalized)' = Known' /\ (InFrontier \cap finalized)' = {}
    BY <2>1, <2>2, <2>3 DEF InFrontier
  <2>5. \A a, b \in frontier' : a.node = b.node => a = b
    BY <1>3, <1>4, <1>5, <1>6 DEF IInv, Sound
  <2>6. \A n \in Known' \ {query.start} :
          parent'[n] \in finalized' /\ n \in Children(query, parent'[n])
    BY <1>2, <1>3 DEF IInv, Sound
  <2>7. query.start \in Known'
    BY <1>2 DEF IInv, Sound
  <2>8. (\A n \in Known \ {query.start} :
           parent[n] \in finalized /\ n \in Children(query, parent[n]))'
    BY <1>0, <2>6, ZenonT(40) DEF Children
  <2> QED
    BY <1>0, <2>4, <2>5, <2>7, <2>8 DEF Sound
<1>12. InOrder'
  <2>1. ASSUME NEW n \in finalized', NEW o \in new
        PROVE  Rank(n) <= Rank(o.node)
    <3>1. Rank(n) \in Nat /\ Rank(e.node) \in Nat /\ Rank(o.node) \in Nat
      BY <1>1, <1>3, <1>4, RankFacts
    <3>2. Rank(n) <= Rank(e.node) /\ Rank(e.node) <= Rank(o.node)
      BY <1>3, <1>4
    <3> QED
      BY <3>1, <3>2
  <2> QED
    BY <1>3, <1>6, <1>9, <2>1 DEF InOrder, InFrontier
<1>13. Numbered'
  <2>1. \A a \in frontier' : a.no < counter'
    BY <1>1, <1>4, <1>6, <1>7, <1>8
  <2>2. \A a, b \in rest : a.no = b.no => a = b
    BY DEF IInv, LoopInv, Numbered
  <2>3. \A a \in rest, b \in new : a.no # b.no
    BY <1>1, <1>4, <1>7
  <2> QED
    BY <1>5, <1>6, <2>1, <2>2, <2>3 DEF Numbered
<1>14. Queued'
  <2> SUFFICES ASSUME query.algorithm = "BFS", NEW a \in frontier', NEW b \in frontier'
               PROVE  /\ a.no < b.no => query.moves[a.node] <= query.moves[b.node]
                      /\ query.moves[b.node] <= query.moves[a.node] + 1
    BY <1>0 DEF Queued
  <2>1. \A n \in Nodes : query.moves[n] \in Nat
    BY <1>1, QueryFields
  <2>2. \A o \in rest : /\ query.moves[e.node] <= query.moves[o.node]
                        /\ query.moves[o.node] <= query.moves[e.node] + 1
    <3>1. \A o \in rest : Rank(e.node) <= Rank(o.node)
      BY <1>3
    <3> QED
      BY <1>7, <3>1 DEF IInv, LoopInv, Queued, Rank
  <2>3. CASE a \in rest /\ b \in rest
    BY <2>3 DEF IInv, LoopInv, Queued
  <2>4. CASE a \in rest /\ b \in new
    BY <1>1, <1>4, <1>7, <2>1, <2>2, <2>4
  <2>5. CASE a \in new /\ b \in rest
    BY <1>1, <1>4, <1>7, <2>1, <2>2, <2>5
  <2>6. CASE a \in new /\ b \in new
    BY <1>1, <1>4, <2>1, <2>6
  <2> QED
    BY <1>6, <2>3, <2>4, <2>5, <2>6
<1>15. Followed'
  BY <1>0, <1>2, <1>3, <1>9, PopKeeps DEF IInv, LoopInv, Followed, Children
<1>16. GoalsKept'
  BY <1>0, <1>3, <1>9 DEF IInv, LoopInv, GoalsKept, Collected
<1>17. Outcome'
  <2>1. goals \in Seq(Nodes) /\ Len(goals) < query.k
    BY <1>0, PopKeeps DEF IInv, TypeOK
  <2>2. query.k = 1 => goals = <<>>
    <3>1. Len(goals) \in Nat /\ (Len(goals) = 0 => goals = <<>>)
      BY <2>1
    <3> QED
      BY <2>1, <3>1
  <2>3. pc = "loop"
    BY <1>0, PopKeeps
  <2> QED
    BY <1>0, <2>2, <2>3 DEF IInv, LoopInv, Outcome
<1> QED
  BY <1>0, <1>1, <1>10, <1>11, <1>12, <1>13, <1>14, <1>15, <1>16, <1>17 DEF IInv, LoopInv
-----------------------------------------------------------------------------
(* Theorems *)

\* The inductive invariant holds in every state of every search.
THEOREM Invariance == Spec => []IInv
<1>1. Init => IInv
  BY Starts
<1>2. IInv /\ [Next]_vars => IInv'
  <2> SUFFICES ASSUME IInv, [Next]_vars
               PROVE  IInv'
    OBVIOUS
  <2>1. CASE OutOfBudget \/ Exhausted \/ Shortlist \/ UNCHANGED vars
    BY <2>1, EndKeeps
  <2>2. ASSUME NEW e \in frontier, Arrive(e)
        PROVE  IInv'
    BY <2>2, ArriveKeeps
  <2>3. ASSUME NEW e \in frontier, GiveUp(e)
        PROVE  IInv'
    BY <2>3, GiveUpKeeps
  <2>4. ASSUME NEW e \in frontier, Expand(e)
        PROVE  IInv'
    BY <2>4, ExpandKeeps
  <2> QED
    BY <2>1, <2>2, <2>3, <2>4 DEF Next
<1> QED
  BY <1>1, <1>2, PTL DEF Spec

\* No state waits twice or after it was expanded, and the parents of a known
\* state are a path from the start, in any search.
THEOREM SearchSound == Spec => []Sound
<1>1. IInv => Sound
  BY DEF IInv
<1> QED
  BY <1>1, Invariance, PTL

\* States leave the frontier in order: what waits never ranks below what has
\* been expanded.
THEOREM ExpandsInOrder == Spec => []InOrder
<1>1. IInv => InOrder
  BY DEF IInv
<1> QED
  BY <1>1, Invariance, PTL

\* What the loops keep between two pops.
THEOREM LoopKept == Spec => []LoopInv
<1>1. IInv => LoopInv
  BY DEF IInv
<1> QED
  BY <1>1, Invariance, PTL

\* The goals found are the best that can be reached, in order, for every graph
\* with a consistent estimate, every k and every budget.
THEOREM BestAreFound == Spec => []BestFound
<1>1. IInv => BestFound
  <2> SUFFICES ASSUME IInv, NEW g \in Reachable \cap query.goals
               PROVE  \/ \E i \in DOMAIN goals :
                           query.sig[goals[i]] = query.sig[g] /\ Merit(goals[i]) <= Merit(g)
                      \/ \A i \in DOMAIN goals : Merit(goals[i]) <= Merit(g)
    BY DEF BestFound, IInv, LoopInv, GoalsKept
  <2>1. CASE g \in finalized
    BY <2>1 DEF IInv, LoopInv, GoalsKept
  <2>2. CASE \A m \in finalized : Rank(m) <= Rank(g)
    <3>1. \A i \in DOMAIN goals : goals[i] \in finalized \cap query.goals
      BY DEF IInv, LoopInv, GoalsKept, Collected
    <3>2. \A n \in query.goals : Rank(n) = Merit(n)
      BY RankFacts DEF IInv
    <3> QED
      BY <2>2, <3>1, <3>2
  <2> QED
    BY <2>1, <2>2, Frontline
<1> QED
  BY <1>1, Invariance, PTL

\* A search that ends short of goals without saying that it was cut short has
\* seen everything that it may visit.
THEOREM NothingIsMissed == Spec => []NothingMissed
<1>1. IInv => NothingMissed
  <2> SUFFICES ASSUME IInv, pc # "loop", ~truncated, Len(goals) < query.k,
                      NEW g \in Reachable \cap query.goals
               PROVE  query.sig[g] \in Signatures
    BY DEF NothingMissed
  <2>1. Len(goals) \in Nat /\ query.k \in Nat
    BY QueryFields DEF IInv, TypeOK
  <2>2. frontier = {}
    BY <2>1 DEF IInv, LoopInv, Outcome
  <2>3. finalized = Known
    BY <2>2 DEF IInv, Sound, InFrontier
  <2>4. Closed(finalized)
    BY <2>3 DEF IInv, LoopInv, Followed, Closed
  <2>5. query.start \in finalized /\ finalized \in SUBSET Nodes
    BY <2>3 DEF IInv, Sound, TypeOK
  <2>6. g \in finalized
    BY <2>4, <2>5 DEF Reachable
  <2>7. \E i \in DOMAIN goals : query.sig[goals[i]] = query.sig[g]
    BY <2>6 DEF IInv, LoopInv, GoalsKept
  <2> QED
    BY <2>7 DEF Signatures, Collected
<1> QED
  BY <1>1, Invariance, PTL

\* A* expands only states cheaper than its goal, uniform-cost search all of
\* those: the first of the two costs no more expansions than the second.
THEOREM AStarExpandsLess == Spec => []NoMoreThanUCS
<1>1. IInv => NoMoreThanUCS
  <2> SUFFICES ASSUME IInv, goals # <<>>, query.k = 1
               PROVE  /\ query.algorithm = "A*" =>
                           \A n \in finalized \ query.goals : query.cost[n] < query.cost[goals[1]]
                      /\ query.algorithm = "UCS" =>
                           \A n \in Reachable \ query.goals :
                             query.cost[n] < query.cost[goals[1]] => n \in finalized
    BY DEF NoMoreThanUCS
  <2>1. query \in Queries /\ goals \in Seq(Nodes) /\ finalized \subseteq Nodes
    BY DEF IInv, TypeOK
  <2>2. 1 \in DOMAIN goals
    BY <2>1
  <2>3. goals[1] \in finalized \cap query.goals
    BY <2>2 DEF IInv, LoopInv, GoalsKept, Collected
  <2>4. \A n \in finalized : Rank(n) <= Rank(goals[1])
    BY DEF IInv, LoopInv, Outcome
  <2>5. \A n \in Nodes : query.cost[n] \in Nat /\ query.h[n] \in Nat
    BY <2>1, QueryFields
  <2>6. ASSUME query.algorithm = "A*", NEW n \in finalized \ query.goals
        PROVE  query.cost[n] < query.cost[goals[1]]
    <3>1. Key(query, n) <= query.cost[goals[1]]
      BY <2>1, <2>3, <2>4, <2>6, KeyOfGoal DEF Rank
    <3>2. n \in Nodes /\ goals[1] \in Nodes /\ Infinite \in Nat
      BY <2>1, <2>3, SearchAssumption
    <3>3. query.h[n] # Infinite => Key(query, n) = query.cost[n] + query.h[n]
      BY <2>6 DEF Key
    <3>4. query.h[n] = Infinite => Key(query, n) = Infinite
      BY <2>6 DEF Key
    <3>5. query.h[n] # 0 /\ query.cost[goals[1]] < Infinite
      BY <2>1, <2>6, <3>2, SearchAssumption
    <3>6. query.cost[n] \in Nat /\ query.h[n] \in Nat /\ query.cost[goals[1]] \in Nat
      BY <2>5, <3>2
    <3>7. query.h[n] # Infinite
      BY <3>1, <3>2, <3>4, <3>5, <3>6
    <3> QED
      BY <3>1, <3>3, <3>5, <3>6, <3>7
  <2>7. ASSUME query.algorithm = "UCS", NEW n \in Reachable \ query.goals,
               query.cost[n] < query.cost[goals[1]]
        PROVE  n \in finalized
    <3>1. n \in Nodes /\ goals[1] \in Nodes
      BY <2>1, <2>3 DEF Reachable
    <3>2. Rank(n) = query.cost[n] /\ Rank(goals[1]) = query.cost[goals[1]]
      BY <2>7 DEF Rank, Key
    <3>3. query.cost[n] \in Nat /\ query.cost[goals[1]] \in Nat
      BY <2>5, <3>1
    <3>4. ~(Rank(goals[1]) <= Rank(n))
      BY <2>7, <3>2, <3>3
    <3> QED
      BY <2>3, <2>7, <3>4, Frontline
  <2> QED
    BY <2>6, <2>7
<1> QED
  BY <1>1, Invariance, PTL
=============================================================================
