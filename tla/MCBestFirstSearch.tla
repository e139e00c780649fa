-------------------------- MODULE MCBestFirstSearch --------------------------
(***************************************************************************)
(* Graphs of five states: trees, one with two ways to a state, and one     *)
(* that does not reach them all.                                           *)
(***************************************************************************)
EXTENDS BestFirstSearch

MCNodes == 0..4

Graph(a, b, c) ==
  [n \in MCNodes |-> CASE n = 0 -> a [] n = 1 -> b [] n = 2 -> c [] OTHER -> <<>>]

\* Successors and depths.
Shapes ==
  { [succ |-> Graph(<<1, 2>>, <<3>>, <<4>>),    moves |-> <<1, 1, 2, 2>>],
    [succ |-> Graph(<<1, 2>>, <<3, 4>>, <<>>),  moves |-> <<1, 1, 2, 2>>],
    [succ |-> Graph(<<1, 2>>, <<3>>, <<3, 4>>), moves |-> <<1, 1, 2, 2>>],
    [succ |-> Graph(<<1, 2, 3>>, <<>>, <<4>>),  moves |-> <<1, 1, 1, 2>>],
    [succ |-> Graph(<<1>>, <<2, 3>>, <<4>>),    moves |-> <<1, 2, 2, 3>>],
    [succ |-> Graph(<<1>>, <<2, 3>>, <<>>),     moves |-> <<1, 2, 2, 3>>] }

From0(s) == [n \in MCNodes |-> IF n = 0 THEN 0 ELSE s[n]]

Timetables ==
  {t \in [shape : Shapes, cost : {From0(s) : s \in [1..4 -> 1..3]}] :
     \A n \in MCNodes : \A i \in DOMAIN t.shape.succ[n] :
       t.cost[n] < t.cost[t.shape.succ[n][i]]}

\* Exact distances, and the least that tells goals from other states.
Exact(succ, cost, arrived) ==
  LET ways[n \in MCNodes] ==
        IF n \in arrived THEN {0}
        ELSE UNION {{d + cost[succ[n][i]] - cost[n] : d \in ways[succ[n][i]]} :
                      i \in DOMAIN succ[n]}
  IN  [n \in MCNodes |-> IF ways[n] = {} THEN Infinite
                         ELSE CHOOSE d \in ways[n] : \A e \in ways[n] : d <= e]
Weak(arrived) == [n \in MCNodes |-> IF n \in arrived THEN 0 ELSE 1]

Own    == [n \in MCNodes |-> n]
Shared == [n \in MCNodes |-> IF n > 2 THEN 3 ELSE n]

Searches ==
  { [algorithm |-> "A*",  mode |-> "plain",           k |-> 1],
    [algorithm |-> "A*",  mode |-> "same_train",      k |-> 2],
    [algorithm |-> "A*",  mode |-> "different_train", k |-> 2],
    [algorithm |-> "UCS", mode |-> "plain",           k |-> 1],
    [algorithm |-> "BFS", mode |-> "plain",           k |-> 1] }

Arrivals == {{}, {3}, {4}, {1, 4}, {2, 3}, {3, 4}, {1, 3, 4}, {2, 3, 4}}

Estimate(exact, t, arrived) ==
  IF exact THEN Exact(t.shape.succ, t.cost, arrived) ELSE Weak(arrived)

MCQueries ==
  { [algorithm |-> search.algorithm, mode |-> search.mode, k |-> search.k, start |-> 0,
     succ |-> t.shape.succ, cost |-> t.cost, moves |-> From0(t.shape.moves),
     h |-> Estimate(exact, t, arrived), goals |-> arrived, sig |-> sig] :
      search \in Searches, t \in Timetables, arrived \in Arrivals,
      exact \in BOOLEAN, sig \in {Own, Shared} }
=============================================================================
