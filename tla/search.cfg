SPECIFICATION FairSpec
CONSTANTS
  Nodes <- MCNodes
  NoNode = NoNode
  Queries <- MCQueries
  Infinite = 99
  MaxExpanded = 4
  EnoughExpanded = 3
CHECK_DEADLOCK FALSE
INVARIANTS Sound InOrder BestFound NothingMissed NoMoreThanUCS
PROPERTIES Ends
