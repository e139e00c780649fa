\* The page with its searches, bookings and cancellations.
CONSTANTS
  q1 = q1
  q2 = q2
  m1 = m1
  m2 = m2
  Queries = {q1, q2}
  NoQuery = none
  Modes = {m1, m2}
  Best <- BestOf
  Choices = {1, 2}
  MaxChains = 2
  MaxReviews = 2
  Sessions <- SessionsOf
SPECIFICATION Spec
INVARIANTS
  TypeOK
  BookedAsReviewed
  PageAgrees
  MeasuredOnIt
PROPERTIES
  SearchReturns
  LoadingEnds
CHECK_DEADLOCK FALSE
