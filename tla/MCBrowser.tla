------------------------------ MODULE MCBrowser ------------------------------
\* A passenger's session: a search and two journeys booked and cancelled; or
\* two searches with a booking, or with the explanation's tabs, and a mishap.
EXTENDS Browser, TLC

CONSTANTS q1, q2, m1, m2

BestOf == q1 :> m1 @@ q2 :> m2

SessionsOf == {[searches |-> 1, reviews |-> 2, tabs |-> 0, mishaps |-> 0],
               [searches |-> 2, reviews |-> 1, tabs |-> 0, mishaps |-> 1],
               [searches |-> 2, reviews |-> 0, tabs |-> 2, mishaps |-> 1]}
=============================================================================
