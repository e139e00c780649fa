SPECIFICATION Spec
CONSTANTS
  Coaches <- MCCoaches
  Runs = {"r1"}
  RunOf <- MCRunOf
  Seats <- MCSeats
  LastStop = 2
  Seed <- MCSeed
  Coach = "S1"
  Trips <- MCTrips
  OldRows = 2
  MaxRows = 4
INVARIANTS NeverOversold
