SPECIFICATION Spec
CONSTANTS
  Conns = {c1, c2}
  NoConn = NoConn
  Ids = {i1, i2, i3}
  Journeys = {j1, j2}
  NoJourney = NoJourney
  Coaches <- MCCoaches
  Runs <- MCRuns
  RunOf <- MCRunOf
  Seats <- MCSeats
  LastStop = 2
  Seed <- MCSeed
  StationAt <- MCStationAt
  DepartAt <- MCDepartAt
  ArriveAt <- MCArriveAt
  Sellable <- MCSellables
  FirstDay = 0
  LastDay = 0
  Requests <- MCRequests
  Counts <- MCCounts
  MinSeatChange = 5
  MinTrainChange = 20
  MaxJourneyDays = 4
SYMMETRY Symmetry
INVARIANTS TypeOK SeatExclusive WholeItineraries ChangesCanBeMade NobodyStuck
PROPERTIES HistoryKept ImplementsRegister
