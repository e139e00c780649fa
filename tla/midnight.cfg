SPECIFICATION Spec
CONSTANTS
  Trains <- MCTrains
  Halts <- NightHalts
  RunsOn <- MCRunsOn
  Rakes <- MCRakes
  ClassOf <- MCClassOf
  Queue <- MCQueue
  FirstDay = 0
  LastDay = 0
  Coaches <- MCCoaches
  Runs <- MCRuns
  RunOf <- MCRunOf
  Seats = {1, 2}
  LastStop = 4
  Seed <- MCSeed
  Region = {"P", "Q", "S"}
  Alphabet <- MCAlphabet
  MinSeatChange = 5
  MinTrainChange = 20
  MaxJourneyDays = 4
  MaxShortWalk = 1
  Queries <- NightQueries
  Catalogue <- MCCatalogue
  Draws <- MCDraws
  OthersLegs <- NoLegs
  MaxCommits = 1
INVARIANT TimesAddUp
