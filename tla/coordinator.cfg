SPECIFICATION FairSpec
CONSTANTS
  SamePlans <- MCSame
  DiffPlans <- MCDiff
  Query <- MCQuery
  RunDays <- MCRunDays
  Routes <- MCRoutes
  Located <- MCLocated
  Haversine <- MCHaversine
  Region = {"P", "Q", "R", "U"}
  Rakes <- MCRakes
INVARIANTS TypeOK NothingLost EvidenceFirst FrontCovers SplitsCostMore
PROPERTIES Resolved
