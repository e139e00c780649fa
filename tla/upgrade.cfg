SPECIFICATION StartupSpec
CONSTANTS
  Programs <- MCPrograms
  Runs = {r1, r2}
  Fields = 2
  EnvProfile <- MCEnvProfile
  LastDay = 2
  Network <- MCNetwork
INVARIANTS HistoricKept ReadyWhenOpen FileWhole FreshWhenAlone
