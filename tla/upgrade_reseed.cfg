SPECIFICATION Spec
CONSTANTS
  Programs <- MCPrograms
  Runs = {r1, r2}
  Fields = 2
  EnvProfile <- MCEnvProfile
PROPERTIES SeedKept
