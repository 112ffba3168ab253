SPECIFICATION Spec
CONSTANTS
  i1 = i1
  i2 = i2
  i3 = i3
  i4 = i4
  Images <- MCImages
  Configs <- SomeConfigs
  Cuts <- SomeCuts
  Envs <- SomeEnvs
  MaxSaves = 1
  MaxRefused = 2
  Faults <- EveryCall
SYMMETRY Alike
INVARIANTS
  SemaphoresInTurn
  RunsCurrent
  LossBounded
  StampMeansRead
PROPERTIES
  ProfileKept
CHECK_DEADLOCK FALSE
