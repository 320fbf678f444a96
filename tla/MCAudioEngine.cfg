SPECIFICATION EngineFairSpec
CONSTANTS
  MaxPatches = 3
  Nobody = Nobody
INVARIANTS
  ExclusiveUse
  NewestInstalled
PROPERTIES
  ImplementsHandover
  AudioReturns
CHECK_DEADLOCK FALSE
