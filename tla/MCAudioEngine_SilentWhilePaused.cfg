SPECIFICATION EngineSpec
CONSTANTS
  MaxPatches = 3
  Nobody = Nobody
INVARIANT SilentWhilePaused
CHECK_DEADLOCK FALSE
