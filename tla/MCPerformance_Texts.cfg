SPECIFICATION Spec
CONSTANTS
  NParams = 2
  MaxValue = 1
  Track <- Track2
  Pattern <- Pattern2
  Kit <- Kit2
  SavedKits <- Kits
  SavedBindings <- Bindings
  Turns <- NaNAndOne
  CmdCapacity = 1
  BusCapacity = 1
  ApplyChunk = 1
  MaxEvents = 3
  None = None
\* The code keeps none of these; TLC shows it for one at a time.
PROPERTY PerformSkips
\* INVARIANT ReloadInPlace
