SPECIFICATION Spec
CONSTANTS
  Id = {1, 2, 3}
  FirstAuto = 3
  LoopBreak = {2, 3}
  Device = {}
  Port <- MCPort
  Edge <- MCEdge
  PortType = {"cv"}
  Outputs <- MCOutputs
  Inputs <- MCInputs
  Keystep = 2
  KeystepPort = 1
  EventsIn = 2
  Sequencers = {1}
  NoTarget = NoTarget
  MaxEdges = 4
CHECK_DEADLOCK FALSE
INVARIANT NoCycleHasTwoBreaks
