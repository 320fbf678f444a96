SPECIFICATION FileSpec
CONSTANTS
  Id = {1, 2, 3}
  FirstAuto = 3
  LoopBreak = {3}
  Device = {2}
  Port <- MCPort
  Edge <- MCEdge
  PortType = {"cv"}
  Outputs <- MCOutputs
  Inputs <- MCInputs
  Keystep = 2
  KeystepPort = 1
  EventsIn = 2
  Sequencers = {1}
  NoTarget = NoTarget
  MaxEdges = 3
  NoFile = NoFile
INVARIANTS
  NoDangling
  NodesConserved
PROPERTIES
  ReloadKeepsEdges
CHECK_DEADLOCK FALSE
