SPECIFICATION Spec
CONSTANTS
  TicksPerBar = 6
  Bars = 2
  BlockTicks = 2
  MaxClockCommands = 3
  Pattern = {0, 1}
  Capacity = 4
  PageSize = 2
  ChainCap = 2
  TicksPerStep = 3
  Den = 2
  MaxMicro = 1
  InitBank <- MCInitBank
  Length = {2}
  PageLoop <- MCPageLoop
  Speed = {3}
  Micro <- MCMicro
  GateLength = {12}
  Swing = {1}
  Grid = {6}
  EditStep = {1}
  MaxCommands = 0
INVARIANT PauseFiresOnce
