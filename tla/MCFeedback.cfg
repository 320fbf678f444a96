SPECIFICATION Spec
CONSTANTS
  NumSlots = 5
  LoopBreak = {3, 4}
  Graphs <- OneEach
  Old = 3
  Silence = Silence
  NotRead = NotRead
INVARIANTS
  OneBlockDelay
  SameForAll
