SPECIFICATION Spec
CONSTANTS
  NumSlots = 5
  LoopBreak = {3, 4}
\* The code keeps none of these; TLC shows it for one at a time:
\* OneBlockDelay for FanOut and for NoCycle, NoStaleFeedback for OnAndOff.
  Graphs <- FanOut
\* Graphs <- NoCycle
\* Graphs <- OnAndOff
  Old = 3
  Silence = Silence
  NotRead = NotRead
INVARIANT OneBlockDelay
\* INVARIANT NoStaleFeedback
