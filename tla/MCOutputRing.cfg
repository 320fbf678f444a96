SPECIFICATION OutputSpec
CONSTANTS
  BlockSamples = 3
  MaxRequest = 8
  MaxRendered = 40
INVARIANTS
  Gapless
  UnreadKept
CHECK_DEADLOCK FALSE
