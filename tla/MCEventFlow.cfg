SPECIFICATION FlowSpec
CONSTANTS
  NumSlots = 3
  Routes <- MCRoutes
  BlockSize = 2
  Offset = {1, 2, 5}
  Priority = {2}
  MaxBurst = 2
  MaxStaged = 1
  MaxEvents = 3
INVARIANTS
  EventsConserved
  NeverLate
