SPECIFICATION Spec
CONSTANTS
  Value = {a, b}
  Capacity = 4
  Cap = 4
  Uninit = Uninit
INVARIANTS
  NoSlotRace
  UsableCapacity
PROPERTIES
  ImplementsFifo
