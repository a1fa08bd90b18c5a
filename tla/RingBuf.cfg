CONSTANTS
  Size = 4
  Byte = {a, b}
SPECIFICATION Spec
INVARIANTS TypeOK NoSlotRace
PROPERTIES AvailableIsThere ImplementsQueue
