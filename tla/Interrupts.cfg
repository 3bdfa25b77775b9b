CONSTANTS
  CardLines = {9, 10, 11}
  EarlyKeys = FALSE
  MaxBytes = 4
  MaxEvents = 3
SPECIFICATION Spec
INVARIANTS NoPanic NothingLeftInService
PROPERTIES KeysRead CardServed
CHECK_DEADLOCK FALSE
