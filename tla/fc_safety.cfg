CONSTANTS
  MaxBytes = 6
  Avcc = TRUE

SPECIFICATION Spec

INVARIANTS
  InOrder
  WithinMaxLength

PROPERTIES
  StreamSpec

CHECK_DEADLOCK FALSE
