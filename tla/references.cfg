\* Two buffers in circulation behind a tee, in each kind of memory.
CONSTANTS
  Buffers = {b1, b2}
  Branches = {k1, k2}
  MaxMade = 3
  MaxMapFailures = 1

SPECIFICATION WrapperSpec

SYMMETRY Symmetric

INVARIANTS
  BuffersCounted
  TimesAreKept

\* The frames are bounded.
CHECK_DEADLOCK FALSE
