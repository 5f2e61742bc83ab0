\* Displays and contexts of six pipelines whose elements change state in any
\* order, two at a time.
CONSTANTS
  Chains <- MCChains
  MaxChanges = 5
  MaxChanging = 2
  MaxFaults = 1

SPECIFICATION DisplaySpec

INVARIANTS
  DisplaysCounted
  InUseIsAlive
  OneDisplay

\* The changes are bounded, and the elements end finalized.
CHECK_DEADLOCK FALSE
