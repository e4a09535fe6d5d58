SPECIFICATION Spec
CONSTANTS
  Players = {alice, bob}
  MaxMoves = 3
  None = None
INVARIANTS
  MovesAreRecorded
CHECK_DEADLOCK FALSE
