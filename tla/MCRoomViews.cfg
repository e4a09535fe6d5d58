SPECIFICATION Spec
CONSTANTS
  Conns = {c1, c2}
  Players = {alice, bob}
  MaxPlayers = 2
  None = None
SYMMETRY Symmetry
INVARIANTS
  TypeOK
  ListsAgree
CHECK_DEADLOCK FALSE
