SPECIFICATION Spec
CONSTANTS
  c1 = c1
  c2 = c2
  alice = alice
  bob = bob
  None = None
  Conns = {c1, c2}
  Players = {alice, bob}
  Identities <- Reconnect
INVARIANTS
  OnlineIsFound
CHECK_DEADLOCK FALSE
