SPECIFICATION FairSpec
CONSTANTS
  c1 = c1
  c2 = c2
  alice = alice
  bob = bob
  None = None
  Conns = {c1, c2}
  Players = {alice, bob}
  Identities <- OneChanges
INVARIANTS
  TypeOK
  EntryEndsWithSession
  OpenIsKnown
  NobodyIsOnTheWayOut
PROPERTIES
  SilentIsClosed
  ClosedIsForgotten
CHECK_DEADLOCK FALSE
