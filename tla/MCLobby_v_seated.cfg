SPECIFICATION Spec
CONSTANTS
  s1 = s1
  s2 = s2
  alice = alice
  bob = bob
  template = template
  tankbattle = tankbattle
  None = None
  Sessions = {s1, s2}
  Players = {alice, bob}
  Identities <- Distinct
  RoomIds = {r1}
  Games = {template, tankbattle}
  TankGames = {tankbattle}
  MinPlayers <- OneEach
  MaxPlayers <- OneOrTwo
INVARIANTS
  MatchedAreSeated
CHECK_DEADLOCK FALSE
