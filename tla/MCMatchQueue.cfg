SPECIFICATION FairSpec
CONSTANTS
  template = template
  duel = duel
  None = None
  Players = {alice, bob}
  Names = {template, duel, unknown}
  Games = {template, duel}
  MinPlayers <- MCMin
  MaxPlayers <- MCMax
  MaxTickets = 4
INVARIANTS
  TypeOK
  TicketsConserved
  NoOvertaking
  GroupFits
PROPERTIES
  TickDrains
  ImplementsService
  HeadIsMatched
CHECK_DEADLOCK FALSE
