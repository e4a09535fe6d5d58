SPECIFICATION Spec
CONSTANTS
  s1 = s1
  s2 = s2
  t1 = t1
  Loop = Loop
  None = None
  Sessions = {s1, s2}
  Timers = {t1}
  Watches <- OneTimer
  Rooms = {r1}
  Group = 2
INVARIANTS
  TypeOK
  NoCircularWait
  BroadcastReachesRoom
CHECK_DEADLOCK FALSE
