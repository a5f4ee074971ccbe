SPECIFICATION Spec
CONSTANTS
  s1 = s1
  s2 = s2
  t1 = t1
  t2 = t2
  u1 = u1
  x1 = x1
  x2 = x2
  often = often
  never = never
  home = home
  away = away
  Schedules = {s1}
  Ticks = {t1}
  Editors = {u1}
  Senders = {x1, x2}
  Foreign = {x2}
  NoSender = NoSender
  Timings = {often, never}
  Zones = {home, away}
  Home = home
  Occurs <- MCOccurs
  Null = Null
  Keep = Keep
  MaxTime = 4
  BatchSize = 1
  MaxUpsets = 0
CHECK_DEADLOCK FALSE
INVARIANT
  DueInUsersZone
