SPECIFICATION FairSpec
CONSTANTS
  s1 = s1
  s2 = s2
  t1 = t1
  t2 = t2
  u1 = u1
  x1 = x1
  x2 = x2
  often = often
  never = never
  home = home
  away = away
  Schedules = {s1, s2}
  Ticks = {t1}
  Editors = {u1}
  Senders = {x1}
  Foreign = {}
  NoSender = NoSender
  Timings = {often}
  Zones = {home}
  Home = home
  Occurs <- MCOccurs
  Null = Null
  Keep = Keep
  MaxTime = 2
  BatchSize = 1
  MaxUpsets = 1
CHECK_DEADLOCK FALSE
PROPERTY
  DueIsServed
