SPECIFICATION Spec
CONSTANTS
  l1 = l1
  l2 = l2
  a1 = a1
  own = own
  h1 = h1
  h2 = h2
  i1 = i1
  i2 = i2
  Leads = {l1, l2}
  Addresses = {a1, own}
  Ids = {i1, i2}
  NoId = NoId
  Events <- Mixed
  Handlers = {h1, h2}
  Nobody = Nobody
  Never = Never
  MaxDeliveries = 3
  MaxSends = 1
  MaxFaults = 1
SYMMETRY Symmetry
CHECK_DEADLOCK FALSE
INVARIANTS
  TypeOK
  ReplyRecordedOnce
  RepliedHasMessage
PROPERTIES
  ReplyLostOnlyToBlindWrites
  ImplementsReplyLog
