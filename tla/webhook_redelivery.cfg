SPECIFICATION Spec
CONSTANTS
  l1 = l1
  l2 = l2
  a1 = a1
  own = own
  h1 = h1
  h2 = h2
  i1 = i1
  i2 = i2
  Leads = {l1}
  Addresses = {a1, own}
  Ids = {i1, i2}
  NoId = NoId
  Events <- Reports
  Handlers = {h1}
  Nobody = Nobody
  Never = Never
  MaxDeliveries = 3
  MaxSends = 0
  MaxFaults = 0
CHECK_DEADLOCK FALSE
PROPERTY
  RedeliveryChangesNothing
