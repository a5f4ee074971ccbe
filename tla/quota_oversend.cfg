SPECIFICATION Spec
CONSTANTS
  w1 = w1
  w2 = w2
  s1 = s1
  s2 = s2
  a1 = a1
  l1 = l1
  j1 = j1
  j2 = j2
  Workers = {w1, w2}
  Senders = {s1}
  Addresses = {a1}
  Leads = {l1}
  Jobs = {j1, j2}
  AddressOf <- MCAddressOf
  JobAddress <- MCJobAddress
  JobLead <- MCJobLead
  NoLead = NoLead
  Null = Null
  Limits = {1}
  Attempts = 2
  MaxStalls = 1
  MaxCopies = 1
  Faults = {}
  MaxUpsets = 1
CHECK_DEADLOCK FALSE
INVARIANT
  NeverOverLimit
