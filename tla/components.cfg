SPECIFICATION MCSpec
CONSTANTS
  Callers = {"c1", "c2", "c3", "c4"}
  MaxRequests = 2
  Window = 2
  Slack = 1
  Horizon = 6
  Sends = {"s1", "s2"}
  Names = {"resend", "zapmail", "smtp", "google", "other"}
  MaxTries = 3
  Threshold = 5
  u1 = u1
  u2 = u2
  i1 = i1
  i2 = i2
  Users = {u1, u2}
  Ids = {i1, i2}
  OwnerOf <- MCOwnerOf
  Keys = {"k1", "k2"}
  Requests = {"r1", "r2"}
  Nobody = Nobody
  Gone = Gone
  Never = Never
  Null = Null
  Unnamed = Unnamed
  Empty = Empty
  None = None
CHECK_DEADLOCK FALSE
INVARIANTS
  ComponentsTypeOK
  WindowBounded
  StarvationBounded
  OkIsTraceable
  ForeignRowsLookAbsent
  DeletedOnce
  ServerErrorsHaveCauses
  CreatesAreRefused
  NextRunCorrect
  NextRunOffByShift
  LostLeadsExplained
  PacingKept
  WarmupFair
  ShuffleUniform
  DashboardAgrees
  ReplyRateBounded
  RedeliveryAnswered
  GenuineTaken
PROPERTIES
  OpensOnlyOnStreak
  SendsAnswered
  ImplementsMailContract
  OwnRowsOnly
