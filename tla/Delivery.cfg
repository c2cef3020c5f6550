SPECIFICATION Spec
CONSTANTS
  c1 = c1
  c2 = c2
  u1 = u1
  u2 = u2
  Clients <- TwoClients
  Logins <- OneOrTwoUsers
  SendCap = 1
  MayFail <- Breaking
  MaxRequests = 3
  MaxOf <- MostOfOne
  OnePerFrame = FALSE
INVARIANTS
  TypeOK
  NothingLost
  ReplyOrder
  ReplyBeforePush
  PushOrder
PROPERTIES
  PushesAsTold
  EveryFrameAnswered
CHECK_DEADLOCK FALSE
