SPECIFICATION Spec
CONSTANTS
  c1 = c1
  c2 = c2
  u1 = u1
  u2 = u2
  a = a
  b = b
  Clients <- TwoClients
  Users <- TwoUsers
  Channels <- TwoChannels
  SendCap = 2
  Tokens <- GoodAndBad
  NoUser = NoUser
  Torn = Torn
  None = None
  BadToken = BadToken
  ShortToken = ShortToken
  Racy = FALSE
SYMMETRY Interchangeable
INVARIANTS
  TypeOK
  NoPanic
  SessionsMatchConnections
  MembershipMirrored
  NoGhostMembers
  ChannelsInhabited
  NoLeakedReadLock
  RequestHasSession
  AuthorIsSender
PROPERTIES
  EveryRequestAnswered
CHECK_DEADLOCK FALSE
