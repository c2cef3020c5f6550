SPECIFICATION Spec
CONSTANTS
  c1 = c1
  c2 = c2
  u1 = u1
  u2 = u2
  a = a
  b = b
  Clients <- TwoClients
  Users <- TwoUsers
  Channels <- OneChannel
  SendCap = 1
  Tokens <- AnyToken
  NoUser = NoUser
  Torn = Torn
  None = None
  BadToken = BadToken
  ShortToken = ShortToken
  Racy = TRUE
SYMMETRY Interchangeable
INVARIANTS
  NeverAnothersName
PROPERTIES
  OnlyKnownPanics
  WedgedForever
CHECK_DEADLOCK FALSE
