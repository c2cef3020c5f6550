SPECIFICATION Spec
CONSTANTS
  c1 = c1
  c2 = c2
  u1 = u1
  u2 = u2
  a = a
  b = b
  Clients <- TwoClients
  Users <- OneUser
  Channels <- OneChannel
  SendCap = 1
  Tokens <- GoodAndBad
  NoUser = NoUser
  Torn = Torn
  None = None
  BadToken = BadToken
  ShortToken = ShortToken
  Racy = TRUE
SYMMETRY Interchangeable
INVARIANTS
  AuthorIsSender
CHECK_DEADLOCK FALSE
