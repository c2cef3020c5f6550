SPECIFICATION Spec
CONSTANTS
  m1 = m1
  m2 = m2
  u1 = u1
  u2 = u2
  a = a
  o1 = o1
  o2 = o2
  Messages <- TwoMessages
  Users <- TwoUsers
  Channels <- TwoChannels
  Objects <- TwoObjects
  AuthorOf <- Authors
  ChannelOf <- OneChannel
  CreatedAt <- Times
  Widths <- OneOrTwo
  Joins <- Both
  Requests <- AskedByU1
  NoAuthor = NoAuthor
  NoObject = NoObject
  NoUser = NoUser
  NoChannel = NoChannel
  NoMessage = NoMessage
  EmptyName = EmptyName
  MaxRetries = 1
  PageSize = 1
INVARIANTS
  TypeOK
  OneDocument
  AuthorStaysMember
PROPERTIES
  UndisturbedDecision
  AdmittedAsMember
  ListingIsSound
  FreshListing
  StatsCountMessages
  KeepsPromise
  HubReturns
