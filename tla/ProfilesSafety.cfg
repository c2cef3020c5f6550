SPECIFICATION Spec
CONSTANTS
  c1 = c1
  c2 = c2
  i1 = i1
  i2 = i2
  ch1 = ch1
  ch2 = ch2
  colon = colon
  Characters <- ThreeCharacters
  Colon = colon
  n1 = n1
  n2 = n2
  Calls <- TwoCalls
  Ids <- TwoIds
  Usernames <- TwoUsernames
  Passwords <- ThreePasswords
  KeyLength = 2
  Nul = Nul
  Nicks <- TwoNicks
  NoId = NoId
  NoNick = NoNick
INVARIANTS
  TypeOK
  AccountsUnique
  LetInAsOwner
PROPERTIES
  OnlyOwnerRenames
  GrpcRefusalIsTrue
  AnsweredUpdateDone
  KeepsAccounts
SYMMETRY Interchangeable
