CONSTANTS
  olga = olga
  adam = adam
  uma = uma
  mail = mail
  other = other
  User = {olga, adam, uma}
  Email = {mail, other}
  EmailOf <- MCEmailOf
  InitialRole <- MCInitialRole
  Call <- MCCall
  MaxRequests = 3
  MaxTime = 1
  PageSize = 1
  MaxAttempts = 2
  MaxFaults = 1
  Stores = {"postgres", "file"}
  NoRole = NoRole
  NoInvitation = NoInvitation
SPECIFICATION FairSpec
INVARIANTS
  TypeOK
  OwnerKept
  OneOpenInvitation
  SettledOnce
  GoneIsGone
  ListingIsComplete
PROPERTIES
  InvitationsAreMailed
CHECK_DEADLOCK FALSE
