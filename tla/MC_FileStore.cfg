CONSTANTS
  MaxCalls = 3
  File = {"workspaces", "packages", "devices", "audit", "outbox"}
  Menus <- MCMenus
  Text <- MCText
  InitialDoc <- MCInitialDoc
  MaxFaults = 1
  Initial = Initial
  Empty = Empty
  Torn = Torn
  Refused = Refused
  None = None
SPECIFICATION FairSpec
INVARIANTS
  TypeOK
  FileIsReadable
  AcknowledgedIsStored
  RefusedIsNotStored
  DocumentIsConsistent
PROPERTIES
  EveryCallReturns
CHECK_DEADLOCK FALSE
