CONSTANTS
  d1 = d1
  d2 = d2
  RequireApproval = RequireApproval
  RequireSignature = RequireSignature
  Release <- MCRelease
  Digest = {d1, d2}
  Request <- MCRequest
  Input <- MCInput
  MaxRequests = 4
  MaxFaults = 1
  NoRelease = NoRelease
SPECIFICATION Spec
INVARIANTS
  TypeOK
  GateFollowsThePolicy
  PendingStaysInside
  ApprovedOnce
PROPERTIES
  KeepsRegisters
CHECK_DEADLOCK FALSE
