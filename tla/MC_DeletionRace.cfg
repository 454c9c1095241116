CONSTANTS
  A = A
  B = B
  d1 = d1
  Workspace = {A, B}
  Digest = {d1}
  Request = {r1, r2}
  Worker = {w1}
  Inputs <- MCInputs
  Faults = {}
  MaxFaults = 0
  Free = Free
  NoJob = NoJob
SPECIFICATION Spec
PROPERTY DeletionEnqueuesEveryDigest
CHECK_DEADLOCK FALSE
