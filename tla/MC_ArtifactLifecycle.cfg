CONSTANTS
  A = A
  B = B
  d1 = d1
  Workspace = {A, B}
  Digest = {d1}
  Request = {r1, r2}
  Worker = {w1, w2}
  Inputs <- MCInputs
  Faults = {"cancel", "put", "save", "commit", "delete", "enqueue", "mark", "crash",
            "session"}
  MaxFaults = 1
  Free = Free
  NoJob = NoJob
SPECIFICATION FairSpec
INVARIANTS
  TypeOK
  NoDanglingReference
  OrphansAreExplained
  KeyIsOneRelease
PROPERTIES
  OrphansAreCollected
CHECK_DEADLOCK FALSE
