CONSTANTS
  one = one
  two = two
  office = office
  home = home
  digest = digest
  Replica = {one, two}
  Request <- MCRequest
  Input <- MCInput
  Address = {office, home}
  Digest = {digest}
  PoolSize = 2
  Limit = 1
  Minute = 3
  MaxTime = 4
  MaxFaults = 1
  Stores = {"postgres", "file"}
  Nobody = Nobody
SPECIFICATION Spec
INVARIANTS
  BurstIsBounded
PROPERTIES
  EndsUnlessExhausted
CHECK_DEADLOCK FALSE
