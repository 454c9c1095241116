CONSTANTS
  a = a
  b = b
  c = c
  w1 = w1
  w2 = w2
  Account = {a, b, c}
  Workspace = {w1, w2}
  Request = {r1, r2}
  Admin = {b}
  InitialMembers <- MCInitialMembers
  Nobody = Nobody
  NoOp = NoOp
SPECIFICATION Spec
SYMMETRY RequestSymmetry
INVARIANT ErasedAccountsAreAnonymous
CHECK_DEADLOCK FALSE
