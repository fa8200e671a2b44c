CONSTANTS
  a = a
  b = b
  c = c
  ua = ua
  ub = ub
  uc = uc
  Mac = {a, b}
  Self = a
  Uuid = {ua, ub}
  UuidOf <- MCUuidOf
  Ops = {}
  Faults = {}
  MaxWait = 1
  Limit <- Restarts
SPECIFICATION Spec
INVARIANT LockIffMaster
