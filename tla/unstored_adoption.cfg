CONSTANTS
  a = a
  b = b
  c = c
  ua = ua
  ub = ub
  uc = uc
  Mac = {a, b}
  Self = a
  Uuid = {ua, ub}
  UuidOf <- MCUuidOf
  Ops = {"ADD"}
  Faults = {"store"}
  MaxWait = 0
  Limit <- Retry
SPECIFICATION Spec
PROPERTY NothingChangedMeansStored
