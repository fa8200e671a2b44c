CONSTANTS
  a = a
  b = b
  c = c
  ua = ua
  ub = ub
  uc = uc
  Mac = {a, b}
  Self = a
  Uuid = {ua, ub}
  UuidOf <- MCUuidOf
  Ops = {}
  Faults = {"ip", "copy", "network", "interfaces", "alias", "store"}
  MaxWait = 1
  Limit <- Changes
SPECIFICATION Spec
INVARIANTS
  IdempotentReentry
  AliasBackedByService
  MasterArtifacts
  LockMatchesRole
PROPERTIES
  RoleIsAssigned
