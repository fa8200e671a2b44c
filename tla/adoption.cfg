CONSTANTS
  a = a
  b = b
  c = c
  ua = ua
  ub = ub
  uc = uc
  Mac = {a, b}
  Self = a
  Uuid = {ua, ub}
  UuidOf <- MCUuidOf
  Ops = {"ADD", "REMOVE", "INVALID"}
  Faults = {}
  MaxWait = 0
  Limit <- Restarts
SPECIFICATION Spec
INVARIANTS
  TypeOK
  NoUnsolicitedAdoption
  AdoptionSurvivesBoot
  MapKeepsKnownNodes
  OnlineMeansHeard
  AckedChangeIsStored
  KnownMasterIsAdopted
PROPERTIES
  BootKeepsFile
