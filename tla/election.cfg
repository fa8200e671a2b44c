CONSTANTS
  x = x
  y = y
  Host = {x, y}
  Faults = {"copy", "network"}
  MaxWait = 2
  MaxStarts = 5
  MaxResets = 1
SPECIFICATION FairSpec
INVARIANTS
  TypeOK
  SlaveFollowedMaster
  SlavesHaveMaster
PROPERTIES
  RolesAreAssigned
  RoleIsKept
  NobodyWaitsForever
