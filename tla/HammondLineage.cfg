SPECIFICATION Spec
INVARIANT RegistryValid
INVARIANT SupersessionStaysPossible
CONSTANTS
  v1 = v1
  v2 = v2
  v3 = v3
  ann = ann
  ben = ben
  owner = owner
  safety = safety
  first = first
  second = second
  Nil = Nil
  Contracts = {v1, v2, v3}
  Version <- MCVersion
  Actors = {ann}
  Roles = {owner}
  Grants <- MCOneGrant
  MinimumApprovals = 1
  Threshold <- MCThreshold
  Cycles = {first, second}
  MaxTime = 2
  MaxEvents = 6
  RollbackFails = FALSE
CHECK_DEADLOCK FALSE
