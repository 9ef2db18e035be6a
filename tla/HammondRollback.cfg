SPECIFICATION Spec
INVARIANT LinksResolve
CONSTANTS
  v1 = v1
  v2 = v2
  v3 = v3
  ann = ann
  ben = ben
  owner = owner
  safety = safety
  first = first
  second = second
  Nil = Nil
  Contracts = {v1, v2, v3}
  Version <- MCVersion
  Actors = {ann}
  Roles = {owner}
  Grants <- MCOneGrant
  MinimumApprovals = 1
  Threshold <- MCThreshold
  Cycles = {first}
  MaxTime = 1
  MaxEvents = 5
  RollbackFails = TRUE
CHECK_DEADLOCK FALSE
