SPECIFICATION Spec
INVARIANT ApprovedByQuorum
CONSTANTS
  v1 = v1
  v2 = v2
  v3 = v3
  ann = ann
  ben = ben
  owner = owner
  safety = safety
  first = first
  second = second
  Nil = Nil
  Contracts = {v1, v2}
  Version <- MCVersion
  Actors = {ann, ben}
  Roles = {owner, safety}
  Grants <- MCGrants
  MinimumApprovals = 2
  Threshold <- MCThreshold
  Cycles = {first, second}
  MaxTime = 1
  MaxEvents = 6
  RollbackFails = TRUE
CHECK_DEADLOCK FALSE
