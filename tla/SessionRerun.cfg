SPECIFICATION Spec
CONSTANTS
  wrapper1 = wrapper1
  wrapper2 = wrapper2
  cancel1 = cancel1
  cancel2 = cancel2
  recover1 = recover1
  Spawner = spawn
  Wrappers <- TwoWrappers
  Cancelers <- OneCanceler
  Recoverers <- OneRecoverer
  LeaseModes = {TRUE, FALSE}
  Binding = binding
  NoHost = NoHost
  Nobody = Nobody
  NoLease = NoLease
INVARIANTS
  OneChild
  CancelBlocksLaunch
  VerdictMatchesChild
PROPERTIES
  LeaseGuardsRecovery
SYMMETRY Symmetry
CHECK_DEADLOCK FALSE
