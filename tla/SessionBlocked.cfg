SPECIFICATION Spec
CONSTANTS
  wrapper1 = wrapper1
  wrapper2 = wrapper2
  cancel1 = cancel1
  cancel2 = cancel2
  recover1 = recover1
  Spawner = spawn
  Wrappers <- OneWrapper
  Cancelers <- OneCanceler
  Recoverers <- NoRecoverer
  LeaseModes = {TRUE}
  Binding = binding
  NoHost = NoHost
  Nobody = Nobody
  NoLease = NoLease
INVARIANT
  BlockedLaunchIsBlocked
CHECK_DEADLOCK FALSE
