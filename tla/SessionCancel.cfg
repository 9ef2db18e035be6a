SPECIFICATION FairSpec
CONSTANTS
  wrapper1 = wrapper1
  wrapper2 = wrapper2
  cancel1 = cancel1
  cancel2 = cancel2
  recover1 = recover1
  Spawner = spawn
  Wrappers <- OneWrapper
  Cancelers <- OneCanceler
  Recoverers <- OneRecoverer
  LeaseModes = {TRUE}
  Binding = binding
  NoHost = NoHost
  Nobody = Nobody
  NoLease = NoLease
INVARIANTS
  ClosedWhenQuiet
  CollectedIsVerdict
PROPERTIES
  JournalSpec
  PromiseKept
  CancelIsAnswered
  LostWrapperIsNoticed
CHECK_DEADLOCK FALSE
