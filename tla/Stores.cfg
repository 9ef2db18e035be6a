SPECIFICATION StoresSpec
INVARIANTS AcceptedIsBacked ReportIsTrue ReportVerifies
PROPERTIES RegistrationIsCurrent ScanIsSound ReceiptGrows CallbackIsCurrent LaunchIsChecked
CONSTANTS
  a = a
  b = b
  c = c
  d0 = d0
  d1 = d1
  d2 = d2
  p1 = p1
  p2 = p2
  file1 = file1
  file2 = file2
  Nobody = Nobody
  Nil = Nil
  Null = Null
  Unlocked = Unlocked
  Refused = Refused
  Plain = Plain
  Detached = Detached
  Procs = {p1, p2}
  Ids = {a, b, c}
  Digests = {d0, d1, d2}
  Intakes <- MCIntakes
  Earlier <- MCEarlier
  Envelopes = {d1}
  Appended <- MCAppended
  Registered <- MCRegistered
  Promotions <- MCPromotions
  MaxCommands = 3
  MaxLosses = 1
  Sentinels = {p1, p2}
  Paths = {file1, file2}
  Batches <- MCBatches
  Callbacks <- MCCallbacks
  Statuses = {"cleaned"}
  Artifacts <- MCArtifacts
  Skew = 0
  MaxLifetime = 2
  MaxStarts = 2
  MaxBootstraps = 2
  MaxTime = 2
  Executions = {p1, p2}
  ExecutionIds = {1}
  Requests <- MCRequests
  Editable = {"policy", "gate"}
  None = None
  MaxEdits = 2
  MaxWrites = 2
SYMMETRY MCSymmetry
CHECK_DEADLOCK FALSE
