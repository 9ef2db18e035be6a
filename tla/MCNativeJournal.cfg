SPECIFICATION Spec
CONSTANTS
  h1 = h1
  h2 = h2
  NoHost = NoHost
  Reasons = {"given"}
  NoReason = NoReason
  Ids <- MCIds
  Hosts <- MCHosts
  OtherKinds = {"provider"}
  Requests <- MCRequests
INVARIANTS
  OneLaunch
  PreStartEvidenceHolds
  OneVerdict
  GrantsAreFresh
CHECK_DEADLOCK FALSE
