CONSTANTS
  IpCount <- MCIpCount
  Pairs = 1
  ThreadLimit = 2
  MaxRemoteFailures = 0
  NoError = NoError
  CopyError = CopyError

SPECIFICATION Spec

\* CopyToAllNodes returns to its caller: every behaviour ends in "returned".
CHECK_DEADLOCK FALSE

INVARIANT ReturnedNilMeansAllDelivered
