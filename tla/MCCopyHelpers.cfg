\* Two servers of two nodes each, one file, two semaphore units for up to
\* five goroutines, and one remote failure anywhere.
CONSTANTS
  IpCount <- MCIpCount
  TransferNodes <- MCTransferNodes
  Pairs = 1
  ThreadLimit = 2
  MaxRemoteFailures = 1
  NoError = NoError
  CopyError = CopyError

SPECIFICATION CopySpec

\* The helper returns to its caller: every behaviour ends in "returned".
CHECK_DEADLOCK FALSE

INVARIANT CopyTypeOK
INVARIANT EveryCopyAsIntended
INVARIANT ReturnedNilMeansAllDelivered
PROPERTY CallReturns
