CONSTANTS
  IpCount <- MCIpCountEqual
  MaxRemoteFailures = 1
  NoError = NoError
  BuildError = BuildError
  NoValue = NoValue


SPECIFICATION Spec
CHECK_DEADLOCK FALSE

INVARIANT PeerListExcludesSelf
