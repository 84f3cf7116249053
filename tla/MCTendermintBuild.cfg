CONSTANTS
  IpCount <- MCIpCount
  MaxRemoteFailures = 1
  NoError = NoError
  BuildError = BuildError
  NoValue = NoValue

SPECIFICATION Spec

\* Build returns and stops: every behaviour ends in phase "returned".
CHECK_DEADLOCK FALSE

INVARIANT TypeOK
INVARIANT GenesisHasEveryValidator
INVARIANT SuccessLaunchedEveryNode
