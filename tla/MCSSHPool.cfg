\* Two goroutines over one unit: g1 calls KeepTryRun (its command may be
\* one that always fails), g2 a MultiRun of two commands.  The SSH server
\* allows one session per connection; one pooled connection may die, after
\* which the goroutines dial.
CONSTANTS
  g1 = g1
  g2 = g2
  g3 = g3
  Goroutines <- MCTwoGoroutines
  MaxConnections = 1
  InitialConns = 1
  MaxSessionsPerConn = 1
  CallsPerGoroutine = 1
  MaxConnDeaths = 1
  MaxFailures = 1
  MaxRunAttempts = 2
  Api <- MCApi
  Commands <- MCCommands
  BadCallers <- MCBadCallers
  CloseCalled = TRUE

SPECIFICATION Spec

\* The callers stop after their calls, and with a dead connection in the
\* pool the goroutines can block each other for good (run pool_deadconn).
\* Until one does, every Run returns.
CHECK_DEADLOCK FALSE

INVARIANT TypeOK
INVARIANT SessionsWithinLimit
PROPERTY RunReturnsWhileConnsLive
PROPERTY CloseReturns
PROPERTY ImplementsAbstractPool
