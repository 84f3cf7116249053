\* Three goroutines over two units and one pooled connection of one
\* session: a caller that finds the connection busy dials while another
\* waits on the semaphore holding the read lock, so the pool grows under
\* contention; sshConnect may fail once (a reset, retried with the unit
\* held, or another error).  No connection dies and Close is not called.
CONSTANTS
  g1 = g1
  g2 = g2
  g3 = g3
  Goroutines <- MCGoroutines
  MaxConnections = 2
  InitialConns = 1
  MaxSessionsPerConn = 1
  CallsPerGoroutine = 1
  MaxConnDeaths = 0
  MaxFailures = 1
  MaxRunAttempts = 2
  Api <- MCApi
  Commands <- MCCommands
  BadCallers <- MCBadCallers
  CloseCalled = FALSE

SPECIFICATION Spec

\* The callers stop after their calls.
CHECK_DEADLOCK FALSE

INVARIANT SessionsWithinLimit
PROPERTY EveryRunReturns
