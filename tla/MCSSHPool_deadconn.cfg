\* As many sessions per connection as the semaphore has units (NewClient's
\* 10 connections of 10 sessions each cover its 50 units), and one pooled
\* connection may die.
CONSTANTS
  g1 = g1
  g2 = g2
  g3 = g3
  Goroutines <- MCGoroutines
  MaxConnections = 2
  InitialConns = 1
  MaxSessionsPerConn = 2
  CallsPerGoroutine = 1
  MaxConnDeaths = 1
  MaxFailures = 0
  MaxRunAttempts = 2
  Api <- MCApi
  Commands <- MCCommands
  BadCallers <- MCBadCallers
  CloseCalled = FALSE

SPECIFICATION Spec
CHECK_DEADLOCK FALSE

PROPERTY EveryRunReturns
