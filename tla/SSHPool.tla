------------------------------- MODULE SSHPool -------------------------------
(***************************************************************************)
(* The connection pool of ssh.Client (src/ssh/client.go): getSession and  *)
(* the Run that uses it, called concurrently by many goroutines.           *)
(*                                                                         *)
(* getSession takes the pool's read lock, THEN blocks on the semaphore of *)
(* maxConnections units, tries NewSession on every cached connection, and *)
(* if all refuse releases the read lock, dials a new connection, opens a   *)
(* session on it and takes the write lock to append it to the pool.  The  *)
(* session gives its unit back when Run closes it.                        *)
(*                                                                         *)
(* An SSH connection refuses a new session when the server's limit of     *)
(* sessions per connection (MaxSessionsPerConn) is reached, or when the    *)
(* connection is dead.  Dead connections stay in the pool.                 *)
(*                                                                         *)
(* A goroutine calls one method of Client: each is one or more Run calls  *)
(* (MultiRun: one per command, up to the first error) or KeepTryRun calls  *)
(* (the same command again after an error, up to maxRunAttempts), or an   *)
(* Scp, which holds a session the way Run does.  A bad command fails on    *)
(* every attempt (it exits non-zero); any command may also fail remotely.  *)
(*                                                                         *)
(* One more goroutine may call Close, which takes the write lock and      *)
(* closes every pooled connection; nothing marks the client closed.       *)
(***************************************************************************)
EXTENDS Integers, Sequences, FiniteSets, SequencesExt

CONSTANTS
  Goroutines,          \* the goroutines calling Run on the one client
  MaxConnections,      \* maxConnections, the semaphore's weight
  InitialConns,        \* connections NewClient dials
  MaxSessionsPerConn,  \* the SSH server's session limit per connection
  CallsPerGoroutine,   \* Run calls per goroutine
  MaxConnDeaths,       \* connections that may die in one behaviour
  MaxFailures,         \* dials, new sessions or commands that may fail
  MaxRunAttempts,      \* maxRunAttempts of KeepTryRun
  Api,                 \* Api[g]: the method of Client goroutine g calls
  Commands,            \* Commands[g]: the commands each call of g is given
  BadCallers,          \* goroutines whose commands may be bad
  CloseCalled          \* whether a caller may call Close

(* Client's methods (client.go), all of which take one session at a time  *)
(* from getSession and close it when done.  Formatting the docker command *)
(* line is abstracted away.  Methods that retry go through KeepTryRun.     *)
RetryMethods == {"KeepTryRun", "KeepTryDockerExec", "KeepTryDockerExecAll", "KTDockerMultiExec"}

\* MultiRun and KeepTryDockerExecAll: one Run per command, up to the first error.
Sequential == {"MultiRun", "KeepTryDockerExecAll"}

\* FastMultiRun, DockerMultiExec, KTDockerMultiExec: one command line joined by &&.
Chained == {"FastMultiRun", "DockerMultiExec", "KTDockerMultiExec"}

(* Scp and InternalScp: getSession, scp.CopyPath on the session, Close; no *)
(* Stop check, and a getSession error returns before the deferred Close.  *)
SessionCopies == {"Scp", "InternalScp"}

\* The wrappers that format one docker command and call Run.
Methods ==
  {"Run", "DockerExec", "DockerCp", "DockerExecd", "DockerExecdit", "DockerExecdLog",
   "DockerExecdLogAppend", "DockerRead"} \cup RetryMethods \cup Sequential \cup Chained
  \cup SessionCopies

\* The loop g's call runs in: Run's single attempt or KeepTryRun's retries.
Verb == [g \in Goroutines |-> IF Api[g] \in RetryMethods THEN "KeepTryRun" ELSE "Run"]

\* The Run calls one call of g makes, one per command unless they are joined.
RunsPerCall(g) == IF Api[g] \in Sequential THEN Commands[g] ELSE 1

ASSUME /\ MaxConnections \in Nat \ {0}
       /\ InitialConns \in Nat \ {0}
       /\ MaxSessionsPerConn \in Nat \ {0}
       /\ {CallsPerGoroutine, MaxConnDeaths, MaxFailures} \subseteq Nat
       /\ MaxRunAttempts \in Nat \ {0}
       /\ Api \in [Goroutines -> Methods]
       /\ Commands \in [Goroutines -> Nat \ {0}]
       /\ BadCallers \subseteq Goroutines
       /\ CloseCalled \in BOOLEAN

NoConn == 0

VARIABLES
  pc,         \* pc[g]: where goroutine g is in Run/getSession
  calls,      \* calls[g]: Run calls g has made
  conns,      \* the pool slice: conns[i].live, conns[i].sessions
  sessionOn,  \* sessionOn[g]: the pool index of g's session, or NoConn
  readers,    \* goroutines holding the read lock
  sem,        \* free units of the semaphore
  leaked,     \* dialed connections neither pooled nor closed
  deaths, failures,
  left,       \* left[g]: commands of the call not yet done, this one included
  attempt,    \* attempt[g]: the attempt of KeepTryRun's loop, from 1
  bad,        \* bad[g]: the current command fails whenever it runs
  closer      \* the caller of Close: "open", "locking" or "closed"

callVars == <<left, attempt, bad>>
vars == <<pc, calls, conns, sessionOn, readers, sem, leaked, deaths, failures, callVars, closer>>

Pcs == {"idle", "rlock", "acquire", "scan", "dial", "newsession", "lock", "run"}

\* Goroutines that hold a semaphore unit.
Holding == {g \in Goroutines : pc[g] \in {"scan", "dial", "newsession", "lock", "run"}}

\* Goroutines waiting in mux.Lock(): from then on Go's RWMutex lets no new
\* reader in.  Close waits there too (WriterWaits).
PendingWriters == {g \in Goroutines : pc[g] = "lock"}

WriterWaits == PendingWriters # {} \/ closer = "locking"

(* sshConnect: read the key, parse it, ssh.Dial with up to ten redials.   *)
(* It gives a connection, or once failures are allowed an error: "reset"  *)
(* ("connection reset by peer" or "EOF", which getSession retries after   *)
(* 50 ms) or any other.                                                    *)
SshConnect == {"connected"} \cup (IF failures < MaxFailures THEN {"reset", "error"} ELSE {})

Init ==
  /\ pc = [g \in Goroutines |-> "idle"]
  /\ calls = [g \in Goroutines |-> 0]
  /\ conns = [i \in 1 .. InitialConns |-> [live |-> TRUE, sessions |-> 0]]
  /\ sessionOn = [g \in Goroutines |-> NoConn]
  /\ readers = {}
  /\ sem = MaxConnections
  /\ leaked = 0 /\ deaths = 0 /\ failures = 0
  /\ left = [g \in Goroutines |-> 1]
  /\ attempt = [g \in Goroutines |-> 1] /\ bad = [g \in Goroutines |-> FALSE]
  /\ closer = "open"

Goto(g, to) == pc' = [pc EXCEPT ![g] = to]

-----------------------------------------------------------------------------
\* Whether g's next command may be a bad one.
Bad(g) == IF g \in BadCallers THEN BOOLEAN ELSE {FALSE}

(* A call of g's verb.  KeepTryRun first checks bs.Stop(), which no step *)
(* of this module sets.                                                    *)
CallRun(g) ==
  /\ pc[g] = "idle" /\ calls[g] < CallsPerGoroutine
  /\ Goto(g, "rlock") /\ calls' = [calls EXCEPT ![g] = @ + 1]
  /\ left' = [left EXCEPT ![g] = RunsPerCall(g)]
  /\ \E b \in Bad(g) : bad' = [bad EXCEPT ![g] = b]
  /\ attempt' = [attempt EXCEPT ![g] = 1]
  /\ UNCHANGED <<conns, sessionOn, readers, sem, leaked, deaths, failures, closer>>

(* Run has returned, with an error if failed.  KeepTryRun runs the same   *)
(* command again after an error while i < maxRunAttempts; MultiRun and     *)
(* KeepTryDockerExecAll go on with the next command after a success and    *)
(* return at the first error; otherwise the call returns.                  *)
AfterRun(g, failed) ==
  /\ \/ /\ failed /\ Verb[g] = "KeepTryRun" /\ attempt[g] < MaxRunAttempts
        /\ Goto(g, "rlock") /\ attempt' = [attempt EXCEPT ![g] = @ + 1]
        /\ UNCHANGED <<left, bad>>
     \/ /\ ~failed /\ left[g] > 1
        /\ Goto(g, "rlock") /\ left' = [left EXCEPT ![g] = @ - 1]
        /\ attempt' = [attempt EXCEPT ![g] = 1]
        /\ \E b \in Bad(g) : bad' = [bad EXCEPT ![g] = b]
     \/ /\ failed => Verb[g] = "Run" \/ attempt[g] = MaxRunAttempts
        /\ ~failed => left[g] = 1
        /\ Goto(g, "idle") /\ UNCHANGED <<left, attempt, bad>>

\* sshClient.mux.RLock()
RLock(g) ==
  /\ pc[g] = "rlock" /\ ~WriterWaits
  /\ readers' = readers \cup {g} /\ Goto(g, "acquire")
  /\ UNCHANGED <<calls, conns, sessionOn, sem, leaked, deaths, failures, callVars, closer>>

\* mutant: the error of sem.Acquire is ignored, so the goroutine goes on
\* without a unit when the acquisition fails
AcquireIgnoringError(g) ==
  /\ pc[g] = "acquire"
  /\ sem' = sem - 1 /\ Goto(g, "scan")
  /\ UNCHANGED <<calls, conns, sessionOn, readers, leaked, deaths, failures, callVars, closer>>

\* sshClient.sem.Acquire(ctx, 1), with the read lock held.
Acquire(g) ==
  /\ pc[g] = "acquire" /\ sem > 0
  /\ sem' = sem - 1 /\ Goto(g, "scan")
  /\ UNCHANGED <<calls, conns, sessionOn, readers, leaked, deaths, failures, callVars, closer>>

\* The cached connections that accept a new session.
Accepting == {i \in DOMAIN conns : conns[i].live /\ conns[i].sessions < MaxSessionsPerConn}

\* mutant: the early return of the scan loop without its RUnlock
ScanNoRUnlock(g) ==
  /\ pc[g] = "scan"
  /\ \/ /\ Accepting # {}
        /\ LET i == CHOOSE i \in Accepting : \A j \in Accepting : i <= j
           IN /\ conns' = [conns EXCEPT ![i].sessions = @ + 1]
              /\ sessionOn' = [sessionOn EXCEPT ![g] = i]
        /\ Goto(g, "run") /\ UNCHANGED readers
     \/ /\ Accepting = {} /\ Goto(g, "dial") /\ readers' = readers \ {g}
        /\ UNCHANGED <<conns, sessionOn>>
  /\ UNCHANGED <<calls, sem, leaked, deaths, failures, callVars, closer>>

\* for _, client := range sshClient.clients { client.NewSession() ... }:
\* the first accepting connection gives the session; RUnlock either way.
Scan(g) ==
  /\ pc[g] = "scan"
  /\ readers' = readers \ {g}
  /\ \/ /\ Accepting # {}
        /\ LET i == CHOOSE i \in Accepting : \A j \in Accepting : i <= j
           IN /\ conns' = [conns EXCEPT ![i].sessions = @ + 1]
              /\ sessionOn' = [sessionOn EXCEPT ![g] = i]
        /\ Goto(g, "run")
     \/ Accepting = {} /\ Goto(g, "dial") /\ UNCHANGED <<conns, sessionOn>>
  /\ UNCHANGED <<calls, sem, leaked, deaths, failures, callVars, closer>>

\* mutant: "if client == nil" releases the unit without returning, and
\* "if err != nil" releases it again
DialDoubleRelease(g) ==
  /\ pc[g] = "dial"
  /\ \E r \in SshConnect :
       \/ r = "connected" /\ Goto(g, "newsession") /\ UNCHANGED <<sem, failures, callVars>>
       \/ /\ r = "reset" /\ failures' = failures + 1
          /\ UNCHANGED <<pc, sem, callVars>>
       \/ /\ r = "error" /\ failures' = failures + 1
          /\ sem' = sem + 2 /\ AfterRun(g, TRUE)
  /\ UNCHANGED <<calls, conns, sessionOn, readers, leaked, deaths, closer>>

(* sshConnect, retried with the unit held while the error is a reset or   *)
(* EOF; another error comes with a nil client, so "if client == nil"      *)
(* releases the unit and Run returns the error ("if err != nil" after it  *)
(* is not reached).                                                        *)
Dial(g) ==
  /\ pc[g] = "dial"
  /\ \E r \in SshConnect :
       \/ r = "connected" /\ Goto(g, "newsession") /\ UNCHANGED <<sem, failures, callVars>>
       \/ /\ r = "reset" /\ failures' = failures + 1   \* dial again, unit held
          /\ UNCHANGED <<pc, sem, callVars>>
       \/ /\ r = "error" /\ failures' = failures + 1
          /\ sem' = sem + 1 /\ AfterRun(g, TRUE)
  /\ UNCHANGED <<calls, conns, sessionOn, readers, leaked, deaths, closer>>

\* mutant: the NewSession error path returns without releasing its unit
NewSessionNoRelease(g) ==
  /\ pc[g] = "newsession"
  /\ \/ Goto(g, "lock") /\ UNCHANGED <<sem, leaked, failures, callVars>>
     \/ /\ failures < MaxFailures /\ failures' = failures + 1
        /\ leaked' = leaked + 1 /\ AfterRun(g, TRUE) /\ UNCHANGED sem
  /\ UNCHANGED <<calls, conns, sessionOn, readers, deaths, closer>>

\* client.NewSession() on the fresh connection; on error the unit is
\* released and the fresh connection is dropped without Close.
NewSessionOnFresh(g) ==
  /\ pc[g] = "newsession"
  /\ \/ Goto(g, "lock") /\ UNCHANGED <<sem, leaked, failures, callVars>>
     \/ /\ failures < MaxFailures /\ failures' = failures + 1
        /\ sem' = sem + 1 /\ leaked' = leaked + 1 /\ AfterRun(g, TRUE)
  /\ UNCHANGED <<calls, conns, sessionOn, readers, deaths, closer>>

\* sshClient.mux.Lock(); append the connection; Unlock().
AppendConn(g) ==
  /\ pc[g] = "lock" /\ readers = {}
  /\ conns' = Append(conns, [live |-> TRUE, sessions |-> 1])
  /\ sessionOn' = [sessionOn EXCEPT ![g] = Len(conns) + 1]
  /\ Goto(g, "run")
  /\ UNCHANGED <<calls, readers, sem, leaked, deaths, failures, callVars, closer>>

\* mutant: Run without the deferred session.Close(): the unit stays taken
FinishRunNoRelease(g) ==
  /\ pc[g] = "run"
  /\ conns' = [conns EXCEPT ![sessionOn[g]].sessions = @ - 1]
  /\ sessionOn' = [sessionOn EXCEPT ![g] = NoConn]
  /\ LET dead == ~conns[sessionOn[g]].live
     IN \/ (bad[g] \/ dead) /\ AfterRun(g, TRUE) /\ UNCHANGED failures
        \/ /\ ~bad[g] /\ failures < MaxFailures /\ failures' = failures + 1
           /\ AfterRun(g, TRUE)
        \/ ~bad[g] /\ ~dead /\ AfterRun(g, FALSE) /\ UNCHANGED failures
  /\ UNCHANGED <<calls, readers, sem, leaked, deaths, closer>>

\* CombinedOutput(command) ends, with its output or an error (always for a
\* bad command, or when the connection died under the session); the
\* deferred session.Close() ends the session and releases its unit.
FinishRun(g) ==
  /\ pc[g] = "run"
  /\ conns' = [conns EXCEPT ![sessionOn[g]].sessions = @ - 1]
  /\ sessionOn' = [sessionOn EXCEPT ![g] = NoConn]
  /\ sem' = sem + 1
  /\ LET dead == ~conns[sessionOn[g]].live
     IN \/ (bad[g] \/ dead) /\ AfterRun(g, TRUE) /\ UNCHANGED failures
        \/ /\ ~bad[g] /\ failures < MaxFailures /\ failures' = failures + 1
           /\ AfterRun(g, TRUE)
        \/ ~bad[g] /\ ~dead /\ AfterRun(g, FALSE) /\ UNCHANGED failures
  /\ UNCHANGED <<calls, readers, leaked, deaths, closer>>

\* The remote end drops a pooled connection.
ConnDies ==
  /\ deaths < MaxConnDeaths
  /\ \E i \in DOMAIN conns :
       /\ conns[i].live
       /\ conns' = [conns EXCEPT ![i].live = FALSE]
  /\ deaths' = deaths + 1
  /\ UNCHANGED <<pc, calls, sessionOn, readers, sem, leaked, failures, callVars, closer>>

(* Close: a caller starts it and waits in mux.Lock() (CallClose); with    *)
(* the lock it closes every pooled connection and unlocks (CloseConns).   *)
(* The connections stay in the slice, and later calls of getSession scan  *)
(* them, dial and append as before.                                        *)
CallClose ==
  /\ CloseCalled /\ closer = "open" /\ closer' = "locking"
  /\ UNCHANGED <<pc, calls, conns, sessionOn, readers, sem, leaked, deaths, failures, callVars>>

CloseConns ==
  /\ closer = "locking" /\ readers = {}
  /\ conns' = [i \in DOMAIN conns |-> [conns[i] EXCEPT !.live = FALSE]]
  /\ closer' = "closed"
  /\ UNCHANGED <<pc, calls, sessionOn, readers, sem, leaked, deaths, failures, callVars>>

-----------------------------------------------------------------------------
Next ==
  \/ \E g \in Goroutines :
       \/ CallRun(g) \/ RLock(g) \/ Acquire(g) \/ Scan(g) \/ Dial(g)
       \/ NewSessionOnFresh(g) \/ AppendConn(g) \/ FinishRun(g)
  \/ ConnDies
  \/ CallClose \/ CloseConns

(* Every runnable goroutine runs eventually.  A goroutine blocked on a     *)
(* lock or on the semaphore (x/sync/semaphore wakes waiters in FIFO order) *)
(* gets in whenever it is let in infinitely often.  Callers need not call, *)
(* nor Close; once called, Close waits for the write lock like AppendConn. *)
Fairness ==
  /\ \A g \in Goroutines :
       /\ SF_vars(RLock(g)) /\ SF_vars(Acquire(g)) /\ SF_vars(AppendConn(g))
       /\ WF_vars(Scan(g) \/ Dial(g) \/ NewSessionOnFresh(g) \/ FinishRun(g))
  /\ SF_vars(CloseConns)

Spec == Init /\ [][Next]_vars /\ Fairness

-----------------------------------------------------------------------------
TypeOK ==
  /\ pc \in [Goroutines -> Pcs]
  /\ calls \in [Goroutines -> 0 .. CallsPerGoroutine]
  /\ conns \in Seq([live : BOOLEAN, sessions : Nat])
  /\ sessionOn \in [Goroutines -> Nat]
  /\ readers \subseteq Goroutines
  /\ sem \in 0 .. MaxConnections /\ leaked \in Nat
  /\ deaths \in 0 .. MaxConnDeaths /\ failures \in 0 .. MaxFailures
  /\ \A g \in Goroutines : left[g] \in 1 .. Commands[g]
  /\ attempt \in [Goroutines -> 1 .. MaxRunAttempts]
  /\ bad \in [Goroutines -> BOOLEAN]
  /\ closer \in {"open", "locking", "closed"}

\* The spec (section 8, property 7): the client never has more than
\* maxConnections sessions open at once, counting the sessions on pooled
\* connections and those on fresh connections not yet appended.
SessionsWithinLimit ==
  FoldSeq(LAMBDA c, acc : c.sessions + acc, 0, conns)
    + Cardinality(PendingWriters) <= MaxConnections

(* Every Run call returns: the goroutines that wait on the semaphore with  *)
(* the read lock held and the dialer that waits for the write lock while  *)
(* holding its unit never block one another for good.                     *)
EveryRunReturns ==
  \A g \in Goroutines : pc[g] = "rlock" ~> pc[g] = "idle"

\* Every Run call returns unless a pooled connection dies or is closed in
\* the meantime (a dead connection in the pool is what EveryRunReturns trips
\* over).
RunReturnsWhileConnsLive ==
  \A g \in Goroutines :
    pc[g] = "rlock" ~> (pc[g] = "idle" \/ deaths > 0 \/ closer = "closed")

(* Close returns: the write lock it waits for is given up by every reader *)
(* of getSession, on the path that found a session and on the one that    *)
(* dials, unless a dead pooled connection has deadlocked the readers.    *)
CloseReturns ==
  closer = "locking" ~> (closer = "closed" \/ deaths > 0)

(* SSHPool implements AbstractPool: the goroutines between a successful    *)
(* sem.Acquire and the release of their unit are its holders and sem its   *)
(* free units, so every step of getSession, Run and Close either takes one *)
(* free unit for the goroutine it lets in, gives back the unit of one      *)
(* holder, or moves no unit at all.                                        *)
Pool == INSTANCE AbstractPool WITH holders <- Holding, free <- sem

ImplementsAbstractPool == Pool!PoolSpec

=============================================================================
