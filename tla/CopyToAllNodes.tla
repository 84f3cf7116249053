--------------------------- MODULE CopyToAllNodes ---------------------------
(***************************************************************************)
(* helpers.CopyToAllNodes (src/blockchains/helpers/copy.go), goroutine by  *)
(* goroutine.  For every server i and every (src, dst) pair j the main     *)
(* goroutine acquires a unit of a semaphore of ThreadLimit units and       *)
(* starts                                                                  *)
(*  - an scp goroutine, which copies src to the host's staging path,       *)
(*    signals rdy and releases its unit, and                               *)
(*  - a waiter goroutine, which waits for rdy, then for every k in         *)
(*    range server.Ips acquires a unit and starts a docker-cp goroutine    *)
(*    copying the staged file into container k of server i.                *)
(* It then waits for the wait group, acquires and releases all the units,  *)
(* and returns the build error.                                            *)
(*                                                                         *)
(* The waiter is handed &server, the address of the range variable of the  *)
(* outer loop, and reads server.Ips after rdy: by then the main goroutine  *)
(* may have assigned a later server to that variable.  The variable cur    *)
(* is that range variable.                                                 *)
(***************************************************************************)
EXTENDS Naturals, Sequences, FiniteSets

CONSTANTS
  IpCount,            \* IpCount[s]: number of node IPs of the s-th server
  Pairs,              \* number of (src, dst) pairs
  ThreadLimit,        \* conf.ThreadLimit, the semaphore's weight
  MaxRemoteFailures,  \* how many remote commands may fail in one behaviour
  NoError, CopyError

ASSUME /\ IpCount \in Seq(Nat \ {0}) /\ Len(IpCount) > 0
       /\ Pairs \in Nat \ {0}
       /\ ThreadLimit \in Nat \ {0}
       /\ MaxRemoteFailures \in Nat

Servers == 1 .. Len(IpCount)
PairIds == 1 .. Pairs
MaxIps  == IpCount[CHOOSE s \in Servers : \A t \in Servers : IpCount[t] <= IpCount[s]]
Tasks   == Servers \X PairIds
CpIds   == Servers \X PairIds \X (0 .. MaxIps - 1)
\* every container of every server, for every pair
Targets == {c \in CpIds : c[3] < IpCount[c[1]]}

VARIABLES
  mainPc,     \* "range", "acquire", "wait", "drain", "returned"
  li, lj,     \* the loop indices i and j of the main goroutine
  cur,        \* the range variable server (an index into servers)
  sem,        \* free units of the semaphore
  wg,         \* the wait group's counter
  scpPc,      \* scpPc[t]: "none", "running", "done"; done = rdy was sent
  staged,     \* the tasks whose file is on the host's staging path
  waiterPc,   \* waiterPc[t]: "none", "wait_rdy", "spawn", "done"
  waiterLen,  \* len(server.Ips) as the waiter read it
  waiterK,    \* the waiter's next k
  cpPc,       \* cpPc[c]: "none", "running", "done"
  delivered,  \* the docker cps that succeeded
  err,        \* the build state's error
  failures

vars == <<mainPc, li, lj, cur, sem, wg, scpPc, staged, waiterPc, waiterLen,
          waiterK, cpPc, delivered, err, failures>>

Init ==
  /\ mainPc = "range" /\ li = 1 /\ lj = 1 /\ cur = 1
  /\ sem = ThreadLimit /\ wg = 0
  /\ scpPc = [t \in Tasks |-> "none"] /\ staged = {}
  /\ waiterPc = [t \in Tasks |-> "none"]
  /\ waiterLen = [t \in Tasks |-> 0] /\ waiterK = [t \in Tasks |-> 0]
  /\ cpPc = [c \in CpIds |-> "none"] /\ delivered = {}
  /\ err = NoError /\ failures = 0

\* A remote command may fail on the remote side.
RemoteFails == failures < MaxRemoteFailures /\ failures' = failures + 1

-----------------------------------------------------------------------------
(* Main goroutine.                                                         *)
RangeServer ==
  /\ mainPc = "range"
  /\ cur' = li /\ lj' = 1 /\ mainPc' = "acquire"
  /\ UNCHANGED <<li, sem, wg, scpPc, staged, waiterPc, waiterLen, waiterK,
                 cpPc, delivered, err, failures>>

\* sem.Acquire(1), then start the scp and the waiter goroutine of (li, lj).
SpawnPair ==
  /\ mainPc = "acquire" /\ sem > 0
  /\ sem' = sem - 1 /\ wg' = wg + 2
  /\ scpPc' = [scpPc EXCEPT ![<<li, lj>>] = "running"]
  /\ waiterPc' = [waiterPc EXCEPT ![<<li, lj>>] = "wait_rdy"]
  /\ \/ lj < Pairs /\ lj' = lj + 1 /\ UNCHANGED <<li, mainPc>>
     \/ lj = Pairs /\ li < Len(IpCount) /\ li' = li + 1 /\ mainPc' = "range" /\ UNCHANGED lj
     \/ lj = Pairs /\ li = Len(IpCount) /\ mainPc' = "wait" /\ UNCHANGED <<li, lj>>
  /\ UNCHANGED <<cur, staged, waiterLen, waiterK, cpPc, delivered, err, failures>>

\* wg.Wait(), then sem.Acquire(ctx, ThreadLimit); sem.Release(ThreadLimit).
WaitAll ==
  /\ mainPc = "wait" /\ wg = 0
  /\ mainPc' = "drain"
  /\ UNCHANGED <<li, lj, cur, sem, wg, scpPc, staged, waiterPc, waiterLen,
                 waiterK, cpPc, delivered, err, failures>>

Drain ==
  /\ mainPc = "drain" /\ sem = ThreadLimit
  /\ mainPc' = "returned"
  /\ UNCHANGED <<li, lj, cur, sem, wg, scpPc, staged, waiterPc, waiterLen,
                 waiterK, cpPc, delivered, err, failures>>

-----------------------------------------------------------------------------
(* scp goroutine: ScpAndDeferRemoval, whose error is dropped; rdy <- true; *)
(* wg.Done(); sem.Release(1).  Scp does not consult the build's Stop().    *)
ScpToHost(t) ==
  /\ scpPc[t] = "running"
  /\ \/ staged' = staged \cup {t} /\ UNCHANGED failures
     \/ RemoteFails /\ UNCHANGED staged
  /\ scpPc' = [scpPc EXCEPT ![t] = "done"]
  /\ sem' = sem + 1 /\ wg' = wg - 1
  /\ UNCHANGED <<mainPc, li, lj, cur, waiterPc, waiterLen, waiterK, cpPc,
                 delivered, err>>

-----------------------------------------------------------------------------
(* Waiter goroutine: <-rdy, then for k := range server.Ips.                *)
ReadServer(t) ==
  /\ waiterPc[t] = "wait_rdy" /\ scpPc[t] = "done"
  /\ waiterLen' = [waiterLen EXCEPT ![t] = IpCount[cur]]
  /\ waiterPc' = [waiterPc EXCEPT ![t] = "spawn"]
  /\ UNCHANGED <<mainPc, li, lj, cur, sem, wg, scpPc, staged, waiterK, cpPc,
                 delivered, err, failures>>

SpawnCp(t) ==
  /\ waiterPc[t] = "spawn" /\ waiterK[t] < waiterLen[t] /\ sem > 0
  /\ sem' = sem - 1 /\ wg' = wg + 1
  /\ cpPc' = [cpPc EXCEPT ![<<t[1], t[2], waiterK[t]>>] = "running"]
  /\ waiterK' = [waiterK EXCEPT ![t] = @ + 1]
  /\ UNCHANGED <<mainPc, li, lj, cur, scpPc, staged, waiterPc, waiterLen,
                 delivered, err, failures>>

WaiterDone(t) ==
  /\ waiterPc[t] = "spawn" /\ waiterK[t] = waiterLen[t]
  /\ waiterPc' = [waiterPc EXCEPT ![t] = "done"] /\ wg' = wg - 1
  /\ UNCHANGED <<mainPc, li, lj, cur, sem, scpPc, staged, waiterLen, waiterK,
                 cpPc, delivered, err, failures>>

-----------------------------------------------------------------------------
(* docker-cp goroutine: clients[i].DockerCp(k, staged file, dst), through  *)
(* Client.Run, which refuses to run once the build is stopped.  It fails   *)
(* when the staged file is missing or container k does not exist on       *)
(* server i; a failure is logged and reported to the build state.          *)
DockerCpSucceeds(c) ==
  /\ err = NoError
  /\ <<c[1], c[2]>> \in staged
  /\ c[3] < IpCount[c[1]]

\* mutant: the error path returns without releasing its semaphore unit
CopyFailsNoRelease(c) ==
  /\ err' = CopyError
  /\ wg' = wg - 1
  /\ UNCHANGED <<delivered, sem>>

\* mutant: the error path releases its unit itself and again in its defer
CopyFailsDoubleRelease(c) ==
  /\ err' = CopyError
  /\ sem' = sem + 2 /\ wg' = wg - 1
  /\ UNCHANGED delivered

\* mutant: the error is logged but not reported to the build state
CopyFailsNotReported(c) ==
  /\ sem' = sem + 1 /\ wg' = wg - 1
  /\ UNCHANGED <<delivered, err>>

\* A failed copy: ReportError, then the deferred wg.Done() and sem.Release(1).
CopyFails(c) ==
  /\ err' = CopyError
  /\ sem' = sem + 1 /\ wg' = wg - 1
  /\ UNCHANGED delivered

DockerCp(c) ==
  /\ cpPc[c] = "running"
  /\ cpPc' = [cpPc EXCEPT ![c] = "done"]
  /\ \/ /\ DockerCpSucceeds(c)
        /\ delivered' = delivered \cup {c}
        /\ sem' = sem + 1 /\ wg' = wg - 1
        /\ UNCHANGED <<err, failures>>
     \/ /\ DockerCpSucceeds(c) /\ RemoteFails /\ CopyFails(c)
     \/ ~DockerCpSucceeds(c) /\ CopyFails(c) /\ UNCHANGED failures
  /\ UNCHANGED <<mainPc, li, lj, cur, scpPc, staged, waiterPc, waiterLen, waiterK>>

-----------------------------------------------------------------------------
Next ==
  \/ RangeServer \/ SpawnPair \/ WaitAll \/ Drain
  \/ \E t \in Tasks : ScpToHost(t) \/ ReadServer(t) \/ SpawnCp(t) \/ WaiterDone(t)
  \/ \E c \in CpIds : DockerCp(c)

(* The Go runtime runs every runnable goroutine eventually; a goroutine    *)
(* blocked in sem.Acquire is woken whenever a unit is free, so the         *)
(* acquiring steps get strong fairness.                                    *)
Fairness ==
  /\ WF_vars(RangeServer \/ WaitAll \/ Drain) /\ SF_vars(SpawnPair)
  /\ \A t \in Tasks : WF_vars(ScpToHost(t) \/ ReadServer(t) \/ WaiterDone(t))
                      /\ SF_vars(SpawnCp(t))
  /\ \A c \in CpIds : WF_vars(DockerCp(c))

Spec == Init /\ [][Next]_vars /\ Fairness

-----------------------------------------------------------------------------
TypeOK ==
  /\ mainPc \in {"range", "acquire", "wait", "drain", "returned"}
  /\ li \in Servers /\ lj \in PairIds /\ cur \in Servers
  /\ sem \in 0 .. ThreadLimit /\ wg \in Nat
  /\ scpPc \in [Tasks -> {"none", "running", "done"}] /\ staged \subseteq Tasks
  /\ waiterPc \in [Tasks -> {"none", "wait_rdy", "spawn", "done"}]
  /\ waiterLen \in [Tasks -> 0 .. MaxIps] /\ waiterK \in [Tasks -> 0 .. MaxIps]
  /\ cpPc \in [CpIds -> {"none", "running", "done"}] /\ delivered \subseteq Targets
  /\ err \in {NoError, CopyError} /\ failures \in 0 .. MaxRemoteFailures

\* CopyToAllNodes returns: every goroutine ends, every semaphore unit comes
\* back, so the final sem.Acquire(ctx, ThreadLimit) does not block forever.
CopyReturns == <>(mainPc = "returned")

\* When CopyToAllNodes returns no error, every (src, dst) pair was copied
\* into every container of every server.
ReturnedNilMeansAllDelivered ==
  (mainPc = "returned" /\ err = NoError) => Targets \subseteq delivered

=============================================================================
