---------------------------- MODULE CopyHelpers ----------------------------
(***************************************************************************)
(* The fan-out helpers of src/blockchains/helpers/copy.go besides          *)
(* CopyToAllNodes: CreateConfigs, CopyBytesToNodeFiles (both through       *)
(* SingleCp) and CopyAllToServers.  Each starts one goroutine per job and  *)
(* takes no semaphore; a goroutine reports its error to the build state    *)
(* and returns; the caller waits for the wait group and returns            *)
(* buildState.GetError().                                                  *)
(*                                                                         *)
(* CreateConfigs counts the absolute node number in a variable node of the *)
(* loop and hands it to the goroutine as an argument; the goroutine calls  *)
(* fn(i, j, node), whose bytes are abstracted as the triple it was given.  *)
(*                                                                         *)
(* A behaviour is one call of one helper on a fresh build; the call of     *)
(* CopyToAllNodes is that module's specification, which shares the build   *)
(* state's error and the failure budget.                                   *)
(***************************************************************************)
EXTENDS CopyToAllNodes

CONSTANTS
  TransferNodes   \* TransferNodes[t]: LocalNodeId of the t-th FileDest

ASSUME TransferNodes \in Seq(0 .. IpCount[1] - 1)

Helpers == {"CopyToAllNodes", "CreateConfigs", "CopyBytesToNodeFiles", "CopyAllToServers"}

(* The goroutines in the order the helper's loops start them: a job is     *)
(* <<i, j>>, i the client's index and j the node, transfer or pair.        *)
RECURSIVE NodesFrom(_)
NodesFrom(i) ==
  IF i > Len(IpCount) THEN << >>
  ELSE [k \in 1 .. IpCount[i] |-> <<i, k - 1>>] \o NodesFrom(i + 1)

SpawnOrder(h) ==
  CASE h = "CreateConfigs" -> NodesFrom(1)
    [] h = "CopyBytesToNodeFiles" -> [t \in DOMAIN TransferNodes |-> <<1, t>>]
    [] h = "CopyAllToServers" ->
         [n \in 1 .. Len(IpCount) * Pairs |-> <<(n - 1) \div Pairs + 1, ((n - 1) % Pairs) + 1>>]
    [] OTHER -> << >>

Jobs == Servers \X (0 .. MaxIps + Len(TransferNodes) + Pairs)

VARIABLES
  helper,    \* the helper the caller invoked
  callerPc,  \* "spawn", "returned"
  next,      \* the caller's position in SpawnOrder(helper)
  node,      \* CreateConfigs: the absolute node counter of the loop
  arg,       \* arg[g]: the node value goroutine g was started with
  jobPc,     \* jobPc[g]: "none", "fn", "write", "scp", "cp", "done"
  data,      \* data[g]: the bytes goroutine g copies
  placed,    \* <<g, bytes>>: goroutine g's file is at its destination
  result     \* what the helper returned

hvars == <<helper, callerPc, next, node, arg, jobPc, data, placed, result>>
allVars == <<vars, hvars>>

IsCTA == helper = "CopyToAllNodes"

-----------------------------------------------------------------------------
(* The caller: wg.Add(1); go func(i, j, node) ...; node++.                 *)
Spawn ==
  LET g == SpawnOrder(helper)[next]
  IN /\ callerPc = "spawn" /\ next <= Len(SpawnOrder(helper))
     /\ jobPc' = [jobPc EXCEPT ![g] = CASE helper = "CreateConfigs" -> "fn"
                                        [] helper = "CopyBytesToNodeFiles" -> "write"
                                        [] OTHER -> "scp"]
     /\ arg' = [arg EXCEPT ![g] = node]
     /\ data' = [data EXCEPT ![g] = IF helper = "CopyBytesToNodeFiles" THEN <<g[2]>> ELSE @]
     /\ node' = IF helper = "CreateConfigs" THEN node + 1 ELSE node
     /\ next' = next + 1
     /\ UNCHANGED <<helper, callerPc, placed, result, err, failures>>

\* wg.Wait(); return buildState.GetError().
Return ==
  /\ callerPc = "spawn" /\ next > Len(SpawnOrder(helper))
  /\ \A g \in Jobs : jobPc[g] \in {"none", "done"}
  /\ callerPc' = "returned" /\ result' = err
  /\ UNCHANGED <<helper, next, node, arg, jobPc, data, placed, err, failures>>

-----------------------------------------------------------------------------
(* A goroutine.  A failed step logs, reports its error and returns.        *)
Fail(g) ==
  /\ err' = CopyError /\ jobPc' = [jobPc EXCEPT ![g] = "done"]
  /\ UNCHANGED <<data, placed>>

Step(g, from, to) == jobPc[g] = from /\ jobPc' = [jobPc EXCEPT ![g] = to]

\* mutant: the goroutine closes over the loop's node instead of its argument
FnArgsCaptured(g) == <<g[1], g[2], node>>

\* the arguments the goroutine calls fn with: (i, j, node) as it was passed
FnArgs(g) == <<g[1], g[2], arg[g]>>

\* CreateConfigs: data, err := fn(i, j, node); the caller's fn may fail.
CallFn(g) ==
  /\ jobPc[g] = "fn"
  /\ \/ Step(g, "fn", "write") /\ data' = [data EXCEPT ![g] = FnArgs(g)]
        /\ UNCHANGED <<placed, err, failures>>
     \/ RemoteFails /\ Fail(g)

(* SingleCp: GetUUIDString and buildState.Write stage the bytes locally;   *)
(* either may fail.                                                        *)
WriteLocal(g) ==
  /\ jobPc[g] = "write"
  /\ \/ Step(g, "write", "scp") /\ UNCHANGED <<data, placed, err, failures>>
     \/ RemoteFails /\ Fail(g)

(* SingleCp: buildState.Defer(rm), then client.Scp to the host's staging  *)
(* path, which does not consult Stop().                                    *)
ScpJob(g) ==
  /\ jobPc[g] = "scp" /\ helper # "CopyAllToServers"
  /\ \/ Step(g, "scp", "cp") /\ UNCHANGED <<data, placed, err, failures>>
     \/ RemoteFails /\ Fail(g)

(* CopyAllToServers' goroutine: buildState.Defer(rm -rf dst), then         *)
(* clients[i].Scp(src, dst), which puts the file at its destination.       *)
ScpToServer(g) ==
  /\ jobPc[g] = "scp" /\ helper = "CopyAllToServers"
  /\ \/ Step(g, "scp", "done") /\ placed' = placed \cup {<<g, <<g[2]>>>>}
        /\ UNCHANGED <<data, err, failures>>
     \/ RemoteFails /\ Fail(g)

(* client.DockerCp(localNodeId, staged, dest) through Run, which refuses   *)
(* once the build is stopped.                                              *)
DockerCpJob(g) ==
  /\ jobPc[g] = "cp"
  /\ \/ err = NoError /\ Step(g, "cp", "done")
        /\ placed' = placed \cup {<<g, data[g]>>}
        /\ UNCHANGED <<data, err, failures>>
     \/ err = NoError /\ RemoteFails /\ Fail(g)
     \/ err # NoError /\ Fail(g) /\ UNCHANGED failures

HelperStep(g) ==
  /\ CallFn(g) \/ WriteLocal(g) \/ ScpJob(g) \/ ScpToServer(g) \/ DockerCpJob(g)
  /\ UNCHANGED <<helper, callerPc, next, node, arg, result>>

-----------------------------------------------------------------------------
CopyInit ==
  /\ Init /\ helper \in Helpers
  /\ callerPc = "spawn"
  /\ next = 1 /\ node = 0 /\ result = NoError /\ placed = {}
  /\ arg = [g \in Jobs |-> 0] /\ jobPc = [g \in Jobs |-> "none"]
  /\ data = [g \in Jobs |-> << >>]

ctaOnly == <<mainPc, li, lj, cur, sem, wg, scpPc, staged, waiterPc,
             waiterLen, waiterK, cpPc, delivered>>

CTAStep(A) == IsCTA /\ A /\ UNCHANGED hvars

CopyNext ==
  \/ CTAStep(Next)
  \/ ~IsCTA /\ (Spawn \/ Return \/ \E g \in Jobs : HelperStep(g)) /\ UNCHANGED ctaOnly

(* Go runs every runnable goroutine; CopyToAllNodes' fairness applies to   *)
(* its own call only.                                                      *)
CopyFairness ==
  /\ WF_allVars(CTAStep(RangeServer \/ WaitAll \/ Drain)) /\ SF_allVars(CTAStep(SpawnPair))
  /\ \A t \in Tasks : WF_allVars(CTAStep(ScpToHost(t) \/ ReadServer(t) \/ WaiterDone(t)))
                      /\ SF_allVars(CTAStep(SpawnCp(t)))
  /\ \A c \in CpIds : WF_allVars(CTAStep(DockerCp(c)))
  /\ WF_allVars(~IsCTA /\ (Spawn \/ Return) /\ UNCHANGED ctaOnly)
  /\ \A g \in Jobs : WF_allVars(~IsCTA /\ HelperStep(g) /\ UNCHANGED ctaOnly)

CopySpec == CopyInit /\ [][CopyNext]_allVars /\ CopyFairness

-----------------------------------------------------------------------------
CopyTypeOK ==
  /\ TypeOK /\ helper \in Helpers /\ callerPc \in {"spawn", "returned"}
  /\ next \in 1 .. Len(SpawnOrder(helper)) + 1 /\ node \in 0 .. Len(NodesFrom(1))
  /\ jobPc \in [Jobs -> {"none", "fn", "write", "scp", "cp", "done"}]
  /\ \A p \in placed : p[1] \in Jobs
  /\ result \in {NoError, CopyError}

(* Reference: the absolute number of node j of server i is the number of  *)
(* nodes of the servers before it plus j (spec 4.3).                      *)
RECURSIVE IpsBefore(_)
IpsBefore(i) == IF i = 1 THEN 0 ELSE IpsBefore(i - 1) + IpCount[i - 1]

\* What each helper is asked to put where: the job and the bytes it copies.
Intended(h) ==
  CASE h = "CreateConfigs" ->
         {<<n, <<n[1], n[2], IpsBefore(n[1]) + n[2]>>>> : n \in {<<c[1], c[3]>> : c \in Targets}}
    [] h = "CopyBytesToNodeFiles" -> {<<<<1, t>>, <<t>>>> : t \in DOMAIN TransferNodes}
    [] h = "CopyAllToServers" -> {<<<<i, j>>, <<j>>>> : i \in Servers, j \in PairIds}
    [] OTHER -> {}

(* Every file a helper places is the one intended for that destination: in *)
(* particular CreateConfigs' goroutines, which run while the loop goes on  *)
(* counting, build each node's config for its own absolute number.  And a *)
(* helper that returns nil has placed every file it was asked to.          *)
EveryCopyAsIntended ==
  /\ placed \subseteq Intended(helper)
  /\ (callerPc = "returned" /\ result = NoError) => Intended(helper) \subseteq placed

(* Whichever helper is called returns: every goroutine ends and, in        *)
(* CopyToAllNodes, every semaphore unit comes back, so the final           *)
(* sem.Acquire(ctx, ThreadLimit) does not block forever.                   *)
CallReturns == <>(mainPc = "returned" \/ callerPc = "returned")

====
