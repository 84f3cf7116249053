# TLA+ models of genesis

This directory holds TLA+ models of the genesis testnet builder
(`src/`). TLC checks them. Each module is translated from the Go source.
The one exception is code that is not under `src/`, such as package `state`
and `helpers.AllNodeExecCon`. Those parts are modelled from `spec.md` and are
marked `spec_modelled` in `PROJECT.json`.

## 1. The system

| Part | Source | State | Operations that change state |
|---|---|---|---|
| SSH client pool | `src/ssh/client.go` | The slice `clients` of `*ssh.Client`, the `RWMutex mux` that guards it, and a weighted semaphore `sem` of `maxConnections` = 50 units | `NewClient` dials 10 connections. `getSession` works under the read lock: acquire a unit, scan for a connection that accepts a session, otherwise dial, `NewSession`, and append under the write lock. `Run` / `KeepTryRun` / `DockerExec*` / `DockerCp` / `Scp` run one command per session. `Close` |
| Build state | package `state` (not in `src/`) | Stage, step count and progress, a sticky error and stop flag, a key/value scratchpad, LIFO deferred cleanups, and the done flag with its waiters | `SetBuildStage`, `SetBuildSteps`, `IncrementBuildProgress`, `ReportError`, `Stop`, `Set`, `Defer`, `DoneBuilding` |
| Fan-out helpers | `src/blockchains/helpers/copy.go` | Per call: a semaphore of `conf.ThreadLimit` units, a `WaitGroup`, and the `rdy` channels | `CopyToAllNodes`: for each server, spawn an scp goroutine, then a waiter that spawns one `docker cp` goroutine per container. `CopyAllToServers`, `CopyBytesToAllNodes`, `SingleCp`, `CreateConfigs` |
| Tendermint build | `src/blockchains/tendermint/tendermint.go` | The shared slice `peers` with its mutex, `validators`, and `genesisFile` | `Build`: init fan-out (init, show_node_id, cat genesis), error check, genesis assembly and distribution, start fan-out (peer list without self, `DockerExecdLog`) |
| TestNet aggregate | `src/testnet/testnet.go`, `adjunct.go` | `Servers`, `NewlyBuiltNodes`, `CombinedDetails`, `Details`, `LDD`, the build state and the clients | `AddNode` (locked), `AddDetails`, `FinishedBuilding`, `StoreNodes`, `Store` / `RestoreTestNet` |
| Node rows | `src/db/node.go` | The `nodes` table | `InsertNode`, `DeleteNode`, `DeleteNodesByTestNet`, `DeleteNodesByServer`, `GetAvailibleNodes` |
| Control plane | `src/unnamed/part_000` | None of its own: each request reads the testnet's rows and calls the netem backend | `handleNet`, `handleNetAll`, `stopNet`, `getNet`, `addOutage`, `removeOutage` |
| Utilities | `src/util/util.go` | None | Filesystem, shell and JSON helpers |

How the parts interact:
- A build runs `Build` of one blockchain with a `TestNet`.
  - `Build` fans work out over every node through `helpers`.
  - Every remote step goes through the `ssh.Client` of the node's server.
  - `Client.Run` consults the build state's `Stop()` before it starts a command.
  - Every failure is sent to the build state with `ReportError`.
- The helpers bound their own concurrency with a second semaphore, `conf.ThreadLimit`.
  - Each helper goroutine takes sessions from the pool's semaphore, so the two semaphores nest.
- When `Build` returns, the testnet stores its rows and snapshot.
  - `FinishedBuilding` then runs the deferred cleanups and wakes the waiters.

Hard behaviours in this code:
- The goroutines of a fan-out finish in any order, and their results land in shared slices.
- The pool's read lock is held while the goroutine blocks on the semaphore.
- A closure reads a `range` variable after the loop has moved on. The module path is pre-Go-1.22, so the old loop-variable semantics apply.
- Remote steps fail independently, and a goroutine that has already passed the `Stop()` check keeps going.
- Pooled connections die.
- Cleanup and waiter wake-up are ordered against persistence.

## 2. Modules

### BuildState.tla (spec_modelled)
The build state is a record value. Each method is an operator from one record to the next.
- The caller modules hold this record in a variable (`bs`).
- They apply the methods inside their own steps. The methods take the state's lock, so each one is atomic.
- The module has no `Spec` of its own.

### TendermintBuild.tla: `Build` in `tendermint.go`
State:
- `phase` is the main goroutine's position: init fan-out, distribution, start fan-out, returned.
- `wpc[n]` is the position of node `n`'s worker goroutine.
- `peers` is the shared slice, in append order.
- `validators` and `genesis[n]` record which genesis file is in container `n`.
- `launched` is the set of daemons started, and `peerList[n]` is the list each one was given.
- `bs` is the build state.
- `failures` counts remote failures.
- `buildErr` is the error `Build` returned. After a `GetUUIDString` failure it differs from the build state's error.

A genesis file is its chain id and the validators it lists (`GetGenesisFile`). `tendermint init` writes a local genesis that names only the node itself.

A node is a pair `<<server, local index>>`. `AbsoluteNum` gives its absolute number, as `AllNodeExecCon` does.

Actions:
- Init fan-out: `InitRunCheck`, then `ExecInit`, `ShowNodeId`, `ReadGenesis`.
  - Each is one `client.DockerExec`: `InitRunCheck` is `Run` up to its `Stop()` check, and the action is the command, which may fail.
  - `ReadGenesis` also has the `GetJSONString` error return of the validator parse, after the first `IncrementBuildProgress`.
  - `ShowNodeId` appends the node's peer address under the mutex. Workers run in any order, so the append order is the completion order.
- `EndInit` is the join plus the `buildState.GetError()` check.
- `DistributeGenesis` is the whole of `CopyBytesToAllNodes` as one step.
  - `StagingOutcomes`: the blob is staged; or `GetUUIDString` fails, and the error is returned before any copy without being reported; or `buildState.Write` fails. That last error is ignored, so every copy from the missing file fails and is reported.
  - It takes every outcome that `CopyToAllNodes.tla` shows `CopyToAllNodes` can have.
  - `LoopVarReads`: each waiter may read the range variable of the same server or of a later one.
  - `CopiedTo`: the containers that then get the file.
  - `NoSuchNode`: a `docker cp` into a container that does not exist fails.
  - `LostCopies`: a remote failure loses the copies of one server.
- `StartDaemon` is one start goroutine up to `Run`'s `Stop()` check, and `Launch` is the `docker exec -d` command with the deferred `IncrementBuildProgress`.
  - `append(peers[:k], peers[k+1:]...)` writes through the shared backing array. The list is the shifted slice, and `peers` becomes that list with its old last element still in the last cell.
  - The goroutine then runs `DockerExecdLog`, which calls `Set(node, cmd)` keyed by the local index.
- `EndStart` is the join and the return.

`Client.Run` is two steps, as in the code: `StopCheck` (`getSession`, then return `GetError()` if `Stop()`), and the command (`Proceed` on success, `RemoteFails` otherwise, bounded by `MaxRemoteFailures`). `checked[n]` says node n's goroutine is between the two.
- So a goroutine that passed its check launches its daemon even after another goroutine reported an error. TLC reaches such a launch. Spec 5 makes cancellation cooperative, so this is allowed, and no property claims otherwise.

### CopyToAllNodes.tla: `helpers.CopyToAllNodes`
This module models one call, goroutine by goroutine.
- Main goroutine: `mainPc`, the loop indices `li`/`lj`, and the range variable `cur`.
- Shared: `sem` (free units of the `ThreadLimit` semaphore) and `wg`.
- Per (server, file) task: `scpPc`, `staged`, the waiter's `waiterPc` and the length `waiterLen` it read, and its counter `waiterK`.
- `cpPc` for each `docker cp` goroutine.
- `delivered`, `err` (the build error) and `failures`.

Actions:
- `RangeServer` and `SpawnPair`: the loop body. It acquires a unit, adds 2 to the wait group, and spawns the scp goroutine and the waiter.
- `ScpToHost`: the scp goroutine. It releases its unit and closes `rdy`. Its error is ignored.
- `ReadServer`, `SpawnCp`, `WaiterDone`: the waiter. It reads `server.Ips` after `rdy`, and acquires a unit per container.
- `DockerCp`, which is either `DockerCpSucceeds` or `CopyFails`. It reports the error and releases the unit.
- `WaitAll` and `Drain`: `wg.Wait()`, then all `ThreadLimit` units are acquired and released.

### CopyHelpers.tla: the other fan-outs of `copy.go`
This module models `CreateConfigs`, `CopyBytesToNodeFiles` (both through `SingleCp`) and `CopyAllToServers`, goroutine by goroutine. None of them takes a semaphore. Each goroutine that fails logs, calls `ReportError` and returns. The caller waits for the wait group and returns `GetError()`.
- `helper` is the helper the caller invoked, chosen in `CopyInit`. When it is `CopyToAllNodes`, the behaviour is `CopyToAllNodes.tla`'s (`CTAStep`), sharing `err` and `failures`. Otherwise that module's variables stay idle. All four helpers are checked in one run, and a behaviour is a single call.
- The caller is `Spawn` and `Return`, with `callerPc`, `next` (its place in `SpawnOrder`, the order its loops start goroutines) and `node`, CreateConfigs' absolute-number counter. `arg[g]` is the `node` a goroutine was started with.
- A goroutine is `jobPc[g]`, `data[g]` and `placed`, the set of (job, bytes) at their destination.
- `CallFn` is `fn(i, j, node)`. Its bytes are abstracted as the arguments it was given (`FnArgs`).
- `WriteLocal` is `GetUUIDString` and `buildState.Write`. `ScpJob` is `Defer(rm)` and `Scp` to the staging path. `DockerCpJob` is `DockerCp`, which `Run` refuses once the build is stopped. `ScpToServer` is `CopyAllToServers`' goroutine. `Fail` is the report-and-return error path.
- `Intended(h)` is the reference: what each helper should put where. For `CreateConfigs` it uses `IpsBefore`, a recursive prefix sum of node counts, not the loop's counter.

### DeploymentMerge.tla: `NewTestNet`'s details and `TestNet.AddDetails`
`AddDetails` runs under `tn.mux`, so each call is one atomic step. The subject of the model is Go's memory sharing, not concurrency.

State:
- `details` is `tn.Details`, and `combined` is `tn.CombinedDetails`.
- Files entries are references: `maps` is a heap of key sets, and a files list holds heap ids.
- `imgShared` and `imgCap` describe the images array. `NewTestNet` copies one slice header into both `Details[0]` and `CombinedDetails`, so the two share that array.
  - `imgShared` says whether `CombinedDetails.Images` still writes into it.
  - `imgCap` is its capacity. The JSON decoder chose it, so `Init` takes any value up to `MaxCap`.
- Ghost variables:
  - `requests`: the deployments as given.
  - `specView`: the merge by the rules of spec 4.4.

`AddDetails` does all of the following in one step:
1. It appends to `Details`.
2. `Decoded` and `DecodeFilesInto` model `json.Unmarshal`:
   - arrays are decoded into the elements already there;
   - objects are decoded into the existing map, which keeps its entries;
   - `null` sets a field to nil.
3. It restores and pads `Files`.
4. It adds the node counts.
5. It pads `Images` from `Images[0]` (`PadImages`, which can panic: `PadPanics`) and extends it. `AliasWrite` records each write that lands in the shared array.

Spec section 10 warns that the padding reads `Images[0]` of a slice that may be empty. Here it cannot happen: the padding is reached only when `dd.Images` is non-empty, and then the `Unmarshal` has just set `Images` to it. An exhaustive exploration of the bounds below, with `OmitEmpty` either way, reaches no state with `panicked`. Nothing more is claimed, and no run checks it.

Bounds and encoding:
- `OmitEmpty` is FALSE because `db.DeploymentDetails` is not in `src/`: nil lists are encoded as `null`, Go's default.
- The bounds are: NewTestNet plus two `AddDetails`, up to 2 nodes, lists of at most one entry, two images, two file keys, and capacity up to 2.
  - That is enough for a second call to decode over what the first left.
  - It also covers every nil, empty and non-empty list.
  - About 98k states.

### TestNetLifecycle.tla: `AddNode` and `FinishedBuilding`
State:
- `nodes` and `newly` are `tn.Nodes` and `tn.NewlyBuiltNodes`.
- `owner` is the holder of `tn.mux`, and `wpc[w]` and `absOf[w]` are each worker's position and the number it computed.
- `finPc` is the position of the caller of `FinishedBuilding`, and `done` is the build state's done flag.
- `snapshot` is the stored `testnet_<id>` value.
- `waiterPc` and `restored` belong to one goroutine that waits on the build state and then calls `RestoreTestNet`.

Actions:
- `AddNode` is three steps: `AddNodeLock`, `AddNodeNumber` (`len(tn.Nodes)`), and `AddNodeAppend` (both appends, then the deferred unlock).
- `BuildReturned` is the caller's step after `Build` has joined every worker (spec 4.3; the caller is outside `src/`).
- `StoreNodes` is one iteration of `StoreNodes`' loop: `db.InsertNode` of `newly[si]` with every outcome `NodeDB` gives it. An error is only logged; the loop goes on and the function returns nil.
- `FinishedBuilding` is three steps, in the code's order: `FinishDone`, `FinishClear`, `FinishStore`, after the nodes are stored.
- `WaiterRestores` is the waiter.

Assumptions:
- The workers and the waiter are the callers that spec 4.2 and 4.4 describe. Those callers are outside `src/`.
- Four workers on a testnet with one node of an earlier build, and at most one insert failure of the environment (`MaxInsertFailures`), give 2521 states without the control-plane request and 54k with it. Once an abandoned transaction holds the write lock, every later insert fails without counting against that bound: the lock, not the environment, causes them.
- Fairness: `SF` on the lock, because a blocked `Lock` gets in when the mutex is free infinitely often. `WF` on the rest.

Composition with the control plane:
- One request, as the instance `CP` of `ControlPlane`, may be served at any point once `BuildReturned` has fired, including while `StoreNodes` is still inserting.
- Starting at `BuildReturned` loses nothing: `AddNode` never writes the rows a handler reads.
- `NodeAt(k)` is the node of `tn.Nodes` with absolute number k, which the outage properties compare with what the handler resolved over the rows.

### ControlPlane.tla: the HTTP handlers of `src/unnamed/part_000`
State:
- `response[r]` is what request r's handler wrote: the status, with 0 for no header yet, and the body as a sequence of writes. It also holds the parameters the handler read (`q`) and, for an outage, the node pair handed to the backend (`pair`).
- `shaped` and `outages` are the netem backend: the nodes with a shaping config, and the directed pairs whose link is cut.
- `backendFailures` counts the netem, status and query calls that failed, bounded by `MaxBackendFailures`.
- `ndb` is shared with the build.

Each handler is one action, and each early return is a disjunct, in the code's order:
- `handleNet`, `handleNetAll`, `stopNet`, `getNet`, and `Outage` for `addOutage`/`removeOutage`.
- `Write` and `HttpError` are the `ResponseWriter`: the first header sticks. So `handleNetAll`, whose `http.Error` after a failed `ApplyToAll` has no `return`, answers status 500 with the body error + "Success".
- `handleNetAll` and `stopNet` drop `RemoveAll`'s error and answer "Success".
- `Roster` is `GetAllNodesByTestNet` over `ndb`. Another testnet id has no rows, and the query returns an empty list with a nil error.
- `ResolvePair` is the two `GetNodeByAbsNum` calls.

Not under `src/`, and modelled from spec 4.3, 4.7 and E5:
- `GetNodeByAbsNum` and `HasAbsNum`: the node at that place in the rows, or an error.
- The netem verbs `Cut` and `Restore`, both directions of the pair.
- The status package.
- The router: which handler a request reaches is an input, chosen with its parameters from `Inputs`.

### NodeDB.tla: the nodes table of `src/db/node.go`
The table is a record value: `rows` (id and node, in insert order), `nextId` (SQLite's autoincrement) and `locked`, a transaction that `InsertNode` abandoned while it held the write lock. The caller module holds it in a variable and applies the operators inside its own steps.
- `InsertNode` is the set of its outcomes:
  - `InsertFailsEarly`: a `Begin`/`Prepare` error returns -1 and the error.
  - `InsertExecFails`: an `Exec` error does `return -1, nil` and leaves the transaction open, possibly holding the lock.
  - `InsertCommits`: the row gets the next id.
  - `InsertCommitFails`: `tx.Commit()` fails and its error is dropped. The row is rolled back, yet `InsertNode` returns the id and nil. Whether the id is reused depends on `AUTOINCREMENT` in a schema outside `src/`, so both are allowed.
  - While the table is locked, only the failures remain.
- `Stored` tells a caller whether an insert really added its row. `TestNetLifecycle` counts the inserts that did not (`insertFailures`), whatever they returned.
- `GetAllNodesByTestNet` is a `SELECT` without `ORDER BY`, which SQLite answers in rowid order: `ByIdFrom` lists the nodes by id, recursively.

### SSHPool.tla: `Client.getSession` and `Client.Run`
State:
- `pc[g]` for each calling goroutine.
- `conns`, the pool slice, where each connection has `live` and a `sessions` count.
- `sessionOn[g]`, `readers` (holders of the read lock) and `sem` (free units).
- `leaked`, the fresh connections that are dropped without `Close`.

Each goroutine calls one method of `Client` (`Api[g]`), and the model keeps what the method does to the pool.
- Methods that retry (`RetryMethods`) go through `KeepTryRun`, which re-runs a command after an error up to `MaxRunAttempts` times. The others make single `Run` calls (`Verb`).
- `MultiRun` and `KeepTryDockerExecAll` (`Sequential`) make one call per command of `Commands[g]` and stop at the first error. The `Chained` methods join their commands with `&&` into one command line (`RunsPerCall`).
- `Scp` and `InternalScp` (`SessionCopies`) take a session from `getSession` and close it, exactly as `Run` does, with `scp.CopyPath` in place of `CombinedOutput`.
- The docker wrappers (`Methods`) only format a command line for `Run`. `left`, `attempt` and `bad` (the command fails whatever the connection, for goroutines in `BadCallers`) hold the call's progress. `CallRun` starts a call; `AfterRun` is what the verb does when one `Run` returns.

Actions: `RLock`, `Acquire`, `Scan`, `Dial` (with the outcomes of `sshConnect`, `SshConnect`: a reset or EOF dials again with the unit held), `NewSessionOnFresh`, `AppendConn`, `FinishRun` (session close and release), and `ConnDies`, the environment.
- `Dial`: `sshConnect` returns a nil client with every error, so the `client == nil` branch releases the unit and returns. The `err != nil` branch after it is not reached.
- `FinishRun`: a command on a connection that died under its session fails.
- `Close` is two steps of one more caller, when `CloseCalled` holds: `CallClose` starts waiting in `mux.Lock()`, and `CloseConns` takes the lock, closes every pooled connection and unlocks. The connections stay in the slice.
- Go's `RWMutex` admits no new reader while a writer waits, so `RLock` requires that no goroutine and no `Close` is waiting in `Lock` (`WriterWaits`).
- The real ssh server refuses a session when a connection is at `MaxSessionsPerConn` or is dead.

### AbstractPool.tla: what the pool promises
A counting semaphore of session units (spec 4.1: at most `maxConnections` sessions). `holders` are the callers holding a unit and `free` the units nobody holds. `Take(g)` lets a caller in only while a unit is free, and `Give(g)` returns a holder's unit. No code is mapped to it: it is the specification `SSHPool` is checked against. `SSHPool` instantiates it as `Pool == INSTANCE AbstractPool WITH holders <- Holding, free <- sem`. `Holding` is the set of goroutines between a successful `Acquire` and the release of their unit, so every pool step must be a `Take`, a `Give` or a stutter of the abstract pool.

## 3. Runs

| Run | Cfg | Expect | What it shows |
|---|---|---|---|
| tendermint_build | MCTendermintBuild.cfg | pass | Servers of 2 and 1 nodes, with at most one remote failure anywhere. `TypeOK`. `GenesisHasEveryValidator`: a distributed genesis contains every node's validator, even when an init step failed half-way. `SuccessLaunchedEveryNode`: a nil return means every daemon started, although a goroutine past its `Stop()` check may still launch after an error. 5.2k states. |
| tendermint_peers | MCTendermintBuild_peers.cfg | violation | `PeerListExcludesSelf`: with one node per server, node <<1,0>> is started with its own address as its peer list. |
| tendermint_cmdlog | MCTendermintBuild_kv.cfg | violation | `EveryLaunchRecorded`: the recorded command of node <<1,0>> is overwritten by node <<2,0>>'s. |
| copy_returns | MCCopyHelpers.cfg | pass | One call of any of the four helpers, on servers of equal size (2 and 2), with at most one failure. `CopyToAllNodes` has one file and two units; `CopyBytesToNodeFiles` has three transfers, two of them to one node. `CallReturns`: the call returns, in `CopyToAllNodes` although there are fewer units than goroutines. `EveryCopyAsIntended`: every file placed is the one intended for its destination; in particular every `CreateConfigs` config is built for its node's own absolute number while the loop keeps counting. A nil return means every file was placed. `ReturnedNilMeansAllDelivered`: the same for `CopyToAllNodes`. `CopyTypeOK`. 3.8k states. |
| copy_mixed | MCCopyToAllNodes_mixed.cfg | violation | `ReturnedNilMeansAllDelivered` on servers of 2 and 1 nodes, with no failure at all. Container 1 of server 1 gets nothing. `Build` then starts that node on its local genesis. |
| pool_safety | MCSSHPool.cfg | pass | Two goroutines (a `KeepTryDockerExec` whose command may always fail, a `MultiRun` of two commands; the deadlock run adds an `Scp`), one unit, one pooled connection that may die, dial and session failures. `SessionsWithinLimit` counts pooled sessions plus fresh ones not yet appended. `RunReturnsWhileConnsLive`: every call returns unless a connection has died. `CloseReturns`: a `Close` called while they run gets the write lock and returns, unless a connection died. `TypeOK` bounds `sem` by `0..MaxConnections`. `ImplementsAbstractPool`: every step takes one free unit for the goroutine it lets in, gives back one holder's unit, or moves none (a refinement of `AbstractPool`). `RunReturnsWhileConnsLive` must also excuse a closed pool: without that excuse TLC finds a `Run` that hangs after `Close`, the deadlock of `pool_deadconn` (see the hazards). |
| merge_spec | MCDeploymentMerge_spec.cfg | violation | `CombinedMatchesSpec`: the new images are appended twice, and the padding uses the new first image. E2 gives `[img2,img2,img2]`, not `[img1,img1,img2]`. |
| merge_history | MCDeploymentMerge_history.cfg | violation | `DetailsUnchanged`: `Details[0].Files[0]` becomes `{a,b}`, and `Details[0].Images` becomes the second deployment's images. |
| lifecycle | MCTestNetLifecycle.cfg | pass | `AbsoluteNumsContiguous` (spec property 1): concurrent `AddNode` calls give absolute numbers 0..N-1 in order. `StoredInOrder`: the rows `GetAllNodesByTestNet` returns keep the order of `tn.Nodes`, whatever inserts failed. `AddressedWhileRowsStored`: while every insert has stored its row, an outage request, even one served while `StoreNodes` runs, hands the backend exactly the nodes `tn.Nodes` numbers node1 and node2, or gets 404. `WaiterWakes`: the build finishes and the waiter always restores. `TypeOK`. 54k states. |
| lifecycle_rows | MCTestNetLifecycle_rows.cfg | violation | `OutageBetweenAddressedNodes`: the insert of w1 fails early. `StoreNodes` logs it and returns nil, and `addOutage(0, 2)` then resolves number 2 over the rows to w3, not w2. The same happens when an `Exec` failure leaves its transaction holding the write lock, or when a `Commit` fails and `InsertNode` still returns the id with no error. |
| pool_grow | MCSSHPool_grow.cfg | pass | Three goroutines over two units, one pooled connection of one session, and no death or `Close`. A caller that finds the connection busy dials, perhaps through one reset, while another waits on the semaphore holding the read lock. `EveryRunReturns`: with every connection live, the pool grows and every call returns. `SessionsWithinLimit`: the same bound as above, with more callers than units. 7.1k states, about 1.5 minutes. |
| pool_deadconn | MCSSHPool_deadconn.cfg | violation | `EveryRunReturns` once one pooled connection dies (no `Close` here). Reader `g1` holds the read lock and waits for a unit. `g2` and `g3` hold both units and wait for the write lock. |

Each run's result and its explanation are in the `findings` of `PROJECT.json`.

### Bounds
The bounds are the smallest that still produce each interesting case.
- Two servers of different size are what expose the range-variable read. The equal-size runs show that the defect needs that difference.
- Three nodes is the least that gives each start goroutine a non-trivial peer list.
- For the pool deadlock, three goroutines over a semaphore of two units is the least that has both readers and writers blocked at once. `pool_safety` uses two goroutines over one unit, so that one goroutine retries (`MaxRunAttempts` = 2) while the other runs two commands; with one unit, a goroutine dials only after a connection died or was closed. `pool_grow` therefore has three goroutines over two units with no death and no `Close`, which is the least that makes the pool grow while another caller waits. With deaths and `Close` as well, three goroutines do not finish in ten minutes.
- The copy helpers run on two servers of two nodes each, four goroutines for `CreateConfigs`. A goroutine that runs after the loop has counted past its node is then reachable for every node but the last. `CopyBytesToNodeFiles` sends two of its three files to the same node, so their order is not fixed by the destination.
- One failure or one connection death per behaviour already reaches every error path. A second would only repeat them.
- The control plane gets one request to any handler, for the testnet or for another id. node1 is 0 or not a number, and node2 is 2 (E5). Requests touch each other only through the netem sets, which no property reads, so a second request would only multiply states. Six handlers with all their parameters give 270k states and take close to five minutes.

Every passing run fires every action and every disjunct.

### Fairness
Go's scheduler runs every runnable goroutine eventually, so each step is weakly fair.
- Blocking acquisitions are strongly fair: the `RLock`, the `Lock` and the semaphore, whose waiters `x/sync/semaphore` wakes in FIFO order.
  - A waiter that is enabled infinitely often does get in.
- Callers of the pool are not obliged to call, so `CallRun` has no fairness.
- The environment's actions have no fairness: remote failures and connection deaths.
- Control-plane requests are the environment's and have no fairness.
- In `CopyHelpers` every goroutine step is weakly fair. `CopyToAllNodes`' fairness is applied to its own call only (`CTAStep`), because its first step stays enabled, though never taken, in a behaviour that calls another helper.
- `Close` need not be called; once called, it waits in `mux.Lock()` under the same strong fairness as `AppendConn`.

### Mutants
Each property of a passing run is paired with a mutant of the code it is about. The mutant is a plausible bug, and TLC finds the property violated with it. The pairs:
- A wrong step count.
- A missing error check after the init join.
- A start fan-out that returns without its join.
- A copy failure that does not release its unit, that releases it twice, or that is not reported.
- A `CreateConfigs` goroutine that closes over the loop's `node` instead of taking it as an argument (`EveryCopyAsIntended`).
- An acquire whose error is ignored (`SessionsWithinLimit`, in both pool runs).
- A `Dial` whose `client == nil` branch releases without returning, so the `err != nil` branch releases again (`TypeOK`).
- A `NewSession` error path that does not release (`ImplementsAbstractPool`, at the very step that drops the unit).
- A `Run` that does not release its session (`RunReturnsWhileConnsLive`, `EveryRunReturns` in `pool_grow`).
- A scan that returns a session without its `RUnlock` (`CloseReturns`).
- An `AddNode` numbering past the end (`TypeOK`), and a `StoreNodes` that stores `tn.Nodes` instead of the newly built nodes (`StoredInOrder`).
- An outage handler that looks node2 up with `nodeNum1`, a copy of the line above it (`AddressedWhileRowsStored`).

## 4. Not modelled, and the plan

Not modelled:
- Command formatting and quoting (`DockerExec`, `logSanitizeAndStore`'s sanitising), `util`'s file and JSON helpers, and the SQL itself. These are pure conversions or I/O, and no property here depends on their output.
- `adjunct.go`. `GetSCNodes` and `GetNewSCNodes` only read the testnet through `GetSSHNodes`, which is not in `src/`.
- The rest of `util.go`: file, `BashExec` and JSON helpers with no shared state. Only `GetUUIDString` (in `SingleCp`, as a step that may fail) and `GetJSONString` are called from `src/`. The getters' doc comments say they fail on a missing key, but they return nil; their `case []string` never matches JSON decoded into `interface{}`. A unit test reaches all of this, so a model would add nothing.
- `KeepTryRun` re-runs a command whose failed attempt may already have taken effect. The model does not track remote side effects, and nothing in the spec or the code says a command runs once.
- `ReadGenesis` ignores `json.Unmarshal`'s error and asserts `genesis["validators"].([]interface{})` without the ok form. Malformed output from `tendermint` panics the build goroutine. This is data parsing that the model abstracts into its outcomes.
- `CopyAllToServers`' error for an odd number of paths. Every caller passes pairs.
- The rest of `node.go`: `DeleteNode`, `DeleteNodesByTestNet`, `DeleteNodesByServer`, `GetNode` and `GetAllNodes`. Nothing in `src/` calls them, so no run could exercise them. Once an abandoned `InsertNode` transaction holds SQLite's write lock (`NodeDB.tla`), the deletes' `Exec` would fail too.
- `TestNet`'s accessors `GetFlatClients`, `GetServer`, `GetLastestDeploymentDetails`, `PreOrderNodes` and `PreOrderNewNodes`, and `Destroy`. They only read under the read lock or delete the snapshot, and nothing in `src/` calls them.
- `Run`'s deferred `session.Close()` on the nil session that a failed `getSession` returns: `Session` is not in `src/`.
- A host that resets forever. `Dial` retries on reset with the unit held, as `getSession` does, but each reset spends one of `MaxFailures`.
- `GetAvailibleNodes` and `IntArrRemove`/`IntArrFill`. Nothing in the repository calls them. `GetAllNodesByServer` (`node.go:25`) gives `Sprintf` no argument for `%d`, so its query is not valid SQL and `CheckFatal` ends the process before the removal loop. The loop would also remove `node.Id`, a table-wide row id, as an index.
- `util`'s JSON getters and `GetBlockchainConfig`. The latter decodes `files["genesis.json"]` whatever file it is asked for (`util.go:376`).
- The control plane's spec 4.7 status table is not checked as a property. The model reproduces the departures: the "Success" after a failed `RemoveAll` or `ApplyToAll`, and 200 "Success" with no node touched for a testnet id without rows, where the spec says 404. The handlers pass `params["testnetId"]`, a string, to `GetAllNodesByTestNet(int)` in `node.go`, so `part_000` and `node.go` come from different versions. The model takes the query as `node.go` writes it.

Planned next, in order:
1. **TestNet**: the snapshot round trip (spec property 8). `StoreNodes` skips `labels[i]` when labels is nil, which is what the only `Build` here returns.
2. **BuildState**: the registry, and `DoneBuilding`'s waiters, composed with `TestNet`.
