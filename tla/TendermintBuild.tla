--------------------------- MODULE TendermintBuild ---------------------------
(***************************************************************************)
(* The Tendermint build (src/blockchains/tendermint/tendermint.go, Build)  *)
(* over the fan-out helpers and the SSH Run of src/ssh/client.go.          *)
(*                                                                         *)
(*  - init fan-out: one goroutine per node runs "tendermint init", reads   *)
(*    the node id and appends the node's peer address to the shared slice  *)
(*    peers (under a mutex, so in COMPLETION order), then reads the local  *)
(*    genesis and appends the node's validator;                            *)
(*  - the main goroutine joins, checks the build error, builds one genesis *)
(*    from the validators and distributes it with CopyBytesToAllNodes;     *)
(*  - start fan-out: one goroutine per node launches the daemon with the   *)
(*    peer list append(peers[:abs], peers[abs+1:]...), which is computed   *)
(*    in place in the backing array of the shared slice peers.             *)
(*                                                                         *)
(* A node is the pair <<server, localId>>; its peer address and its        *)
(* validator are represented by the node itself.  Every remote call goes  *)
(* through Client.Run, which fails with the build error once the build is *)
(* stopped, and may fail by itself (at most MaxRemoteFailures times).     *)
(* Run's bs.Stop() check and the command are two steps: a goroutine that  *)
(* passed the check runs its command whatever happens in between.         *)
(***************************************************************************)
EXTENDS Naturals, Sequences, FiniteSets, SequencesExt

CONSTANTS
  IpCount,            \* IpCount[s]: number of node IPs of the s-th server
  MaxRemoteFailures,  \* how many remote commands may fail in one behaviour
  NoError,            \* the nil error
  BuildError,         \* the error a failing remote command returns
  NoValue             \* an unset key of the build state's scratchpad

ASSUME /\ IpCount \in Seq(Nat \ {0})
       /\ MaxRemoteFailures \in Nat

Servers  == 1 .. Len(IpCount)
Nodes    == UNION { {<<s, l>> : l \in 0 .. IpCount[s] - 1} : s \in Servers }
NumNodes == Cardinality(Nodes)
LocalIds == 0 .. (FoldSeq(LAMBDA a, b : IF a > b THEN a ELSE b, 0, IpCount) - 1)

\* The absolute node number AllNodeExecCon hands to the callback: nodes are
\* numbered in lexicographic order of (serverNum, localNodeNum) from 0.
AbsoluteNum(n) == FoldSeq(+, 0, SubSeq(IpCount, 1, n[1] - 1)) + n[2]

BS == INSTANCE BuildState WITH Keys <- LocalIds

VARIABLES
  phase,       \* where the main goroutine of Build is
  wpc,         \* wpc[n]: where the fan-out goroutine of node n is
  peers,       \* the shared slice peers (its backing array, length N)
  validators,  \* the validators collected by the init fan-out
  genesis,     \* genesis[n]: the genesis file in node n's container
  launched,    \* the nodes whose daemon was started
  peerList,    \* peerList[n]: the persistent peers node n was started with
  bs,          \* the build's BuildState record
  failures,    \* remote commands that failed so far
  buildErr,    \* the error Build returned, once phase = "returned"
  checked      \* checked[n]: node n's goroutine is in Run past its Stop check

vars == <<phase, wpc, peers, validators, genesis, launched, peerList, bs, failures,
          buildErr, checked>>

(* A genesis file, by its chain id and the validators it lists.  Before   *)
(* "tendermint init" a container has none; init writes a local genesis    *)
(* whose only validator is the node itself.                               *)
NoGenesis       == [chainId |-> "none", validators |-> {}]
LocalGenesis(n) == [chainId |-> "test-chain", validators |-> {n}]

Phases == {"init", "distribute", "start", "returned"}
WorkerPcs == {"exec_init", "show_node_id", "read_genesis", "exec_daemon", "done"}

\* mutant: the step count of SetBuildSteps counts two steps per node
InitTwoStepsPerNode ==
  /\ phase = "init"
  /\ wpc = [n \in Nodes |-> "exec_init"]
  /\ peers = << >>
  /\ validators = {}
  /\ genesis = [n \in Nodes |-> NoGenesis]
  /\ launched = {}
  /\ peerList = [n \in Nodes |-> << >>]
  /\ bs = BS!SetBuildStage(BS!SetBuildSteps(BS!NewBuildState, 1 + NumNodes * 2),
                           "Initializing the nodes")
  /\ failures = 0 /\ buildErr = NoError /\ checked = [n \in Nodes |-> FALSE]

Init ==
  /\ phase = "init"
  /\ wpc = [n \in Nodes |-> "exec_init"]
  /\ peers = << >>
  /\ validators = {}
  /\ genesis = [n \in Nodes |-> NoGenesis]
  /\ launched = {}
  /\ peerList = [n \in Nodes |-> << >>]
  /\ bs = BS!SetBuildStage(BS!SetBuildSteps(BS!NewBuildState, 1 + NumNodes * 4),
                           "Initializing the nodes")
  /\ failures = 0 /\ buildErr = NoError /\ checked = [n \in Nodes |-> FALSE]

-----------------------------------------------------------------------------
(* A fan-out callback returns an error: AllNodeExecCon logs it, reports it *)
(* to the build state and the goroutine ends (wg.Done).                    *)
WorkerFails(n, b) ==
  /\ wpc' = [wpc EXCEPT ![n] = "done"]
  /\ checked' = [checked EXCEPT ![n] = FALSE]
  /\ bs' = BS!ReportError(b, BuildError)

(* Client.Run up to its command: once the build is stopped it returns     *)
(* bs.GetError(), else it goes on to the command.  b is the build state   *)
(* after what the callback did before calling Run, bDone the one after    *)
(* what it defers to its return.                                          *)
StopCheck(n, b, bDone) ==
  \/ BS!Stop(b) /\ WorkerFails(n, bDone)
  \/ ~BS!Stop(b) /\ checked' = [checked EXCEPT ![n] = TRUE]
     /\ bs' = b /\ UNCHANGED wpc

(* session.CombinedOutput(command) fails on the remote side; Run returns   *)
(* the formatted error.                                                    *)
RemoteFails(n, b) ==
  /\ failures < MaxRemoteFailures /\ failures' = failures + 1
  /\ WorkerFails(n, b)

(* The command succeeds; the goroutine moves to pc.                        *)
Proceed(n, pc) ==
  /\ wpc' = [wpc EXCEPT ![n] = pc] /\ checked' = [checked EXCEPT ![n] = FALSE]

InitPcs == {"exec_init", "show_node_id", "read_genesis"}

(* Each remote step of the init callback starts in Run, at its Stop check. *)
InitRunCheck(n) ==
  /\ phase = "init" /\ wpc[n] \in InitPcs /\ ~checked[n]
  /\ StopCheck(n, bs, bs)
  /\ UNCHANGED <<phase, peers, validators, genesis, launched, peerList, failures, buildErr>>

\* wg.Wait() of AllNodeExecCon: every goroutine of the fan-out has ended.
Joined == \A n \in Nodes : wpc[n] = "done"

-----------------------------------------------------------------------------
(* Init fan-out callback, in three remote commands, each after its check. *)
ExecInit(n) ==
  /\ phase = "init" /\ wpc[n] = "exec_init" /\ checked[n]
  /\ \/ /\ Proceed(n, "show_node_id")
        /\ genesis' = [genesis EXCEPT ![n] = LocalGenesis(n)]
        /\ UNCHANGED <<bs, failures>>
     \/ RemoteFails(n, bs) /\ UNCHANGED genesis
  /\ UNCHANGED <<phase, peers, validators, launched, peerList, buildErr>>

ShowNodeId(n) ==
  /\ phase = "init" /\ wpc[n] = "show_node_id" /\ checked[n]
  /\ \/ /\ Proceed(n, "read_genesis")
        /\ peers' = Append(peers, n)
        /\ UNCHANGED <<bs, failures>>
     \/ RemoteFails(n, bs) /\ UNCHANGED peers
  /\ UNCHANGED <<phase, validators, genesis, launched, peerList, buildErr>>

(* cat genesis.json, IncrementBuildProgress, then the parse of the local  *)
(* validator: a GetJSONString error returns before the append (counted    *)
(* against MaxRemoteFailures); else the validator is appended under the   *)
(* mutex and the progress incremented once more.                          *)
ReadGenesis(n) ==
  /\ phase = "init" /\ wpc[n] = "read_genesis" /\ checked[n]
  /\ \/ /\ Proceed(n, "done")
        /\ validators' = validators \cup {n}
        /\ bs' = BS!IncrementBuildProgress(BS!IncrementBuildProgress(bs))
        /\ UNCHANGED failures
     \/ RemoteFails(n, BS!IncrementBuildProgress(bs)) /\ UNCHANGED validators
     \/ RemoteFails(n, bs) /\ UNCHANGED validators
  /\ UNCHANGED <<phase, peers, genesis, launched, peerList, buildErr>>

\* mutant: Build goes on to the genesis without checking the fan-out's error
EndInitNoErrorCheck ==
  /\ phase = "init" /\ Joined
  /\ phase' = "distribute"
  /\ bs' = BS!SetBuildStage(bs, "Propogating the genesis file")
  /\ UNCHANGED <<wpc, peers, validators, genesis, launched, peerList, failures, buildErr,
                 checked>>

(* After the init fan-out: return its error, or move to the genesis stage. *)
EndInit ==
  /\ phase = "init" /\ Joined
  /\ \/ /\ BS!GetError(bs) # NoError /\ phase' = "returned"
        /\ buildErr' = BS!GetError(bs) /\ UNCHANGED bs
     \/ /\ BS!GetError(bs) = NoError
        /\ phase' = "distribute"
        /\ bs' = BS!SetBuildStage(bs, "Propogating the genesis file")
        /\ UNCHANGED buildErr
  /\ UNCHANGED <<wpc, peers, validators, genesis, launched, peerList, failures, checked>>

-----------------------------------------------------------------------------
(* CopyBytesToAllNodes(GetGenesisFile(validators), genesis path), whole.   *)
(* CopyToAllNodes hands &server, the address of the range variable, to    *)
(* the goroutine that docker-copies into the containers of the i-th       *)
(* server; that goroutine reads server.Ips only after the scp to the host *)
(* has finished, when the loop may have moved on to a later server.  So   *)
(* it copies into containers 0 .. len(servers[r].Ips)-1 of server i for   *)
(* some r >= i; copies into containers that do not exist fail.  The       *)
(* module CopyToAllNodes models this helper step by step.                 *)
LoopVarReads == {r \in [Servers -> Servers] : \A s \in Servers : r[s] >= s}

CopiedTo(r)   == {n \in Nodes : n[2] < IpCount[r[n[1]]]}
NoSuchNode(r) == \E s \in Servers : IpCount[r[s]] > IpCount[s]

\* One remote failure (an scp to a host or a docker cp) loses some of the
\* copies into the containers of one server.
LostCopies(r) ==
  IF failures < MaxRemoteFailures
  THEN UNION { (SUBSET {n \in CopiedTo(r) : n[1] = s}) \ {{}} : s \in Servers }
  ELSE {}

(* GetGenesisFile: one JSON genesis with chain id "whiteblock" listing the *)
(* validators; the timestamp and the layout are left out.                 *)
GetGenesisFile(vs) == [chainId |-> "whiteblock", validators |-> vs]

(* CopyBytesToAllNodes first stages the blob: GetUUIDString's error is    *)
(* returned before anything is copied (and not reported to the build     *)
(* state); buildState.Write's error is ignored, so the staged file is     *)
(* missing, the scp to each host fails unnoticed and every docker cp from *)
(* the host path fails and is reported.  Staging failures count against   *)
(* MaxRemoteFailures.                                                      *)
StagingOutcomes ==
  {"staged"} \cup (IF failures < MaxRemoteFailures
                   THEN {"uuid_error", "write_error"} ELSE {})

(* The copy, then the main goroutine's check of its error: return it, or  *)
(* move on to the start stage.                                             *)
DistributeGenesis ==
  /\ phase = "distribute"
  /\ \E st \in StagingOutcomes, r \in LoopVarReads :
     \E lost \in IF st = "staged" THEN {{}} \cup LostCopies(r) ELSE {{}} :
       LET got    == IF st = "staged" THEN CopiedTo(r) \ lost ELSE {}
           failed == st # "staged" \/ lost # {} \/ NoSuchNode(r)
           b      == IF failed /\ st # "uuid_error"
                     THEN BS!ReportError(bs, BuildError) ELSE bs
       IN /\ genesis' = [n \in Nodes |-> IF n \in got
                                          THEN GetGenesisFile(validators)
                                          ELSE genesis[n]]
          /\ failures' = IF st # "staged" \/ lost # {} THEN failures + 1 ELSE failures
          /\ \/ /\ failed /\ phase' = "returned" /\ bs' = b /\ UNCHANGED wpc
                /\ buildErr' = BuildError
             \/ /\ ~failed
                /\ phase' = "start"
                /\ bs' = BS!SetBuildStage(b, "Starting tendermint")
                /\ wpc' = [n \in Nodes |-> "exec_daemon"]
                /\ UNCHANGED buildErr
  /\ UNCHANGED <<peers, validators, launched, peerList, checked>>

-----------------------------------------------------------------------------
(* Start fan-out callback: DockerExecdLog(localId, "tendermint node ...    *)
(* --p2p.persistent_peers=" + join(append(peers[:abs], peers[abs+1:]...))). *)
(* The append writes the shifted tail into peers' own backing array.       *)
(* logSanitizeAndStore records the command under the key of the LOCAL     *)
(* node number; the deferred IncrementBuildProgress runs on both paths.   *)
ExcludeSelf(p, k) == RemoveAt(p, k + 1)

StartDaemon(n) ==
  /\ phase = "start" /\ wpc[n] = "exec_daemon" /\ ~checked[n]
  /\ LET list == ExcludeSelf(peers, AbsoluteNum(n))
     IN /\ peers' = list \o << Last(peers) >>
        /\ peerList' = [peerList EXCEPT ![n] = list]
        /\ StopCheck(n, BS!Set(bs, n[2], n),
                     BS!IncrementBuildProgress(BS!Set(bs, n[2], n)))
  /\ UNCHANGED <<phase, validators, genesis, launched, failures, buildErr>>

(* docker exec -d ... starts the daemon, or fails remotely; either way the *)
(* deferred IncrementBuildProgress runs.                                   *)
Launch(n) ==
  /\ phase = "start" /\ wpc[n] = "exec_daemon" /\ checked[n]
  /\ \/ /\ Proceed(n, "done")
        /\ launched' = launched \cup {n}
        /\ bs' = BS!IncrementBuildProgress(bs)
        /\ UNCHANGED failures
     \/ RemoteFails(n, BS!IncrementBuildProgress(bs)) /\ UNCHANGED launched
  /\ UNCHANGED <<phase, peers, validators, genesis, peerList, buildErr>>

\* mutant: the start fan-out returns without waiting for its goroutines
EndStartNoJoin ==
  /\ phase = "start"
  /\ phase' = "returned" /\ buildErr' = BS!GetError(bs)
  /\ UNCHANGED <<wpc, peers, validators, genesis, launched, peerList, bs, failures, checked>>

EndStart ==
  /\ phase = "start" /\ Joined
  /\ phase' = "returned" /\ buildErr' = BS!GetError(bs)
  /\ UNCHANGED <<wpc, peers, validators, genesis, launched, peerList, bs, failures, checked>>

-----------------------------------------------------------------------------
Next ==
  \/ \E n \in Nodes : \/ InitRunCheck(n) \/ ExecInit(n) \/ ShowNodeId(n) \/ ReadGenesis(n)
                     \/ StartDaemon(n) \/ Launch(n)
  \/ EndInit
  \/ DistributeGenesis
  \/ EndStart

(* Goroutines are scheduled preemptively by the Go runtime: every runnable *)
(* goroutine eventually runs.                                              *)
Fairness ==
  /\ \A n \in Nodes : WF_vars(InitRunCheck(n) \/ ExecInit(n) \/ ShowNodeId(n) \/ ReadGenesis(n)
                               \/ StartDaemon(n) \/ Launch(n))
  /\ WF_vars(EndInit \/ DistributeGenesis \/ EndStart)

Spec == Init /\ [][Next]_vars /\ Fairness

-----------------------------------------------------------------------------
(***************************************************************************)
(* Properties                                                              *)
(***************************************************************************)
TypeOK ==
  /\ phase \in Phases
  /\ wpc \in [Nodes -> WorkerPcs]
  /\ peers \in Seq(Nodes)
  /\ validators \subseteq Nodes
  /\ genesis \in [Nodes -> [chainId : {"none", "test-chain", "whiteblock"},
                            validators : SUBSET Nodes]]
  /\ launched \subseteq Nodes
  /\ peerList \in [Nodes -> Seq(Nodes)]
  /\ bs.error \in {NoError, BuildError}
  /\ bs.stepDone \in 0 .. bs.stepCount
  /\ failures \in 0 .. MaxRemoteFailures
  /\ buildErr \in {NoError, BuildError}
  /\ checked \in [Nodes -> BOOLEAN]

\* The genesis that Build distributes was made from the validators of every
\* node: the init fan-out's join and Build's error check come before
\* GetGenesisFile(validators), whichever node failed and when.
GenesisHasEveryValidator ==
  \A n \in Nodes : genesis[n].chainId = "whiteblock" =>
                      genesis[n].validators = Nodes

\* When Build returns without an error, every node's daemon was started.
SuccessLaunchedEveryNode ==
  (phase = "returned" /\ buildErr = NoError) => launched = Nodes

\* The spec (4.6): the persistent peers given to node i are the peers of all
\* the other nodes, each once, and not node i itself.
PeerListExcludesSelf ==
  \A n \in launched :
     /\ Len(peerList[n]) = NumNodes - 1
     /\ ToSet(peerList[n]) = Nodes \ {n}

\* DockerExecdLog records, for every daemon it starts, the command that
\* started it (util.Command{Cmdline, ServerID, Node}) in the build state, so
\* that each node's daemon can be found again by its node.
EveryLaunchRecorded ==
  \A n \in launched : bs.kv[n[2]] = n

=============================================================================
