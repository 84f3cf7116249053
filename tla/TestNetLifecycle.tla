-------------------------- MODULE TestNetLifecycle --------------------------
(***************************************************************************)
(* A build's life on a TestNet (src/testnet/testnet.go): the build's      *)
(* workers register their nodes with AddNode, under tn.mux.  Once Build    *)
(* has joined them and returned, the caller persists the new nodes with    *)
(* StoreNodes, one InsertNode into the nodes table (NodeDB) per node, and  *)
(* then runs FinishedBuilding, which signals DoneBuilding on the build     *)
(* state, empties NewlyBuiltNodes and Stores the snapshot "testnet_<id>"   *)
(* in the metadata store, in that order and without the lock.  A          *)
(* goroutine waiting for the build to complete (BuildState's waiters,      *)
(* spec 4.2) then reads the testnet back with RestoreTestNet.              *)
(*                                                                         *)
(* A node is the worker that built it with the absolute number AddNode     *)
(* gave it.  PrevNodes nodes exist from an earlier build, whose snapshot   *)
(* and rows are stored (none when PrevNodes = 0: a new testnet has none);  *)
(* the earlier node i is the number i.                                     *)
(***************************************************************************)
EXTENDS Integers, Sequences, FiniteSets, SequencesExt, NodeDB

CONSTANTS
  Workers,           \* goroutines of the build that each add one node
  PrevNodes,         \* nodes of the testnet before this build
  NoSnapshot,        \* GetMetaP finds no "testnet_<id>" key
  MaxInsertFailures, \* InsertNode calls that may leave their row out
  Requests, TestNetId, TestNetIds, Node1Params, Node2Params, MaxBackendFailures
                     \* the control plane's requests (ControlPlane)

ASSUME PrevNodes \in Nat /\ MaxInsertFailures \in Nat

Prev == [i \in 1 .. PrevNodes |-> [by |-> i, abs |-> i - 1]]

VARIABLES
  nodes,      \* tn.Nodes
  newly,      \* tn.NewlyBuiltNodes
  owner,      \* the goroutine holding tn.mux for writing, or "none"
  wpc,        \* wpc[w]: "add", "locked", "numbered", "done"
  absOf,      \* absOf[w]: the AbsoluteNum worker w's AddNode computed
  finPc,      \* the caller of StoreNodes and FinishedBuilding
  done,       \* the build state's done flag (DoneBuilding)
  snapshot,   \* the stored snapshot: [nodes, newly], or NoSnapshot
  waiterPc,   \* "waiting", "restored"
  restored,   \* what RestoreTestNet returned to the waiter
  ndb,        \* the nodes table
  si,         \* the index of StoreNodes' range loop over NewlyBuiltNodes
  insertFailures,   \* InsertNode calls that did not store their row
  response, shaped, outages, backendFailures   \* ControlPlane's

\* The control plane's handlers, served while and after the build runs.
CP == INSTANCE ControlPlane

tnVars == <<nodes, newly, owner, wpc, absOf>>
dbVars == <<ndb, si, insertFailures>>
cpVars == <<response, shaped, outages, backendFailures>>
vars == <<tnVars, finPc, done, snapshot, waiterPc, restored, dbVars, cpVars>>

Init ==
  /\ nodes = Prev
  /\ newly = << >>
  /\ owner = "none"
  /\ wpc = [w \in Workers |-> "add"]
  /\ absOf = [w \in Workers |-> 0]
  /\ finPc = "building"
  /\ done = FALSE
  /\ snapshot = IF PrevNodes = 0 THEN NoSnapshot ELSE [nodes |-> Prev, newly |-> << >>]
  /\ waiterPc = "waiting"
  /\ restored = NoSnapshot
  /\ ndb = NewNodeDB([i \in 1 .. PrevNodes |-> i])
  /\ si = 1 /\ insertFailures = 0
  /\ CP!Init

-----------------------------------------------------------------------------
\* mutant: AddNode without tn.mux.Lock()
AddNodeUnlocked(w) ==
  /\ wpc[w] = "add"
  /\ wpc' = [wpc EXCEPT ![w] = "locked"]
  /\ UNCHANGED <<absOf, nodes, newly, owner, finPc, done, snapshot, waiterPc, restored, dbVars, cpVars>>

\* AddNode: tn.mux.Lock().
AddNodeLock(w) ==
  /\ wpc[w] = "add" /\ owner = "none"
  /\ owner' = w /\ wpc' = [wpc EXCEPT ![w] = "locked"]
  /\ UNCHANGED <<absOf, nodes, newly, finPc, done, snapshot, waiterPc, restored, dbVars, cpVars>>

\* mutant: the number is one past the length
AddNodeNumberPastEnd(w) ==
  /\ wpc[w] = "locked"
  /\ absOf' = [absOf EXCEPT ![w] = Len(nodes) + 1]
  /\ wpc' = [wpc EXCEPT ![w] = "numbered"]
  /\ UNCHANGED <<nodes, newly, owner, finPc, done, snapshot, waiterPc, restored, dbVars, cpVars>>

\* node.AbsoluteNum = len(tn.Nodes)
AddNodeNumber(w) ==
  /\ wpc[w] = "locked"
  /\ absOf' = [absOf EXCEPT ![w] = Len(nodes)]
  /\ wpc' = [wpc EXCEPT ![w] = "numbered"]
  /\ UNCHANGED <<nodes, newly, owner, finPc, done, snapshot, waiterPc, restored, dbVars, cpVars>>

\* Append to NewlyBuiltNodes and to Nodes; the deferred Unlock.
AddNodeAppend(w) ==
  /\ wpc[w] = "numbered"
  /\ LET n == [by |-> w, abs |-> absOf[w]]
     IN /\ nodes' = Append(nodes, n)
        /\ newly' = Append(newly, n)
  /\ owner' = IF owner = w THEN "none" ELSE owner
  /\ wpc' = [wpc EXCEPT ![w] = "done"]
  /\ UNCHANGED <<absOf, finPc, done, snapshot, waiterPc, restored, dbVars, cpVars>>

(* Build has joined its workers and returned; its caller calls             *)
(* StoreNodes(labels), then FinishedBuilding (spec 4.4, 4.6 step 5).       *)
BuildReturned ==
  /\ finPc = "building" /\ \A w \in Workers : wpc[w] = "done"
  /\ finPc' = "storing" /\ si' = 1
  /\ UNCHANGED <<tnVars, done, snapshot, waiterPc, restored, ndb, insertFailures, cpVars>>

\* mutant: StoreNodes ranges over tn.Nodes instead of tn.NewlyBuiltNodes
StoreNodesAllNodes ==
  /\ finPc = "storing"
  /\ \/ /\ si <= Len(nodes)
        /\ \E r \in InsertNode(ndb, nodes[si].by) :
             /\ ~Stored(ndb, r) => insertFailures < MaxInsertFailures \/ ndb.locked
             /\ ndb' = r.db
             /\ insertFailures' = insertFailures + IF Stored(ndb, r) \/ ndb.locked THEN 0 ELSE 1
        /\ si' = si + 1 /\ UNCHANGED finPc
     \/ si > Len(nodes) /\ finPc' = "nodesStored" /\ UNCHANGED dbVars
  /\ UNCHANGED <<tnVars, done, snapshot, waiterPc, restored, cpVars>>

(* StoreNodes(nil): for each newly built node, db.InsertNode(node); an     *)
(* error is logged and the loop goes on; it returns nil.                   *)
StoreNodes ==
  /\ finPc = "storing"
  /\ \/ /\ si <= Len(newly)
        /\ \E r \in InsertNode(ndb, newly[si].by) :
             /\ ~Stored(ndb, r) => insertFailures < MaxInsertFailures \/ ndb.locked
             /\ ndb' = r.db
             /\ insertFailures' = insertFailures + IF Stored(ndb, r) \/ ndb.locked THEN 0 ELSE 1
        /\ si' = si + 1 /\ UNCHANGED finPc
     \/ si > Len(newly) /\ finPc' = "nodesStored" /\ UNCHANGED dbVars
  /\ UNCHANGED <<tnVars, done, snapshot, waiterPc, restored, cpVars>>

\* mutant: FinishedBuilding without DoneBuilding
FinishDoneNoSignal ==
  /\ finPc = "nodesStored"
  /\ finPc' = "signalled"
  /\ UNCHANGED <<tnVars, done, snapshot, waiterPc, restored, dbVars, cpVars>>

\* FinishedBuilding: tn.BuildState.DoneBuilding().
FinishDone ==
  /\ finPc = "nodesStored"
  /\ done' = TRUE /\ finPc' = "signalled"
  /\ UNCHANGED <<tnVars, snapshot, waiterPc, restored, dbVars, cpVars>>

\* tn.NewlyBuiltNodes = []db.Node{}
FinishClear ==
  /\ finPc = "signalled"
  /\ newly' = << >> /\ finPc' = "cleared"
  /\ UNCHANGED <<absOf, nodes, owner, wpc, done, snapshot, waiterPc, restored, dbVars, cpVars>>

\* tn.Store(): db.SetMeta("testnet_"+tn.TestNetID, *tn)
FinishStore ==
  /\ finPc = "cleared"
  /\ snapshot' = [nodes |-> nodes, newly |-> newly] /\ finPc' = "stored"
  /\ UNCHANGED <<tnVars, done, waiterPc, restored, dbVars, cpVars>>

(* The waiter wakes once the build is done and calls RestoreTestNet, which *)
(* returns the stored snapshot, or the GetMetaP error when there is none.  *)
WaiterRestores ==
  /\ waiterPc = "waiting" /\ done
  /\ restored' = snapshot /\ waiterPc' = "restored"
  /\ UNCHANGED <<tnVars, finPc, done, snapshot, dbVars, cpVars>>

Next ==
  \/ \E w \in Workers : AddNodeLock(w) \/ AddNodeNumber(w) \/ AddNodeAppend(w)
  \/ BuildReturned \/ StoreNodes
  \/ FinishDone \/ FinishClear \/ FinishStore
  \/ WaiterRestores
  \/ \E r \in Requests :
       /\ finPc # "building"
       /\ CP!Serve(r)
       /\ UNCHANGED <<tnVars, finPc, done, snapshot, waiterPc, restored, si, insertFailures>>

(* Goroutines run when runnable; a blocked Lock gets in when the mutex is  *)
(* free infinitely often.  Requests are the environment's: none need come. *)
(* They come once Build has returned (spec 4.7: post-build), StoreNodes   *)
(* still running: AddNode never touches the rows a handler reads.         *)
Fairness ==
  /\ \A w \in Workers : SF_vars(AddNodeLock(w))
                         /\ WF_vars(AddNodeNumber(w) \/ AddNodeAppend(w))
  /\ WF_vars(BuildReturned) /\ WF_vars(StoreNodes)
  /\ WF_vars(FinishDone) /\ WF_vars(FinishClear) /\ WF_vars(FinishStore)
  /\ WF_vars(WaiterRestores)

Spec == Init /\ [][Next]_vars /\ Fairness

-----------------------------------------------------------------------------
NodeIds == Workers \cup (1 .. PrevNodes)
NodeRecs == [by : NodeIds, abs : 0 .. PrevNodes + Cardinality(Workers) - 1]

TypeOK ==
  /\ nodes \in Seq(NodeRecs) /\ newly \in Seq(NodeRecs)
  /\ owner \in Workers \cup {"none"}
  /\ wpc \in [Workers -> {"add", "locked", "numbered", "done"}]
  /\ absOf \in [Workers -> 0 .. PrevNodes + Cardinality(Workers) - 1]
  /\ finPc \in {"building", "storing", "nodesStored", "signalled", "cleared", "stored"}
  /\ done \in BOOLEAN /\ waiterPc \in {"waiting", "restored"}
  /\ ndb.rows \in Seq([id : Nat, node : NodeIds]) /\ ndb.locked \in BOOLEAN
  /\ insertFailures \in 0 .. MaxInsertFailures
  /\ \A r \in Requests : response[r].status \in {0, 200, 400, 404, 500}
  /\ shaped \subseteq NodeIds /\ outages \subseteq NodeIds \X NodeIds
  /\ backendFailures \in 0 .. MaxBackendFailures

(* spec section 8, property 1: however the workers' AddNode calls          *)
(* interleave, tn.Nodes holds every node once and their absolute numbers   *)
(* are 0 .. N-1 in order.                                                  *)
AbsoluteNumsContiguous ==
  /\ \A i \in DOMAIN nodes : nodes[i].abs = i - 1
  /\ \A w \in Workers : wpc[w] = "done" => \E i \in DOMAIN nodes : nodes[i].by = w

\* The nodes of the testnet's rows, in the order GetAllNodesByTestNet reads them.
StoredOrder == GetAllNodesByTestNet(ndb)

(* The rows never misnumber a node upwards: read back by id, they are the  *)
(* nodes of tn.Nodes in tn.Nodes' order, each at most once, whatever the  *)
(* interleaving of AddNode calls and whichever inserts of StoreNodes fail. *)
StoredInOrder ==
  \A i, j \in DOMAIN StoredOrder :
    i < j => \E k, l \in DOMAIN nodes :
               k < l /\ nodes[k].by = StoredOrder[i] /\ nodes[l].by = StoredOrder[j]

\* The node of tn.Nodes that AddNode gave the absolute number k.
NodeAt(k) == nodes[k + 1].by

(* spec 4.3, 4.7 and E5: an outage request addresses nodes by absolute     *)
(* number, which GetNodeByAbsNum resolves over the testnet's rows.  The    *)
(* backend is always handed the two nodes tn.Nodes numbers node1 and node2 *)
(* (and none when they do not exist yet), whenever the request comes.     *)
OutageBetweenAddressedNodes ==
  \A r \in Requests :
    response[r].pair # << >> =>
      /\ {response[r].q.node1, response[r].q.node2} \subseteq 0 .. Len(nodes) - 1
      /\ response[r].pair = <<NodeAt(response[r].q.node1), NodeAt(response[r].q.node2)>>

(* The same while every InsertNode of StoreNodes has stored its row,       *)
(* whatever it returned (a dropped Commit error returns (id, nil) with no  *)
(* row): requests served during the build see a prefix of the rows and    *)
(* get 404 for the nodes not stored yet, never another node.              *)
AddressedWhileRowsStored ==
  insertFailures = 0 => OutageBetweenAddressedNodes

(* Every goroutine waiting for the build gets to read the testnet back.    *)
WaiterWakes == <>(waiterPc = "restored")

=============================================================================
