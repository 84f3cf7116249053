---------------------------- MODULE ControlPlane ----------------------------
(***************************************************************************)
(* The control plane's HTTP handlers (src/unnamed/part_000, package rest): *)
(* handleNet, handleNetAll, stopNet, getNet, addOutage and removeOutage.   *)
(* net/http runs each request in a goroutine of its own; a handler keeps   *)
(* no lock and shares only the nodes table (NodeDB, written by the build's *)
(* StoreNodes) and the netem backend with the others.  Each handler is one *)
(* step: it reads the table once, and nothing it reads is written between  *)
(* that read and its backend calls except by appends it does not look at. *)
(*                                                                         *)
(* The netem backend and the status package are not in the repository:     *)
(* their verbs are modelled from spec 4.7 and E5 (shaped: the nodes with a *)
(* shaping config; outages: the directed pairs whose link is cut).  Any    *)
(* call to them, and the nodes query, may fail, at most                    *)
(* MaxBackendFailures times in a behaviour.                                *)
(***************************************************************************)
EXTENDS Integers, Sequences, NodeDB

CONSTANTS
  Requests,           \* the requests the control plane receives
  TestNetId,          \* the testnet whose rows ndb holds
  TestNetIds,         \* the {testnetId} path parameters requests carry
  Node1Params,        \* the {node1} path parameters: numbers or not
  Node2Params,        \* the {node2} path parameters
  MaxBackendFailures

VARIABLES
  ndb,              \* the nodes table, written by the build
  response,         \* response[r]: what r's handler wrote
  shaped,           \* netem: the nodes with an active shaping config
  outages,          \* netem: the directed node pairs whose link is cut
  backendFailures   \* netem, status and query calls that failed

cpVars == <<response, shaped, outages, backendFailures>>

Handlers == {"handleNet", "handleNetAll", "stopNet", "getNet", "addOutage", "removeOutage"}

(* What a request carries: the handler its method and path route it to,   *)
(* its path parameters and whether its JSON body decodes.                  *)
Inputs == [handler : Handlers, testnet : TestNetIds, bodyOk : BOOLEAN,
           node1 : Node1Params, node2 : Node2Params]

(* The ResponseWriter before the handler writes: status 0 stands for "no  *)
(* header yet".  q is the request served and pair the nodes an outage     *)
(* call was given.                                                         *)
NoInput == [handler |-> "none", testnet |-> TestNetId, bodyOk |-> FALSE, node1 |-> 0, node2 |-> 0]
Unwritten == [status |-> 0, body |-> << >>, q |-> NoInput, pair |-> << >>]

\* w.Write(text): the first write sends status 200 unless one was set.
Write(resp, text) ==
  [resp EXCEPT !.status = IF @ = 0 THEN 200 ELSE @, !.body = Append(@, text)]

\* http.Error(w, msg, code): sets the status and writes the message.
HttpError(resp, code) ==
  [resp EXCEPT !.status = IF @ = 0 THEN code ELSE @, !.body = Append(@, "error")]

\* strconv.Atoi: a path parameter is a number or not.
Atoi(p) == p \in Int

(* db.GetAllNodesByTestNet(id): the rows of testnet id by id.  Another     *)
(* testnet id has no rows, and the query returns an empty list and nil.    *)
Roster(id) == IF id = TestNetId THEN GetAllNodesByTestNet(ndb) ELSE << >>

(* db.GetNodeByAbsNum(nodes, n): the node whose AbsoluteNum is n, which    *)
(* spec 4.3 derives from its place in the rows; an error when none.        *)
HasAbsNum(nodes, n) == n \in 0 .. Len(nodes) - 1
GetNodeByAbsNum(nodes, n) == nodes[n + 1]

\* Whether the next backend call may fail.
MayFail == backendFailures < MaxBackendFailures
Failed == backendFailures' = backendFailures + 1

Rq(q) == [Unwritten EXCEPT !.q = q]
Answer(r, resp) == response' = [response EXCEPT ![r] = resp]
Pending(r, q, h) == q.handler = h /\ response[r] = Unwritten

(* handleNet: decode the configs (400), read the nodes (500), ApplyAll     *)
(* (500), "Success".  The configs name nodes by absolute number; one, at  *)
(* node1, here.  A failing ApplyAll may have shaped some of them.          *)
handleNet(r, q) ==
  LET named == IF HasAbsNum(Roster(q.testnet), q.node1)
               THEN {GetNodeByAbsNum(Roster(q.testnet), q.node1)} ELSE {}
  IN /\ Pending(r, q, "handleNet")
     /\ \/ ~q.bodyOk /\ Answer(r, HttpError(Rq(q), 400))
           /\ UNCHANGED <<shaped, outages, backendFailures>>
        \/ q.bodyOk /\ MayFail /\ Failed /\ Answer(r, HttpError(Rq(q), 500))
           /\ \E part \in SUBSET named : shaped' = shaped \cup part
           /\ UNCHANGED outages
        \/ q.bodyOk /\ shaped' = shaped \cup named
           /\ Answer(r, Write(Rq(q), "Success"))
           /\ UNCHANGED <<outages, backendFailures>>
  /\ UNCHANGED ndb

(* handleNetAll: decode (400), read the nodes (500), RemoveAll with its    *)
(* error dropped, ApplyToAll; its error is reported with http.Error but    *)
(* the handler goes on to w.Write("Success").                              *)
handleNetAll(r, q) ==
  LET nodes == {Roster(q.testnet)[i] : i \in DOMAIN Roster(q.testnet)}
  IN /\ Pending(r, q, "handleNetAll")
     /\ \/ ~q.bodyOk /\ Answer(r, HttpError(Rq(q), 400))
           /\ UNCHANGED <<shaped, backendFailures>>
        \/ q.bodyOk /\ MayFail /\ Failed /\ Answer(r, HttpError(Rq(q), 500))
           /\ UNCHANGED shaped
        \/ q.bodyOk /\ MayFail /\ Failed   \* RemoveAll fails, unreported
           /\ shaped' = shaped \cup nodes
           /\ Answer(r, Write(Rq(q), "Success"))
        \/ q.bodyOk /\ MayFail /\ Failed   \* ApplyToAll fails
           /\ shaped' = shaped \ nodes
           /\ Answer(r, Write(HttpError(Rq(q), 500), "Success"))
        \/ q.bodyOk /\ shaped' = shaped \cup nodes
           /\ Answer(r, Write(Rq(q), "Success"))
           /\ UNCHANGED backendFailures
  /\ UNCHANGED <<ndb, outages>>

\* stopNet: read the nodes (500), RemoveAll with its error dropped, "Success".
stopNet(r, q) ==
  LET nodes == {Roster(q.testnet)[i] : i \in DOMAIN Roster(q.testnet)}
  IN /\ Pending(r, q, "stopNet")
     /\ \/ MayFail /\ Failed /\ Answer(r, HttpError(Rq(q), 500))
           /\ UNCHANGED shaped
        \/ MayFail /\ Failed   \* RemoveAll fails, unreported
           /\ UNCHANGED shaped /\ Answer(r, Write(Rq(q), "Success"))
        \/ shaped' = shaped \ nodes /\ Answer(r, Write(Rq(q), "Success"))
           /\ UNCHANGED backendFailures
  /\ UNCHANGED <<ndb, outages>>

(* getNet: status.GetLatestServers (404; the servers of a testnet with no  *)
(* record fail it), then per server GetClient (404) and GetConfigOnServer  *)
(* (500), and the marshalled configs.  json.Marshal of a []Netconf cannot  *)
(* fail.  Nothing changes but the response.                               *)
getNet(r, q) ==
  /\ Pending(r, q, "getNet")
  /\ \/ q.testnet # TestNetId /\ Answer(r, HttpError(Rq(q), 404))
        /\ UNCHANGED backendFailures
     \/ q.testnet = TestNetId /\ MayFail /\ Failed
        /\ \E code \in {404, 500} : Answer(r, HttpError(Rq(q), code))
     \/ q.testnet = TestNetId /\ Answer(r, Write(Rq(q), "confs"))
        /\ UNCHANGED backendFailures
  /\ UNCHANGED <<ndb, shaped, outages>>

\* netem.MakeOutage cuts the pair's link, netem.RemoveOutage restores it.
Cut(os, ps) == os \cup ps
Restore(os, ps) == os \ ps
Verb(h, os, ps) == IF h = "addOutage" THEN Cut(os, ps) ELSE Restore(os, ps)

\* mutant: node2 looked up with nodeNum1, a copy of the lookup above it
ResolvePairNode2FromNode1(nodes, q) ==
  <<GetNodeByAbsNum(nodes, q.node1), GetNodeByAbsNum(nodes, q.node1)>>

\* node1, node2 := GetNodeByAbsNum(nodes, nodeNum1), GetNodeByAbsNum(nodes, nodeNum2)
ResolvePair(nodes, q) ==
  <<GetNodeByAbsNum(nodes, q.node1), GetNodeByAbsNum(nodes, q.node2)>>

(* addOutage and removeOutage: Atoi node1 and node2 (400), read the nodes  *)
(* (404), GetNodeByAbsNum for each (404), then the backend verb (500) on   *)
(* the pair, "Success".  E5: the backend cuts or restores both directions. *)
Outage(r, q, h) ==
  LET nodes == Roster(q.testnet)
      found == HasAbsNum(nodes, q.node1) /\ HasAbsNum(nodes, q.node2)
      n1 == ResolvePair(nodes, q)[1]
      n2 == ResolvePair(nodes, q)[2]
  IN /\ Pending(r, q, h)
     /\ \/ ~(Atoi(q.node1) /\ Atoi(q.node2)) /\ Answer(r, HttpError(Rq(q), 400))
           /\ UNCHANGED <<outages, backendFailures>>
        \/ Atoi(q.node1) /\ Atoi(q.node2) /\ MayFail /\ Failed   \* the query
           /\ Answer(r, HttpError(Rq(q), 404)) /\ UNCHANGED outages
        \/ Atoi(q.node1) /\ Atoi(q.node2) /\ ~found
           /\ Answer(r, HttpError(Rq(q), 404))
           /\ UNCHANGED <<outages, backendFailures>>
        \/ Atoi(q.node1) /\ Atoi(q.node2) /\ found
           /\ \/ MayFail /\ Failed /\ UNCHANGED outages
                 /\ Answer(r, [HttpError(Rq(q), 500) EXCEPT !.pair = <<n1, n2>>])
              \/ outages' = Verb(h, outages, {<<n1, n2>>, <<n2, n1>>})
                 /\ Answer(r, [Write(Rq(q), "Success") EXCEPT !.pair = <<n1, n2>>])
                 /\ UNCHANGED backendFailures
  /\ UNCHANGED <<ndb, shaped>>

addOutage(r, q) == Outage(r, q, "addOutage")
removeOutage(r, q) == Outage(r, q, "removeOutage")

(* The parameters handler h reads; the others keep NoInput's values.      *)
Reads(h) ==
  CASE h = "handleNet" -> {"testnet", "bodyOk", "node1"}
    [] h = "handleNetAll" -> {"testnet", "bodyOk"}
    [] h \in {"stopNet", "getNet"} -> {"testnet"}
    [] h \in {"addOutage", "removeOutage"} -> {"testnet", "node1", "node2"}

Serve(r) ==
  \E q \in Inputs :
    /\ \A f \in DOMAIN q \ ({"handler"} \cup Reads(q.handler)) : q[f] = NoInput[f]
    /\ \/ handleNet(r, q) \/ handleNetAll(r, q) \/ stopNet(r, q) \/ getNet(r, q)
       \/ addOutage(r, q) \/ removeOutage(r, q)

Init == /\ response = [r \in Requests |-> Unwritten]
        /\ shaped = {} /\ outages = {} /\ backendFailures = 0

=============================================================================
