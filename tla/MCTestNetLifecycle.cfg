\* Four workers add a node each to a testnet that has one node from an
\* earlier build; one InsertNode of StoreNodes may leave its row out.
CONSTANTS
  w1 = w1
  w2 = w2
  w3 = w3
  w4 = w4
  Workers <- MCWorkers
  PrevNodes = 1
  NoSnapshot = NoSnapshot
  MaxInsertFailures = 1
  r1 = r1
  tn1 = tn1
  tn2 = tn2
  NaN = NaN
  Requests <- MCRequests
  TestNetId = tn1
  TestNetIds <- MCTestNetIds
  Node1Params <- MCNode1Params
  Node2Params <- MCNode2Params
  MaxBackendFailures = 1
SPECIFICATION Spec
\* The build ends: FinishedBuilding has stored and the waiter has restored.
CHECK_DEADLOCK FALSE
INVARIANT TypeOK
INVARIANT AbsoluteNumsContiguous
INVARIANT StoredInOrder
INVARIANT AddressedWhileRowsStored
PROPERTY WaiterWakes
