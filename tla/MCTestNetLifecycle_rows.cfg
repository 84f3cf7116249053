\* As MCTestNetLifecycle.cfg: does the nodes table give every node its
\* AbsoluteNum back once StoreNodes has returned nil?
CONSTANTS
  w1 = w1
  w2 = w2
  w3 = w3
  w4 = w4
  Workers <- MCWorkers
  PrevNodes = 1
  NoSnapshot = NoSnapshot
  MaxInsertFailures = 1
  r1 = r1
  tn1 = tn1
  tn2 = tn2
  NaN = NaN
  Requests <- MCRequests
  TestNetId = tn1
  TestNetIds <- MCTestNetIds
  Node1Params <- MCNode1Params
  Node2Params <- MCNode2Params
  MaxBackendFailures = 1
SPECIFICATION Spec
CHECK_DEADLOCK FALSE
INVARIANT OutageBetweenAddressedNodes
