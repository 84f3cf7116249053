------------------------- MODULE MCTestNetLifecycle -------------------------
EXTENDS TestNetLifecycle

CONSTANTS w1, w2, w3, w4, r1, tn1, tn2, NaN

MCWorkers == {w1, w2, w3, w4}

(* One request, to any route, of the testnet or of one without rows; the  *)
(* node numbers of E5 (0 and 2), node1 also not a number.                  *)
MCRequests == {r1}
MCTestNetIds == {tn1, tn2}
MCNode1Params == {0, NaN}
MCNode2Params == {2}

=============================================================================
