------------------------- MODULE MCCopyToAllNodes -------------------------
(* Servers with two and one node IPs (scenario E1), one (src, dst) pair, a *)
(* semaphore of two units: fewer units than goroutines that want one.      *)
EXTENDS CopyToAllNodes

MCIpCount == <<2, 1>>

=============================================================================
