------------------------- MODULE MCTendermintBuild -------------------------
(* Two servers with two and one node IPs (the layout of scenario E1 of the *)
(* specification), so that the servers differ in size; one remote failure. *)
EXTENDS TendermintBuild

MCIpCount == <<2, 1>>

(* Two servers of equal size: the layout under which CopyToAllNodes' read  *)
(* of the range variable cannot change which containers get a copy.        *)
MCIpCountEqual == <<1, 1>>

=============================================================================
