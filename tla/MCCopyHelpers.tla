--------------------------- MODULE MCCopyHelpers ---------------------------
(* Two servers of two nodes, one (src, dst) pair; CopyBytesToNodeFiles     *)
(* sends two files to node 1 and one to node 0 of the first server.       *)
EXTENDS CopyHelpers

MCIpCount == <<2, 2>>

MCTransferNodes == <<1, 1, 0>>

=============================================================================
