------------------------------ MODULE MCSSHPool ------------------------------
(* Three goroutines share one client whose semaphore has two units: more  *)
(* callers than units, as when a fan-out runs over more nodes than         *)
(* maxConnections.                                                         *)
EXTENDS SSHPool

CONSTANTS g1, g2, g3

MCGoroutines == {g1, g2, g3}

\* Two goroutines over a semaphore of one unit (MCSSHPool.cfg).
MCTwoGoroutines == {g1, g2}

\* g1 calls KeepTryDockerExec, g2 MultiRun of two commands, g3 Scp.
MCApi == [g \in Goroutines |-> CASE g = g1 -> "KeepTryDockerExec"
                                 [] g = g2 -> "MultiRun"
                                 [] OTHER -> "Scp"]
MCCommands == [g \in Goroutines |-> IF g = g2 THEN 2 ELSE 1]
\* g1's command may be one that always fails.
MCBadCallers == {g1}

=============================================================================
