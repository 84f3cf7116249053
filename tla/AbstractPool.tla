---------------------------- MODULE AbstractPool ----------------------------
(***************************************************************************)
(* What ssh.Client promises its callers (spec 4.1): at most                *)
(* maxConnections sessions at once, a counting semaphore of session units. *)
(* A caller takes a unit when it is let in and gives it back when its      *)
(* session ends or getSession fails; nothing else moves a unit.            *)
(***************************************************************************)
EXTENDS Naturals

CONSTANTS Goroutines, MaxConnections

VARIABLES
  holders,  \* the callers holding a unit
  free      \* the units nobody holds

poolVars == <<holders, free>>

PoolInit == holders = {} /\ free = MaxConnections

\* A caller is let in only while a unit is free.
Take(g) ==
  /\ g \notin holders /\ free > 0
  /\ holders' = holders \cup {g} /\ free' = free - 1

\* A holder gives its unit back.
Give(g) ==
  /\ g \in holders
  /\ holders' = holders \ {g} /\ free' = free + 1

PoolNext == \E g \in Goroutines : Take(g) \/ Give(g)

PoolSpec == PoolInit /\ [][PoolNext]_poolVars

=============================================================================
