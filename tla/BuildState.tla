----------------------------- MODULE BuildState -----------------------------
(***************************************************************************)
(* The per-build coordination record state.BuildState.  The package        *)
(* "state" is not part of the sources in src/, so every operator here is   *)
(* modelled from the specification (section 4.2): a build state is a      *)
(* record value, and each method is an operator from one record value to  *)
(* the next, so that the modules of the callers (TendermintBuild, TestNet) *)
(* hold the record in one of their variables and apply the methods inside  *)
(* their own atomic steps.                                                 *)
(*                                                                         *)
(* All the methods take the build state's own lock, so each one is atomic  *)
(* with respect to the others.                                             *)
(***************************************************************************)
EXTENDS Naturals, Sequences

LOCAL INSTANCE SequencesExt

CONSTANTS
  NoError,     \* the nil error
  Keys,        \* keys of the scratchpad written with Set
  NoValue      \* the value of a key never Set

\* A fresh build state, as GetBuildStateByID hands it out for a new build.
NewBuildState ==
  [ stage     |-> "",
    stepCount |-> 0,
    stepDone  |-> 0,
    error     |-> NoError,
    stopped   |-> FALSE,
    kv        |-> [k \in Keys |-> NoValue],
    deferred  |-> << >>,
    ran       |-> << >>,
    done      |-> FALSE ]

SetBuildStage(b, s) == [b EXCEPT !.stage = s]

SetBuildSteps(b, n) == [b EXCEPT !.stepCount = n]

IncrementBuildProgress(b) == [b EXCEPT !.stepDone = @ + 1]

\* ReportError stores the error (later reports overwrite it, it is never
\* cleared) and raises the stop flag.
ReportError(b, e) == [b EXCEPT !.error = e, !.stopped = TRUE]

\* Stop() is true once an error was reported or the build was aborted.
Stop(b) == b.stopped \/ b.error # NoError

GetError(b) == b.error

Set(b, k, v) == [b EXCEPT !.kv[k] = v]

\* Defer registers a cleanup; DoneBuilding runs the registered cleanups in
\* the reverse order of registration, each once, and wakes the waiters.
Defer(b, f) == [b EXCEPT !.deferred = Append(@, f)]

DoneBuilding(b) ==
  [b EXCEPT !.done = TRUE, !.ran = @ \o Reverse(b.deferred), !.deferred = << >>]

=============================================================================
