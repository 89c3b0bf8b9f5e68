--------------------------- MODULE MCRunnerLifecycle ---------------------------
(* A bot and an input, the input started second.                             *)
EXTENDS RunnerLifecycle
=============================================================================
