---------------------------- MODULE MCSandboxRun -----------------------------
(* Model checking of SandboxRun on small instances.                         *)
EXTENDS SandboxRun, TLC

CONSTANTS r1, r2, g1

\* One grant with one export; the first run may open a second view of it.
MCMaxViews == (r1 :> 2) @@ (r2 :> 1)
MCOne == g1 :> 1

==============================================================================
