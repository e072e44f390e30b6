-------------------------- MODULE MCIntegrationRun --------------------------
(* IntegrationRun on a machine of a few pids.                               *)
EXTENDS IntegrationRun, TLC

\* Pids are compared for equality only.
PidSymmetry == Permutations(Pids)
=============================================================================
