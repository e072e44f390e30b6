-------------------------- MODULE MCServerProcess --------------------------
(* ServerProcess on a machine of a few pids.                                *)
EXTENDS ServerProcess
=============================================================================
