------------------------- MODULE MCBlockedBenchmark -------------------------
(* BlockedBenchmark for a small block.                                     *)
EXTENDS BlockedBenchmark
=============================================================================
