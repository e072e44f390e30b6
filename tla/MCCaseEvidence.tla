-------------------------- MODULE MCCaseEvidence ----------------------------
(* CaseEvidence with a clock of seconds; a statement that waits takes one  *)
(* second, or longer than either tolerance of the analyzer.                *)
EXTENDS CaseEvidence
MCShort == {1}
MCSlow == {1, 6}
=============================================================================
