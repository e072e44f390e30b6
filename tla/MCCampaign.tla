----------------------------- MODULE MCCampaign -----------------------------
(* Campaign with two looks of two blocks and three runs: enough to measure *)
(* a look again, to name the wrong prior run, and to combine two runs.     *)
EXTENDS Campaign, TLC
CONSTANTS r1, r2, r3
MCRun == {r1, r2, r3}
MCSymmetry == Permutations(MCRun)
\* _T_995 for one, two, three and four blocks (1, 2 and 3 degrees of freedom), squared.
MCCritical2 == <<0, 405218, 9851, 3412>>
Good(e) ==
  [intact |-> TRUE, accepted |-> TRUE, effect |-> e, signature |-> "same", load |-> "same"]
\* A refused block, and a damaged block of another artifact or topology, of another load.
MCEvidence ==
  {Good(-1), Good(2), [Good(-1) EXCEPT !.accepted = FALSE],
   [Good(-1) EXCEPT !.intact = FALSE, !.signature = "other", !.load = "other"]}
=============================================================================
