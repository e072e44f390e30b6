------------------------------ MODULE Campaign ------------------------------
(***************************************************************************)
(* The campaign of the blocked benchmark: runs of the workflow             *)
(* candidate-a-blocked.yml, each measuring one batch of blocks, and the    *)
(* analyzer (candidate_a_blocked_analyzer.py) that at the end of a run     *)
(* combines its evidence with that of the prior runs it was started with.  *)
(*                                                                         *)
(* The campaign has no memory but the artifacts of its runs. A maintainer  *)
(* names the start block and the prior runs by hand, a new run cancels the *)
(* one in progress, downloads and blocks fail. What a run uploads as       *)
(* evidence of a block is the subject of module BlockedBenchmark, what     *)
(* makes a case acceptable that of CaseEvidence. The measured effect of a  *)
(* block is an integer, in units of which Limit make up the precision      *)
(* target; the interval is compared without roots or fractions.            *)
(***************************************************************************)
EXTENDS Integers, FiniteSets, Functions

CONSTANTS
  Run,         \* runs of the workflow; bound: their number
  BlockSize,   \* BLOCK_SIZE
  Looks,       \* the number of looks
  Evidence,    \* what a block may upload as valid
  NoEvidence,  \* nothing, or the rejected diagnostics, which the analyzer never sees
  Critical2,   \* the square of _T_995[n], in hundredths
  Limit        \* CPU_CI_HALF_WIDTH_LIMIT

MaxBlocks == Looks * BlockSize
Block == 1 .. MaxBlocks
Offset == 1 .. BlockSize
LegalStartBlocks == {1 + l * BlockSize : l \in 0 .. Looks - 1}

ASSUME CampaignAssumption ==
  /\ IsFiniteSet(Run)
  /\ BlockSize \in Nat \ {0} /\ Looks \in Nat \ {0}
  /\ Evidence \subseteq [intact : BOOLEAN, accepted : BOOLEAN, effect : Int, signature : STRING, load : STRING]
  /\ NoEvidence \notin Evidence
  /\ Critical2 \in [Block -> Nat] /\ Limit \in Nat
  /\ \A l \in 1 .. Looks : l * BlockSize >= 2 => Critical2[l * BlockSize] >= 100

Claims == {"KEEP", "REVERT", "INCONCLUSIVE"}
Outcomes == Claims \cup {"CONTINUE", "MAX_INCONCLUSIVE"}
NoSummary == [outcome |-> "none", valid |-> FALSE]
Summaries == [outcome : Outcomes, valid : BOOLEAN] \cup {NoSummary}

VARIABLES
  stage,     \* where each run is
  start,     \* its start_block
  prior,     \* its prior_run_ids
  next,      \* the offset of the block job that is next: max-parallel is 1
  evidence,  \* the artifacts of each run, by offset
  summary    \* candidate-a-blocked-summary.json of each run

inputs == <<start, prior>>
vars == <<stage, inputs, next, evidence, summary>>

\* One type invariant for the runs.
TypeOK ==
  /\ stage \in [Run -> {"none", "blocks", "analyze", "done"}]
  /\ start \in [Run -> LegalStartBlocks] /\ prior \in [Run -> SUBSET Run]
  /\ next \in [Run -> 1 .. BlockSize + 1]
  /\ evidence \in [Run -> [Offset -> Evidence \cup {NoEvidence}]]
  /\ summary \in [Run -> Summaries]

Init ==
  /\ stage = [r \in Run |-> "none"] /\ start = [r \in Run |-> 1]
  /\ prior = [r \in Run |-> {}] /\ next = [r \in Run |-> 1]
  /\ evidence = [r \in Run |-> [k \in Offset |-> NoEvidence]]
  /\ summary = [r \in Run |-> NoSummary]

-----------------------------------------------------------------------------
(* The workflow.                                                           *)

\* normalize_trigger: the ids are counted; which runs they name nobody looks at.
Normalized(s, p) == Cardinality(p) = (s - 1) \div BlockSize

\* A maintainer starts a run; the concurrency group cancels the one that is measuring,
\* whose analyze job still runs (its condition is always()).
Trigger(r) ==
  /\ stage[r] = "none"
  /\ \E s \in LegalStartBlocks, p \in SUBSET {q \in Run : stage[q] # "none"} :
       /\ Normalized(s, p)
       /\ start' = [start EXCEPT ![r] = s] /\ prior' = [prior EXCEPT ![r] = p]
  /\ stage' = [q \in Run |-> IF q = r THEN "blocks"
                             ELSE IF stage[q] = "blocks" THEN "analyze" ELSE stage[q]]
  /\ UNCHANGED <<next, evidence, summary>>

\* Fault: the batch goes on after its last block.
BlockJob_NoEnd(r) ==
  /\ stage[r] = "blocks"
  /\ \E e \in Evidence \cup {NoEvidence} : evidence' = [evidence EXCEPT ![r][next[r]] = e]
  /\ next' = [next EXCEPT ![r] = @ + 1]
  /\ UNCHANGED <<stage, inputs, summary>>

\* One block job: it uploads evidence, or is rejected, or ends without uploading at all.
BlockJob(r) ==
  /\ stage[r] = "blocks"
  /\ \E e \in Evidence \cup {NoEvidence} : evidence' = [evidence EXCEPT ![r][next[r]] = e]
  /\ next' = [next EXCEPT ![r] = @ + 1]
  /\ stage' = IF next[r] = BlockSize THEN [stage EXCEPT ![r] = "analyze"] ELSE stage
  /\ UNCHANGED <<inputs, summary>>

\* The prior runs are downloaded one by one; the first without an artifact of a block that
\* ran fails the step, and the analyzer is not called.
Downloaded(r) ==
  \A q \in prior[r] : \E k \in Offset : evidence[q][k] # NoEvidence

\* A download fails (an id that is not one of this workflow, artifacts older than 30 days),
\* or the job is cancelled.
AnalyzeFails(r) ==
  /\ stage[r] = "analyze" /\ stage' = [stage EXCEPT ![r] = "done"]
  /\ UNCHANGED <<inputs, next, evidence, summary>>

-----------------------------------------------------------------------------
(* The analyzer: analyze_evidence on the artifacts of a run and its priors. *)

EndBlock(r) == start[r] + BlockSize - 1
BlockOf(c) == start[c[1]] + c[2] - 1

\* The blocks with evidence under the two roots, as <<run, offset>>; rejected diagnostics
\* have another name.
Manifests(r) ==
  {c \in ({r} \cup prior[r]) \X Offset : evidence[c[1]][c[2]] # NoEvidence}

\* _verify_evidence_manifests and the case ids: each expected block once, and no other.
EachBlockOnce(r) ==
  /\ \A b \in 1 .. EndBlock(r) : \E c \in Manifests(r) : BlockOf(c) = b
  /\ \A c, d \in Manifests(r) : BlockOf(c) = BlockOf(d) => c = d
  /\ \A c \in Manifests(r) : BlockOf(c) <= EndBlock(r)

Of(c) == evidence[c[1]][c[2]]
\* _verify_evidence_manifest: the files are those the manifest lists, byte for byte.
AllIntact(r) == \A c \in Manifests(r) : Of(c).intact
\* Fault: the cases of prior runs are taken for valid.
AllAccepted_OwnRun(r) == \A c \in Manifests(r) : c[1] = r => Of(c).accepted
AllAccepted(r) == \A c \in Manifests(r) : Of(c).accepted
\* One Endstone artifact, one CPU topology, one scenario and one world for all blocks.
OneSignature(r) == \A c, d \in Manifests(r) : Of(c).signature = Of(d).signature
\* _workload_balance: the loads of no two blocks are far apart.
Balanced(r) == \A c, d \in Manifests(r) : Of(c).load = Of(d).load

Valid(r) ==
  EachBlockOnce(r) /\ AllIntact(r) /\ AllAccepted(r) /\ OneSignature(r) /\ Balanced(r)

\* _did_by_block: the effects, by block.
Effects(r) ==
  [b \in 1 .. EndBlock(r) |-> Of(CHOOSE c \in Manifests(r) : BlockOf(c) = b).effect]

Add(a, b) == a + b
Total(f) == FoldFunction(Add, 0, f)
Squares(f) == FoldFunction(Add, 0, [i \in DOMAIN f |-> f[i] * f[i]])
\* sequential_ci over n values: n * n * (n - 1) times the squared half width, in hundredths.
Spread(f, n) == Critical2[n] * (n * Squares(f) - Total(f) * Total(f))
Precise(f, n) == n >= 2 /\ Spread(f, n) <= 100 * Limit * Limit * n * n * (n - 1)
ZeroInside(f, n) == Spread(f, n) >= 100 * Total(f) * Total(f) * (n - 1)

\* Fault: the sign of the mean decides, not the interval.
Direction_OfMean(f, n) ==
  IF Total(f) < 0 THEN "KEEP" ELSE IF Total(f) > 0 THEN "REVERT" ELSE "INCONCLUSIVE"

Direction(f, n) ==
  IF ZeroInside(f, n) THEN "INCONCLUSIVE" ELSE IF Total(f) < 0 THEN "KEEP" ELSE "REVERT"

\* sequential_decision.
Undecided(r) == IF EndBlock(r) >= MaxBlocks THEN "MAX_INCONCLUSIVE" ELSE "CONTINUE"
Decision(r) ==
  IF Valid(r) /\ Precise(Effects(r), EndBlock(r)) THEN Direction(Effects(r), EndBlock(r))
  ELSE Undecided(r)

Analyze(r) ==
  /\ stage[r] = "analyze" /\ Downloaded(r) /\ stage' = [stage EXCEPT ![r] = "done"]
  /\ summary' = [summary EXCEPT ![r] = [outcome |-> Decision(r), valid |-> Valid(r)]]
  /\ UNCHANGED <<inputs, next, evidence>>

Next ==
  \E r \in Run : Trigger(r) \/ BlockJob(r) \/ AnalyzeFails(r) \/ Analyze(r)

Spec == Init /\ [][Next]_vars

-----------------------------------------------------------------------------
(* What a claim is worth.                                                  *)

Claimed(r) == summary[r].outcome \in Claims
Used(r) == {r} \cup prior[r]

\* A claim rests on a complete experiment, although nothing but the number of the prior runs
\* is ever compared: there is one for each earlier look, every block
\* job of each uploaded evidence that was accepted, and nothing drifted between any two.
ClaimIsSupported ==
  \A r \in Run : Claimed(r) =>
    /\ \A b \in {s \in LegalStartBlocks : s <= start[r]} : \E q \in Used(r) : start[q] = b
    /\ \A p, q \in Used(r) : start[p] = start[q] => p = q
    /\ \A q \in Used(r), k \in Offset :
         evidence[q][k] # NoEvidence /\ evidence[q][k].intact /\ evidence[q][k].accepted
    /\ \A p, q \in Used(r), k, l \in Offset :
         evidence[p][k].signature = evidence[q][l].signature

\* The evidence a summary was computed from, of all runs it used, without one block.
Without(r, c) ==
  LET cells == ({r} \cup prior[r]) \X Offset \ {c}
  IN Total([d \in cells |-> Of(d).effect])

\* No single block decides a direction: without any one of them the mean effect of the
\* others still has the sign of the claim (the critical values of sequential_ci exceed 1).
NoBlockDecides ==
  \A r \in Run : \A c \in Used(r) \X Offset :
    /\ summary[r].outcome = "KEEP" => Without(r, c) < 0
    /\ summary[r].outcome = "REVERT" => Without(r, c) > 0
=============================================================================
