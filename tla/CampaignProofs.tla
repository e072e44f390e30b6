--------------------------- MODULE CampaignProofs ---------------------------
(***************************************************************************)
(* Proofs about the campaign, for any number of runs, looks and blocks per *)
(* look: a claim rests on a complete experiment although the analyzer      *)
(* compares nothing but numbers of runs and of blocks. The argument counts *)
(* the uploaded evidence (lemma EveryCell); the rest of the proof is that  *)
(* nothing a claim was computed from is touched afterwards. And no single  *)
(* block decides what is claimed: that is arithmetic of sums, which are    *)
(* counted here too (lemma TotalIsSum).                                    *)
(***************************************************************************)
EXTENDS Campaign, FiniteSetTheorems, TLAPS

Cells(r) == Used(r) \X Offset

-----------------------------------------------------------------------------
(* The inductive invariant.                                                *)

\* Runs whose evidence changes no more.
Settled(q) == stage[q] \in {"analyze", "done"}

\* What a run was started with: as many prior runs as there are earlier looks, and each of
\* them is over, or was cancelled when this one started.
PriorInv ==
  \A r \in Run : stage[r] # "none" =>
    /\ Normalized(start[r], prior[r]) /\ r \notin prior[r]
    /\ \A q \in prior[r] : Settled(q)

\* The block jobs of a run are numbered.
NextInv ==
  /\ \A r \in Run : stage[r] = "none" => next[r] = 1
  /\ \A r \in Run : stage[r] = "blocks" => next[r] <= BlockSize

\* A claim was made by a run that is over, on evidence that was valid and still is.
ClaimInv == \A r \in Run : Claimed(r) => stage[r] = "done" /\ Valid(r)

IInv == TypeOK /\ PriorInv /\ NextInv /\ ClaimInv

-----------------------------------------------------------------------------
(* Arithmetic of the looks.                                                *)

\* The looks do not overlap.
LEMMA LaterLook ==
  ASSUME NEW k \in Nat, NEW l \in Nat, k < l
  PROVE  k * BlockSize + BlockSize <= l * BlockSize
<1> USE CampaignAssumption
<1>1. PICK e \in Nat : l = k + 1 + e
  <2>1. l - k - 1 \in Nat /\ l = k + 1 + (l - k - 1)
    OBVIOUS
  <2> QED
    BY <2>1
<1>2. (k + 1 + e) * BlockSize = k * BlockSize + BlockSize + e * BlockSize
  OBVIOUS
<1>3. k * BlockSize \in Int /\ e * BlockSize \in Int /\ e * BlockSize >= 0
  OBVIOUS
<1> QED
  BY <1>1, <1>2, <1>3

\* Two start blocks within one batch of each other are the same.
LEMMA SameLook ==
  ASSUME NEW k \in Nat, NEW l \in Nat, NEW d \in 0 .. BlockSize - 1,
         k * BlockSize + d = l * BlockSize
  PROVE  k = l
<1>1. BlockSize \in Nat /\ k * BlockSize \in Int /\ l * BlockSize \in Int
  BY CampaignAssumption
<1>2. ~(k < l)
  BY <1>1, LaterLook
<1>3. ~(l < k)
  BY <1>1, LaterLook
<1> QED
  BY <1>2, <1>3

\* normalize_trigger counts the looks before a start block.
LEMMA LooksBefore ==
  ASSUME NEW l \in Nat
  PROVE  ((1 + l * BlockSize) - 1) \div BlockSize = l
<1> DEFINE q == (l * BlockSize) \div BlockSize
           d == (l * BlockSize) % BlockSize
<1>1. l * BlockSize \in Nat /\ BlockSize \in Nat /\ BlockSize > 0
  BY CampaignAssumption
<1>2. q \in Nat /\ d \in 0 .. BlockSize - 1 /\ l * BlockSize = BlockSize * q + d
  BY <1>1
<1>3. BlockSize * q = q * BlockSize
  BY <1>1, <1>2
<1>4. q = l
  BY <1>2, <1>3, SameLook
<1>5. (1 + l * BlockSize) - 1 = l * BlockSize
  BY <1>1
<1> QED
  BY <1>4, <1>5

-----------------------------------------------------------------------------
(* The counting argument.                                                  *)

\* The evidence is of the blocks up to the last one.
LEMMA BlockInRange ==
  ASSUME TypeOK, NEW r \in Run, EachBlockOnce(r), NEW c \in Manifests(r)
  PROVE  BlockOf(c) \in 1 .. EndBlock(r)
<1>1. BlockSize \in Nat /\ Looks \in Nat
  BY CampaignAssumption
<1>2. c[1] \in Run /\ c[2] \in Offset
  BY DEF Manifests, TypeOK
<1>3. PICK k \in 0 .. Looks - 1 : start[c[1]] = 1 + k * BlockSize
  BY <1>2, Zenon DEF TypeOK, LegalStartBlocks
<1>4. k * BlockSize \in Nat
  BY <1>1
<1>5. BlockOf(c) \in Int /\ BlockOf(c) >= 1
  BY <1>1, <1>2, <1>3, <1>4 DEF BlockOf, Offset
<1>6. EndBlock(r) \in Int
  <2>1. PICK l \in 0 .. Looks - 1 : start[r] = 1 + l * BlockSize
    BY Zenon DEF TypeOK, LegalStartBlocks
  <2>2. l * BlockSize \in Nat
    BY <1>1
  <2> QED
    BY <1>1, <2>1, <2>2 DEF EndBlock
<1> QED
  BY <1>5, <1>6 DEF EachBlockOnce

\* A surjection onto as many blocks as there are cells leaves no cell out: each of the runs
\* has uploaded evidence of each of its blocks.
LEMMA EveryCell ==
  ASSUME TypeOK, NEW r \in Run, EachBlockOnce(r),
         Normalized(start[r], prior[r]), r \notin prior[r]
  PROVE  Manifests(r) = Cells(r)
<1> DEFINE n == EndBlock(r)
           M == Manifests(r)
           F == [c \in M |-> BlockOf(c)]
<1>1. PICK l \in 0 .. Looks - 1 : start[r] = 1 + l * BlockSize
  <2>1. start[r] \in LegalStartBlocks
    BY DEF TypeOK
  <2> QED
    BY <2>1, Zenon DEF LegalStartBlocks
<1>2. l \in Nat /\ l * BlockSize \in Nat /\ BlockSize \in Nat /\ BlockSize > 0
  BY CampaignAssumption
<1>3. n \in Nat /\ n = l * BlockSize + BlockSize
  BY <1>1, <1>2 DEF EndBlock
<1>4. IsFiniteSet(prior[r]) /\ Cardinality(prior[r]) = l
  <2>1. prior[r] \in SUBSET Run
    BY DEF TypeOK
  <2>2. IsFiniteSet(prior[r])
    BY <2>1, CampaignAssumption, FS_Subset
  <2> QED
    BY <2>2, <1>1, <1>2, LooksBefore, Zenon DEF Normalized
<1>5. IsFiniteSet(Used(r)) /\ Cardinality(Used(r)) = l + 1
  <2>1. Used(r) = prior[r] \cup {r}
    BY DEF Used
  <2>2. /\ IsFiniteSet(prior[r] \cup {r})
        /\ Cardinality(prior[r] \cup {r}) =
             IF r \in prior[r] THEN Cardinality(prior[r]) ELSE Cardinality(prior[r]) + 1
    BY <1>4, FS_AddElement, Zenon
  <2> QED
    BY <1>4, <2>1, <2>2, Zenon
<1>6. IsFiniteSet(Offset) /\ Cardinality(Offset) = BlockSize
  BY <1>2, FS_Interval DEF Offset
<1>7. IsFiniteSet(Cells(r)) /\ Cardinality(Cells(r)) = n
  <2>1. IsFiniteSet(Cells(r)) /\ Cardinality(Cells(r)) = (l + 1) * BlockSize
    BY <1>5, <1>6, FS_Product DEF Cells
  <2>2. (l + 1) * BlockSize = l * BlockSize + BlockSize
    BY <1>2
  <2> QED
    BY <2>1, <2>2, <1>3
<1>8. M \in SUBSET Cells(r)
  BY DEF Manifests, Cells, Used
<1>9. IsFiniteSet(M) /\ Cardinality(M) <= n /\ Cardinality(M) \in Nat
  BY <1>7, <1>8, FS_Subset, FS_CardinalityType
<1>10. F \in Surjection(M, 1 .. n)
  <2>1. ASSUME NEW c \in M PROVE BlockOf(c) \in 1 .. n
    BY BlockInRange
  <2>2. F \in [M -> 1 .. n]
    BY <2>1
  <2>3. \A b \in 1 .. n : \E c \in M : F[c] = b
    BY DEF EachBlockOnce
  <2> QED
    BY <2>2, <2>3 DEF Surjection
<1>11. Cardinality(1 .. n) <= Cardinality(M)
  BY <1>9, <1>10, FS_Surjection
<1>12. Cardinality(1 .. n) = n
  <2> HIDE DEF n
  <2>1. Cardinality(1 .. n) = IF 1 > n THEN 0 ELSE n - 1 + 1
    <3>1. n \in Int /\ 1 \in Int
      BY <1>3
    <3> QED
      BY <3>1, FS_Interval, Zenon
  <2> QED
    BY <2>1, <1>2, <1>3
<1>13. Cardinality(Cells(r)) = Cardinality(M)
  BY <1>3, <1>7, <1>9, <1>11, <1>12
<1> QED
  BY <1>7, <1>8, <1>13, FS_Subset

\* What EveryCell says of each used run.
LEMMA CellsAreEvidence ==
  ASSUME TypeOK, NEW r \in Run, Manifests(r) = Cells(r), NEW q \in Used(r), NEW k \in Offset
  PROVE  <<q, k>> \in Manifests(r) /\ evidence[q][k] # NoEvidence
<1>1. <<q, k>> \in Manifests(r)
  BY DEF Cells
<1> QED
  BY <1>1 DEF Manifests

\* Valid evidence is that of a complete experiment.
LEMMA ValidIsSupported ==
  ASSUME TypeOK, NEW r \in Run, Valid(r), Normalized(start[r], prior[r]), r \notin prior[r]
  PROVE  /\ \A b \in {s \in LegalStartBlocks : s <= start[r]} : \E q \in Used(r) : start[q] = b
         /\ \A p, q \in Used(r) : start[p] = start[q] => p = q
         /\ \A q \in Used(r), k \in Offset :
              evidence[q][k] # NoEvidence /\ evidence[q][k].intact /\ evidence[q][k].accepted
         /\ \A p, q \in Used(r), k, l \in Offset :
              evidence[p][k].signature = evidence[q][l].signature
<1>1. Manifests(r) = Cells(r)
  BY EveryCell DEF Valid
<1>2. BlockSize \in Nat /\ BlockSize > 0 /\ 1 \in Offset
  BY CampaignAssumption DEF Offset
<1>3. ASSUME NEW q \in Used(r) PROVE q \in Run
  BY <1>3 DEF Used, TypeOK
<1>4. ASSUME NEW b \in LegalStartBlocks, b <= start[r] PROVE \E q \in Used(r) : start[q] = b
  <2>1. PICK l \in 0 .. Looks - 1 : b = 1 + l * BlockSize
    BY Zenon DEF LegalStartBlocks
  <2>2. start[r] \in LegalStartBlocks
    BY DEF TypeOK
  <2>3. PICK m \in 0 .. Looks - 1 : start[r] = 1 + m * BlockSize
    BY <2>2, Zenon DEF LegalStartBlocks
  <2>4. l \in Nat /\ m \in Nat /\ l * BlockSize \in Nat /\ m * BlockSize \in Nat
    BY <1>2, CampaignAssumption
  <2>5. b \in 1 .. EndBlock(r)
    BY <1>2, <1>4, <2>1, <2>3, <2>4 DEF EndBlock
  <2>6. PICK c \in Manifests(r) : BlockOf(c) = b
    BY <2>5 DEF Valid, EachBlockOnce
  <2>7. c[1] \in Used(r) /\ c[1] \in Run /\ c[2] \in Offset
    BY <1>1, <1>3 DEF Cells
  <2>8. start[c[1]] \in LegalStartBlocks
    BY <2>7 DEF TypeOK
  <2>9. PICK k \in 0 .. Looks - 1 : start[c[1]] = 1 + k * BlockSize
    BY <2>8, Zenon DEF LegalStartBlocks
  <2>10. k \in Nat /\ k * BlockSize \in Nat
    BY <1>2, CampaignAssumption
  <2>11. c[2] - 1 \in 0 .. BlockSize - 1 /\ k * BlockSize + (c[2] - 1) = l * BlockSize
    <3> DEFINE d == c[2]  kb == k * BlockSize  lb == l * BlockSize
    <3>1. d \in 1 .. BlockSize
      BY <2>7 DEF Offset
    <3>2. (1 + kb) + d - 1 = 1 + lb
      BY <2>1, <2>6, <2>9 DEF BlockOf
    <3>3. kb \in Nat /\ lb \in Nat
      BY <2>4, <2>10
    <3> HIDE DEF d, kb, lb
    <3>4. d - 1 \in 0 .. BlockSize - 1 /\ kb + (d - 1) = lb
      BY <1>2, <3>1, <3>2, <3>3
    <3> QED
      BY <3>4 DEF d, kb, lb
  <2>12. k = l
    BY <2>4, <2>10, <2>11, SameLook
  <2> QED
    BY <2>1, <2>7, <2>9, <2>12
<1>5. ASSUME NEW p \in Used(r), NEW q \in Used(r), start[p] = start[q] PROVE p = q
  <2>1. <<p, 1>> \in Manifests(r) /\ <<q, 1>> \in Manifests(r)
    BY <1>1, <1>2, CellsAreEvidence
  <2>2. BlockOf(<<p, 1>>) = BlockOf(<<q, 1>>)
    BY <1>5 DEF BlockOf
  <2>3. <<p, 1>> = <<q, 1>>
    BY <2>1, <2>2 DEF Valid, EachBlockOnce
  <2> QED
    BY <2>3
<1>6. ASSUME NEW q \in Used(r), NEW k \in Offset
      PROVE  evidence[q][k] # NoEvidence /\ evidence[q][k].intact /\ evidence[q][k].accepted
  <2>1. <<q, k>> \in Manifests(r) /\ evidence[q][k] # NoEvidence
    BY <1>1, CellsAreEvidence
  <2> QED
    BY <2>1 DEF Valid, AllIntact, AllAccepted, Of
<1>7. ASSUME NEW p \in Used(r), NEW q \in Used(r), NEW k \in Offset, NEW l \in Offset
      PROVE  evidence[p][k].signature = evidence[q][l].signature
  <2>1. <<p, k>> \in Manifests(r) /\ <<q, l>> \in Manifests(r)
    BY <1>1, CellsAreEvidence
  <2>2. Of(<<p, k>>).signature = Of(<<q, l>>).signature
    BY <2>1 DEF Valid, OneSignature
  <2> QED
    BY <2>2 DEF Of
<1> QED
  BY <1>4, <1>5, <1>6, <1>7

-----------------------------------------------------------------------------
(* The steps.                                                              *)

\* No run is started, and nothing is claimed.
LEMMA InitHolds == ASSUME Init PROVE IInv
<1>1. 1 \in LegalStartBlocks /\ 1 \in 1 .. BlockSize + 1 /\ BlockSize \in Nat
  <2>1. 0 \in 0 .. Looks - 1 /\ 1 = 1 + 0 * BlockSize
    BY CampaignAssumption
  <2> QED
    BY <2>1, CampaignAssumption DEF LegalStartBlocks
<1>2. TypeOK
  BY <1>1 DEF Init, TypeOK, Summaries
<1>3. PriorInv /\ NextInv
  BY <1>1 DEF Init, PriorInv, NextInv
<1>4. ClaimInv
  BY DEF Init, ClaimInv, Claimed, Claims, NoSummary
<1> QED
  BY <1>2, <1>3, <1>4 DEF IInv

\* Only valid evidence makes a claim.
LEMMA DecisionIsOutcome ==
  ASSUME NEW r \in Run
  PROVE  Decision(r) \in Outcomes /\ (Decision(r) \in Claims => Valid(r))
<1>1. Direction(Effects(r), EndBlock(r)) \in Claims
  BY DEF Direction, Claims
<1>2. Undecided(r) \in Outcomes /\ Undecided(r) \notin Claims
  BY DEF Undecided, Outcomes, Claims
<1> QED
  BY <1>1, <1>2, Zenon DEF Decision, Outcomes

\* Whether evidence is valid depends on what the used runs uploaded, and on nothing else.
LEMMA ValidStays ==
  ASSUME NEW r \in Run, Valid(r), prior'[r] = prior[r],
         \A q \in Used(r) : evidence'[q] = evidence[q] /\ start'[q] = start[q]
  PROVE  Valid(r)'
<1> USE DEF Used
<1>1. r \in Used(r)
  OBVIOUS
<1>2. Manifests(r)' = Manifests(r)
  BY DEF Manifests
<1>3. EndBlock(r)' = EndBlock(r)
  BY <1>1 DEF EndBlock
<1>4. \A c \in Manifests(r) : BlockOf(c)' = BlockOf(c) /\ Of(c)' = Of(c)
  BY DEF Manifests, BlockOf, Of
<1>5. EachBlockOnce(r)'
  BY <1>2, <1>3, <1>4 DEF Valid, EachBlockOnce
<1>6. AllIntact(r)' /\ AllAccepted(r)'
  BY <1>2, <1>4 DEF Valid, AllIntact, AllAccepted
<1>7. OneSignature(r)' /\ Balanced(r)'
  BY <1>2, <1>4 DEF Valid, OneSignature, Balanced
<1> QED
  BY <1>5, <1>6, <1>7 DEF Valid

\* A run that is started keeps its inputs, and one that is settled its evidence.
Keeps ==
  /\ \A q \in Run : stage[q] # "none" =>
       start'[q] = start[q] /\ prior'[q] = prior[q] /\ stage'[q] # "none"
  /\ \A q \in Run : Settled(q) => evidence'[q] = evidence[q] /\ Settled(q)'
  /\ \A q \in Run : stage[q] = "done" => stage'[q] = "done"

\* No step takes back what a run was started with, or touches settled evidence.
LEMMA StepKeeps == ASSUME TypeOK, [Next]_vars PROVE Keeps
<1> USE DEF Keeps, Settled
<1>1. ASSUME NEW r \in Run, Trigger(r) PROVE Keeps
  BY <1>1 DEF Trigger, TypeOK
<1>2. ASSUME NEW r \in Run, BlockJob(r) PROVE Keeps
  BY <1>2 DEF BlockJob, TypeOK, inputs
<1>3. ASSUME NEW r \in Run, AnalyzeFails(r) \/ Analyze(r) PROVE Keeps
  BY <1>3 DEF AnalyzeFails, Analyze, TypeOK, inputs
<1>4. CASE UNCHANGED vars
  BY <1>4 DEF vars, inputs
<1> QED
  BY <1>1, <1>2, <1>3, <1>4 DEF Next

\* The variables keep their types, and the block jobs their numbers.
LEMMA TypeStep == ASSUME TypeOK, NextInv, [Next]_vars PROVE TypeOK' /\ NextInv'
<1>1. BlockSize \in Nat /\ BlockSize > 0
  BY CampaignAssumption
<1>2. ASSUME NEW r \in Run, Trigger(r) PROVE TypeOK' /\ NextInv'
  BY <1>1, <1>2 DEF Trigger, TypeOK, NextInv
<1>3. ASSUME NEW r \in Run, BlockJob(r) PROVE TypeOK' /\ NextInv'
  <2>1. next[r] \in Offset /\ next'[r] = next[r] + 1 /\ next' = [next EXCEPT ![r] = @ + 1]
    BY <1>1, <1>3 DEF BlockJob, TypeOK, NextInv, Offset
  <2>2. PICK e \in Evidence \cup {NoEvidence} : evidence' = [evidence EXCEPT ![r][next[r]] = e]
    BY <1>3 DEF BlockJob
  <2>3. evidence' \in [Run -> [Offset -> Evidence \cup {NoEvidence}]]
    BY <2>1, <2>2 DEF TypeOK
  <2>4. next' \in [Run -> 1 .. BlockSize + 1]
    BY <1>1, <2>1 DEF TypeOK, Offset
  <2>5. stage' \in [Run -> {"none", "blocks", "analyze", "done"}]
    BY <1>3 DEF BlockJob, TypeOK
  <2>6. NextInv'
    BY <1>1, <1>3, <2>1 DEF BlockJob, TypeOK, NextInv, Offset
  <2> QED
    BY <1>3, <2>3, <2>4, <2>5, <2>6 DEF BlockJob, TypeOK, inputs
<1>4. ASSUME NEW r \in Run, AnalyzeFails(r) PROVE TypeOK' /\ NextInv'
  BY <1>4 DEF AnalyzeFails, TypeOK, NextInv, inputs
<1>5. ASSUME NEW r \in Run, Analyze(r) PROVE TypeOK' /\ NextInv'
  <2>1. Valid(r) \in BOOLEAN
    BY DEF Valid, EachBlockOnce, AllIntact, AllAccepted, OneSignature, Balanced
  <2>2. [outcome |-> Decision(r), valid |-> Valid(r)] \in Summaries
    BY <2>1, DecisionIsOutcome DEF Summaries
  <2>3. summary' \in [Run -> Summaries]
    BY <1>5, <2>2 DEF Analyze, TypeOK
  <2> QED
    BY <1>5, <2>3 DEF Analyze, TypeOK, NextInv, inputs
<1>6. CASE UNCHANGED vars
  BY <1>6 DEF vars, inputs, TypeOK, NextInv
<1> QED
  BY <1>2, <1>3, <1>4, <1>5, <1>6 DEF Next

\* The prior runs are those of the trigger, and stay settled.
LEMMA PriorStep == ASSUME TypeOK, PriorInv, [Next]_vars PROVE PriorInv'
<1>1. Keeps
  BY StepKeeps
<1>2. ASSUME NEW r \in Run, stage'[r] # "none", stage[r] # "none"
      PROVE  /\ Normalized(start[r], prior[r])' /\ r \notin prior'[r]
             /\ \A q \in prior'[r] : Settled(q)'
  <2>1. start'[r] = start[r] /\ prior'[r] = prior[r] /\ prior[r] \subseteq Run
    BY <1>1, <1>2 DEF Keeps, TypeOK
  <2> QED
    BY <1>1, <1>2, <2>1 DEF Keeps, PriorInv, Normalized
<1>3. ASSUME NEW r \in Run, stage'[r] # "none", stage[r] = "none"
      PROVE  /\ Normalized(start[r], prior[r])' /\ r \notin prior'[r]
             /\ \A q \in prior'[r] : Settled(q)'
  <2>1. Trigger(r)
    <3>1. ASSUME NEW q \in Run, BlockJob(q) \/ AnalyzeFails(q) \/ Analyze(q) PROVE FALSE
      BY <1>3, <3>1 DEF BlockJob, AnalyzeFails, Analyze, TypeOK
    <3>2. ASSUME NEW q \in Run, Trigger(q) PROVE q = r
      BY <1>3, <3>2 DEF Trigger, TypeOK
    <3> QED
      BY <1>3, <3>1, <3>2 DEF Next, vars
  <2>2. PICK s \in LegalStartBlocks, p \in SUBSET {q \in Run : stage[q] # "none"} :
          /\ Normalized(s, p)
          /\ start' = [start EXCEPT ![r] = s] /\ prior' = [prior EXCEPT ![r] = p]
    BY <2>1 DEF Trigger
  <2>3. start'[r] = s /\ prior'[r] = p
    BY <2>2 DEF TypeOK
  <2>4. \A q \in p : Settled(q)'
    BY <1>3, <2>1, <2>2 DEF Trigger, TypeOK, Settled
  <2>5. Normalized(start[r], prior[r])'
    BY <2>2, <2>3 DEF Normalized
  <2> QED
    BY <1>3, <2>2, <2>3, <2>4, <2>5
<1> QED
  BY <1>2, <1>3 DEF PriorInv

\* A claim is made on valid evidence, which stays valid.
LEMMA ClaimStep ==
  ASSUME TypeOK, PriorInv, ClaimInv, [Next]_vars PROVE ClaimInv'
<1>1. Keeps
  BY StepKeeps
<1>2. ASSUME NEW r \in Run, stage[r] = "done" \/ stage[r] = "analyze", Valid(r) PROVE Valid(r)'
  <2>1. \A q \in Used(r) : q \in Run /\ Settled(q) /\ stage[q] # "none"
    BY <1>2 DEF PriorInv, Used, TypeOK, Settled
  <2>2. \A q \in Used(r) : evidence'[q] = evidence[q] /\ start'[q] = start[q]
    BY <1>1, <2>1 DEF Keeps
  <2>3. prior'[r] = prior[r]
    BY <1>1, <1>2 DEF Keeps
  <2> QED
    BY <1>2, <2>2, <2>3, ValidStays
<1>3. ASSUME NEW r \in Run, Claimed(r), Claimed(r)' PROVE stage'[r] = "done" /\ Valid(r)'
  BY <1>1, <1>2, <1>3 DEF ClaimInv, Keeps
<1>4. ASSUME NEW r \in Run, ~Claimed(r), Claimed(r)' PROVE stage'[r] = "done" /\ Valid(r)'
  <2>1. summary'[r] # summary[r]
    BY <1>4 DEF Claimed
  <2>2. Analyze(r)
    <3>1. ASSUME NEW q \in Run, Trigger(q) \/ BlockJob(q) \/ AnalyzeFails(q) PROVE FALSE
      BY <2>1, <3>1 DEF Trigger, BlockJob, AnalyzeFails
    <3>2. ASSUME NEW q \in Run, Analyze(q) PROVE q = r
      BY <2>1, <3>2 DEF Analyze, TypeOK
    <3> QED
      BY <2>1, <3>1, <3>2 DEF Next, vars
  <2>3. summary'[r].outcome = Decision(r) /\ stage'[r] = "done" /\ stage[r] = "analyze"
    BY <2>2 DEF Analyze, TypeOK
  <2>4. Valid(r)
    BY <1>4, <2>3, DecisionIsOutcome DEF Claimed
  <2> QED
    BY <1>2, <2>3, <2>4
<1> QED
  BY <1>3, <1>4 DEF ClaimInv

\* The invariant holds throughout a campaign.
LEMMA InductiveInvariant == Spec => []IInv
<1>1. Init => IInv
  BY InitHolds
<1>2. IInv /\ [Next]_vars => IInv'
  BY TypeStep, PriorStep, ClaimStep DEF IInv
<1> QED
  BY <1>1, <1>2, PTL DEF Spec

-----------------------------------------------------------------------------
(* Sums. The fold of a finite function is the difference of two            *)
(* cardinalities; what is proved of sums below is proved of those.         *)

\* The element the fold takes next.
Some(s) == CHOOSE x \in s : TRUE

\* A set that is not empty has one.
LEMMA SomeElement == \A s : s # {} => Some(s) \in s
BY DEF Some

\* The fold of Total, as a recursive function on the subsets of the domain.
Folds(f, g) ==
  g = [s \in SUBSET (DOMAIN f) |->
         IF s = {} THEN 0
         ELSE f[Some(s)] + g[s \ {Some(s)}]]

\* Total is that function, applied to the whole domain.
LEMMA TotalFolds ==
  ASSUME NEW f
  PROVE  Total(f) = (CHOOSE g : Folds(f, g))[DOMAIN f]
BY DEF Total, FoldFunction, FoldFunctionOnSet, MapThenFoldSet, Add, Folds, Some

\* The sum of integers as the difference of two cardinalities: one point for each unit.
Above(f, s) == {p \in s \X Nat : 1 <= p[2] /\ p[2] <= f[p[1]]}
Below(f, s) == {p \in s \X Nat : 1 <= p[2] /\ p[2] <= -f[p[1]]}
SumOn(f, s) == Cardinality(Above(f, s)) - Cardinality(Below(f, s))

\* The points of one value.
Column(x, n) == {p \in {x} \X Nat : 1 <= p[2] /\ p[2] <= n}

\* A column has as many points as its height says, and none below zero.
LEMMA ColumnSize ==
  ASSUME NEW x, NEW n \in Int
  PROVE  /\ IsFiniteSet(Column(x, n))
         /\ Cardinality(Column(x, n)) = IF n < 0 THEN 0 ELSE n
<1>1. Column(x, n) = {x} \X (1 .. n)
  BY DEF Column
<1>2. IsFiniteSet({x}) /\ Cardinality({x}) = 1
  BY FS_Singleton
<1>3. IsFiniteSet(1 .. n) /\ Cardinality(1 .. n) = IF 1 > n THEN 0 ELSE n - 1 + 1
  BY FS_Interval
<1>4. Cardinality(1 .. n) = IF n < 0 THEN 0 ELSE n
  BY <1>3
<1>5. /\ IsFiniteSet({x} \X (1 .. n))
      /\ Cardinality({x} \X (1 .. n)) = 1 * Cardinality(1 .. n)
  BY <1>2, <1>3, FS_Product
<1> QED
  BY <1>1, <1>4, <1>5

\* The points of finitely many integers are finitely many.
LEMMA UnitsFinite ==
  ASSUME NEW S, IsFiniteSet(S), NEW f \in [S -> Int], NEW s \in SUBSET S
  PROVE  IsFiniteSet(Above(f, s)) /\ IsFiniteSet(Below(f, s))
<1> DEFINE a == [x \in S |-> Column(x, f[x]) \cup Column(x, -f[x])]
           T == {a[x] : x \in S}
<1>1. a \in Surjection(S, T)
  BY DEF Surjection
<1>2. IsFiniteSet(T)
  BY <1>1, FS_Surjection
<1>3. \A t \in T : IsFiniteSet(t)
  <2> SUFFICES ASSUME NEW x \in S PROVE IsFiniteSet(Column(x, f[x]) \cup Column(x, -f[x]))
    OBVIOUS
  <2>1. f[x] \in Int /\ -f[x] \in Int
    OBVIOUS
  <2>2. IsFiniteSet(Column(x, f[x])) /\ IsFiniteSet(Column(x, -f[x]))
    BY <2>1, ColumnSize
  <2> QED
    BY <2>2, FS_Union
<1>4. IsFiniteSet(UNION T)
  BY <1>2, <1>3, FS_UNION
<1>5. Above(f, s) \in SUBSET UNION T /\ Below(f, s) \in SUBSET UNION T
  BY DEF Above, Below, Column
<1> QED
  BY <1>4, <1>5, FS_Subset

\* One column less.
LEMMA SumStep ==
  ASSUME NEW S, IsFiniteSet(S), NEW f \in [S -> Int], NEW s \in SUBSET S, NEW x \in s
  PROVE  SumOn(f, s) = f[x] + SumOn(f, s \ {x})
<1> DEFINE A == Above(f, s \ {x})
           B == Below(f, s \ {x})
           P == Column(x, f[x])
           N == Column(x, -f[x])
<1>1. s \ {x} \in SUBSET S /\ f[x] \in Int /\ -f[x] \in Int
  OBVIOUS
<1>2. IsFiniteSet(A) /\ IsFiniteSet(B) /\ Cardinality(A) \in Nat /\ Cardinality(B) \in Nat
  BY <1>1, UnitsFinite, FS_CardinalityType
<1>3. /\ IsFiniteSet(P) /\ Cardinality(P) = IF f[x] < 0 THEN 0 ELSE f[x]
      /\ IsFiniteSet(N) /\ Cardinality(N) = IF -f[x] < 0 THEN 0 ELSE -f[x]
  BY <1>1, ColumnSize
<1>4. /\ Above(f, s) = A \cup P /\ A \cap P = {}
      /\ Below(f, s) = B \cup N /\ B \cap N = {}
  BY DEF Above, Below, Column
<1>5. Cardinality({}) = 0
  BY FS_EmptySet
<1>6. Cardinality(A \cup P) = Cardinality(A) + Cardinality(P) - Cardinality(A \cap P)
  BY <1>2, <1>3, FS_Union
<1>7. Cardinality(B \cup N) = Cardinality(B) + Cardinality(N) - Cardinality(B \cap N)
  BY <1>2, <1>3, FS_Union
<1> HIDE DEF A, B, P, N
<1>8. /\ Cardinality(Above(f, s)) = Cardinality(A) + Cardinality(P)
      /\ Cardinality(Below(f, s)) = Cardinality(B) + Cardinality(N)
  <2>1. Cardinality(A \cap P) = 0 /\ Cardinality(B \cap N) = 0
    BY <1>4, <1>5, Zenon
  <2>2. Cardinality(Above(f, s)) = Cardinality(A \cup P)
    BY <1>4, Zenon
  <2>3. Cardinality(Below(f, s)) = Cardinality(B \cup N)
    BY <1>4, Zenon
  <2> QED
    BY <1>1, <1>2, <1>3, <1>6, <1>7, <2>1, <2>2, <2>3
<1>9. SumOn(f, s) = f[x] + (Cardinality(A) - Cardinality(B))
  BY <1>1, <1>2, <1>3, <1>8 DEF SumOn
<1> QED
  BY <1>9 DEF SumOn, A, B

\* A finite sum of integers is an integer, ...
LEMMA SumType ==
  ASSUME NEW S, IsFiniteSet(S), NEW f \in [S -> Int], NEW s \in SUBSET S
  PROVE  SumOn(f, s) \in Int
BY UnitsFinite, FS_CardinalityType DEF SumOn

\* ... zero if there is nothing to add.
LEMMA SumEmpty ==
  ASSUME NEW f
  PROVE  SumOn(f, {}) = 0
<1>1. Above(f, {}) = {} /\ Below(f, {}) = {}
  BY DEF Above, Below
<1> QED
  BY <1>1, FS_EmptySet DEF SumOn

\* The fold computes the sum: a smallest set on which it does not has an element, without
\* which it does.
LEMMA TotalIsSum ==
  ASSUME NEW S, IsFiniteSet(S), NEW f \in [S -> Int]
  PROVE  Total(f) = SumOn(f, S)
<1> DEFINE g == CHOOSE h : Folds(f, h)
           Wrong == {s \in SUBSET S : g[s] # SumOn(f, s)}
<1>1. \A s \in SUBSET S : s # {} => Some(s) \in s
  BY SomeElement
<1>2. Folds(f, [s \in SUBSET S |-> SumOn(f, s)])
  <2>1. ASSUME NEW s \in SUBSET S, s # {}
        PROVE  SumOn(f, s) = f[Some(s)] + SumOn(f, s \ {Some(s)})
    BY <1>1, <2>1, SumStep
  <2>2. \A s \in SUBSET S : s \ {Some(s)} \in SUBSET S
    OBVIOUS
  <2> QED
    BY <2>1, <2>2, SumEmpty DEF Folds
<1>3. Folds(f, g)
  BY <1>2
<1>4. ASSUME NEW s \in SUBSET S
      PROVE  g[s] = IF s = {} THEN 0 ELSE f[Some(s)] + g[s \ {Some(s)}]
  BY <1>3 DEF Folds
<1> HIDE DEF g
<1>5. Wrong = {}
  <2> SUFFICES ASSUME Wrong # {} PROVE FALSE
    OBVIOUS
  <2>1. IsWellFoundedOn(StrictSubsetOrdering(S), FiniteSubsetsOf(S))
    BY FS_StrictSubsetOrderingWellFounded
  <2>2. Wrong \subseteq FiniteSubsetsOf(S)
    BY FS_FiniteSubsetsOfFinite
  <2>3. PICK s \in Wrong : \A t \in Wrong : <<t, s>> \notin StrictSubsetOrdering(S)
    BY <2>1, <2>2, WFMin
  <2>4. s # {}
    BY <1>4, <2>3, SumEmpty
  <2>5. Some(s) \in s /\ s \ {Some(s)} \in SUBSET S
    BY <1>1, <2>3, <2>4
  <2>6. <<s \ {Some(s)}, s>> \in StrictSubsetOrdering(S)
    BY <2>3, <2>5 DEF StrictSubsetOrdering
  <2>7. g[s \ {Some(s)}] = SumOn(f, s \ {Some(s)})
    BY <2>3, <2>5, <2>6
  <2>8. SumOn(f, s) = f[Some(s)] + SumOn(f, s \ {Some(s)})
    BY <2>3, <2>5, SumStep
  <2> QED
    BY <1>4, <2>3, <2>4, <2>7, <2>8
<1>6. Total(f) = g[S]
  BY TotalFolds DEF g
<1> QED
  BY <1>5, <1>6

\* A sum depends on what it adds, and on nothing else.
LEMMA SumSame ==
  ASSUME NEW s, NEW f, NEW g, \A x \in s : f[x] = g[x]
  PROVE  SumOn(f, s) = SumOn(g, s)
<1>1. Above(f, s) = Above(g, s)
  BY DEF Above
<1>2. Below(f, s) = Below(g, s)
  BY DEF Below
<1> QED
  BY <1>1, <1>2 DEF SumOn

\* ... and not on how it is numbered.
LEMMA SumMoved ==
  ASSUME NEW S, IsFiniteSet(S), NEW f \in [S -> Int],
         NEW T, IsFiniteSet(T), NEW g \in [T -> Int],
         NEW h \in Bijection(S, T), \A x \in S : g[h[x]] = f[x]
  PROVE  SumOn(f, S) = SumOn(g, T)
<1> DEFINE a == [p \in Above(f, S) |-> <<h[p[1]], p[2]>>]
           b == [p \in Below(f, S) |-> <<h[p[1]], p[2]>>]
<1>1. /\ h \in [S -> T] /\ (\A y \in T : \E x \in S : h[x] = y)
      /\ \A x, y \in S : h[x] = h[y] => x = y
  BY DEF Bijection, Injection, IsInjective, Surjection
<1>2. a \in Bijection(Above(f, S), Above(g, T))
  <2>1. a \in [Above(f, S) -> Above(g, T)]
    BY <1>1 DEF Above
  <2>2. \A p, q \in Above(f, S) : a[p] = a[q] => p = q
    BY <1>1 DEF Above
  <2>3. \A q \in Above(g, T) : \E p \in Above(f, S) : a[p] = q
    <3> SUFFICES ASSUME NEW q \in Above(g, T) PROVE \E p \in Above(f, S) : a[p] = q
      OBVIOUS
    <3>1. q[1] \in T /\ q[2] \in Nat /\ q = <<q[1], q[2]>> /\ 1 <= q[2] /\ q[2] <= g[q[1]]
      BY DEF Above
    <3>2. PICK x \in S : h[x] = q[1]
      BY <1>1, <3>1
    <3>3. <<x, q[2]>> \in Above(f, S)
      BY <3>1, <3>2 DEF Above
    <3>4. a[<<x, q[2]>>] = q
      BY <3>1, <3>2, <3>3
    <3> QED
      BY <3>3, <3>4
  <2> QED
    BY <2>1, <2>2, <2>3 DEF Bijection, Injection, IsInjective, Surjection
<1>3. b \in Bijection(Below(f, S), Below(g, T))
  <2>1. b \in [Below(f, S) -> Below(g, T)]
    BY <1>1 DEF Below
  <2>2. \A p, q \in Below(f, S) : b[p] = b[q] => p = q
    BY <1>1 DEF Below
  <2>3. \A q \in Below(g, T) : \E p \in Below(f, S) : b[p] = q
    <3> SUFFICES ASSUME NEW q \in Below(g, T) PROVE \E p \in Below(f, S) : b[p] = q
      OBVIOUS
    <3>1. q[1] \in T /\ q[2] \in Nat /\ q = <<q[1], q[2]>> /\ 1 <= q[2] /\ q[2] <= -g[q[1]]
      BY DEF Below
    <3>2. PICK x \in S : h[x] = q[1]
      BY <1>1, <3>1
    <3>3. <<x, q[2]>> \in Below(f, S)
      BY <3>1, <3>2 DEF Below
    <3>4. b[<<x, q[2]>>] = q
      BY <3>1, <3>2, <3>3
    <3> QED
      BY <3>3, <3>4
  <2> QED
    BY <2>1, <2>2, <2>3 DEF Bijection, Injection, IsInjective, Surjection
<1>4. IsFiniteSet(Above(f, S)) /\ IsFiniteSet(Below(f, S))
  BY UnitsFinite
<1>5. /\ Cardinality(Above(g, T)) = Cardinality(Above(f, S))
      /\ Cardinality(Below(g, T)) = Cardinality(Below(f, S))
  BY <1>2, <1>3, <1>4, FS_Bijection DEF ExistsBijection
<1> QED
  BY <1>5 DEF SumOn

\* A sum of squares is at least each of them.
LEMMA SumOfSquares ==
  ASSUME NEW S, IsFiniteSet(S), NEW f \in [S -> Int], NEW x \in S, \A y \in S : f[y] >= 0
  PROVE  SumOn(f, S) >= f[x]
<1>1. S \ {x} \in SUBSET S /\ S \in SUBSET S
  OBVIOUS
<1>2. SumOn(f, S) = f[x] + SumOn(f, S \ {x})
  BY <1>1, SumStep
<1>3. Below(f, S \ {x}) = {}
  BY DEF Below
<1>4. IsFiniteSet(Above(f, S \ {x})) /\ Cardinality(Above(f, S \ {x})) \in Nat
  BY <1>1, UnitsFinite, FS_CardinalityType
<1>5. Cardinality(Below(f, S \ {x})) = 0
  BY <1>3, FS_EmptySet
<1>6. SumOn(f, S \ {x}) >= 0 /\ SumOn(f, S \ {x}) \in Int
  BY <1>4, <1>5 DEF SumOn
<1> QED
  BY <1>2, <1>6

\* Products keep an order.
LEMMA Product ==
  ASSUME NEW a \in Int, NEW b \in Int, NEW c \in Nat, a <= b
  PROVE  c * a <= c * b
OBVIOUS

\* Arithmetic of sequential_ci: an interval that excludes zero, with a critical value above
\* one, has a total that no single value makes up.
LEMMA Outweighs ==
  ASSUME NEW n \in Nat, n >= 2, NEW C \in Nat, C >= 100, NEW T \in Int, NEW Q \in Int,
         NEW v \in Int, Q >= v * v, ~(C * (n * Q - T * T) >= 100 * T * T * (n - 1))
  PROVE  (T < 0 => T - v < 0) /\ (~(T < 0) => T - v > 0)
<1> DEFINE t == T * T
           m == n - 1
           D == n * Q - t
<1>1. t \in Nat /\ m \in Nat /\ v * v \in Nat /\ D \in Int
  OBVIOUS
<1>2. 100 * T * T * (n - 1) = 100 * (m * t)
  <2>1. \A a, b \in Int : 100 * a * a * b = 100 * (b * (a * a))
    OBVIOUS
  <2> QED
    BY <2>1
<1>3. ~(C * D >= 100 * (m * t))
  BY <1>2
<1>4. Q < t
  <2> SUFFICES ASSUME Q >= t PROVE FALSE
    BY <1>1
  <2>1. n * t <= n * Q
    BY <1>1, Product
  <2>2. n * t = m * t + t
    BY <1>1
  <2>3. m * t \in Nat
    BY <1>1
  <2>4. m * t <= D /\ D \in Nat
    BY <1>1, <2>1, <2>2, <2>3
  <2>5. D * 100 <= D * C
    BY <2>4, Product
  <2>6. D * C = C * D /\ C * D \in Int
    BY <1>1
  <2> HIDE DEF D, m, t
  <2> QED
    BY <1>1, <1>3, <2>3, <2>4, <2>5, <2>6
<1>5. v * v < T * T
  BY <1>1, <1>4
<1>6. ASSUME T < 0, v <= T PROVE FALSE
  <2>1. (-T) \in Nat /\ (-v) \in Nat /\ -T <= -v
    BY <1>6
  <2>2. (-T) * (-T) <= (-T) * (-v) /\ (-v) * (-T) <= (-v) * (-v)
    BY <2>1, Product
  <2>3. (-T) * (-T) = T * T /\ (-v) * (-v) = v * v /\ (-T) * (-v) = (-v) * (-T)
    OBVIOUS
  <2> QED
    BY <1>5, <2>2, <2>3
<1>7. ASSUME T >= 0, v >= T PROVE FALSE
  <2>1. T * T <= T * v /\ v * T <= v * v
    BY <1>7, Product
  <2>2. T * v = v * T
    OBVIOUS
  <2> QED
    BY <1>5, <2>1, <2>2
<1> QED
  BY <1>6, <1>7

-----------------------------------------------------------------------------
(* What a claim says.                                                      *)

\* A claim is the direction of the interval of the effects it used, of two blocks or more.
DirectionInv ==
  \A r \in Run : Claimed(r) =>
    EndBlock(r) >= 2 /\ summary[r].outcome = Direction(Effects(r), EndBlock(r))

\* The effects are those of the blocks, each of which is measured once.
LEMMA EffectOf ==
  ASSUME NEW r \in Run, EachBlockOnce(r), NEW c \in Manifests(r), BlockOf(c) \in 1 .. EndBlock(r)
  PROVE  Effects(r)[BlockOf(c)] = Of(c).effect
<1>1. (CHOOSE d \in Manifests(r) : BlockOf(d) = BlockOf(c)) = c
  BY DEF EachBlockOnce
<1> QED
  BY <1>1 DEF Effects

\* They stay what they are, as long as nothing touches the evidence.
LEMMA EffectsStay ==
  ASSUME NEW r \in Run, EachBlockOnce(r), prior'[r] = prior[r],
         \A q \in Used(r) : evidence'[q] = evidence[q] /\ start'[q] = start[q]
  PROVE  Effects(r)' = Effects(r) /\ EndBlock(r)' = EndBlock(r)
<1> USE DEF Used
<1>1. r \in Used(r)
  OBVIOUS
<1>2. Manifests(r)' = Manifests(r)
  BY DEF Manifests
<1>3. EndBlock(r)' = EndBlock(r)
  BY <1>1 DEF EndBlock
<1>4. \A c \in Manifests(r) : BlockOf(c)' = BlockOf(c) /\ Of(c)' = Of(c)
  BY DEF Manifests, BlockOf, Of
<1>5. ASSUME NEW b \in 1 .. EndBlock(r) PROVE Effects(r)'[b] = Effects(r)[b]
  <2>1. PICK c \in Manifests(r) : BlockOf(c) = b
    BY DEF EachBlockOnce
  <2>2. (CHOOSE d \in Manifests(r) : BlockOf(d) = b) = c
    BY <2>1 DEF EachBlockOnce
  <2>3. \A d \in Manifests(r)' : BlockOf(d)' = b => d = c
    BY <1>2, <1>4, <2>1 DEF EachBlockOnce
  <2>4. c \in Manifests(r)' /\ BlockOf(c)' = b
    BY <1>2, <1>4, <2>1
  <2>5. (CHOOSE d \in Manifests(r)' : BlockOf(d)' = b) = c
    BY <2>3, <2>4
  <2>6. Effects(r)[b] = Of(c).effect
    BY <2>2 DEF Effects
  <2>7. Effects(r)'[b] = Of(c)'.effect
    BY <1>3, <2>5 DEF Effects
  <2> QED
    BY <1>4, <2>6, <2>7
<1>6. Effects(r) = [b \in 1 .. EndBlock(r) |-> Effects(r)[b]]
  BY DEF Effects
<1>7. Effects(r)' = [b \in 1 .. EndBlock(r) |-> Effects(r)'[b]]
  BY <1>3 DEF Effects
<1> QED
  BY <1>3, <1>5, <1>6, <1>7

\* There are finitely many cells.
LEMMA CellsFinite ==
  ASSUME TypeOK, NEW r \in Run
  PROVE  IsFiniteSet(Cells(r))
<1>1. IsFiniteSet(prior[r]) /\ Used(r) = prior[r] \cup {r}
  <2>1. prior[r] \in SUBSET Run
    BY DEF TypeOK
  <2> QED
    BY <2>1, CampaignAssumption, FS_Subset DEF Used
<1>2. IsFiniteSet(Used(r))
  BY <1>1, FS_AddElement
<1>3. IsFiniteSet(Offset)
  BY CampaignAssumption, FS_Interval DEF Offset
<1> QED
  BY <1>2, <1>3, FS_Product DEF Cells

\* The last block is that of a look, with a critical value above one.
LEMMA LookEnd ==
  ASSUME TypeOK, NEW r \in Run
  PROVE  /\ EndBlock(r) \in Nat
         /\ EndBlock(r) >= 2 => (Critical2[EndBlock(r)] \in Nat /\ Critical2[EndBlock(r)] >= 100)
<1>1. BlockSize \in Nat /\ BlockSize > 0 /\ Looks \in Nat
  BY CampaignAssumption
<1>2. PICK l \in 0 .. Looks - 1 : start[r] = 1 + l * BlockSize
  BY Zenon DEF TypeOK, LegalStartBlocks
<1>3. l \in Nat /\ l * BlockSize \in Nat /\ l + 1 \in 1 .. Looks
  BY <1>1
<1>4. EndBlock(r) = (l + 1) * BlockSize /\ EndBlock(r) \in Nat
  BY <1>1, <1>2, <1>3 DEF EndBlock
<1>5. (l + 1) * BlockSize \in Block
  BY <1>1, <1>3 DEF Block, MaxBlocks
<1> QED
  BY <1>3, <1>4, <1>5, CampaignAssumption

\* The total of a claim is that of the effects of its cells, none of which outweighs the
\* others.
LEMMA NoCellDecides ==
  ASSUME TypeOK, NEW r \in Run, Valid(r), Normalized(start[r], prior[r]), r \notin prior[r],
         EndBlock(r) >= 2, ~ZeroInside(Effects(r), EndBlock(r)), NEW c \in Cells(r)
  PROVE  /\ Total(Effects(r)) < 0 => Without(r, c) < 0
         /\ ~(Total(Effects(r)) < 0) => Without(r, c) > 0
<1> DEFINE n == EndBlock(r)
           N == 1 .. n
           E == Effects(r)
           C == Cells(r)
           e == [d \in C |-> Of(d).effect]
           h == [d \in C |-> BlockOf(d)]
           sq == [b \in N |-> E[b] * E[b]]
           rest == [d \in C \ {c} |-> Of(d).effect]
<1>1. Manifests(r) = C /\ EachBlockOnce(r)
  BY EveryCell DEF Valid
<1>2. IsFiniteSet(C)
  BY CellsFinite
<1>3. n \in Nat /\ IsFiniteSet(N) /\ Critical2[n] \in Nat /\ Critical2[n] >= 100
  BY LookEnd, FS_Interval
<1>4. \A d \in C : BlockOf(d) \in N
  BY <1>1, BlockInRange
<1>5. \A d \in C : Of(d).effect \in Int
  <2> SUFFICES ASSUME NEW d \in C PROVE Of(d).effect \in Int
    OBVIOUS
  <2>1. d[1] \in Run /\ d[2] \in Offset /\ Of(d) # NoEvidence
    BY <1>1 DEF Manifests, Of, Cells, Used, TypeOK
  <2>2. Of(d) \in Evidence
    BY <2>1 DEF TypeOK, Of
  <2> QED
    BY <2>2, CampaignAssumption
<1>6. h \in Bijection(C, N)
  <2>1. h \in [C -> N]
    BY <1>4
  <2>2. \A d, f \in C : h[d] = h[f] => d = f
    BY <1>1 DEF EachBlockOnce
  <2>3. \A b \in N : \E d \in C : h[d] = b
    BY <1>1 DEF EachBlockOnce
  <2> QED
    BY <2>1, <2>2, <2>3 DEF Bijection, Injection, IsInjective, Surjection
<1>7. \A d \in C : E[h[d]] = e[d]
  BY <1>1, <1>4, EffectOf
<1>8. E \in [N -> Int]
  <2>1. E = [b \in N |-> E[b]]
    BY DEF Effects
  <2>2. \A b \in N : \E d \in C : h[d] = b
    BY <1>6 DEF Bijection, Surjection
  <2>3. \A b \in N : E[b] \in Int
    BY <1>5, <1>7, <2>2
  <2> HIDE DEF E
  <2> QED
    BY <2>1, <2>3
<1>9. e \in [C -> Int]
  BY <1>5
<1> HIDE DEF E, h, e
<1>10. Total(E) = SumOn(e, C) /\ Total(E) \in Int
  <2>1. Total(E) = SumOn(E, N)
    BY <1>3, <1>8, TotalIsSum
  <2>2. SumOn(e, C) = SumOn(E, N)
    <3> HIDE DEF n, N, C
    <3> QED
      BY <1>2, <1>3, <1>6, <1>7, <1>8, <1>9, SumMoved
  <2> QED
    BY <1>2, <1>9, <2>1, <2>2, SumType
<1>11. Without(r, c) = SumOn(e, C \ {c})
  <2>1. Without(r, c) = Total(rest)
    BY DEF Without, Cells, Used
  <2>2. rest \in [C \ {c} -> Int]
    BY <1>5
  <2>3. \A d \in C \ {c} : e[d] = rest[d]
    BY DEF e
  <2>4. IsFiniteSet(C \ {c})
    BY <1>2, FS_RemoveElement
  <2> HIDE DEF rest
  <2>5. Total(rest) = SumOn(rest, C \ {c})
    BY <2>2, <2>4, TotalIsSum
  <2>6. SumOn(e, C \ {c}) = SumOn(rest, C \ {c})
    BY <2>3, SumSame, Zenon
  <2> QED
    BY <2>1, <2>5, <2>6
<1>12. Squares(E) \in Int /\ Squares(E) >= e[c] * e[c]
  <2>1. Squares(E) = Total(sq)
    <3>1. DOMAIN E = N
      BY <1>8
    <3> QED
      BY <3>1 DEF Squares, Total
  <2>2. sq \in [N -> Int] /\ \A b \in N : sq[b] >= 0
    <3>1. \A b \in N : E[b] * E[b] \in Int /\ E[b] * E[b] >= 0
      BY <1>8
    <3> QED
      BY <3>1
  <2>3. h[c] \in N /\ sq[h[c]] = e[c] * e[c]
    BY <1>4, <1>7 DEF h
  <2> HIDE DEF sq
  <2>4. Total(sq) = SumOn(sq, N)
    BY <1>3, <2>2, TotalIsSum
  <2>5. SumOn(sq, N) \in Int
    BY <1>3, <2>2, SumType
  <2>6. SumOn(sq, N) >= sq[h[c]]
    BY <1>3, <2>2, <2>3, SumOfSquares
  <2> QED
    BY <2>1, <2>3, <2>4, <2>5, <2>6
<1>13. ~(Critical2[n] * (n * Squares(E) - Total(E) * Total(E))
           >= 100 * Total(E) * Total(E) * (n - 1))
  BY DEF ZeroInside, Spread, E
<1>14. e[c] \in Int
  BY <1>9
<1>15. Without(r, c) = Total(E) - e[c]
  <2>1. SumOn(e, C \ {c}) \in Int
    BY <1>2, <1>9, SumType
  <2>2. SumOn(e, C) = e[c] + SumOn(e, C \ {c})
    BY <1>2, <1>9, SumStep
  <2> QED
    BY <1>10, <1>11, <1>14, <2>1, <2>2
<1>16. /\ Total(E) < 0 => Total(E) - e[c] < 0
       /\ ~(Total(E) < 0) => Total(E) - e[c] > 0
  BY <1>3, <1>10, <1>12, <1>13, <1>14, Outweighs
<1> QED
  BY <1>15, <1>16 DEF E

\* A claim is the decision of the analyzer, and its evidence stays as it was.
LEMMA DirectionStep ==
  ASSUME IInv, DirectionInv, [Next]_vars
  PROVE  DirectionInv'
<1>1. TypeOK /\ PriorInv /\ ClaimInv /\ Keeps
  BY StepKeeps DEF IInv
<1>2. ASSUME NEW r \in Run, stage[r] = "done" \/ stage[r] = "analyze", Valid(r)
      PROVE  Effects(r)' = Effects(r) /\ EndBlock(r)' = EndBlock(r)
  <2>1. \A q \in Used(r) : q \in Run /\ Settled(q) /\ stage[q] # "none"
    BY <1>1, <1>2 DEF PriorInv, Used, TypeOK, Settled
  <2>2. \A q \in Used(r) : evidence'[q] = evidence[q] /\ start'[q] = start[q]
    BY <1>1, <2>1 DEF Keeps
  <2>3. prior'[r] = prior[r]
    BY <1>1, <1>2 DEF Keeps
  <2> QED
    BY <1>2, <2>2, <2>3, EffectsStay DEF Valid
<1>3. ASSUME NEW r \in Run, Claimed(r)', summary'[r] = summary[r]
      PROVE  (EndBlock(r) >= 2 /\ summary[r].outcome = Direction(Effects(r), EndBlock(r)))'
  <2>1. Claimed(r)
    BY <1>3 DEF Claimed
  <2>2. stage[r] = "done" /\ Valid(r)
    BY <1>1, <2>1 DEF ClaimInv
  <2>3. Effects(r)' = Effects(r) /\ EndBlock(r)' = EndBlock(r)
    BY <1>2, <2>2
  <2>4. EndBlock(r) >= 2 /\ summary[r].outcome = Direction(Effects(r), EndBlock(r))
    BY <2>1 DEF DirectionInv
  <2> QED
    BY <1>3, <2>3, <2>4 DEF Direction, ZeroInside, Spread, Squares, Total
<1>4. ASSUME NEW r \in Run, Claimed(r)', summary'[r] # summary[r]
      PROVE  (EndBlock(r) >= 2 /\ summary[r].outcome = Direction(Effects(r), EndBlock(r)))'
  <2>1. Analyze(r)
    <3>1. ASSUME NEW q \in Run, Trigger(q) \/ BlockJob(q) \/ AnalyzeFails(q) PROVE FALSE
      BY <1>4, <3>1 DEF Trigger, BlockJob, AnalyzeFails
    <3>2. ASSUME NEW q \in Run, Analyze(q) PROVE q = r
      BY <1>1, <1>4, <3>2 DEF Analyze, TypeOK
    <3> QED
      BY <1>4, <3>1, <3>2 DEF Next, vars
  <2>2. summary'[r].outcome = Decision(r) /\ stage[r] = "analyze"
    BY <1>1, <2>1 DEF Analyze, TypeOK
  <2>3. Decision(r) \in Claims
    BY <1>4, <2>2 DEF Claimed
  <2>4. Valid(r) /\ Precise(Effects(r), EndBlock(r))
    BY <2>3 DEF Decision, Undecided, Claims
  <2>5. Decision(r) = Direction(Effects(r), EndBlock(r)) /\ EndBlock(r) >= 2
    BY <2>4 DEF Decision, Precise
  <2>6. Effects(r)' = Effects(r) /\ EndBlock(r)' = EndBlock(r)
    BY <1>2, <2>2, <2>4
  <2> QED
    BY <2>2, <2>5, <2>6 DEF Direction, ZeroInside, Spread, Squares, Total
<1> QED
  BY <1>3, <1>4 DEF DirectionInv

-----------------------------------------------------------------------------
(* The theorems.                                                           *)

\* Every variable of a campaign keeps its type.
THEOREM TypeCorrect == Spec => []TypeOK
<1>1. IInv => TypeOK
  BY DEF IInv
<1> QED
  BY <1>1, InductiveInvariant, PTL

\* Whatever runs a maintainer names and whatever they uploaded: a claim of the analyzer
\* rests on one accepted, undamaged evidence of every block of every look.
THEOREM ClaimsAreSupported == Spec => []ClaimIsSupported
<1>1. IInv => ClaimIsSupported
  <2> SUFFICES ASSUME IInv, NEW r \in Run, Claimed(r)
               PROVE  /\ \A b \in {s \in LegalStartBlocks : s <= start[r]} :
                           \E q \in Used(r) : start[q] = b
                      /\ \A p, q \in Used(r) : start[p] = start[q] => p = q
                      /\ \A q \in Used(r), k \in Offset :
                           /\ evidence[q][k] # NoEvidence
                           /\ evidence[q][k].intact /\ evidence[q][k].accepted
                      /\ \A p, q \in Used(r), k, l \in Offset :
                           evidence[p][k].signature = evidence[q][l].signature
    BY DEF ClaimIsSupported
  <2>1. Valid(r) /\ stage[r] = "done" /\ TypeOK
    BY DEF IInv, ClaimInv
  <2>2. Normalized(start[r], prior[r]) /\ r \notin prior[r]
    BY <2>1 DEF IInv, PriorInv
  <2> QED
    BY <2>1, <2>2, ValidIsSupported
<1> QED
  BY <1>1, InductiveInvariant, PTL

\* No block decides the direction of a claim: without any one of them the total of the
\* others keeps the sign of the claim, however many blocks and looks there are and whatever
\* they measured, as long as the critical values exceed one.
THEOREM NoBlockDecidesAlone == Spec => []NoBlockDecides
<1>1. Init => DirectionInv
  BY DEF Init, DirectionInv, Claimed, Claims, NoSummary
<1>2. IInv /\ DirectionInv /\ [Next]_vars => DirectionInv'
  BY DirectionStep
<1>3. IInv /\ DirectionInv => NoBlockDecides
  <2> SUFFICES ASSUME IInv, DirectionInv, NEW r \in Run, NEW c \in Used(r) \X Offset
               PROVE  /\ summary[r].outcome = "KEEP" => Without(r, c) < 0
                      /\ summary[r].outcome = "REVERT" => Without(r, c) > 0
    BY DEF NoBlockDecides
  <2> SUFFICES ASSUME summary[r].outcome \in {"KEEP", "REVERT"}
               PROVE  /\ summary[r].outcome = "KEEP" => Without(r, c) < 0
                      /\ summary[r].outcome = "REVERT" => Without(r, c) > 0
    OBVIOUS
  <2>1. Claimed(r)
    BY DEF Claimed, Claims
  <2>2. TypeOK /\ Valid(r) /\ Normalized(start[r], prior[r]) /\ r \notin prior[r]
    BY <2>1 DEF IInv, ClaimInv, PriorInv
  <2>3. EndBlock(r) >= 2 /\ summary[r].outcome = Direction(Effects(r), EndBlock(r))
    BY <2>1 DEF DirectionInv
  <2>4. ~ZeroInside(Effects(r), EndBlock(r))
    BY <2>3 DEF Direction
  <2>5. summary[r].outcome = (IF Total(Effects(r)) < 0 THEN "KEEP" ELSE "REVERT")
    BY <2>3, <2>4 DEF Direction
  <2>6. /\ Total(Effects(r)) < 0 => Without(r, c) < 0
        /\ ~(Total(Effects(r)) < 0) => Without(r, c) > 0
    BY <2>2, <2>3, <2>4, NoCellDecides DEF Cells
  <2> QED
    BY <2>5, <2>6
<1> QED
  BY <1>1, <1>2, <1>3, InductiveInvariant, PTL DEF Spec
=============================================================================
