----------------------- MODULE BlockedBenchmarkProofs -----------------------
(***************************************************************************)
(* Theorems about BlockedBenchmark, for any number of cases and any number *)
(* of changes of the runner's CPUs.                                        *)
(*                                                                         *)
(* The argument: a case writes only its own result, and its turn is over   *)
(* when the next one begins; so what holds of the processes and the result *)
(* of a case at the end of its turn holds for good, up to processes that   *)
(* exit.  An exception that leaves the clauses of execute() is the only    *)
(* way for a process to outlive its case, and it costs the block.          *)
(***************************************************************************)
EXTENDS BlockedBenchmark, TLAPS

AllValid == \A p \in Positions : disk[p] = "valid"

\* A case that has not begun has no process and no result of this run.
Untouched ==
  \A p \in Positions :
    p > pos \/ (p = pos /\ pc \in {"clear", "setup", "before_case"}) =>
      bds[p] = "none" /\ load[p] = "none" /\ disk[p] \in {"none", "stale"}

\* The masks, along the stages of the case.
Masks ==
  /\ pc \in EarlyStages => "controller" \notin pinned
  /\ pc \in {"bots", "bots_online", "warmup", "measure", "profile", "restore"} =>
       {"bds", "controller"} \subseteq baselines /\ ~restored
  /\ pc \in {"disconnect", "shutdown", "ticks"} => restored /\ pinned = {}
  /\ pc \in CaseStages \ {"finally", "after_case"} => disk[pos] \notin Passed
  /\ pc \in {"finally", "after_case"} /\ disk[pos] \in Passed => restored
  /\ PassIsRestored

\* The processes, at the end of the case and ever after.
Processes ==
  /\ pc = "shutdown" => load[pos] # "running"
  /\ pc = "ticks" => bds[pos] # "running" /\ load[pos] # "running"
  /\ pc \in {"finally", "after_case"} /\ ~raised => bds[pos] # "running" /\ load[pos] # "running"
  /\ LeftoverIsReported

\* The verdicts, the marker and the evidence manifest.
Verdicts ==
  /\ shared # {} => \E p \in Positions : p < pos /\ disk[p] = "case-launch"
  /\ overall = 0 => \A p \in Positions : p < pos => disk[p] \in Passed
  /\ pc \in {"evidence", "gate", "mark", "fill"} => pos = BlockSize + 1
  /\ pc \in {"mark", "fill"} => AllValid
  /\ gate = "full" /\ pc # "clear" => AllValid /\ pc \in {"prepare", "upload", "done"}
  /\ prepared => pc \in {"upload", "done"} /\ listed = Current
  /\ artifact = "valid" => pc = "done" /\ prepared /\ gate = "full"

IInv == TypeOK /\ Untouched /\ Masks /\ Processes /\ Verdicts

\* The parts of TypeOK.
ControlType ==
  /\ pc \in ControllerSteps \cup {"prepare", "upload", "done"}
  /\ pos \in 1 .. BlockSize + 1
  /\ pc \in CaseStages \cup {"clear", "setup", "before_case"} => pos \in Positions
  /\ overall \in {0, 1}
ProcessType ==
  /\ bds \in [Positions -> ProcessStates]
  /\ load \in [Positions -> ProcessStates]
MaskType ==
  /\ pinned \subseteq {"bds", "controller"}
  /\ baselines \subseteq {"load", "bds", "controller"}
  /\ restored \in BOOLEAN /\ raised \in BOOLEAN
ResultType == disk \in [Positions -> Results]
EvidenceType ==
  /\ manifest \in Manifests
  /\ listed \in [manifest : Manifests, disk : [Positions -> Results]]
  /\ gate \in {"absent", "empty", "full"}
  /\ topo \in {"expected", "drifted"}
  /\ drifts \in 0 .. MaxDrifts
  /\ prepared \in BOOLEAN
  /\ artifact \in {"none", "valid", "rejected"}
  /\ shared \subseteq Positions

---------------------------------------------------------------------------
\* The initial states satisfy the invariant.
LEMMA InitIInv == Init => IInv
<1> SUFFICES ASSUME Init PROVE IInv
  OBVIOUS
<1> USE BenchmarkAssumption DEF Init, Positions, NotListed
<1>1. TypeOK
  <2>1. ControlType
    <3>1. pc = "clear" /\ pos = 1 /\ overall = 0 /\ 1 \in Positions /\ 1 \in 1 .. BlockSize + 1
      OBVIOUS
    <3> QED
      BY <3>1 DEF ControlType, ControllerSteps
  <2>2. ProcessType
    BY DEF ProcessType, ProcessStates
  <2>3. ResultType
    BY DEF ResultType, Results
  <2>4. MaskType
    BY DEF MaskType
  <2>5. EvidenceType
    <3>1. listed \in [manifest : Manifests, disk : [Positions -> Results]]
      BY DEF Manifests, Results
    <3>2. manifest \in Manifests /\ gate \in {"absent", "empty", "full"} /\ drifts \in 0 .. MaxDrifts
      BY DEF Manifests
    <3> QED
      BY <3>1, <3>2 DEF EvidenceType
  <2> QED
    BY <2>1, <2>2, <2>3, <2>4, <2>5
    DEF TypeOK, ControlType, ProcessType, MaskType, ResultType, EvidenceType
<1>2. Untouched /\ Masks
  BY DEF Untouched, Masks, EarlyStages, CaseStages, PassIsRestored, Passed
<1>3. Processes /\ Verdicts
  BY DEF Processes, LeftoverIsReported, Verdicts
<1> QED
  BY <1>1, <1>2, <1>3 DEF IInv

\* Polling a process keeps the types.
LEMMA PolledType ==
  ASSUME NEW f \in [Positions -> ProcessStates], pos \in Positions
  PROVE  Polled(f) \in [Positions -> ProcessStates]
BY DEF Polled, ProcessStates

\* What the invariants need to know of the first changes of the masks.
LEMMA PinChanges ==
  ASSUME Pin
  PROVE  /\ pc = "pin" /\ pc' \in {"handler", "bots"}
         /\ disk' = disk \/ disk' = [disk EXCEPT ![pos] = "failed"]
         /\ UNCHANGED <<pos, overall, bds, load, shared, raised, manifest, listed, gate,
                       prepared, artifact>>
BY DEF Pin, Goto, Raise, At, CaseFrame, procVars, evidenceVars, blockVars, jobVars

\* Every step preserves the types.
LEMMA TypeStep == TypeOK /\ [Next]_vars => TypeOK'
<1> SUFFICES ASSUME TypeOK, [Next]_vars PROVE TypeOK'
  OBVIOUS
<1> USE BenchmarkAssumption DEF TypeOK, Positions, ControllerSteps, CaseStages, EarlyStages,
  ProcessStates, Results, Passed, Manifests, Current,
  affinityVars, procVars, topoVars, evidenceVars, blockVars, jobVars
<1>1. CASE Install
  BY <1>1 DEF Install, Goto, Raise, At, CaseFrame
<1>2. CASE StartServer
  <2> USE <1>2 DEF StartServer, Goto, Raise, At, CaseFrame
  <2>1. ControlType'
    BY DEF ControlType
  <2>2. ProcessType'
    BY DEF ProcessType
  <2>3. MaskType'
    BY DEF MaskType
  <2>4. ResultType'
    BY DEF ResultType
  <2>5. EvidenceType'
    BY DEF EvidenceType
  <2> QED
    BY <2>1, <2>2, <2>3, <2>4, <2>5 DEF ControlType, ProcessType, MaskType, ResultType, EvidenceType
<1>3. CASE StopBootstrap
  BY <1>3 DEF StopBootstrap, RaiseAfterPolling, Polled, Ended, Goto, Raise, At, CaseFrame
<1>4. CASE Sanity
  BY <1>4 DEF Sanity, RaiseAfterPolling, Polled, Goto, Raise, At, CaseFrame
<1>5. CASE Pin
  <2> USE <1>5 DEF Pin, Goto, Raise, At, CaseFrame
  <2>1. ControlType'
    BY DEF ControlType
  <2>2. ProcessType'
    BY DEF ProcessType
  <2>3. MaskType'
    BY DEF MaskType
  <2>4. ResultType'
    BY DEF ResultType
  <2>5. EvidenceType'
    BY DEF EvidenceType
  <2> QED
    BY <2>1, <2>2, <2>3, <2>4, <2>5 DEF ControlType, ProcessType, MaskType, ResultType, EvidenceType
<1>6. CASE StartBots
  BY <1>6 DEF StartBots, Goto, Raise, At, CaseFrame
<1>7. CASE BotsOnline
  <2> USE <1>7 DEF BotsOnline, RaiseAfterPolling, Goto, Raise, At, CaseFrame
  <2>1. ControlType'
    BY DEF ControlType
  <2>2. ProcessType'
    BY PolledType DEF ProcessType
  <2>3. MaskType'
    BY DEF MaskType
  <2>4. ResultType'
    BY DEF ResultType
  <2>5. EvidenceType'
    BY DEF EvidenceType
  <2> QED
    BY <2>1, <2>2, <2>3, <2>4, <2>5 DEF ControlType, ProcessType, MaskType, ResultType, EvidenceType
<1>8. CASE Measure
  <2> USE <1>8 DEF Measure, Window, Polled, Goto, Raise, At, CaseFrame
  <2>1. ControlType'
    BY DEF ControlType
  <2>2. ProcessType'
    BY DEF ProcessType
  <2>3. MaskType'
    BY DEF MaskType
  <2>4. ResultType'
    BY DEF ResultType
  <2>5. EvidenceType'
    BY DEF EvidenceType
  <2> QED
    BY <2>1, <2>2, <2>3, <2>4, <2>5 DEF ControlType, ProcessType, MaskType, ResultType, EvidenceType
<1>9. CASE StopProfiler
  BY <1>9 DEF StopProfiler, RaiseAfterPolling, Polled, Goto, Raise, At, CaseFrame
<1>10. CASE RestoreStage
  <2> USE <1>10 DEF RestoreStage, RestoreOk, RestoreFails, RestoreEscapes, NothingToRestore,
    Goto, Raise, At, CaseFrame
  <2>1. ControlType'
    BY DEF ControlType
  <2>2. ProcessType'
    BY DEF ProcessType
  <2>3. MaskType'
    BY DEF MaskType
  <2>4. ResultType'
    BY DEF ResultType
  <2>5. EvidenceType'
    BY DEF EvidenceType
  <2> QED
    BY <2>1, <2>2, <2>3, <2>4, <2>5 DEF ControlType, ProcessType, MaskType, ResultType, EvidenceType
<1>11. CASE Disconnect
  <2> USE <1>11 DEF Disconnect, Ended, Polled, Goto, Raise, At, CaseFrame
  <2>1. ControlType'
    BY DEF ControlType
  <2>2. ProcessType'
    BY DEF ProcessType
  <2>3. MaskType'
    BY DEF MaskType
  <2>4. ResultType'
    BY DEF ResultType
  <2>5. EvidenceType'
    BY DEF EvidenceType
  <2> QED
    BY <2>1, <2>2, <2>3, <2>4, <2>5 DEF ControlType, ProcessType, MaskType, ResultType, EvidenceType
<1>12. CASE Shutdown
  BY <1>12 DEF Shutdown, Ended, Goto, Raise, At, CaseFrame
<1>13. CASE Ticks
  <2> USE <1>13 DEF Ticks, Raise, At, CaseFrame
  <2>1. ControlType'
    BY DEF ControlType
  <2>2. ProcessType'
    BY DEF ProcessType
  <2>3. MaskType'
    BY DEF MaskType
  <2>4. ResultType'
    BY DEF ResultType
  <2>5. EvidenceType'
    BY DEF EvidenceType
  <2> QED
    BY <2>1, <2>2, <2>3, <2>4, <2>5 DEF ControlType, ProcessType, MaskType, ResultType, EvidenceType
<1>14. CASE Handler
  <2> USE <1>14 DEF Handler, RestoreOk, RestoreFails, RestoreEscapes, NothingToRestore, Goto, At
  <2>1. ControlType'
    BY DEF ControlType
  <2>2. ProcessType'
    BY DEF ProcessType
  <2>3. MaskType'
    BY DEF MaskType
  <2>4. ResultType'
    BY DEF ResultType
  <2>5. EvidenceType'
    BY DEF EvidenceType
  <2> QED
    BY <2>1, <2>2, <2>3, <2>4, <2>5 DEF ControlType, ProcessType, MaskType, ResultType, EvidenceType
<1>15. CASE Cleanup
  BY <1>15 DEF Cleanup, Ended, Goto, At, CaseFrame
<1>16. CASE Finally
  <2> USE <1>16 DEF Finally, RestoreOk, RestoreFails, RestoreEscapes, NothingToRestore, At
  <2>1. ControlType'
    BY DEF ControlType
  <2>2. ProcessType'
    BY DEF ProcessType
  <2>3. MaskType'
    BY DEF MaskType
  <2>4. ResultType'
    BY DEF ResultType
  <2>5. EvidenceType'
    BY DEF EvidenceType
  <2> QED
    BY <2>1, <2>2, <2>3, <2>4, <2>5 DEF ControlType, ProcessType, MaskType, ResultType, EvidenceType
<1>17. CASE ClearGate
  BY <1>17 DEF ClearGate, At, BlockFrame
<1>18. CASE Setup
  <2> USE <1>18 DEF Setup, At, BlockFrame
  <2>1. ControlType'
    BY DEF ControlType
  <2>2. ProcessType'
    BY DEF ProcessType
  <2>3. MaskType'
    BY DEF MaskType
  <2>4. ResultType'
    BY DEF ResultType
  <2>5. EvidenceType'
    BY DEF EvidenceType
  <2> QED
    BY <2>1, <2>2, <2>3, <2>4, <2>5 DEF ControlType, ProcessType, MaskType, ResultType, EvidenceType
<1>19. CASE BeforeCase
  <2> USE <1>19 DEF BeforeCase, EndCase, TopologyStable, At
  <2>1. ControlType'
    BY DEF ControlType
  <2>2. ProcessType'
    BY DEF ProcessType
  <2>3. MaskType'
    BY DEF MaskType
  <2>4. ResultType'
    BY DEF ResultType
  <2>5. EvidenceType'
    BY DEF EvidenceType
  <2> QED
    BY <2>1, <2>2, <2>3, <2>4, <2>5 DEF ControlType, ProcessType, MaskType, ResultType, EvidenceType
<1>20. CASE AfterCase
  <2> USE <1>20 DEF AfterCase, EndCase, At
  <2>1. ControlType'
    BY DEF ControlType
  <2>2. ProcessType'
    BY DEF ProcessType
  <2>3. MaskType'
    BY DEF MaskType
  <2>4. ResultType'
    BY DEF ResultType
  <2>5. EvidenceType'
    BY DEF EvidenceType
  <2> QED
    BY <2>1, <2>2, <2>3, <2>4, <2>5 DEF ControlType, ProcessType, MaskType, ResultType, EvidenceType
<1>21. CASE Evidence
  BY <1>21 DEF Evidence, At, BlockFrame
<1>22. CASE Gate
  BY <1>22 DEF Gate, Safe, TopologyStable, At, BlockFrame
<1>23. CASE Mark
  BY <1>23 DEF Mark, At, BlockFrame
<1>24. CASE Kill
  BY <1>24 DEF Kill
<1>25. CASE Prepare
  <2> USE <1>25 DEF Prepare, At
  <2>1. ControlType'
    BY DEF ControlType
  <2>2. ProcessType'
    BY DEF ProcessType
  <2>3. MaskType'
    BY DEF MaskType
  <2>4. ResultType'
    BY DEF ResultType
  <2>5. EvidenceType'
    <3>1. Current \in [manifest : Manifests, disk : [Positions -> Results]]
      OBVIOUS
    <3> QED
      BY <3>1 DEF EvidenceType
  <2> QED
    BY <2>1, <2>2, <2>3, <2>4, <2>5 DEF ControlType, ProcessType, MaskType, ResultType, EvidenceType
<1>26. CASE Upload
  BY <1>26 DEF Upload, At
<1>27. CASE Die
  BY <1>27 DEF Die
<1>28. CASE Drift
  BY <1>28 DEF Drift
<1>29. CASE UNCHANGED vars
  BY <1>29 DEF vars, affinityVars, procVars, topoVars, evidenceVars, blockVars, jobVars
<1> QED
  BY <1>1, <1>2, <1>3, <1>4, <1>5, <1>6, <1>7, <1>8, <1>9, <1>10, <1>11, <1>12, <1>13, <1>14,
     <1>15, <1>16, <1>17, <1>18, <1>19, <1>20, <1>21, <1>22, <1>23, <1>24, <1>25, <1>26, <1>27, <1>28, <1>29
     DEF Next, Case, Block

\* No case is begun before its turn.
LEMMA UntouchedStep == TypeOK /\ Untouched /\ [Next]_vars => Untouched'
<1> SUFFICES ASSUME TypeOK, Untouched, [Next]_vars PROVE Untouched'
  OBVIOUS
<1> USE BenchmarkAssumption DEF TypeOK, Untouched, Positions, CaseStages, EarlyStages,
  ControllerSteps, affinityVars, procVars, topoVars, evidenceVars, blockVars, jobVars
<1>1. CASE Install
  BY <1>1 DEF Install, Goto, Raise, At, CaseFrame
<1>2. CASE StartServer
  BY <1>2 DEF StartServer, Goto, Raise, At, CaseFrame
<1>3. CASE StopBootstrap
  BY <1>3 DEF StopBootstrap, RaiseAfterPolling, Polled, Ended, Goto, Raise, At, CaseFrame
<1>4. CASE Sanity
  BY <1>4 DEF Sanity, RaiseAfterPolling, Polled, Goto, Raise, At, CaseFrame
<1>5. CASE Pin
  BY <1>5, PinChanges
<1>6. CASE StartBots
  BY <1>6 DEF StartBots, Goto, Raise, At, CaseFrame
<1>7. CASE BotsOnline
  BY <1>7 DEF BotsOnline, RaiseAfterPolling, Polled, Goto, Raise, At, CaseFrame
<1>8. CASE Measure
  BY <1>8 DEF Measure, Window, Polled, Goto, Raise, At, CaseFrame
<1>9. CASE StopProfiler
  BY <1>9 DEF StopProfiler, RaiseAfterPolling, Polled, Goto, Raise, At, CaseFrame
<1>10. CASE RestoreStage
  BY <1>10 DEF RestoreStage, RestoreOk, RestoreFails, RestoreEscapes, NothingToRestore,
      Goto, Raise, At, CaseFrame
<1>11. CASE Disconnect
  BY <1>11 DEF Disconnect, Ended, Polled, Goto, Raise, At, CaseFrame
<1>12. CASE Shutdown
  BY <1>12 DEF Shutdown, Ended, Goto, Raise, At, CaseFrame
<1>13. CASE Ticks
  BY <1>13 DEF Ticks, Raise, At, CaseFrame
<1>14. CASE Handler
  BY <1>14 DEF Handler, RestoreOk, RestoreFails, RestoreEscapes, NothingToRestore, Goto, At
<1>15. CASE Cleanup
  BY <1>15 DEF Cleanup, Ended, Goto, At, CaseFrame
<1>16. CASE Finally
  BY <1>16 DEF Finally, RestoreOk, RestoreFails, RestoreEscapes, NothingToRestore, At
<1>17. CASE ClearGate
  BY <1>17 DEF ClearGate, At, BlockFrame
<1>18. CASE Setup
  BY <1>18 DEF Setup, At, BlockFrame
<1>19. CASE BeforeCase
  BY <1>19 DEF BeforeCase, EndCase, TopologyStable, At
<1>20. CASE AfterCase
  BY <1>20 DEF AfterCase, EndCase, At
<1>21. CASE Evidence
  BY <1>21 DEF Evidence, At, BlockFrame
<1>22. CASE Gate
  BY <1>22 DEF Gate, Safe, TopologyStable, At, BlockFrame
<1>23. CASE Mark
  BY <1>23 DEF Mark, At, BlockFrame
<1>24. CASE Kill
  BY <1>24 DEF Kill
<1>25. CASE Prepare
  BY <1>25 DEF Prepare, At
<1>26. CASE Upload
  BY <1>26 DEF Upload, At
<1>27. CASE Die
  BY <1>27 DEF Die
<1>28. CASE Drift
  BY <1>28 DEF Drift
<1>29. CASE UNCHANGED vars
  BY <1>29 DEF vars, affinityVars, procVars, topoVars, evidenceVars, blockVars, jobVars
<1> QED
  BY <1>1, <1>2, <1>3, <1>4, <1>5, <1>6, <1>7, <1>8, <1>9, <1>10, <1>11, <1>12, <1>13, <1>14,
     <1>15, <1>16, <1>17, <1>18, <1>19, <1>20, <1>21, <1>22, <1>23, <1>24, <1>25, <1>26, <1>27, <1>28, <1>29
     DEF Next, Case, Block

\* Masks are restored before a case passes, and the controller's before the next case begins.
LEMMA MasksStep == TypeOK /\ Untouched /\ Masks /\ [Next]_vars => Masks'
<1> SUFFICES ASSUME TypeOK, Untouched, Masks, [Next]_vars PROVE Masks'
  OBVIOUS
<1> USE BenchmarkAssumption DEF TypeOK, Untouched, Masks, PassIsRestored, Positions, Passed,
  CaseStages, EarlyStages, ControllerSteps, affinityVars, procVars, topoVars, evidenceVars, blockVars, jobVars
<1>1. CASE Install
  BY <1>1 DEF Install, Goto, Raise, At, CaseFrame
<1>2. CASE StartServer
  BY <1>2 DEF StartServer, Goto, Raise, At, CaseFrame
<1>3. CASE StopBootstrap
  BY <1>3 DEF StopBootstrap, RaiseAfterPolling, Polled, Ended, Goto, Raise, At, CaseFrame
<1>4. CASE Sanity
  BY <1>4 DEF Sanity, RaiseAfterPolling, Polled, Goto, Raise, At, CaseFrame
<1>5. CASE Pin
  BY <1>5 DEF Pin, Goto, Raise, At, CaseFrame
<1>6. CASE StartBots
  BY <1>6 DEF StartBots, Goto, Raise, At, CaseFrame
<1>7. CASE BotsOnline
  BY <1>7 DEF BotsOnline, RaiseAfterPolling, Polled, Goto, Raise, At, CaseFrame
<1>8. CASE Measure
  BY <1>8 DEF Measure, Window, Polled, Goto, Raise, At, CaseFrame
<1>9. CASE StopProfiler
  BY <1>9 DEF StopProfiler, RaiseAfterPolling, Polled, Goto, Raise, At, CaseFrame
<1>10. CASE RestoreStage
  <2>1. pc = "restore" /\ disk[pos] \notin Passed /\ pos' = pos /\ pos \in Positions
    BY <1>10 DEF RestoreStage, At, CaseFrame
  <2>2. CASE RestoreOk /\ Goto("disconnect")
    <3>1. ~NothingToRestore
      BY <2>1 DEF NothingToRestore
    <3>2. restored' /\ pinned' = pinned \ baselines
      BY <2>2, <3>1 DEF RestoreOk
    <3>3. pinned' = {}
      BY <2>1, <3>2
    <3> QED
      BY <2>1, <2>2, <3>2, <3>3 DEF Goto
  <2>3. CASE (RestoreFails \/ RestoreEscapes) /\ Raise
    BY <2>1, <2>3 DEF Raise
  <2> QED
    BY <1>10, <2>2, <2>3 DEF RestoreStage
<1>11. CASE Disconnect
  BY <1>11 DEF Disconnect, Ended, Polled, Goto, Raise, At, CaseFrame
<1>12. CASE Shutdown
  BY <1>12 DEF Shutdown, Ended, Goto, Raise, At, CaseFrame
<1>13. CASE Ticks
  BY <1>13 DEF Ticks, Raise, At, CaseFrame
<1>14. CASE Handler
  BY <1>14 DEF Handler, RestoreOk, RestoreFails, RestoreEscapes, NothingToRestore, Goto, At
<1>15. CASE Cleanup
  BY <1>15 DEF Cleanup, Ended, Goto, At, CaseFrame
<1>16. CASE Finally
  BY <1>16 DEF Finally, RestoreOk, RestoreFails, RestoreEscapes, NothingToRestore, At
<1>17. CASE ClearGate
  BY <1>17 DEF ClearGate, At, BlockFrame
<1>18. CASE Setup
  BY <1>18 DEF Setup, At, BlockFrame
<1>19. CASE BeforeCase
  BY <1>19 DEF BeforeCase, EndCase, TopologyStable, At
<1>20. CASE AfterCase
  <2>1. pc = "after_case" /\ pos' = pos + 1 /\ pc' \in {"before_case", "evidence"}
    BY <1>20 DEF AfterCase, EndCase, At
  <2>2. pos' \in Positions => disk'[pos'] = disk[pos'] /\ disk[pos'] \notin Passed
    BY <1>20, <2>1 DEF AfterCase, EndCase
  <2> QED
    BY <2>1, <2>2
<1>21. CASE Evidence
  BY <1>21 DEF Evidence, At, BlockFrame
<1>22. CASE Gate
  BY <1>22 DEF Gate, Safe, TopologyStable, At, BlockFrame
<1>23. CASE Mark
  BY <1>23 DEF Mark, At, BlockFrame
<1>24. CASE Kill
  BY <1>24 DEF Kill
<1>25. CASE Prepare
  BY <1>25 DEF Prepare, At
<1>26. CASE Upload
  BY <1>26 DEF Upload, At
<1>27. CASE Die
  BY <1>27 DEF Die
<1>28. CASE Drift
  BY <1>28 DEF Drift
<1>29. CASE UNCHANGED vars
  BY <1>29 DEF vars, affinityVars, procVars, topoVars, evidenceVars, blockVars, jobVars
<1> QED
  BY <1>1, <1>2, <1>3, <1>4, <1>5, <1>6, <1>7, <1>8, <1>9, <1>10, <1>11, <1>12, <1>13, <1>14,
     <1>15, <1>16, <1>17, <1>18, <1>19, <1>20, <1>21, <1>22, <1>23, <1>24, <1>25, <1>26, <1>27, <1>28, <1>29
     DEF Next, Case, Block

\* A process outlives its case only behind an exception.
LEMMA ProcessesStep == TypeOK /\ Untouched /\ Processes /\ [Next]_vars => Processes'
<1> SUFFICES ASSUME TypeOK, Untouched, Processes, [Next]_vars PROVE Processes'
  OBVIOUS
<1> USE BenchmarkAssumption DEF TypeOK, Untouched, Processes, LeftoverIsReported, Positions,
  ProcessStates, CaseStages, EarlyStages, ControllerSteps, affinityVars, procVars, topoVars, evidenceVars, blockVars, jobVars
<1>1. CASE Install
  BY <1>1 DEF Install, Goto, Raise, At, CaseFrame
<1>2. CASE StartServer
  BY <1>2 DEF StartServer, Goto, Raise, At, CaseFrame
<1>3. CASE StopBootstrap
  BY <1>3 DEF StopBootstrap, RaiseAfterPolling, Polled, Ended, Goto, Raise, At, CaseFrame
<1>4. CASE Sanity
  BY <1>4 DEF Sanity, RaiseAfterPolling, Polled, Goto, Raise, At, CaseFrame
<1>5. CASE Pin
  BY <1>5 DEF Pin, Goto, Raise, At, CaseFrame
<1>6. CASE StartBots
  BY <1>6 DEF StartBots, Goto, Raise, At, CaseFrame
<1>7. CASE BotsOnline
  BY <1>7 DEF BotsOnline, RaiseAfterPolling, Polled, Goto, Raise, At, CaseFrame
<1>8. CASE Measure
  BY <1>8 DEF Measure, Window, Polled, Goto, Raise, At, CaseFrame
<1>9. CASE StopProfiler
  BY <1>9 DEF StopProfiler, RaiseAfterPolling, Polled, Goto, Raise, At, CaseFrame
<1>10. CASE RestoreStage
  BY <1>10 DEF RestoreStage, RestoreOk, RestoreFails, RestoreEscapes, NothingToRestore,
      Goto, Raise, At, CaseFrame
<1>11. CASE Disconnect
  BY <1>11 DEF Disconnect, Ended, Polled, Goto, Raise, At, CaseFrame
<1>12. CASE Shutdown
  BY <1>12 DEF Shutdown, Ended, Goto, Raise, At, CaseFrame
<1>13. CASE Ticks
  BY <1>13 DEF Ticks, Raise, At, CaseFrame
<1>14. CASE Handler
  BY <1>14 DEF Handler, RestoreOk, RestoreFails, RestoreEscapes, NothingToRestore, Goto, At
<1>15. CASE Cleanup
  BY <1>15 DEF Cleanup, Ended, Goto, At, CaseFrame
<1>16. CASE Finally
  BY <1>16 DEF Finally, RestoreOk, RestoreFails, RestoreEscapes, NothingToRestore, At
<1>17. CASE ClearGate
  BY <1>17 DEF ClearGate, At, BlockFrame
<1>18. CASE Setup
  BY <1>18 DEF Setup, At, BlockFrame
<1>19. CASE BeforeCase
  BY <1>19 DEF BeforeCase, EndCase, TopologyStable, At
<1>20. CASE AfterCase
  BY <1>20 DEF AfterCase, EndCase, At
<1>21. CASE Evidence
  BY <1>21 DEF Evidence, At, BlockFrame
<1>22. CASE Gate
  BY <1>22 DEF Gate, Safe, TopologyStable, At, BlockFrame
<1>23. CASE Mark
  BY <1>23 DEF Mark, At, BlockFrame
<1>24. CASE Kill
  BY <1>24 DEF Kill
<1>25. CASE Prepare
  BY <1>25 DEF Prepare, At
<1>26. CASE Upload
  BY <1>26 DEF Upload, At
<1>27. CASE Die
  BY <1>27 DEF Die
<1>28. CASE Drift
  BY <1>28 DEF Drift
<1>29. CASE UNCHANGED vars
  BY <1>29 DEF vars, affinityVars, procVars, topoVars, evidenceVars, blockVars, jobVars
<1> QED
  BY <1>1, <1>2, <1>3, <1>4, <1>5, <1>6, <1>7, <1>8, <1>9, <1>10, <1>11, <1>12, <1>13, <1>14,
     <1>15, <1>16, <1>17, <1>18, <1>19, <1>20, <1>21, <1>22, <1>23, <1>24, <1>25, <1>26, <1>27, <1>28, <1>29
     DEF Next, Case, Block

\* The marker, the evidence manifest and the upload follow the results of the cases.
LEMMA VerdictsStep == TypeOK /\ Untouched /\ Processes /\ Verdicts /\ [Next]_vars => Verdicts'
<1> SUFFICES ASSUME TypeOK, Untouched, Processes, Verdicts, [Next]_vars PROVE Verdicts'
  OBVIOUS
<1> USE BenchmarkAssumption DEF TypeOK, Verdicts, AllValid, Positions, Passed, Current,
  CaseStages, EarlyStages, ControllerSteps, affinityVars, procVars, topoVars, evidenceVars, blockVars, jobVars
<1>1. CASE Install
  BY <1>1 DEF Install, Goto, Raise, At, CaseFrame
<1>2. CASE StartServer
  BY <1>2 DEF StartServer, Goto, Raise, At, CaseFrame
<1>3. CASE StopBootstrap
  BY <1>3 DEF StopBootstrap, RaiseAfterPolling, Polled, Ended, Goto, Raise, At, CaseFrame
<1>4. CASE Sanity
  BY <1>4 DEF Sanity, RaiseAfterPolling, Polled, Goto, Raise, At, CaseFrame
<1>5. CASE Pin
  <2> USE <1>5, PinChanges
  <2>1. \A p \in Positions : p < pos => disk'[p] = disk[p]
    OBVIOUS
  <2>2. gate # "full" /\ ~prepared /\ artifact # "valid"
    OBVIOUS
  <2> QED
    BY <2>1, <2>2
<1>6. CASE StartBots
  BY <1>6 DEF StartBots, Goto, Raise, At, CaseFrame
<1>7. CASE BotsOnline
  BY <1>7 DEF BotsOnline, RaiseAfterPolling, Polled, Goto, Raise, At, CaseFrame,
      Untouched, Processes, LeftoverIsReported, Alone
<1>8. CASE Measure
  BY <1>8 DEF Measure, Window, Polled, Goto, Raise, At, CaseFrame
<1>9. CASE StopProfiler
  BY <1>9 DEF StopProfiler, RaiseAfterPolling, Polled, Goto, Raise, At, CaseFrame
<1>10. CASE RestoreStage
  BY <1>10 DEF RestoreStage, RestoreOk, RestoreFails, RestoreEscapes, NothingToRestore,
      Goto, Raise, At, CaseFrame
<1>11. CASE Disconnect
  BY <1>11 DEF Disconnect, Ended, Polled, Goto, Raise, At, CaseFrame
<1>12. CASE Shutdown
  BY <1>12 DEF Shutdown, Ended, Goto, Raise, At, CaseFrame
<1>13. CASE Ticks
  <2>1. \A p \in Positions : p < pos => disk'[p] = disk[p]
    BY <1>13 DEF Ticks, Raise, At
  <2>2. pc = "ticks" /\ pc' \in {"finally", "handler"}
    BY <1>13 DEF Ticks, Raise, At
  <2>3. UNCHANGED <<pos, overall, shared, manifest, listed, gate, prepared, artifact>>
    BY <1>13 DEF Ticks, CaseFrame
  <2> QED
    BY <2>1, <2>2, <2>3
<1>14. CASE Handler
  BY <1>14 DEF Handler, RestoreOk, RestoreFails, RestoreEscapes, NothingToRestore, Goto, At
<1>15. CASE Cleanup
  BY <1>15 DEF Cleanup, Ended, Goto, At, CaseFrame
<1>16. CASE Finally
  BY <1>16 DEF Finally, RestoreOk, RestoreFails, RestoreEscapes, NothingToRestore, At
<1>17. CASE ClearGate
  BY <1>17 DEF ClearGate, At, BlockFrame
<1>18. CASE Setup
  BY <1>18 DEF Setup, At, BlockFrame
<1>19. CASE BeforeCase
  BY <1>19 DEF BeforeCase, EndCase, TopologyStable, At
<1>20. CASE AfterCase
  BY <1>20 DEF AfterCase, EndCase, At
<1>21. CASE Evidence
  BY <1>21 DEF Evidence, At, BlockFrame
<1>22. CASE Gate
  BY <1>22 DEF Gate, Safe, TopologyStable, At, BlockFrame
<1>23. CASE Mark
  BY <1>23 DEF Mark, At, BlockFrame
<1>24. CASE Kill
  BY <1>24 DEF Kill
<1>25. CASE Prepare
  BY <1>25 DEF Prepare, At
<1>26. CASE Upload
  BY <1>26 DEF Upload, At
<1>27. CASE Die
  BY <1>27 DEF Die
<1>28. CASE Drift
  BY <1>28 DEF Drift
<1>29. CASE UNCHANGED vars
  BY <1>29 DEF vars, affinityVars, procVars, topoVars, evidenceVars, blockVars, jobVars
<1> QED
  BY <1>1, <1>2, <1>3, <1>4, <1>5, <1>6, <1>7, <1>8, <1>9, <1>10, <1>11, <1>12, <1>13, <1>14,
     <1>15, <1>16, <1>17, <1>18, <1>19, <1>20, <1>21, <1>22, <1>23, <1>24, <1>25, <1>26, <1>27, <1>28, <1>29
     DEF Next, Case, Block

---------------------------------------------------------------------------
\* The invariant of every behaviour.
THEOREM Invariant == Spec => []IInv
<1>1. IInv /\ [Next]_vars => IInv'
  BY TypeStep, UntouchedStep, MasksStep, ProcessesStep, VerdictsStep DEF IInv
<1> QED
  BY InitIInv, <1>1, PTL DEF Spec

\* The variables of the block have their types, for any number of cases.
THEOREM TypeCorrect == Spec => []TypeOK
<1>1. IInv => TypeOK
  BY DEF IInv
<1> QED
  BY Invariant, <1>1, PTL

\* Evidence that a job uploads as valid is that of a block whose cases all passed alone, with
\* the digests of its files: the gate and the steps of the workflow are sound wherever the
\* controller was killed and whatever escaped from the clauses of a case.
THEOREM UploadIsClean == Spec => []UploadedIsClean
<1>1. IInv => UploadedIsClean
  <2> SUFFICES ASSUME IInv, artifact = "valid" PROVE
        (\A p \in Positions : disk[p] = "valid") /\ shared = {} /\ listed = Current
    BY DEF UploadedIsClean
  <2>1. listed = Current /\ \A p \in Positions : disk[p] = "valid"
    BY DEF IInv, Verdicts, AllValid
  <2>2. shared = {}
    BY <2>1 DEF IInv, Verdicts
  <2> QED
    BY <2>1, <2>2
<1> QED
  BY Invariant, <1>1, PTL

\* A server or load generator that outlives its case belongs to a case recorded as failed.
THEOREM LeftoversAreReported == Spec => []LeftoverIsReported
<1>1. IInv => LeftoverIsReported
  BY DEF IInv, Processes
<1> QED
  BY Invariant, <1>1, PTL

\* No case takes the masks of an earlier case for the original ones.
THEOREM OriginalBaselines == Spec => []BaselinesAreOriginal
<1>1. IInv => BaselinesAreOriginal
  BY DEF IInv, Masks, BaselinesAreOriginal
<1> QED
  BY Invariant, <1>1, PTL

\* A case that is reported as passed has every mask restored.
THEOREM PassesAreRestored == Spec => []PassIsRestored
<1>1. IInv => PassIsRestored
  BY DEF IInv, Masks
<1> QED
  BY Invariant, <1>1, PTL
=============================================================================
