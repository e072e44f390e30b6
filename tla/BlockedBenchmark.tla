-------------------------- MODULE BlockedBenchmark --------------------------
(***************************************************************************)
(* One job of the blocked benchmark: run_block and its hardening layer run *)
(* the cases of a block one after the other (controller/                   *)
(* candidate_a_blocked_benchmark.py and candidate_a_blocked_hardening.py), *)
(* and the steps of the workflow decide from the files they leave whether  *)
(* the evidence is uploaded as valid.                                      *)
(*                                                                         *)
(* A case starts a server (BDS) and a load generator, changes the CPU mask *)
(* of both and of the controller itself, measures, and must undo all of it *)
(* in its try, except and finally clauses while either process may die.    *)
(* What the walk over the threads of one process does is the subject of    *)
(* module TaskAffinity; here a process is pinned or it is not.             *)
(***************************************************************************)
EXTENDS Naturals, FiniteSets

CONSTANTS
  BlockSize,   \* cases of a block (BLOCK_SIZE)
  MaxDrifts    \* bound: how often the CPUs of the runner change

ASSUME BenchmarkAssumption == BlockSize \in Nat \ {0} /\ MaxDrifts \in Nat

VARIABLES
  pc,         \* the statement of the controller, or the step of the job, that is next
  pos,        \* the case of the loop of run_block; BlockSize + 1 after the last one
  bds,        \* the managed server process of each case
  load,       \* the load generator process of each case
  pinned,     \* processes of the current case on measurement masks, and the controller
  baselines,  \* keys of self._affinity_baselines; _affinity_mutated iff there are any
  restored,   \* self._affinity_restored
  raised,     \* an exception is leaving execute() or the constructor
  disk,       \* candidate-a-blocked-result.json of each case
  overall,    \* overall: 1 as soon as a case has not passed
  manifest,   \* contents of candidate-a-blocked-block.json, by the statement that wrote them
  listed,     \* the contents the evidence manifest has the digests of
  gate,       \* .candidate-a-upload-ok
  topo,       \* the CPUs of the runner, compared with those at the start of the block
  drifts,     \* changes of topo so far
  prepared,   \* the step prepare-evidence has succeeded
  artifact,   \* what the job has uploaded
  shared      \* history: cases measured next to a process of an earlier case

affinityVars == <<pinned, baselines, restored>>
procVars == <<bds, load>>
topoVars == <<topo, drifts>>
evidenceVars == <<manifest, listed, gate>>
blockVars == <<pos, overall>>
jobVars == <<prepared, artifact>>
vars == <<pc, raised, disk, shared, affinityVars, procVars, topoVars, evidenceVars,
          blockVars, jobVars>>

Positions == 1 .. BlockSize

\* "zombie": exited, and not yet waited for; "gone": waited for, its pid is free.
ProcessStates == {"none", "running", "zombie", "gone"}

\* "stale": evidence of an earlier run in the same directory; "valid" and "invalid": the
\* case has passed, and validate_case will accept its evidence or not; "failed": FAIL with
\* the stage that failed; "case-launch": FAIL written by run_block for an exception.
Results == {"none", "stale", "running", "valid", "invalid", "failed", "case-launch"}
Passed == {"valid", "invalid"}

Manifests == {"none", "start", "cases", "evidence_failed", "gated"}

\* The stages of execute() in which the controller has not touched any mask.
EarlyStages == {"install", "bootstrap", "bootstrap_stop", "restart", "sanity", "pin"}

CaseStages == EarlyStages \cup
  {"bots", "bots_online", "warmup", "measure", "profile", "restore", "disconnect",
   "shutdown", "ticks", "handler", "cleanup", "finally", "after_case"}

ControllerSteps == CaseStages \cup
  {"clear", "setup", "before_case", "evidence", "gate", "mark", "fill"}

Current == [manifest |-> manifest, disk |-> disk]
NotListed == [manifest |-> "none", disk |-> [p \in Positions |-> "none"]]

TypeOK ==
  /\ pc \in ControllerSteps \cup {"prepare", "upload", "done"}
  /\ pos \in 1 .. BlockSize + 1
  /\ pc \in CaseStages \cup {"clear", "setup", "before_case"} => pos \in Positions
  /\ bds \in [Positions -> ProcessStates]
  /\ load \in [Positions -> ProcessStates]
  /\ pinned \subseteq {"bds", "controller"}
  /\ baselines \subseteq {"load", "bds", "controller"}
  /\ restored \in BOOLEAN /\ raised \in BOOLEAN /\ prepared \in BOOLEAN
  /\ disk \in [Positions -> Results]
  /\ overall \in {0, 1}
  /\ manifest \in Manifests
  /\ listed \in [manifest : Manifests, disk : [Positions -> Results]]
  /\ gate \in {"absent", "empty", "full"}
  /\ topo \in {"expected", "drifted"}
  /\ drifts \in 0 .. MaxDrifts
  /\ artifact \in {"none", "valid", "rejected"}
  /\ shared \subseteq Positions

\* The evidence directory may hold what an earlier run left, its marker included.
Init ==
  /\ pc = "clear" /\ pos = 1 /\ overall = 0
  /\ bds = [p \in Positions |-> "none"]
  /\ load = [p \in Positions |-> "none"]
  /\ pinned = {} /\ baselines = {} /\ restored = FALSE /\ raised = FALSE
  /\ \/ disk = [p \in Positions |-> "none"] /\ gate = "absent"
     \/ disk = [p \in Positions |-> "stale"] /\ gate \in {"absent", "full"}
  /\ manifest = "none" /\ listed = NotListed
  /\ topo = "expected" /\ drifts = 0
  /\ prepared = FALSE /\ artifact = "none" /\ shared = {}

---------------------------------------------------------------------------
(* Processes and the runner.                                               *)

\* A server or a load generator exits by itself.
Die ==
  /\ \E p \in Positions :
       \/ bds[p] = "running" /\ bds' = [bds EXCEPT ![p] = "zombie"] /\ UNCHANGED load
       \/ load[p] = "running" /\ load' = [load EXCEPT ![p] = "zombie"] /\ UNCHANGED bds
  /\ UNCHANGED <<pc, raised, disk, shared, affinityVars, topoVars, evidenceVars, blockVars,
                 jobVars>>

\* The runner gets other CPUs, or its old ones back.
Drift ==
  /\ drifts < MaxDrifts
  /\ drifts' = drifts + 1
  /\ topo' = IF topo = "expected" THEN "drifted" ELSE "expected"
  /\ UNCHANGED <<pc, raised, disk, shared, affinityVars, procVars, evidenceVars, blockVars,
                 jobVars>>

\* Popen.poll of a process of the current case.
Polled(f) == [f EXCEPT ![pos] = IF @ = "zombie" THEN "gone" ELSE @]

\* Popen.wait after the process was signalled, if there is one.
Ended(f) == [f EXCEPT ![pos] = IF @ = "none" THEN @ ELSE "gone"]

BdsRunning == bds[pos] = "running"
LoadRunning == load[pos] = "running"

\* No process of another case is running.
Alone ==
  \A p \in Positions \ {pos} : bds[p] # "running" /\ load[p] # "running"

\* runner_topology() = _EXPECTED_TOPOLOGY; its allowed_cpus are the controller's own mask.
TopologyStable == topo = "expected" /\ "controller" \notin pinned

---------------------------------------------------------------------------
(* execute(): the try block.                                               *)

At(s) == pc = s

Goto(s) == pc' = s /\ UNCHANGED disk

\* The except clause first records the failure and its stage.
Raise ==
  /\ pc' = "handler"
  /\ disk' = [disk EXCEPT ![pos] = "failed"]

\* An exception of a statement that may have polled the server, the load generator or both.
RaiseAfterPolling(names) ==
  /\ Raise
  /\ bds' \in {bds} \cup (IF "bds" \in names THEN {Polled(bds)} ELSE {})
  /\ load' \in {load} \cup (IF "load" \in names THEN {Polled(load)} ELSE {})

CaseFrame == UNCHANGED <<raised, topoVars, evidenceVars, blockVars, jobVars>>

\* The scenario contract and install_artifacts.
Install ==
  /\ At("install")
  /\ Goto("bootstrap") \/ Raise
  /\ UNCHANGED <<procVars, affinityVars, shared>>
  /\ CaseFrame

\* bootstrap_server starts the server that creates the world, and later the measured one,
\* each with the controller's own mask.
StartServer ==
  /\ \/ /\ \/ At("bootstrap") /\ Goto("bootstrap_stop")
           \/ At("restart") /\ Goto("sanity")
        /\ bds' = [bds EXCEPT ![pos] = "running"]
        /\ pinned' = pinned \ {"bds"}
     \/ pc \in {"bootstrap", "restart"} /\ Raise /\ UNCHANGED <<bds, pinned>>
  /\ UNCHANGED <<load, baselines, restored, shared>>
  /\ CaseFrame

\* The first server must stop gracefully, or it is killed and the case fails.
StopBootstrap ==
  /\ At("bootstrap_stop")
  /\ \/ Goto("restart") /\ bds' = [bds EXCEPT ![pos] = "none"] /\ UNCHANGED load
     \/ Raise /\ bds' = Ended(bds) /\ UNCHANGED load
     \/ RaiseAfterPolling({"bds"})
  /\ UNCHANGED <<affinityVars, shared>>
  /\ CaseFrame

\* The rest of bootstrap_server, with the new root's identity, and run_basic_commands.
Sanity ==
  /\ At("sanity")
  /\ \/ BdsRunning /\ Goto("pin") /\ UNCHANGED procVars
     \/ RaiseAfterPolling({"bds"})
  /\ UNCHANGED <<affinityVars, shared>>
  /\ CaseFrame

\* apply_measurement_affinity: capture, then pin the server, then the controller.
Pin ==
  /\ At("pin")
  /\ \/ Raise /\ UNCHANGED affinityVars
     \/ /\ baselines' = {"bds", "controller"}
        /\ restored' = FALSE
        /\ \/ \E done \in {{}, {"bds"}, {"bds", "controller"}} :
                Raise /\ pinned' = pinned \cup done
           \/ /\ BdsRunning
              /\ Goto("bots")
              /\ pinned' = pinned \cup {"bds", "controller"}
  /\ UNCHANGED <<procVars, shared>>
  /\ CaseFrame

\* start_bots: the load generator inherits the controller's mask, which is its own one.
StartBots ==
  /\ At("bots")
  /\ \/ Goto("bots_online") /\ load' = [load EXCEPT ![pos] = "running"]
     \/ Raise /\ UNCHANGED load
  /\ UNCHANGED <<bds, affinityVars, shared>>
  /\ CaseFrame

\* wait_event and the player list, then _set_bot_affinity, which verifies all three.
BotsOnline ==
  /\ At("bots_online")
  /\ \/ RaiseAfterPolling({"bds", "load"}) /\ UNCHANGED <<affinityVars, shared>>
     \/ /\ baselines' = baselines \cup {"load"}
        /\ \/ Raise /\ UNCHANGED shared
           \/ /\ BdsRunning /\ LoadRunning
              /\ Goto("warmup")
              /\ shared' = IF Alone THEN shared ELSE shared \cup {pos}
        /\ UNCHANGED <<procVars, pinned, restored>>
  /\ CaseFrame

\* _wait_alive and the loop of measure_with_windows: is_alive of the server, then of the load
\* generator, then the masks and the identity of the server, until the time is up.
Window(s, next) ==
  /\ At(s)
  /\ \/ BdsRunning /\ LoadRunning /\ Goto(next) /\ UNCHANGED procVars
     \/ Raise /\ UNCHANGED procVars
     \/ ~BdsRunning /\ Raise /\ bds' = Polled(bds) /\ UNCHANGED load
     \/ ~LoadRunning /\ Raise /\ load' = Polled(load) /\ UNCHANGED bds
  /\ UNCHANGED <<affinityVars, shared>>
  /\ CaseFrame

Measure == Window("warmup", "measure") \/ Window("measure", "profile")

\* stop_profiler and validate_profile.
StopProfiler ==
  /\ At("profile")
  /\ \/ Goto("restore") /\ UNCHANGED procVars
     \/ RaiseAfterPolling({"bds"})
  /\ UNCHANGED <<affinityVars, shared>>
  /\ CaseFrame

---------------------------------------------------------------------------
(* _restore_affinity: load generator, server, controller, in that order.   *)

NothingToRestore == baselines = {} \/ restored

\* The processes of which restore_process_affinity finds no process at all.
Missing == {l \in baselines : \/ l = "load" /\ load[pos] = "gone"
                              \/ l = "bds" /\ bds[pos] = "gone"}

Dead == {l \in baselines : \/ l = "load" /\ ~LoadRunning
                           \/ l = "bds" /\ ~BdsRunning}

\* Every process is alive and its masks are verified.
RestoreOk ==
  \/ NothingToRestore /\ UNCHANGED affinityVars
  \/ /\ ~NothingToRestore
     /\ Dead = {}
     /\ pinned' = pinned \ baselines
     /\ restored' = TRUE
     /\ UNCHANGED baselines

\* Some process is a zombie, its pid has another owner, or a mask is not accepted: the loop
\* goes on with the next one and raises AffinityError in the end.
RestoreFails ==
  /\ ~NothingToRestore
  /\ \E done \in SUBSET (baselines \ Dead) : pinned' = pinned \ done
  /\ UNCHANGED <<baselines, restored>>

\* psutil.Process raises NoSuchProcess, which the loop does not catch: the processes after
\* that one are not restored.
RestoreEscapes ==
  /\ ~NothingToRestore
  /\ Missing # {}
  /\ UNCHANGED affinityVars

\* Fault: a restoration that could not be proven is only logged.
RestoreStage_Swallows ==
  /\ At("restore")
  /\ (RestoreOk \/ RestoreFails) /\ Goto("disconnect")
  /\ UNCHANGED <<procVars, shared>>
  /\ CaseFrame

RestoreStage ==
  /\ At("restore")
  /\ \/ RestoreOk /\ Goto("disconnect")
     \/ (RestoreFails \/ RestoreEscapes) /\ Raise
  /\ UNCHANGED <<procVars, shared>>
  /\ CaseFrame

\* stop_bots ends the load generator, whatever it raises; the player list polls the server.
Disconnect ==
  /\ At("disconnect")
  /\ load' = Ended(load)
  /\ \/ Goto("shutdown") /\ UNCHANGED bds
     \/ Raise /\ bds' \in {bds, Polled(bds)}
  /\ UNCHANGED <<affinityVars, shared>>
  /\ CaseFrame

\* shutdown stops the server, or kills it and raises.
Shutdown ==
  /\ At("shutdown")
  /\ bds' = Ended(bds)
  /\ Goto("ticks") \/ Raise
  /\ UNCHANGED <<load, affinityVars, shared>>
  /\ CaseFrame

\* tick_statistics, and the result is written as PASS.
Ticks ==
  /\ At("ticks")
  /\ \/ pc' = "finally" /\ \E r \in Passed : disk' = [disk EXCEPT ![pos] = r]
     \/ Raise
  /\ UNCHANGED <<procVars, affinityVars, shared>>
  /\ CaseFrame

---------------------------------------------------------------------------
(* execute(): the except and the finally clause.                           *)

\* The except clause catches the AffinityError of the restoration only: any other exception
\* leaves the clause before the processes are stopped.
Handler ==
  /\ At("handler")
  /\ \/ (RestoreOk \/ RestoreFails) /\ Goto("cleanup") /\ UNCHANGED raised
     \/ RestoreEscapes /\ Goto("finally") /\ raised' = TRUE
  /\ UNCHANGED <<procVars, shared, topoVars, evidenceVars, blockVars, jobVars>>

\* Fault: one try block around both, so that shutdown is skipped when stop_bots raises.
Cleanup_OneTry ==
  /\ At("cleanup")
  /\ Goto("finally")
  /\ load' = Ended(load)
  /\ bds' \in {bds, Ended(bds)}
  /\ UNCHANGED <<affinityVars, shared>>
  /\ CaseFrame

\* stop_bots and shutdown, each in a try block of its own.
Cleanup ==
  /\ At("cleanup")
  /\ Goto("finally")
  /\ load' = Ended(load)
  /\ bds' = Ended(bds)
  /\ UNCHANGED <<affinityVars, shared>>
  /\ CaseFrame

Finally ==
  /\ At("finally")
  /\ pc' = "after_case"
  /\ \/ RestoreOk /\ UNCHANGED <<disk, raised>>
     \/ RestoreFails /\ disk' = [disk EXCEPT ![pos] = "failed"] /\ UNCHANGED raised
     \/ RestoreEscapes /\ raised' = TRUE /\ UNCHANGED disk
  /\ UNCHANGED <<procVars, shared, topoVars, evidenceVars, blockVars, jobVars>>

---------------------------------------------------------------------------
(* The loop of run_block around hardened_run_case.                         *)

\* Fault: one turn too many.
EndCase_OneMore(result) ==
  /\ disk' = [disk EXCEPT ![pos] = result]
  /\ overall' = IF result \in Passed THEN overall ELSE 1
  /\ pos' = pos + 1
  /\ pc' = IF pos <= BlockSize THEN "before_case" ELSE "evidence"

\* The end of a turn: the row of the case and the overall verdict.
EndCase(result) ==
  /\ disk' = [disk EXCEPT ![pos] = result]
  /\ overall' = IF result \in Passed THEN overall ELSE 1
  /\ pos' = pos + 1
  /\ pc' = IF pos < BlockSize THEN "before_case" ELSE "evidence"

\* Fault: the topology is not compared before the case.
BeforeCase_Unchecked ==
  /\ At("before_case")
  /\ baselines' = {} /\ restored' = FALSE
  /\ \/ pc' = "install" /\ raised' = FALSE
     \/ pc' = "after_case" /\ raised' = TRUE
  /\ disk' = [disk EXCEPT ![pos] = "running"]
  /\ UNCHANGED <<pinned, blockVars, procVars, shared, topoVars, evidenceVars, jobVars>>

\* require_topology; then the constructor of the case writes its first result.
BeforeCase ==
  /\ At("before_case")
  /\ \/ /\ TopologyStable
        /\ baselines' = {} /\ restored' = FALSE
        /\ \/ pc' = "install" /\ raised' = FALSE
           \/ pc' = "after_case" /\ raised' = TRUE
        /\ disk' = [disk EXCEPT ![pos] = "running"]
        /\ UNCHANGED <<pinned, blockVars>>
     \/ /\ ~TopologyStable
        /\ EndCase("case-launch")
        /\ UNCHANGED <<affinityVars, raised>>
  /\ UNCHANGED <<procVars, shared, topoVars, evidenceVars, jobVars>>

\* The controller's masks are restored whatever happened, and the topology is required
\* again: a failure makes a result of execute() FAIL. An exception of execute() is raised
\* again after that, and run_block writes its own result for the case.
AfterCase ==
  /\ At("after_case")
  /\ \E stable \in BOOLEAN :
       /\ \/ stable /\ pinned' = pinned \ {"controller"} /\ topo = "expected"
          \/ ~stable /\ pinned' \in {pinned, pinned \ {"controller"}}
       /\ EndCase(IF raised THEN "case-launch" ELSE IF stable THEN disk[pos] ELSE "failed")
  /\ UNCHANGED <<raised, baselines, restored, procVars, shared, topoVars, evidenceVars,
                 jobVars>>

---------------------------------------------------------------------------
(* run_block and hardened_run_block.                                       *)

BlockFrame ==
  UNCHANGED <<pos, raised, disk, shared, affinityVars, procVars, drifts, jobVars>>

\* The marker of an earlier run goes first.
ClearGate ==
  /\ At("clear")
  /\ gate' = "absent"
  /\ pc' = "setup"
  /\ UNCHANGED <<overall, manifest, listed, topo>>
  /\ BlockFrame

\* The expected topology is taken, the registered inputs are validated, and the block
\* manifest is written; main() answers an exception with exit code 2.
Setup ==
  /\ At("setup")
  /\ topo' = "expected"
  /\ \/ pc' = "before_case" /\ manifest' = "start"
     \/ pc' = "prepare" /\ UNCHANGED manifest
  /\ UNCHANGED <<overall, listed, gate>>
  /\ BlockFrame

\* The manifest with the rows, then prepare_evidence_for_upload; a refusal fails the block.
Evidence ==
  /\ At("evidence")
  /\ pc' = "gate"
  /\ \/ manifest' = "cases" /\ listed' = [manifest |-> "cases", disk |-> disk]
        /\ UNCHANGED overall
     \/ manifest' = "evidence_failed" /\ overall' = 1
        /\ listed' \in {listed, [manifest |-> "cases", disk |-> disk]}
  /\ UNCHANGED <<gate, topo>>
  /\ BlockFrame

\* evaluate_upload_gate reads the result of every case again.
Safe == \A p \in Positions : disk[p] \in {"stale", "valid"}

\* The topology is compared a last time, the block manifest gets the outcome of the gate,
\* and an eligible block goes on to write the marker.
Gate ==
  /\ At("gate")
  /\ manifest' = "gated"
  /\ overall' = IF TopologyStable THEN overall ELSE 1
  /\ pc' = IF overall' = 0 /\ Safe THEN "mark" ELSE "prepare"
  /\ UNCHANGED <<listed, gate, topo>>
  /\ BlockFrame

\* gate_path.write_text creates the file and then fills it.
Mark ==
  /\ \/ At("mark") /\ gate' = "empty" /\ pc' = "fill"
     \/ At("fill") /\ gate' = "full" /\ pc' = "prepare"
  /\ UNCHANGED <<overall, manifest, listed, topo>>
  /\ BlockFrame

---------------------------------------------------------------------------
(* The job: its steps run even when the controller has failed.             *)

\* The job is cancelled or at its time limit: the controller is killed, somewhere after its
\* first statement.
Kill ==
  /\ pc \in ControllerSteps \ {"clear"}
  /\ pc' = "prepare"
  /\ UNCHANGED <<pos, raised, disk, shared, affinityVars, procVars, topoVars, evidenceVars,
                 overall, jobVars>>

\* Fault: the step keeps the evidence manifest that the block has written before its gate.
Prepare_KeepsManifest ==
  /\ At("prepare")
  /\ pc' = "upload"
  /\ prepared' \in {prepared, TRUE}
  /\ UNCHANGED <<artifact, topoVars, evidenceVars, overall>>
  /\ UNCHANGED <<pos, raised, disk, shared, affinityVars, procVars>>

\* The step prepare-evidence writes the evidence manifest for the files as they are now.
Prepare ==
  /\ At("prepare")
  /\ pc' = "upload"
  /\ \/ prepared' = TRUE /\ listed' = Current
     \/ UNCHANGED prepared /\ listed' \in {listed, Current}
  /\ UNCHANGED <<artifact, manifest, gate, topo, overall>>
  /\ UNCHANGED <<pos, raised, disk, shared, affinityVars, procVars, drifts>>

\* Evidence is valid when the marker has contents, and only a diagnostic otherwise; none of
\* it is uploaded when the step before has failed.
Upload ==
  /\ At("upload")
  /\ pc' = "done"
  /\ artifact' = IF ~prepared THEN "none" ELSE IF gate = "full" THEN "valid" ELSE "rejected"
  /\ UNCHANGED <<prepared, pos, raised, disk, shared, affinityVars, procVars, topoVars,
                 evidenceVars, overall>>

---------------------------------------------------------------------------
Case ==
  \/ Install \/ StartServer \/ StopBootstrap \/ Sanity \/ Pin \/ StartBots \/ BotsOnline
  \/ Measure \/ StopProfiler \/ RestoreStage \/ Disconnect \/ Shutdown \/ Ticks
  \/ Handler \/ Cleanup \/ Finally

Block ==
  ClearGate \/ Setup \/ BeforeCase \/ AfterCase \/ Evidence \/ Gate \/ Mark

Next == Case \/ Block \/ Kill \/ Prepare \/ Upload \/ Die \/ Drift

Spec == Init /\ [][Next]_vars

---------------------------------------------------------------------------
(* What the evidence and the masks promise.                                *)

\* What a job uploads as valid is the evidence of this block and of all of it: every case has
\* passed with evidence that the analyzer accepts, none was measured next to a process that
\* an earlier case left behind, and the digests are those of the files (the marker written at
\* the end of hardened_run_block, and the steps of the workflow that trust it).
UploadedIsClean ==
  artifact = "valid" =>
    /\ \A p \in Positions : disk[p] = "valid"
    /\ shared = {}
    /\ listed = Current

\* A process that outlives its case is always the process of a case that run_block recorded
\* as failed (execute() stops both processes in the except clause, unless an exception
\* leaves that clause).
LeftoverIsReported ==
  \A p \in Positions :
    p < pos /\ (bds[p] = "running" \/ load[p] = "running") => disk[p] = "case-launch"

\* What a case captures as the original masks are original: the controller whose mask the
\* new processes inherit is not on the measurement masks of an earlier case
\* (require_topology before each case; apply_measurement_affinity takes its baselines).
BaselinesAreOriginal == pc \in EarlyStages => "controller" \notin pinned

\* While a case is reported as passed, every mask that it changed is verified as restored
\* (_restore_affinity before the processes are stopped).
PassIsRestored == pos \in Positions /\ disk[pos] \in Passed => pinned = {}

\* What failed in a case stays in its result: "cleanup must not hide the original failure"
\* says the except clause of execute() (candidate_a_blocked_benchmark.py).
FailureIsKept ==
  [][\A p \in Positions : disk[p] = "failed" => disk'[p] # "case-launch"]_vars

=============================================================================
