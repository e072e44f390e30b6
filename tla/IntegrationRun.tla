--------------------------- MODULE IntegrationRun ---------------------------
(***************************************************************************)
(* One integration run: IntegrationTest.execute of controller/run_test.py, *)
(* driving the supervisor of module ServerProcess through install, start,  *)
(* commands, profilers, a recovery restart and the shutdown, with the      *)
(* except and finally clauses that turn any failure into evidence.         *)
(*                                                                         *)
(* The run shares the supervisor's thread: it moves only while no call of  *)
(* the supervisor is under way, and the operating system moves at any time.*)
(***************************************************************************)
EXTENDS ServerProcess

VARIABLES
  stage,            \* the statement of execute(), shutdown() or run_recovery_probe() that is next
  status,           \* self.result["status"] in memory
  shutdown_status,  \* self.result["shutdown_status"] in memory
  disk_status,      \* "status" of test-results.json
  disk_shutdown,    \* "shutdown_status" of test-results.json
  disk_forced,      \* "forced" of "shutdown_lifecycle" in test-results.json
  disk_wait_timeout \* "forced_wait_timeout" there

diskVars == <<disk_status, disk_shutdown, disk_forced, disk_wait_timeout>>
runVars == <<stage, status, shutdown_status, diskVars>>
allVars == <<vars, runVars>>

Stages ==
  {"install", "start", "ready", "commands", "recovery", "recovery_stopping",
   "recovery_killing", "restart", "restart_ready", "shutdown", "shutdown_stopping",
   "shutdown_killing", "residual_check", "residual_result", "handler", "handler_kill",
   "handler_killing", "finally", "done", "crashed"}

\* The thread is in no call of the supervisor.
Idle == pc \in {"none", "idle"}

At(s) == stage = s /\ Idle

\* write_json(self.result_path, self.result)
WriteStatus ==
  /\ disk_status' = status'
  /\ disk_shutdown' = shutdown_status'

WriteResult == WriteStatus /\ UNCHANGED <<disk_forced, disk_wait_timeout>>

\* The diagnostic of the supervisor goes into the result; "forced" is in it once a kill has
\* returned.
CopyLifecycle ==
  IF has_diagnostic
    THEN disk_forced' = forced /\ disk_wait_timeout' = forced_wait_timeout
    ELSE UNCHANGED <<disk_forced, disk_wait_timeout>>

\* record_server_lifecycle writes the file at once, with what the result says until then.
RecordLifecycle ==
  /\ CopyLifecycle
  /\ IF has_diagnostic
       THEN disk_status' = status /\ disk_shutdown' = shutdown_status
       ELSE UNCHANGED <<disk_status, disk_shutdown>>

Goto(s) ==
  /\ stage' = s
  /\ UNCHANGED <<status, shutdown_status>>

\* An exception leaves the try block: the except clause records the failure.
Fails ==
  /\ stage' = "handler"
  /\ status' = "FAIL"
  /\ UNCHANGED shutdown_status

Raise == Fails /\ UNCHANGED diskVars

---------------------------------------------------------------------------
(* The try block.                                                          *)

\* install_artifacts: each check that passes writes the result file.
Install ==
  /\ At("install")
  /\ \/ Goto("start") /\ WriteResult
     \/ Raise
  /\ UNCHANGED vars

\* start_server: Popen may fail, and then there is no process at all.
StartServer ==
  /\ stage \in {"start", "restart"}
  /\ Idle
  /\ \/ /\ Start
        /\ Goto(IF stage = "start" THEN "ready" ELSE "restart_ready")
        /\ UNCHANGED diskVars
     \/ Raise /\ UNCHANGED vars

\* wait_for(ready) and wait_for(spark): the log satisfies the predicate, or the server is
\* found dead, or the time is up.
WaitReady ==
  /\ stage \in {"ready", "restart_ready"}
  /\ \/ /\ Goto(IF stage = "ready" THEN "commands" ELSE "shutdown")
        /\ WriteResult
        /\ UNCHANGED vars
     \/ Raise /\ IsAlive

\* Fault: the verdict is written before the recovery and the shutdown.
Commands_EarlyVerdict ==
  /\ stage = "commands"
  /\ IsAlive
  /\ \/ /\ ~WrapperExited
        /\ status' = "PASS"
        /\ UNCHANGED shutdown_status
        /\ WriteResult
        /\ stage' = "recovery"
     \/ Raise

\* run_basic_commands and run_profiler, in one step: the last command found the server
\* alive, or some command raised.
Commands ==
  /\ stage = "commands"
  /\ IsAlive
  /\ \/ ~WrapperExited /\ Goto("recovery") /\ WriteResult
     \/ Raise

\* run_recovery_probe: a graceful stop, and the same start again.
Recovery ==
  /\ stage = "recovery"
  /\ GracefulStop
  /\ Goto("recovery_stopping")
  /\ UNCHANGED diskVars

\* A graceful stop is recorded, and then reported.
RecoveryStopped ==
  /\ At("recovery_stopping")
  /\ \/ /\ result = "graceful"
        /\ shutdown_status' = "graceful"
        /\ UNCHANGED <<vars, status>>
        /\ WriteStatus
        /\ CopyLifecycle
        /\ stage' = "restart"
     \/ /\ result # "graceful"
        /\ ForceKillTree
        /\ Goto("recovery_killing")
        /\ UNCHANGED diskVars

\* Fault: the stop is tried again instead of failing the run.
RecoveryKilled_Retrying ==
  /\ At("recovery_killing")
  /\ Goto("recovery")
  /\ UNCHANGED <<vars, diskVars>>

\* A failed stop ends in an exception, whether the kill returned, and was recorded, or
\* raised itself.
RecoveryKilled ==
  /\ At("recovery_killing")
  /\ Fails
  /\ IF result = "killed" THEN RecordLifecycle ELSE UNCHANGED diskVars
  /\ UNCHANGED vars

\* shutdown
Shutdown ==
  /\ stage = "shutdown"
  /\ GracefulStop
  /\ Goto("shutdown_stopping")
  /\ UNCHANGED diskVars

\* The lifecycle of the stop is recorded whatever it returned.
ShutdownStopped ==
  /\ At("shutdown_stopping")
  /\ RecordLifecycle
  /\ IF result = "graceful"
       THEN Goto("residual_check") /\ UNCHANGED vars
       ELSE ForceKillTree /\ Goto("shutdown_killing")

\* "forced" is recorded after the kill: a kill that raises skips it.
ShutdownKilled ==
  /\ At("shutdown_killing")
  /\ stage' = "handler"
  /\ status' = "FAIL"
  /\ IF result = "killed"
       THEN /\ shutdown_status' = "forced"
            /\ disk_shutdown' = "forced"
            /\ disk_status' = status
            /\ CopyLifecycle
       ELSE UNCHANGED <<shutdown_status, diskVars>>
  /\ UNCHANGED vars

Passed ==
  /\ status' = "PASS"
  /\ shutdown_status' = "graceful"
  /\ disk_shutdown' = "graceful"
  /\ disk_status' = status
  /\ CopyLifecycle
  /\ stage' = "finally"

Leftovers == Fails /\ RecordLifecycle

\* Fault: Linux too asks only for the adopted processes.
ResidualCheck_AdoptedOnly ==
  /\ At("residual_check")
  /\ ManagedResidualProcesses
  /\ Goto("residual_result")
  /\ UNCHANGED diskVars

\* residual_processes: pgrep sees every process of the server folder on Linux; Windows
\* asks the supervisor for the processes it adopted.
ResidualCheck ==
  /\ At("residual_check")
  /\ IF Windows
       THEN /\ ManagedResidualProcesses
            /\ Goto("residual_result")
            /\ UNCHANGED diskVars
       ELSE /\ IF \E p \in Pids : RunningBds(p) THEN Leftovers ELSE Passed
            /\ UNCHANGED vars

ResidualResult ==
  /\ At("residual_result")
  /\ IF result = "residual" THEN Leftovers ELSE Passed
  /\ UNCHANGED vars

---------------------------------------------------------------------------
(* The except and finally clauses.                                         *)

NeedsKill == pc # "none" /\ (~WrapperExited \/ forced)

\* is_alive() decides: a server that lives, or that was forced already, is killed (again).
Handler ==
  /\ At("handler")
  /\ IF pc = "none" THEN UNCHANGED vars ELSE IsAlive
  /\ Goto(IF NeedsKill THEN "handler_kill" ELSE "finally")
  /\ UNCHANGED diskVars

HandlerKill ==
  /\ stage = "handler_kill"
  /\ ForceKillTree
  /\ Goto("handler_killing")
  /\ UNCHANGED diskVars

\* Fault: the outcome of the kill is stored as the shutdown status.
HandlerKilled_StoresOutcome ==
  /\ At("handler_killing")
  /\ stage' = "finally"
  /\ shutdown_status' = result
  /\ UNCHANGED <<vars, status, diskVars>>

\* Fault: the lifecycle of the kill is not recorded.
HandlerKilled_Unrecorded ==
  /\ At("handler_killing")
  /\ stage' = "finally"
  /\ shutdown_status' = IF result = "killed" THEN "forced_after_failure" ELSE shutdown_status
  /\ UNCHANGED <<vars, status, diskVars>>

\* The lifecycle of the kill, and with it the failure, is written before shutdown_status is
\* replaced; an exception of the kill skips both and only goes to the diagnostics.
HandlerKilled ==
  /\ At("handler_killing")
  /\ stage' = "finally"
  /\ IF result = "killed"
       THEN shutdown_status' = "forced_after_failure" /\ RecordLifecycle
       ELSE UNCHANGED <<shutdown_status, diskVars>>
  /\ UNCHANGED <<vars, status>>

\* split_logs may raise; the verdict is written only after it.
Finally ==
  /\ At("finally")
  /\ Goto("done")
  /\ \/ WriteResult
     \/ UNCHANGED diskVars
  /\ UNCHANGED vars

\* The job is cancelled or the controller dies; the server is left to itself.
ControllerCrash ==
  /\ stage \notin {"done", "crashed"}
  /\ stage' = "crashed"
  /\ UNCHANGED <<vars, status, shutdown_status, diskVars>>

RunEnded ==
  /\ stage \in {"done", "crashed"}
  /\ UNCHANGED allVars

---------------------------------------------------------------------------

Controller ==
  \/ Supervise /\ stage # "crashed" /\ UNCHANGED runVars
  \/ Install \/ StartServer \/ WaitReady \/ Commands
  \/ Recovery \/ RecoveryStopped \/ RecoveryKilled
  \/ Shutdown \/ ShutdownStopped \/ ShutdownKilled \/ ResidualCheck \/ ResidualResult
  \/ Handler \/ HandlerKill \/ HandlerKilled \/ Finally

RunInit ==
  /\ Init
  /\ stage = "install"
  /\ status = "running"
  /\ shutdown_status = "not_started"
  /\ disk_status = "running"
  /\ disk_shutdown = "not_started"
  /\ disk_forced = FALSE
  /\ disk_wait_timeout = FALSE

RunNext ==
  \/ Controller
  \/ Environment /\ UNCHANGED runVars
  \/ ControllerCrash
  \/ RunEnded

RunSpec == RunInit /\ [][RunNext]_allVars

\* The controller's thread runs until it ends or is killed.
RunFairSpec == RunSpec /\ WF_allVars(Controller)

---------------------------------------------------------------------------
(* Properties.                                                             *)

\* The types of the variables of the run.
RunVarsOK ==
  /\ stage \in Stages
  /\ status \in {"running", "PASS", "FAIL"}
  /\ disk_status \in {"running", "PASS", "FAIL"}
  /\ shutdown_status \in {"not_started", "graceful", "forced", "forced_after_failure"}
  /\ disk_shutdown \in {"not_started", "graceful", "forced", "forced_after_failure"}
  /\ disk_forced \in BOOLEAN
  /\ disk_wait_timeout \in BOOLEAN

\* Every variable of the run and of its supervisor has its type.
RunTypeOK == TypeOK /\ RunVarsOK

\* shutdown() reports "graceful; no residual BDS process": when the result file says PASS,
\* no process of any server the run started is alive, the orphans of the server that was
\* replaced in the recovery probe included.
PassMeansNoServer == disk_status = "PASS" => \A p \in Pids : ~RunningBds(p)

\* A run that passed on Windows leaves no process it adopted alive, although it cannot see
\* the others there (residual_processes).
PassMeansKnownDead == disk_status = "PASS" /\ Windows => KnownDead

\* However a run ends short of a crash of the controller, the wrapper it started last is dead
\* on Linux, or the result file says that the run failed, that the wrapper was killed and
\* that it outlived both waits of the kill (shutdown, execute's except clause).
NoWrapperLeft ==
  stage = "done" /\ pc # "none" /\ ~WrapperExited =>
    disk_status = "FAIL" /\ disk_forced /\ disk_wait_timeout

\* A server that was killed by force is reported as such by the result file of a run that has
\* failed, although the file may be written for the last time before shutdown_status is
\* replaced, and then still says "graceful" of the recovery's stop (execute, shutdown,
\* run_recovery_probe, record_server_lifecycle).  True on Linux, where no kill raises.
ForcedIsReported == stage = "done" /\ forced => disk_status = "FAIL" /\ disk_forced

\* A verdict in the result file is final: no later write of the run replaces it.
VerdictIsFinal == [][disk_status # "running" => disk_status' = disk_status]_allVars

\* Every run ends, with a verdict or with the death of the controller.
RunEnds == <>(stage \in {"done", "crashed"})
=============================================================================
