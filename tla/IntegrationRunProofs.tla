------------------------ MODULE IntegrationRunProofs ------------------------
(***************************************************************************)
(* What IntegrationRun promises on any machine: the run uses its           *)
(* supervisor as ServerProcess specifies, so that everything proved of the *)
(* supervisor holds in every run; a PASS on disk means, on Windows, that   *)
(* no adopted process lives, and a verdict on disk is final. On Linux a    *)
(* PASS means that no process of the server lives, a run that leaves its   *)
(* wrapper behind says so on disk, as of every force, and it implements    *)
(* RunContract.                                                            *)
(***************************************************************************)
EXTENDS IntegrationRun, ServerProcessProofs, TLAPS

\* Where managed_residual_processes is, called after a graceful stop.
Asking == (pc \in {"root", "records"} /\ return_to = "residual") \/ pc \in {"residual", "idle"}

\* After a graceful stop the wrapper is reaped, and on Windows every adopted process is
\* dead and none is adopted any more.  A run that passed keeps this and calls nothing.
PassInv ==
  /\ stage = "residual_check" => pc = "idle"
  /\ stage = "residual_result" => Windows /\ Asking
  /\ stage \in {"residual_check", "residual_result"} =>
       returncode # "none" /\ (Windows => KnownDead)
  /\ status = "PASS" =>
       (Windows => KnownDead) /\ pc = "idle" /\ stage \in {"finally", "done", "crashed"}
  /\ disk_status = "PASS" => status = "PASS"

---------------------------------------------------------------------------

\* Every step of the run is a step of the supervisor, its owner or the machine.
LEMMA RunStepIsServerStep == ASSUME [RunNext]_allVars PROVE [Next]_vars
BY DEF RunNext, allVars, Controller, Install, StartServer, WaitReady, Commands, Recovery,
       RecoveryStopped, RecoveryKilled, Shutdown, ShutdownStopped, ShutdownKilled,
       ResidualCheck, ResidualResult, Handler, HandlerKill, HandlerKilled, Finally,
       ControllerCrash, RunEnded, Next, Call

\* A run drives its supervisor as module ServerProcess says: the run implements it.
THEOREM RunImplementsServer == RunSpec => Spec
<1>1. RunInit => Init
  BY DEF RunInit
<1>2. [RunNext]_allVars => [Next]_vars
  BY RunStepIsServerStep
<1> QED
  BY <1>1, <1>2, PTL DEF RunSpec, Spec

\* Every variable of the run keeps its type.
THEOREM RunTypeCorrect == RunSpec => []RunTypeOK
<1>1. RunInit => RunVarsOK
  BY DEF RunInit, RunVarsOK, Stages
<1>2. TypeOK /\ TypeOK' /\ RunVarsOK /\ [RunNext]_allVars => RunVarsOK'
  <2> SUFFICES ASSUME TypeOK, TypeOK', RunVarsOK, [RunNext]_allVars PROVE RunVarsOK'
    OBVIOUS
  <2>0. {forced, forced', forced_wait_timeout, forced_wait_timeout'} \subseteq BOOLEAN
    BY DEF TypeOK
  <2> USE DEF RunVarsOK, Stages, runVars, diskVars, Goto, WriteResult, WriteStatus, CopyLifecycle,
              RecordLifecycle, Fails, Raise, Passed, Leftovers
  <2>1. CASE Install \/ StartServer \/ WaitReady \/ Commands \/ Recovery
    BY <2>1 DEF Install, StartServer, WaitReady, Commands, Recovery
  <2>2. CASE RecoveryStopped \/ RecoveryKilled \/ Shutdown \/ ShutdownStopped \/ ShutdownKilled
    BY <2>0, <2>2 DEF RecoveryStopped, RecoveryKilled, Shutdown, ShutdownStopped, ShutdownKilled
  <2>3. CASE ResidualCheck \/ ResidualResult \/ Handler \/ HandlerKill \/ HandlerKilled
    BY <2>0, <2>3 DEF ResidualCheck, ResidualResult, Handler, HandlerKill, HandlerKilled
  <2>4. CASE Finally \/ ControllerCrash \/ RunEnded \/ UNCHANGED runVars
    BY <2>4 DEF Finally, ControllerCrash, RunEnded, allVars
  <2> QED
    BY <2>1, <2>2, <2>3, <2>4 DEF RunNext, Controller, allVars
<1> QED
  BY <1>1, <1>2, RunImplementsServer, TypeCorrect, PTL DEF RunSpec, RunTypeOK

---------------------------------------------------------------------------
(* A PASS.                                                                 *)

\* A step of the machine revives no adopted process.
LEMMA DeadStays == ASSUME MachineStep, KnownDead PROVE KnownDead'
BY DEF MachineStep, KnownDead

\* managed_residual_processes, asked of a tree that is dead, adopts nobody.
LEMMA AskingStep ==
  ASSUME IInv, Asking, returncode # "none", KnownDead, Supervise
  PROVE  Asking' /\ returncode' # "none" /\ KnownDead'
<1>1. pid \in Pids /\ pc \in {"root", "records", "residual"}
  BY IdleIsIdle DEF IInv, TypeOK, Asking
<1>2. SnapshotRoot \/ (\E p \in Pids : SnapshotRecord(p)) \/ ResidualDone
  BY <1>1 DEF Supervise, SnapshotStep, SnapshotDescendants, SnapshotChild, StopStep, StopForced, StopBegun,
       StopRefused, StopAlreadyExited, StopCommand, StopCommandFailed, StopWait, StopExited,
       KillStep, KillBegun, KillBefore, KillRoot, KillWait, KillHandle, KillWaitAgain,
       KillCaptured, KillAfter, KillResidual, KillDone
<1>3. UNCHANGED <<proc, returncode, managed_processes>>
  BY <1>2 DEF SnapshotRoot, SnapshotRecord, ResidualDone, Poll, osVars, objectVars, treeVars
<1>4. KnownDead'
  BY <1>3 DEF KnownDead, KnownAlive
<1>5. Asking'
  <2>1. CASE SnapshotRoot
    <3>1. root_identity_status' # "verified"
      BY <1>1, <2>1 DEF SnapshotRoot, RootIdentity, KnownDead, KnownAlive
    <3> QED
      BY <2>1, <3>1 DEF SnapshotRoot, Asking
  <2>2. CASE \E p \in Pids : SnapshotRecord(p)
    BY <2>2 DEF SnapshotRecord, Asking
  <2>3. CASE ResidualDone
    BY <2>3 DEF ResidualDone, Return, Asking
  <2> QED
    BY <1>2, <2>1, <2>2, <2>3
<1> QED
  BY <1>3, <1>4, <1>5

\* A step keeps what a PASS means.
LEMMA NextPassInv == ASSUME IInv, PassInv, [RunNext]_allVars PROVE PassInv'
<1> USE DEF runVars, diskVars, Goto, WriteResult, WriteStatus, Raise, Fails, RecordLifecycle
<1>1. CASE Supervise /\ UNCHANGED runVars
  BY <1>1, IdleIsIdle, AskingStep DEF PassInv
<1>2. CASE Install \/ StartServer \/ WaitReady \/ Commands \/ Recovery
  BY <1>2 DEF PassInv, Install, StartServer, WaitReady, Commands, Recovery, At
<1>3. CASE RecoveryStopped \/ RecoveryKilled \/ Shutdown \/ ShutdownKilled
  BY <1>3 DEF PassInv, RecoveryStopped, RecoveryKilled, Shutdown, ShutdownKilled, At
<1>4. CASE ShutdownStopped
  <2>1. result = "graceful" => pc = "idle" /\ returncode # "none" /\ (Windows => KnownDead)
    BY DEF IInv, StopInv, GracefulSound
  <2> QED
    BY <1>4, <2>1 DEF PassInv, ShutdownStopped, At, vars, osVars, objectVars, treeVars, control,
                      KnownDead, KnownAlive
<1>5. CASE ResidualCheck
  <2>1. CASE Windows
    <3>1. /\ stage' = "residual_result"
          /\ UNCHANGED <<proc, managed_processes, returncode, status, disk_status>>
          /\ pc' = "root" /\ return_to' = "residual"
      BY <1>5, <2>1 DEF ResidualCheck, ManagedResidualProcesses, Enter, Snapshot, osVars,
                        objectVars, treeVars
    <3> QED
      BY <1>5, <2>1, <3>1 DEF PassInv, Asking, KnownDead, KnownAlive, ResidualCheck, At
  <2>2. CASE ~Windows
    BY <1>5, <2>2 DEF PassInv, ResidualCheck, Passed, Leftovers, At, vars,
                      objectVars, control
  <2> QED
    BY <2>1, <2>2
<1>6. CASE ResidualResult
  <2>1. pc = "idle"
    BY <1>6 DEF PassInv, ResidualResult, At, Idle, Asking
  <2> QED
    BY <1>6, <2>1 DEF PassInv, ResidualResult, Passed, Leftovers, At, vars, osVars, treeVars, control,
                      KnownDead, KnownAlive
<1>7. CASE Handler \/ HandlerKill \/ HandlerKilled
  BY <1>7 DEF PassInv, Handler, HandlerKill, HandlerKilled, At
<1>8. CASE Finally \/ ControllerCrash \/ RunEnded \/ UNCHANGED allVars
  BY <1>8 DEF PassInv, Finally, ControllerCrash, RunEnded, At, allVars, vars, osVars,
              objectVars, treeVars, control, KnownDead, KnownAlive, Asking
<1>9. CASE Environment /\ UNCHANGED runVars
  <2>1. UNCHANGED <<objectVars, treeVars, control>>
    BY <1>9 DEF Environment, SpawnChild, SpawnForeign, Exit
  <2> QED
    BY <1>9, <2>1, EnvironmentMachine, DeadStays DEF PassInv, Asking, objectVars, control
<1> QED
  BY <1>1, <1>2, <1>3, <1>4, <1>5, <1>6, <1>7, <1>8, <1>9 DEF RunNext, Controller

\* A run that passed on Windows leaves no process it adopted alive (residual_processes,
\* shutdown).
THEOREM PassIsSound == RunSpec => []PassMeansKnownDead
<1>1. RunInit => IInv /\ PassInv
  BY InitIInv DEF RunInit, PassInv
<1>2. (IInv /\ PassInv) /\ [RunNext]_allVars => (IInv /\ PassInv)'
  BY RunStepIsServerStep, NextIInv, NextPassInv
<1>3. IInv /\ PassInv => PassMeansKnownDead
  BY DEF PassInv, PassMeansKnownDead
<1> QED
  BY <1>1, <1>2, <1>3, PTL DEF RunSpec

---------------------------------------------------------------------------
(* The verdict.                                                            *)

Handling == {"handler", "handler_kill", "handler_killing"}
Closing == {"finally", "done", "crashed"}

\* A verdict is reached at the end of the try block, and written only from the finally clause
\* on, unless the except clause writes the failure.
VerdictInv ==
  /\ stage \notin Handling \cup Closing => status = "running"
  /\ stage \in Handling => status = "FAIL"
  /\ stage \in {"finally", "done"} => status # "running"
  /\ disk_status # "running" => disk_status = status /\ stage \in Closing

\* No step of a run breaks the order of its verdicts.
LEMMA NextVerdictInv == ASSUME VerdictInv, [RunNext]_allVars PROVE VerdictInv'
<1> USE DEF VerdictInv, Handling, Closing, runVars, diskVars, Goto, WriteResult, WriteStatus,
            RecordLifecycle, Fails, Raise, Passed, Leftovers, At
<1>1. CASE Install \/ StartServer \/ WaitReady \/ Commands \/ Recovery
  BY <1>1 DEF Install, StartServer, WaitReady, Commands, Recovery
<1>2. CASE RecoveryStopped \/ RecoveryKilled \/ Shutdown \/ ShutdownStopped \/ ShutdownKilled
  BY <1>2 DEF RecoveryStopped, RecoveryKilled, Shutdown, ShutdownStopped, ShutdownKilled
<1>3. CASE ResidualCheck \/ ResidualResult \/ Handler \/ HandlerKill \/ HandlerKilled
  BY <1>3 DEF ResidualCheck, ResidualResult, Handler, HandlerKill, HandlerKilled
<1>4. CASE Finally \/ ControllerCrash \/ RunEnded \/ UNCHANGED runVars
  BY <1>4 DEF Finally, ControllerCrash, RunEnded, allVars
<1> QED
  BY <1>1, <1>2, <1>3, <1>4 DEF RunNext, Controller, allVars

\* A verdict on disk is the one in memory, which no later step changes.
LEMMA VerdictStays ==
  ASSUME VerdictInv, [RunNext]_allVars, disk_status # "running"
  PROVE  disk_status' = disk_status /\ status' = status
<1>1. stage \in Closing /\ disk_status = status
  BY DEF VerdictInv
<1> QED
  BY <1>1
     DEF Closing, RunNext, Controller, runVars, allVars, At, Install, StartServer, WaitReady,
         Commands, Recovery, RecoveryStopped, RecoveryKilled, Shutdown, ShutdownStopped,
         ShutdownKilled, ResidualCheck, ResidualResult, Handler, HandlerKill, HandlerKilled,
         Finally, ControllerCrash, RunEnded, diskVars, Goto, WriteResult, WriteStatus,
         RecordLifecycle

\* The verdict in the result file is final (execute, write_json).
THEOREM VerdictStaysFinal == RunSpec => VerdictIsFinal
<1>1. RunInit => VerdictInv
  BY DEF RunInit, VerdictInv, Handling, Closing
<1>2. VerdictInv /\ [RunNext]_allVars => VerdictInv'
  BY NextVerdictInv
<1>3. VerdictInv /\ [RunNext]_allVars =>
        [disk_status # "running" => disk_status' = disk_status]_allVars
  BY VerdictStays
<1> QED
  BY <1>1, <1>2, <1>3, PTL DEF RunSpec, VerdictIsFinal

---------------------------------------------------------------------------
(* Calls of the supervisor, and what they leave.                           *)

\* The statements of the run that wait for a call of the supervisor.
Calling == {"recovery_stopping", "recovery_killing", "shutdown_stopping", "shutdown_killing",
            "residual_result", "handler_killing"}

\* Between calls the thread is idle; the kill of the except clause is a force_kill_tree.
CallInv ==
  /\ stage \notin Calling \cup {"crashed"} => Idle
  /\ stage = "handler_killing" =>
       Statement \in KillLabels \/ (pc = "idle" /\ result \in {"killed", "raised"})

\* A run leaves a stage only when the call it made there has returned.
LEMMA NextCallInv == ASSUME CallInv, [RunNext]_allVars PROVE CallInv'
<1> USE DEF CallInv, Calling, Idle, At, runVars, Goto, Raise, Fails, Leftovers
<1>1. CASE Supervise /\ UNCHANGED runVars
  <2>1. ~Idle
    BY <1>1, IdleIsIdle
  <2>2. stage = "handler_killing" =>
          Statement' \in KillLabels \/ (pc' = "idle" /\ result' \in {"killed", "raised"})
    <3>1. pc # "idle"
      BY <2>1
    <3> QED
      BY <1>1, <3>1, KillGoesOn
  <2> QED
    BY <1>1, <2>1, <2>2
<1>2. CASE Install \/ StartServer \/ WaitReady \/ Commands \/ Recovery
  BY <1>2
     DEF Install, StartServer, WaitReady, Commands, Recovery, Start, IsAlive, vars, control
<1>3. CASE RecoveryStopped \/ RecoveryKilled \/ Shutdown \/ ShutdownStopped \/ ShutdownKilled
  BY <1>3
     DEF RecoveryStopped, RecoveryKilled, Shutdown, ShutdownStopped, ShutdownKilled, vars, control
<1>4. CASE ResidualCheck \/ ResidualResult \/ Handler \/ HandlerKilled
  BY <1>4 DEF ResidualCheck, ResidualResult, Handler, HandlerKilled, IsAlive, Passed, vars, control
<1>5. CASE HandlerKill
  <2>1. pc' = "root" /\ return_to' \in KillLabels /\ stage' = "handler_killing"
    BY <1>5 DEF HandlerKill, ForceKillTree, Enter, Snapshot, KillLabels
  <2> QED
    BY <2>1 DEF Statement
<1>6. CASE Finally \/ ControllerCrash \/ RunEnded \/ UNCHANGED allVars
  BY <1>6 DEF Finally, ControllerCrash, RunEnded, allVars, vars, control, stopVars, Statement
<1>7. CASE Environment /\ UNCHANGED runVars
  <2>1. UNCHANGED <<control, stopVars>>
    BY <1>7 DEF Environment, SpawnChild, SpawnForeign, Exit
  <2> QED
    BY <1>7, <2>1 DEF control, stopVars, Statement
<1> QED
  BY <1>1, <1>2, <1>3, <1>4, <1>5, <1>6, <1>7 DEF RunNext, Controller

\* The result file says so already when the finally clause begins and the wrapper still
\* runs.
WrapperKnownLeft ==
  status = "FAIL" /\ disk_status = "FAIL" /\ disk_forced /\ disk_wait_timeout

\* The wrapper is dead when the finally clause begins, or known to have outlived the kill
\* (Linux).
LeftInv ==
  stage \in {"finally", "done"} /\ pc # "none" /\ ~WrapperExited => WrapperKnownLeft

\* A server that was forced leads to the except clause, which kills it again and has
\* the force in the result file.
ForcedInv ==
  /\ forced => pc # "none"
  /\ forced => stage \in {"recovery_killing", "shutdown_killing"} \cup Handling \cup Closing
  /\ stage = "handler_killing" => forced
  /\ forced /\ stage \in {"finally", "done"} =>
       status = "FAIL" /\ disk_status = "FAIL" /\ disk_forced

\* A stop ends the wrapper; a kill does, or it leaves what the except clause records.
LEMMA NextLeftInv ==
  ASSUME ~Windows, IInv, KilledInv, PassInv, VerdictInv, CallInv, LeftInv, ForcedInv,
         [RunNext]_allVars
  PROVE  LeftInv'
<1> USE DEF LeftInv, WrapperKnownLeft, runVars, diskVars, Goto, Raise, Fails, WriteResult,
            WriteStatus
<1>1. CASE Supervise /\ UNCHANGED runVars
  <2>1. stage \notin {"finally", "done"}
    BY <1>1, IdleIsIdle DEF CallInv, Calling, Idle
  <2> QED
    BY <1>1, <2>1
<1>2. CASE Install \/ StartServer \/ WaitReady \/ Commands \/ Recovery
  BY <1>2 DEF Install, StartServer, WaitReady, Commands, Recovery
<1>3. CASE RecoveryStopped \/ RecoveryKilled \/ Shutdown \/ ShutdownStopped \/ ShutdownKilled
  BY <1>3 DEF RecoveryStopped, RecoveryKilled, Shutdown, ShutdownStopped, ShutdownKilled
<1>4. CASE ResidualCheck \/ ResidualResult
  <2>1. returncode # "none" /\ (pc = "none" \/ pid \in Pids)
    BY <1>4 DEF IInv, TypeOK, PassInv, ResidualCheck, ResidualResult, At
  <2>2. pc # "none" => WrapperExited
    BY <2>1 DEF IInv, MachineInv, WrapperInv
  <2>3. stage' \in {"finally", "done"} => UNCHANGED <<pc, exitcode>>
    BY <1>4 DEF ResidualCheck, ResidualResult, Leftovers, vars, osVars, control
  <2> QED
    BY <2>2, <2>3 DEF WrapperExited
<1>5. CASE Handler \/ HandlerKill
  BY <1>5 DEF Handler, HandlerKill, NeedsKill, IsAlive, vars, osVars, control, WrapperExited
<1>6. CASE HandlerKilled
  <2>1. pc \in {"none", "idle"}
    BY <1>6 DEF HandlerKilled, At, Idle
  <2>2. result = "killed"
    BY <1>6, <2>1 DEF HandlerKilled, At, CallInv, KilledInv, Statement, KillLabels
  <2>3. /\ status = "FAIL" /\ has_diagnostic
        /\ forced
        /\ pc # "none" /\ ~WrapperExited => forced_wait_timeout
    BY <1>6, <2>2 DEF HandlerKilled, At, KilledInv, VerdictInv, Handling, ForcedInv
  <2> QED
    BY <1>6, <2>2, <2>3
       DEF HandlerKilled, RecordLifecycle, CopyLifecycle, vars, osVars, control, WrapperExited
<1>7. CASE Finally \/ ControllerCrash \/ RunEnded \/ UNCHANGED allVars
  BY <1>7 DEF Finally, ControllerCrash, RunEnded, allVars, vars, osVars, control, WrapperExited, At
<1>8. CASE Environment /\ UNCHANGED runVars
  <2>1. UNCHANGED control
    BY <1>8 DEF Environment, SpawnChild, SpawnForeign, Exit
  <2>2. WrapperExited => WrapperExited'
    BY <1>8, EnvironmentMachine DEF MachineStep
  <2> QED
    BY <1>8, <2>1, <2>2 DEF control
<1> QED
  BY <1>1, <1>2, <1>3, <1>4, <1>5, <1>6, <1>7, <1>8 DEF RunNext, Controller

\* A supervisor that was created stays.
LEMMA PcStays == ASSUME IInv, [Next]_vars, pc # "none" PROVE pc' # "none"
<1>1. ASSUME SnapshotStep PROVE pc' # "none"
  BY <1>1
     DEF IInv, SnapshotInv, ReturnInv, Labels, SnapshotStep, SnapshotRoot, SnapshotDescendants,
         SnapshotChild, ToRecords, SnapshotRecord
<1>2. ASSUME StopStep PROVE pc' # "none"
  BY <1>2
     DEF StopStep, StopForced, StopBegun, StopRefused, StopAlreadyExited, StopCommand,
         StopCommandFailed, StopWait, StopExited, Return, Snapshot
<1>3. ASSUME KillStep PROVE pc' # "none"
  BY <1>3
     DEF KillStep, KillBegun, KillBefore, KillRoot, KillWait, KillHandle, KillWaitAgain,
         KillCaptured, KillAfter, KillResidual, KillDone, TaskKill, Snapshot, Return
<1>4. CASE Call
  BY <1>4 DEF Call, GracefulStop, ForceKillTree, ManagedResidualProcesses, IsAlive, Enter,
              Snapshot, control
<1>5. CASE Start \/ Environment \/ ResidualDone \/ UNCHANGED vars
  BY <1>5 DEF Start, Environment, SpawnChild, SpawnForeign, Exit, ResidualDone, Return, vars,
              control
<1> QED
  BY <1>1, <1>2, <1>3, <1>4, <1>5 DEF Next, Supervise

\* What the supervisor's thread does inside a call does not change the flag.
LEMMA ForcedKept == ASSUME Supervise \/ Environment PROVE forced' = forced
<1> USE DEF objectVars
<1>1. CASE SnapshotStep \/ ResidualDone \/ Environment
  BY <1>1 DEF SnapshotStep, SnapshotRoot, SnapshotDescendants, SnapshotChild, ToRecords,
              SnapshotRecord, ResidualDone, Environment, SpawnChild, SpawnForeign, Exit
<1>2. CASE StopStep
  BY <1>2
     DEF StopStep, StopForced, StopBegun, StopRefused, StopAlreadyExited, StopCommand,
         StopCommandFailed, StopWait, StopExited
<1>3. CASE KillStep
  BY <1>3
     DEF KillStep, KillBegun, KillBefore, KillRoot, KillWait, KillHandle, KillWaitAgain,
         KillCaptured, KillAfter, KillResidual, KillDone, TaskKill
<1> QED
  BY <1>1, <1>2, <1>3 DEF Supervise

\* Only a kill forces a server, and the stages after it record that.
LEMMA NextForcedInv ==
  ASSUME ~Windows, IInv, KilledInv, VerdictInv, CallInv, ForcedInv, [RunNext]_allVars
  PROVE  ForcedInv'
<1>1. forced' => pc' # "none"
  <2>1. CASE forced
    BY <2>1, RunStepIsServerStep, PcStays DEF ForcedInv
  <2>2. CASE ~forced /\ forced'
    <3>1. ForceKillTree
      BY <2>2, ForcedKept, RunStepIsServerStep
         DEF Next, Start, Call, GracefulStop, ManagedResidualProcesses, IsAlive, vars, objectVars
    <3> QED
      BY <3>1 DEF ForceKillTree, Enter, Snapshot
  <2> QED
    BY <2>1, <2>2
<1> USE DEF ForcedInv, Handling, Closing, runVars, diskVars, Goto, Raise, Fails, WriteResult,
            WriteStatus, At
<1>2. CASE (Supervise \/ Environment) /\ UNCHANGED runVars
  BY <1>1, <1>2, ForcedKept
<1>3. CASE Install \/ StartServer \/ WaitReady \/ Commands \/ Recovery
  BY <1>1, <1>3
     DEF Install, StartServer, WaitReady, Commands, Recovery, Start, IsAlive, GracefulStop, vars,
         objectVars
<1>4. CASE RecoveryStopped \/ RecoveryKilled \/ Shutdown \/ ShutdownStopped \/ ShutdownKilled
  BY <1>1, <1>4
     DEF RecoveryStopped, RecoveryKilled, Shutdown, ShutdownStopped, ShutdownKilled,
         ForceKillTree, GracefulStop, vars, objectVars
<1>5. CASE ResidualCheck \/ ResidualResult
  BY <1>1, <1>5
     DEF ResidualCheck, ResidualResult, ManagedResidualProcesses, Passed, Leftovers, vars,
         objectVars
<1>6. CASE Handler \/ HandlerKill
  BY <1>1, <1>6
     DEF Handler, HandlerKill, NeedsKill, ForceKillTree, IsAlive, vars, objectVars
<1>7. CASE HandlerKilled
  <2>1. pc \in {"none", "idle"} /\ status = "FAIL"
    BY <1>7 DEF HandlerKilled, Idle, VerdictInv
  <2>2. result = "killed"
    BY <1>7, <2>1 DEF HandlerKilled, CallInv, KilledInv, Statement, KillLabels
  <2>3. status = "FAIL" /\ has_diagnostic
    BY <1>7, <2>2 DEF HandlerKilled, KilledInv, VerdictInv
  <2> QED
    BY <1>1, <1>7, <2>1, <2>2, <2>3
       DEF HandlerKilled, RecordLifecycle, CopyLifecycle, vars, objectVars
<1>8. CASE Finally \/ ControllerCrash \/ RunEnded \/ UNCHANGED allVars
  BY <1>1, <1>8 DEF Finally, ControllerCrash, RunEnded, allVars, vars, objectVars
<1> QED
  BY <1>2, <1>3, <1>4, <1>5, <1>6, <1>7, <1>8 DEF RunNext, Controller

---------------------------------------------------------------------------
(* A PASS on Linux.                                                        *)

\* pgrep found no process of the server, and none comes back.
NoServerInv == status = "PASS" => \A p \in Pids : ~RunningBds(p)

\* A process that ends empties a slot.
LEMMA ExitShrinks == ASSUME IInv, NEW p \in Pids, Exit(p) PROVE Shrinks
<1>1. {p} \in SUBSET Pids
  OBVIOUS
<1> QED
  BY <1>1, EndShrinks DEF Exit

\* The supervisor creates no process but the wrapper.
LEMMA BirthsKept == ASSUME Supervise \/ Call PROVE births' = births
<1> USE DEF osVars
<1>1. CASE SnapshotStep \/ ResidualDone \/ Call
  BY <1>1 DEF SnapshotStep, SnapshotRoot, SnapshotDescendants, SnapshotChild, ToRecords,
              SnapshotRecord, ResidualDone, Call, GracefulStop, ForceKillTree,
              ManagedResidualProcesses, IsAlive
<1>2. CASE StopStep
  BY <1>2
     DEF StopStep, StopForced, StopBegun, StopRefused, StopAlreadyExited, StopCommand,
         StopCommandFailed, StopWait, StopExited
<1>3. CASE KillStep
  BY <1>3
     DEF KillStep, KillBegun, KillBefore, KillRoot, KillWait, KillHandle, KillWaitAgain,
         KillCaptured, KillAfter, KillResidual, KillDone, TaskKill
<1> QED
  BY <1>1, <1>2, <1>3 DEF Supervise

\* A step of the machine or of the supervisor, or a call of its owner, makes a process of the
\* server run only where one runs that can spawn it: a zombie that is reaped leaves no slot.
LEMMA NoneSpawns ==
  ASSUME IInv, Environment \/ Supervise \/ Call, \A p \in Pids : ~RunningBds(p)
  PROVE  \A p \in Pids : ~RunningBds(p)'
<1> USE ServerProcessAssumption DEF RunningBds, Running, Zombie, Exists
<1>1. /\ pid' = pid
      /\ WrapperExited => WrapperExited'
      /\ returncode' = returncode \/ (pid \in Pids => proc'[pid] = Free)
  <2> USE DEF osVars, objectVars, EndProcesses, Poll, WrapperExited
  <2>1. \A p \in Pids : proc \in [Pids -> Process]
    BY DEF IInv, TypeOK
  <2>2. CASE Environment \/ Call \/ ResidualDone
    BY <2>1, <2>2
       DEF Environment, SpawnChild, SpawnForeign, Born, Exit, Call, GracefulStop,
           ForceKillTree, ManagedResidualProcesses, IsAlive, ResidualDone
  <2>3. CASE SnapshotStep
    BY <2>1, <2>3 DEF SnapshotStep, SnapshotRoot, SnapshotDescendants, SnapshotChild, ToRecords,
           SnapshotRecord
  <2>4. CASE StopStep
    BY <2>1, <2>4
       DEF StopStep, StopForced, StopBegun, StopRefused, StopAlreadyExited, StopCommand,
           StopCommandFailed, StopWait, StopExited
  <2>5. CASE KillStep
    BY <2>1, <2>5
       DEF KillStep, KillBegun, KillBefore, KillRoot, KillWait, KillHandle,
           KillWaitAgain, KillCaptured, KillAfter, KillResidual, KillDone, TaskKill
  <2> QED
    BY <2>2, <2>3, <2>4, <2>5 DEF Supervise
<1>2. ASSUME Shrinks, NEW q \in Pids PROVE ~RunningBds(q)'
  <2>1. \/ proc'[q].birth = 0
        \/ proc'[q].birth = proc[q].birth /\ proc'[q].bds = proc[q].bds
    BY <1>2 DEF Shrinks, Free
  <2>2. q = pid /\ returncode' # returncode => proc'[q].birth = 0
    BY <1>1 DEF Free
  <2> QED
    BY <1>1, <2>1, <2>2
<1>3. ASSUME NEW p \in Pids, SpawnForeign(p), NEW q \in Pids PROVE ~RunningBds(q)'
  <2>1. proc'[q] = proc[q] \/ ~proc'[q].bds
    BY <1>3 DEF IInv, TypeOK, SpawnForeign, Born
  <2>2. returncode' = returncode
    BY <1>3 DEF SpawnForeign, objectVars
  <2> QED
    BY <1>1, <2>1, <2>2
<1>4. Shrinks \/ \E p \in Pids : SpawnForeign(p)
  <2>1. CASE Environment
    BY <2>1, ExitShrinks DEF Environment, SpawnChild
  <2>2. CASE Supervise \/ Call
    <3>1. births' = births /\ births \in Nat
      BY <2>2, BirthsKept DEF IInv, TypeOK
    <3> QED
      BY <2>2, <3>1, TableStep DEF Next, Grows
  <2> QED
    BY <2>1, <2>2
<1> QED
  BY <1>2, <1>3, <1>4

\* A passing run starts no server again, and nothing of the one it stopped comes back.
LEMMA NextNoServerInv ==
  ASSUME ~Windows, IInv, PassInv, NoServerInv, [RunNext]_allVars PROVE NoServerInv'
<1> USE DEF NoServerInv, runVars, diskVars, Goto, Raise, Fails, WriteResult, WriteStatus, Leftovers
<1>1. ASSUME UNCHANGED vars, \A p \in Pids : ~RunningBds(p)
      PROVE  \A p \in Pids : ~RunningBds(p)'
  BY <1>1 DEF vars, osVars, objectVars, RunningBds, Running, Zombie, Exists, WrapperExited
<1>2. CASE Supervise /\ UNCHANGED runVars
  BY <1>2, IdleIsIdle DEF PassInv
<1>3. CASE Install \/ StartServer \/ WaitReady \/ Commands \/ Recovery
  BY <1>3 DEF PassInv, Install, StartServer, WaitReady, Commands, Recovery, At
<1>4. CASE RecoveryStopped \/ RecoveryKilled \/ Shutdown \/ ShutdownStopped \/ ShutdownKilled
  BY <1>4
     DEF PassInv, RecoveryStopped, RecoveryKilled, Shutdown, ShutdownStopped, ShutdownKilled, At
<1>5. CASE ResidualCheck
  BY <1>1, <1>5 DEF ResidualCheck
<1>6. CASE ResidualResult
  BY <1>6 DEF PassInv, ResidualResult, At
<1>7. CASE Handler \/ HandlerKill \/ HandlerKilled
  BY <1>7 DEF PassInv, Handler, HandlerKill, HandlerKilled, At
<1>8. CASE Finally \/ ControllerCrash \/ RunEnded \/ UNCHANGED allVars
  BY <1>1, <1>8 DEF Finally, ControllerCrash, RunEnded, allVars
<1>9. CASE Environment /\ UNCHANGED runVars
  BY <1>9, NoneSpawns
<1> QED
  BY <1>2, <1>3, <1>4, <1>5, <1>6, <1>7, <1>8, <1>9 DEF RunNext, Controller

---------------------------------------------------------------------------
(* What a run on Linux leaves.                                             *)

\* The inductive invariant of a run on Linux.
LinuxInv ==
  /\ IInv /\ SignalInv /\ KilledInv
  /\ PassInv /\ VerdictInv /\ CallInv /\ LeftInv /\ ForcedInv /\ NoServerInv

\* The invariants of a run on Linux hold together in every state.
LEMMA LinuxAlways == ASSUME ~Windows PROVE RunSpec => []LinuxInv
<1>1. RunInit => LinuxInv
  <2>1. RunInit => PassInv /\ VerdictInv /\ CallInv /\ LeftInv /\ ForcedInv /\ NoServerInv
    BY DEF RunInit, Init, PassInv, VerdictInv, CallInv, LeftInv, ForcedInv, NoServerInv,
           Handling, Closing, Calling, Idle
  <2> QED
    BY <2>1, InitIInv, InitOthers DEF RunInit, LinuxInv
<1>2. LinuxInv /\ [RunNext]_allVars => LinuxInv'
  BY RunStepIsServerStep, NextIInv, NextSignalInv, NextKilledInv, NextPassInv, NextVerdictInv,
     NextCallInv, NextLeftInv, NextForcedInv, NextNoServerInv DEF LinuxInv
<1> QED
  BY <1>1, <1>2, PTL DEF RunSpec

\* A PASS on disk means that no process of any server of the run is alive, orphans included
\* (shutdown, residual_processes).
THEOREM PassLeavesNoServer == ASSUME ~Windows PROVE RunSpec => []PassMeansNoServer
<1>1. LinuxInv => PassMeansNoServer
  BY DEF LinuxInv, PassInv, NoServerInv, PassMeansNoServer
<1> QED
  BY <1>1, LinuxAlways, PTL

\* However a run ends short of a crash, its last wrapper is dead, or the result file says
\* that it outlived a kill (execute, shutdown, force_kill_tree).
THEOREM RunLeavesNoWrapper == ASSUME ~Windows PROVE RunSpec => []NoWrapperLeft
<1>1. LinuxInv => NoWrapperLeft
  BY DEF LinuxInv, LeftInv, WrapperKnownLeft, NoWrapperLeft
<1> QED
  BY <1>1, LinuxAlways, PTL

\* A forced server is reported as forced by the result file of a run that failed (execute,
\* shutdown, record_server_lifecycle).
THEOREM ForceIsReported == ASSUME ~Windows PROVE RunSpec => []ForcedIsReported
<1>1. LinuxInv => ForcedIsReported
  BY DEF LinuxInv, ForcedInv, ForcedIsReported
<1> QED
  BY <1>1, LinuxAlways, PTL

---------------------------------------------------------------------------
(* The run implements RunContract.                                         *)

\* A run that ends without its verdict on disk (split_logs raised) is abandoned, as one
\* whose controller dies is.
Phase ==
  IF stage = "crashed" \/ (stage = "done" /\ disk_status # status) THEN "abandoned"
  ELSE IF stage = "done" THEN "over"
  ELSE IF status = "running" THEN "working" ELSE "ending"

Open == IF \E p \in Pids : RunningBds(p) THEN {"server"} ELSE {}

Contract ==
  INSTANCE RunContract WITH phase <- Phase, open <- Open, verdict <- status,
                            recorded <- disk_status

\* A call or a step of the machine stops servers at most.
LEMMA LetGo ==
  ASSUME IInv, Environment \/ Supervise \/ Call \/ UNCHANGED vars PROVE Open' \in SUBSET Open
<1>1. CASE UNCHANGED vars
  BY <1>1 DEF vars, osVars, objectVars, Open, RunningBds, Running, Zombie, Exists, WrapperExited
<1>2. CASE Environment \/ Supervise \/ Call
  BY <1>2, NoneSpawns DEF Open
<1> QED
  BY <1>1, <1>2

\* A server is started while the run works only.
LEMMA StartAcquires ==
  ASSUME IInv, VerdictInv, StartServer, Start PROVE Contract!Acquire("server")
<1> USE DEF VerdictInv, Handling, Closing
<1>1. /\ stage \in {"start", "restart"} /\ stage' \in {"ready", "restart_ready"}
      /\ UNCHANGED <<status, disk_status>>
  BY DEF IInv, TypeOK, StartServer, Goto, Start, vars, osVars, diskVars
<1>2. Phase = "working" /\ Phase' = "working"
  BY <1>1 DEF Phase
<1>3. Open' = {"server"}
  <2>1. pid' \in Pids /\ proc'[pid'].birth = births + 1 /\ proc'[pid'].bds /\ exitcode' = "none"
    BY DEF Start, IInv, TypeOK
  <2>2. births + 1 # 0
    BY DEF IInv, TypeOK
  <2> QED
    BY <2>1, <2>2 DEF Open, RunningBds, Running, Zombie, Exists, WrapperExited
<1>4. Open \in SUBSET {"server"}
  BY DEF Open
<1> QED
  BY <1>1, <1>2, <1>3, <1>4 DEF Contract!Acquire

\* Every step of the run is a step of the contract.
LEMMA ContractStep ==
  ASSUME ~Windows, LinuxInv, LinuxInv', [RunNext]_allVars
  PROVE  [Contract!Next]_Contract!vars
<1> USE DEF runVars, diskVars, Goto, Raise, Fails, WriteResult, WriteStatus, RecordLifecycle,
            Leftovers, Passed, At
<1>1. /\ IInv /\ VerdictInv /\ VerdictInv' /\ PassInv /\ CallInv
  BY DEF LinuxInv
<1>2. /\ stage \notin Handling \cup Closing =>
           Phase = "working" /\ status = "running" /\ disk_status = "running"
      /\ stage \in Handling => Phase = "ending" /\ status = "FAIL" /\ disk_status = "running"
      /\ stage = "finally" => Phase = "ending"
  BY <1>1 DEF VerdictInv, Handling, Closing, Phase
<1>3. /\ stage' \notin Handling \cup Closing =>
           Phase' = "working" /\ status' = "running" /\ disk_status' = "running"
      /\ stage' \in Handling => Phase' = "ending" /\ status' = "FAIL" /\ disk_status' = "running"
      /\ stage' = "finally" => Phase' = "ending"
  BY <1>1 DEF VerdictInv, Handling, Closing, Phase
<1>4. ASSUME Open' \in SUBSET Open,
             \/ stage \notin Handling \cup Closing /\ stage' \notin Handling \cup Closing
             \/ stage \in Handling /\ stage' \in Handling
             \/ UNCHANGED runVars
      PROVE  Contract!Release
  <2>1. UNCHANGED <<Phase, status, disk_status>>
    BY <1>2, <1>3, <1>4 DEF Phase
  <2> QED
    BY <1>4, <2>1 DEF Contract!Release
<1>5. ASSUME Open' \in SUBSET Open, stage \notin Handling \cup Closing, stage' \in Handling
      PROVE  Contract!Fail
  BY <1>2, <1>3, <1>5 DEF Contract!Fail
<1>6. CASE (Supervise \/ Environment) /\ UNCHANGED runVars
  BY <1>1, <1>4, <1>6, LetGo DEF Contract!Next
<1>7. CASE StartServer /\ Start
  BY <1>1, <1>7, StartAcquires DEF Contract!Next, Contract!Resources
<1>8. CASE Install \/ (StartServer /\ UNCHANGED vars) \/ WaitReady \/ Commands \/ Recovery
            \/ RecoveryStopped \/ RecoveryKilled \/ Shutdown \/ ShutdownStopped \/ ShutdownKilled
  <2>1. Call \/ UNCHANGED vars
    BY <1>8
       DEF Install, StartServer, WaitReady, Commands, Recovery, RecoveryStopped,
           RecoveryKilled, Shutdown, ShutdownStopped, ShutdownKilled, Call
  <2>2. /\ stage \notin Handling \cup Closing
        /\ stage' \notin Handling \cup Closing \/ stage' \in Handling
    BY <1>8
       DEF Install, StartServer, WaitReady, Commands, Recovery, RecoveryStopped, RecoveryKilled,
           Shutdown, ShutdownStopped, ShutdownKilled, Handling, Closing
  <2> QED
    BY <1>1, <1>4, <1>5, <2>1, <2>2, LetGo DEF Contract!Next
<1>9. CASE ResidualCheck
  <2>1. UNCHANGED vars /\ stage \notin Handling \cup Closing
    BY <1>9 DEF ResidualCheck, Handling, Closing
  <2>2. Open' \in SUBSET Open
    BY <1>1, <2>1, LetGo
  <2>3. CASE \E p \in Pids : RunningBds(p)
    BY <1>5, <1>9, <2>1, <2>2, <2>3 DEF ResidualCheck, Handling, Contract!Next
  <2>4. CASE ~\E p \in Pids : RunningBds(p)
    BY <1>2, <1>3, <1>9, <2>1, <2>2, <2>4 DEF ResidualCheck, Open, Contract!Next, Contract!Pass
  <2> QED
    BY <2>3, <2>4
<1>10. ~ResidualResult
  BY <1>1 DEF PassInv, ResidualResult
<1>11. CASE Handler \/ HandlerKill
  <2>1. Call \/ UNCHANGED vars
    BY <1>11 DEF Handler, HandlerKill, Call
  <2>2. /\ stage \in Handling /\ stage' \in Handling \cup {"finally"}
        /\ UNCHANGED <<status, disk_status>>
    BY <1>11 DEF Handler, HandlerKill, Handling
  <2>3. Phase' = Phase /\ Open' \in SUBSET Open
    BY <1>1, <1>2, <1>3, <2>1, <2>2, LetGo
  <2> QED
    BY <2>2, <2>3 DEF Contract!Next, Contract!Release
<1>12. CASE HandlerKilled \/ Finally
  <2>1. Open' = Open
    BY <1>12 DEF HandlerKilled, Finally, vars, osVars, objectVars, Open, RunningBds, Running,
                 Zombie, Exists, WrapperExited
  <2>2. Phase = "ending" /\ status' = status /\ disk_status' \in {disk_status, status}
    BY <1>2, <1>12 DEF HandlerKilled, Finally, Handling
  <2>3. CASE HandlerKilled
    <3>1. Phase' = "ending"
      BY <1>3, <2>3 DEF HandlerKilled
    <3> QED
      BY <2>1, <2>2, <3>1 DEF Contract!Next, Contract!Record, Contract!vars
  <2>4. CASE Finally
    <3>1. Phase' = IF disk_status' = status THEN "over" ELSE "abandoned"
      BY <2>2, <2>4 DEF Finally, Phase
    <3>2. disk_status' = status \/ disk_status' = disk_status
      BY <2>2
    <3>3. "fleet" \notin Open
      BY DEF Open
    <3> QED
      BY <2>1, <2>2, <3>1, <3>2, <3>3 DEF Contract!Next, Contract!End, Contract!Abandon
  <2> QED
    BY <1>12, <2>3, <2>4
<1>13. CASE ControllerCrash
  <2>1. Open' = Open /\ Phase' = "abandoned" /\ UNCHANGED <<status, disk_status>>
    BY <1>13 DEF ControllerCrash, Phase, vars, osVars, objectVars, Open, RunningBds, Running,
                 Zombie, Exists, WrapperExited
  <2>2. Phase \in {"working", "ending"}
    BY <1>13 DEF ControllerCrash, Phase
  <2> QED
    BY <2>1, <2>2 DEF Contract!Next, Contract!Abandon
<1>14. CASE UNCHANGED allVars
  BY <1>14 DEF allVars, vars, osVars, objectVars, Open, RunningBds, Running, Zombie, Exists,
               WrapperExited, Phase, Contract!vars
<1> QED
  BY <1>6, <1>7, <1>8, <1>9, <1>10, <1>11, <1>12, <1>13, <1>14
     DEF RunNext, Controller, RunEnded, StartServer

\* An integration run on Linux is a run of RunContract, as every validation run is: it passes
\* only with no server, starts none once it has a verdict, and is over only with its verdict
\* on disk (execute).
THEOREM RunKeepsContract == ASSUME ~Windows PROVE RunSpec => Contract!Spec
<1>1. RunInit => Contract!Init
  BY DEF RunInit, Init, Contract!Init, Phase, Open, RunningBds, Running, Exists, Free
<1>2. LinuxInv /\ LinuxInv' /\ [RunNext]_allVars => [Contract!Next]_Contract!vars
  BY ContractStep
<1> QED
  BY <1>1, <1>2, LinuxAlways, PTL DEF RunSpec, Contract!Spec
=============================================================================
