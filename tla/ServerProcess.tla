--------------------------- MODULE ServerProcess ---------------------------
(***************************************************************************)
(* The process supervisor of the test lab: class ServerProcess of          *)
(* controller/run_test.py, run against an operating system that creates,   *)
(* ends and recycles processes while the supervisor looks at them.         *)
(*                                                                         *)
(* One supervisor owns one wrapper process (python -m endstone), which     *)
(* spawns the Bedrock server.  A stop first takes a snapshot of the        *)
(* process tree, and a snapshot is not atomic: the root, the descendants   *)
(* and each liveness record are read by separate system calls, and         *)
(* processes spawn, exit and have their pids reused in between.            *)
(***************************************************************************)
EXTENDS Naturals

CONSTANTS Pids,       \* process identifiers of the machine
          NoPid,      \* no process
          Windows,    \* TRUE models os.name == "nt", FALSE models Linux
          MaxBirth    \* bound: how many processes are created (a server's start may be one more)

ASSUME ServerProcessAssumption ==
  /\ NoPid \notin Pids
  /\ Windows \in BOOLEAN
  /\ MaxBirth \in Nat

VARIABLES
  proc,         \* the OS process table: pid -> process record
  births,       \* creation times handed out so far (0 is "no creation time")
  exitcode,     \* how the wrapper ended, known to the OS
  pid,          \* self.pid
  returncode,   \* self.process.returncode: set by poll() and wait() only
  forced,       \* self._forced
  has_diagnostic,        \* bool(self.lifecycle_diagnostic)
  managed_processes,     \* self._managed_processes: pid -> creation time, 0 if none
  unverified_processes,  \* keys of self._unverified_processes
  root_identity_status,  \* self._root_identity_status
  process_tree_error,    \* self._process_tree_error is not None
  records,      \* the liveness record of each pid in the newest snapshot
  todo,         \* pids the running snapshot has not looked at yet
  ppid_map,     \* the parents psutil listed: children() reads them before anything else
  children,     \* creation times children() has read since: pid -> creation time, 0 if none
  listed_at,    \* births when the parents were listed (history)
  target,       \* root_target_status of force_kill_tree
  kill_list,    \* pids force_kill_tree still has to pass to taskkill
  cleanup_outcome,       \* lifecycle_diagnostic["cleanup_outcome"]
  forced_wait_timeout,   \* "forced_wait_timeout" in lifecycle_diagnostic
  result,       \* what the last finished call returned
  pc,           \* where the supervisor's thread is
  return_to     \* where the running snapshot returns to

osVars     == <<proc, births, exitcode>>
objectVars == <<pid, returncode, forced, has_diagnostic>>
listVars   == <<ppid_map, children, listed_at>>
treeVars   == <<managed_processes, unverified_processes, root_identity_status,
                process_tree_error, records, todo, listVars>>
stopVars   == <<target, kill_list, cleanup_outcome, forced_wait_timeout, result>>
control    == <<pc, return_to>>
vars == <<osVars, objectVars, treeVars, stopVars, control>>

---------------------------------------------------------------------------
(* The operating system.                                                   *)

\* A slot of the process table.  birth = 0 is an unused pid.  group is the
\* creation time of the group leader: the wrapper starts a new session, and
\* what it spawns stays in its group.
Free == [birth |-> 0, bds |-> FALSE, parent |-> NoPid, group |-> 0]

Process == [birth: Nat, bds: BOOLEAN, parent: Pids \cup {NoPid}, group: Nat]

Exists(p) == proc[p].birth # 0

WrapperExited == exitcode # "none"

\* A Linux wrapper that exited stays in the table as a zombie until it is reaped.
Zombie(p) == p = pid /\ WrapperExited /\ returncode = "none"

Running(p) == Exists(p) /\ ~Zombie(p)

\* A live process of the server: the wrapper or anything it spawned.
RunningBds(p) == Running(p) /\ proc[p].bds

\* The open Popen handle pins the wrapper's pid on Windows, the zombie does on Linux.
Pinned(p) == Windows /\ p = pid

\* The parent each process of the table was created with, or was left with.
Parents == [p \in Pids |-> proc[p].parent]

\* The processes that the links of a parent map reach from p.
Descendants(parents, p) ==
  {q \in Pids \ {p} :
     \A S \in SUBSET Pids : p \in S /\ (\A r \in Pids : parents[r] \in S => r \in S) => q \in S}

\* The table without the processes of K.  On Linux a wrapper that ends leaves its zombie
\* behind and init adopts the children of the dead; on Windows a child keeps the parent
\* pid it was created with, whoever gets that pid later.
Ended(K) ==
  [p \in Pids |->
     IF p \in K
       THEN IF p = pid /\ ~Windows /\ returncode = "none"
              THEN proc[p]
              ELSE Free
       ELSE IF ~Windows /\ proc[p].parent \in K
              THEN [proc[p] EXCEPT !.parent = NoPid]
              ELSE proc[p]]

\* The processes of K end; a killed wrapper has a nonzero exit code.
EndProcesses(K, code) ==
  /\ proc' = Ended(K)
  /\ exitcode' = IF pid \in K /\ ~WrapperExited THEN code ELSE exitcode

Born(p, isBds, parent, group) ==
  /\ births < MaxBirth
  /\ ~Exists(p)
  /\ ~Pinned(p)
  /\ births' = births + 1
  /\ proc' = [proc EXCEPT ![p] = [birth |-> births + 1, bds |-> isBds,
                                  parent |-> parent, group |-> group]]

\* A live process of the server spawns another one.
SpawnChild(q, p) ==
  /\ RunningBds(q)
  /\ Born(p, TRUE, q, proc[q].group)
  /\ UNCHANGED <<exitcode, objectVars, treeVars, stopVars, control>>

\* Another program of the machine starts, perhaps under a pid of a dead process, and
\* perhaps from another such program, whose group it joins.
SpawnForeign(p) ==
  /\ \/ Born(p, FALSE, NoPid, births + 1)
     \/ \E q \in Pids : Exists(q) /\ ~proc[q].bds /\ Born(p, FALSE, q, proc[q].group)
  /\ UNCHANGED <<exitcode, objectVars, treeVars, stopVars, control>>

\* A process ends by itself: the wrapper with any exit code.
Exit(p) ==
  /\ Running(p)
  /\ \E code \in {"zero", "nonzero"} : EndProcesses({p}, code)
  /\ UNCHANGED <<births, objectVars, treeVars, stopVars, control>>

Environment ==
  \E p \in Pids :
    \/ \E q \in Pids : SpawnChild(q, p)
    \/ SpawnForeign(p)
    \/ Exit(p)

---------------------------------------------------------------------------
(* Popen.                                                                  *)

\* poll(): the first call after the exit reaps the wrapper and frees its pid.
Poll ==
  IF WrapperExited /\ returncode = "none"
    THEN /\ returncode' = exitcode
         /\ proc' = [proc EXCEPT ![pid] = Free]
    ELSE UNCHANGED <<returncode, proc>>

\* __init__ and start(): the creation time of the wrapper may be unavailable.  A server is
\* replaced by a new one after a graceful stop.
Start ==
  /\ \/ pc = "none"
     \/ pc = "idle" /\ result = "graceful"
  /\ \E p \in Pids :
       /\ births <= MaxBirth
       /\ ~Exists(p)
       /\ births' = births + 1
       /\ proc' = [proc EXCEPT ![p] = [birth |-> births + 1, bds |-> TRUE,
                                       parent |-> NoPid, group |-> births + 1]]
       /\ pid' = p
       /\ \E created \in {0, births + 1} :
            managed_processes' = [q \in Pids |-> IF q = p THEN created ELSE 0]
  /\ exitcode' = "none"
  /\ returncode' = "none"
  /\ forced' = FALSE
  /\ has_diagnostic' = FALSE
  /\ unverified_processes' = {}
  /\ root_identity_status' = "unknown"
  /\ process_tree_error' = FALSE
  /\ records' = [q \in Pids |-> "none"]
  /\ todo' = {}
  /\ target' = "unknown"
  /\ kill_list' = {}
  /\ cleanup_outcome' = "not_attempted"
  /\ forced_wait_timeout' = FALSE
  /\ result' = "none"
  /\ pc' = "idle"
  /\ UNCHANGED <<listVars, return_to>>

---------------------------------------------------------------------------
(* process_tree_snapshot.                                                  *)

\* Begin a snapshot that continues at label.
Snapshot(label) ==
  /\ pc' = "root"
  /\ return_to' = label

\* process_ids: every pid the supervisor has ever had a reason to look at.
KnownPids(managed, unverified) ==
  {p \in Pids : managed[p] # 0} \cup unverified \cup {pid}

\* Fault: the wrapper's creation time is not compared.
RootIdentity_NotCompared ==
  IF managed_processes[pid] = 0 THEN "unknown" ELSE "verified"

\* The identity of the process that has the wrapper's pid now: a pid is the wrapper's only
\* with the creation time start() recorded.
RootIdentity ==
  IF managed_processes[pid] = 0 THEN "unknown"
  ELSE IF managed_processes[pid] = proc[pid].birth THEN "verified" ELSE "mismatch"

\* The wrapper's pid is looked up.  A lookup that is denied leaves the status unknown.
SnapshotRoot ==
  /\ pc = "root"
  /\ \/ /\ ~Exists(pid)
        /\ Poll
        /\ process_tree_error' = FALSE
        /\ root_identity_status' =
             IF managed_processes[pid] # 0 /\ WrapperExited THEN "absent" ELSE "unknown"
     \/ /\ process_tree_error' = TRUE
        /\ root_identity_status' = "unknown"
        /\ UNCHANGED <<proc, returncode>>
     \/ /\ Exists(pid)
        /\ process_tree_error' = FALSE
        /\ root_identity_status' = RootIdentity
        /\ UNCHANGED <<proc, returncode>>
  /\ records' = [p \in Pids |-> "none"]
  /\ todo' = KnownPids(managed_processes, unverified_processes)
  /\ pc' = IF root_identity_status' = "verified" THEN "descendants" ELSE "records"
  /\ UNCHANGED <<births, exitcode, pid, forced, has_diagnostic, managed_processes,
                 unverified_processes, listVars, stopVars, return_to>>

NoParents == [p \in Pids |-> NoPid]
NoChildren == [p \in Pids |-> 0]

\* The descendants are known; the liveness records come next.
ToRecords ==
  /\ todo' = KnownPids(managed_processes', unverified_processes')
  /\ ppid_map' = NoParents
  /\ children' = NoChildren
  /\ listed_at' = 0
  /\ pc' = "records"

\* children(recursive=True) of a verified root begins by listing the parent of every process
\* there is, and may fail.
SnapshotDescendants ==
  /\ pc = "descendants"
  /\ UNCHANGED <<managed_processes, unverified_processes>>
  /\ \/ process_tree_error' = TRUE /\ ToRecords
     \/ /\ \A p \in Pids \ {pid} : proc[p].parent # pid
        /\ ToRecords
        /\ UNCHANGED process_tree_error
     \/ /\ \E p \in Pids \ {pid} : proc[p].parent = pid
        /\ ppid_map' = Parents
        /\ listed_at' = births
        /\ todo' = {p \in Pids \ {pid} : proc[p].parent = pid}
        /\ pc' = "children"
        /\ UNCHANGED <<children, process_tree_error>>
  /\ UNCHANGED <<osVars, objectVars, root_identity_status, records, stopVars, return_to>>

\* psutil takes a listed pid for a descendant unless its process, whichever has the pid by
\* now, is older than the root.
InTime(p) == proc[p].birth > managed_processes[pid]

\* The creation times read, and the pids still to look up, when p has been: those the map
\* gives to a descendant are next.
Found(p) == IF InTime(p) THEN [children EXCEPT ![p] = proc[p].birth] ELSE children

Left(p) == (todo \ {p}) \cup {q \in Pids \ {pid} : InTime(p) /\ ppid_map[q] = p}

\* The descendants that were found are adopted, each with the creation time that was read.
\* One whose creation time is denied, or differs from the adopted one, is unverified.
Adopt(found) ==
  LET listed == {p \in Pids \ {pid} : found[p] # 0}
  IN \E denied \in SUBSET listed :
       LET adopted == {p \in listed \ denied : managed_processes[p] \in {0, found[p]}}
       IN /\ managed_processes' =
               [p \in Pids |-> IF p \in adopted THEN found[p] ELSE managed_processes[p]]
          /\ unverified_processes' = (unverified_processes \cup listed) \ adopted

\* Then it looks up one listed pid after another.  A lookup that is denied ends the listing
\* without descendants.
SnapshotChild(p) ==
  /\ pc = "children"
  /\ p \in todo
  /\ \/ /\ process_tree_error' = TRUE
        /\ UNCHANGED <<managed_processes, unverified_processes>>
        /\ ToRecords
     \/ /\ Left(p) # {}
        /\ todo' = Left(p)
        /\ children' = Found(p)
        /\ UNCHANGED <<managed_processes, unverified_processes, process_tree_error, ppid_map,
                       listed_at, pc>>
     \/ /\ Left(p) = {}
        /\ Adopt(Found(p))
        /\ ToRecords
        /\ UNCHANGED process_tree_error
  /\ UNCHANGED <<osVars, objectVars, root_identity_status, records, stopVars, return_to>>

\* One liveness record.  "unknown" stands for every record that fails verification: an
\* identity that does not match, or a liveness that could not be read.
RecordsOf(p) ==
  IF p \in unverified_processes \/ root_identity_status \notin {"verified", "absent"}
    THEN {"unknown"}
    ELSE IF p = pid /\ root_identity_status = "absent"
           THEN {"dead"}
           ELSE IF ~Exists(p)
                  THEN {"dead", "unknown"}
                  ELSE IF proc[p].birth = managed_processes[p]
                         THEN {"alive", "unknown"}
                         ELSE {"unknown"}

SnapshotRecord(p) ==
  /\ pc = "records"
  /\ p \in todo
  /\ \E r \in RecordsOf(p) : records' = [records EXCEPT ![p] = r]
  /\ todo' = todo \ {p}
  /\ pc' = IF todo' = {} THEN return_to ELSE pc
  /\ UNCHANGED <<osVars, objectVars, managed_processes, unverified_processes,
                 root_identity_status, process_tree_error, listVars, stopVars, return_to>>

SnapshotStep ==
  \/ SnapshotRoot
  \/ SnapshotDescendants
  \/ \E p \in Pids : SnapshotChild(p)
  \/ \E p \in Pids : SnapshotRecord(p)

AliveRecords == {p \in Pids : records[p] = "alive"}

\* Fault: only records that say alive count, as in managed_residual_processes.
TreeOutcome_AliveOnly == IF AliveRecords # {} THEN "residual-processes" ELSE "clean"

\* _process_tree_cleanup_outcome
TreeOutcome ==
  IF \/ root_identity_status \notin {"verified", "absent"}
     \/ process_tree_error
     \/ unverified_processes # {}
     \/ \E p \in Pids : records[p] = "unknown"
    THEN "verification-failed"
    ELSE IF AliveRecords # {} THEN "residual-processes" ELSE "clean"

\* _windows_root_target_status
RootTargetStatus ==
  CASE root_identity_status = "absent" /\ records[pid] # "unknown" -> "absent"
    [] root_identity_status = "verified" /\ records[pid] = "alive" -> "verified"
    [] root_identity_status = "verified" /\ records[pid] = "dead"  -> "absent"
    [] root_identity_status = "mismatch" -> "mismatch"
    [] OTHER -> "unknown"

---------------------------------------------------------------------------
(* graceful_stop.                                                          *)

\* A call runs while pc is not "idle"; its result is there once it has returned.
Enter(label) ==
  /\ pc = "idle"
  /\ Snapshot(label)
  /\ result' = "none"

Return(value) ==
  /\ pc' = "idle"
  /\ result' = value

\* _begin_lifecycle, after its snapshot: a new diagnostic.
NewDiagnostic ==
  /\ has_diagnostic' = TRUE
  /\ cleanup_outcome' = "not_attempted"
  /\ forced_wait_timeout' = FALSE

\* Fault: the forced flag is not looked at.
GracefulStop_ForgetsForce ==
  /\ Enter("stop_begun")
  /\ UNCHANGED <<osVars, objectVars, treeVars, target, kill_list, cleanup_outcome,
                 forced_wait_timeout>>

GracefulStop ==
  /\ Enter(IF forced THEN "stop_forced" ELSE "stop_begun")
  /\ UNCHANGED <<osVars, objectVars, treeVars, target, kill_list, cleanup_outcome,
                 forced_wait_timeout>>

\* A supervisor that ever forced a kill does not report a graceful stop any more.
StopForced ==
  /\ pc = "stop_forced"
  /\ cleanup_outcome' = "forced"
  /\ Return("not-graceful")
  /\ UNCHANGED <<osVars, objectVars, treeVars, target, kill_list, forced_wait_timeout,
                 return_to>>

\* alive_before is read after the first snapshot, and decides with the identity that
\* snapshot found.
StopBegun ==
  /\ pc = "stop_begun"
  /\ Poll
  /\ NewDiagnostic
  /\ IF WrapperExited
       THEN Snapshot(IF Windows /\ root_identity_status # "absent"
                       THEN "stop_refused" ELSE "stop_already_exited")
       ELSE IF Windows /\ root_identity_status # "verified"
              THEN Snapshot("stop_refused")
              ELSE pc' = "stop_command" /\ UNCHANGED return_to
  /\ UNCHANGED <<births, exitcode, pid, forced, treeVars, target, kill_list, result>>

StopRefused ==
  /\ pc = "stop_refused"
  /\ cleanup_outcome' = "verification-failed"
  /\ Return("not-graceful")
  /\ UNCHANGED <<osVars, objectVars, treeVars, target, kill_list, forced_wait_timeout,
                 return_to>>

StopAlreadyExited ==
  /\ pc = "stop_already_exited"
  /\ Return(IF ~Windows \/ TreeOutcome = "clean" THEN "graceful" ELSE "not-graceful")
  /\ UNCHANGED <<osVars, objectVars, treeVars, target, kill_list, cleanup_outcome,
                 forced_wait_timeout, return_to>>

\* command("stop") checks is_alive() again; the write can fail on a broken pipe.
StopCommand ==
  /\ pc = "stop_command"
  /\ Poll
  /\ \/ ~WrapperExited /\ pc' = "stop_wait" /\ UNCHANGED return_to
     \/ Snapshot("stop_command_failed")
  /\ UNCHANGED <<births, exitcode, pid, forced, has_diagnostic, treeVars, stopVars>>

StopCommandFailed ==
  /\ pc \in {"stop_command_failed", "stop_timeout"}
  /\ Return("not-graceful")
  /\ UNCHANGED <<osVars, objectVars, treeVars, target, kill_list, cleanup_outcome,
                 forced_wait_timeout, return_to>>

\* process.wait(timeout): the wrapper is reaped, or the time is up.
StopWait ==
  /\ pc = "stop_wait"
  /\ Poll
  /\ Snapshot(IF WrapperExited THEN "stop_exited" ELSE "stop_timeout")
  /\ UNCHANGED <<births, exitcode, pid, forced, has_diagnostic, treeVars, stopVars>>

StopExited ==
  /\ pc = "stop_exited"
  /\ IF Windows /\ TreeOutcome # "clean"
       THEN cleanup_outcome' = TreeOutcome /\ Return("not-graceful")
       ELSE IF returncode = "zero"
              THEN cleanup_outcome' = "graceful-exit" /\ Return("graceful")
              ELSE cleanup_outcome' = "nonzero-exit" /\ Return("not-graceful")
  /\ UNCHANGED <<osVars, objectVars, treeVars, target, kill_list, forced_wait_timeout,
                 return_to>>

StopStep ==
  \/ StopForced \/ StopBegun \/ StopRefused \/ StopAlreadyExited
  \/ StopCommand \/ StopCommandFailed \/ StopWait \/ StopExited

---------------------------------------------------------------------------
(* force_kill_tree.                                                        *)

ForceKillTree ==
  /\ Enter(IF has_diagnostic THEN "kill_before" ELSE "kill_begun")
  /\ forced' = TRUE
  /\ UNCHANGED <<osVars, pid, returncode, has_diagnostic, treeVars, target, kill_list,
                 cleanup_outcome, forced_wait_timeout>>

KillBegun ==
  /\ pc = "kill_begun"
  /\ Poll
  /\ NewDiagnostic
  /\ Snapshot("kill_before")
  /\ UNCHANGED <<births, exitcode, pid, forced, treeVars, target, kill_list, result>>

KillSafe == {"verified", "absent"}

\* Fault: the wrapper is not polled before it is killed.
KillTargetsRoot_Unpolled == Windows => RootTargetStatus = "verified"

\* The wrapper is a target only while poll() says it runs, and on Windows only if the
\* snapshot verified its identity.
KillTargetsRoot == ~WrapperExited /\ (Windows => RootTargetStatus = "verified")

\* What to kill is decided by the snapshot and by a poll() that follows it.
KillBefore ==
  /\ pc = "kill_before"
  /\ Poll
  /\ target' = RootTargetStatus
  /\ root_identity_status' =
       IF RootTargetStatus \in KillSafe THEN RootTargetStatus ELSE root_identity_status
  /\ kill_list' = IF WrapperExited /\ Windows /\ RootTargetStatus \in KillSafe
                    THEN AliveRecords \ {pid} ELSE {}
  /\ pc' = IF KillTargetsRoot THEN "kill_root" ELSE "kill_captured"
  /\ UNCHANGED <<births, exitcode, pid, forced, has_diagnostic, managed_processes,
                 unverified_processes, process_tree_error, records, todo, listVars,
                 cleanup_outcome, forced_wait_timeout, result, return_to>>

\* The processes of the wrapper's process group.
Group == {p \in Pids : Exists(p) /\ proc[p].group = proc[pid].group}

\* Linux signals the whole process group of the wrapper's pid, and those it ends at once
\* may be any of them: a process in the kernel ends later, by Exit.  taskkill on Windows
\* names the wrapper alone, and may fail or raise on its own timeout.
KillRoot ==
  /\ pc = "kill_root"
  /\ IF Windows
       THEN \/ /\ \/ Exists(pid) /\ EndProcesses({pid}, "nonzero")
                  \/ UNCHANGED <<proc, exitcode>>
               /\ pc' = "kill_wait"
               /\ UNCHANGED result
            \/ Return("raised") /\ UNCHANGED <<proc, exitcode>>
       ELSE /\ \E K \in SUBSET Group : EndProcesses(K, "nonzero")
            /\ pc' = "kill_wait"
            /\ UNCHANGED result
  /\ UNCHANGED <<births, objectVars, treeVars, target, kill_list, cleanup_outcome,
                 forced_wait_timeout, return_to>>

\* wait(15): the wrapper is reaped, or the time is up and kill() goes through the handle,
\* followed by wait(5).
KillWait ==
  /\ pc = "kill_wait"
  /\ Poll
  /\ \/ WrapperExited /\ Snapshot("kill_after")
     \/ ~WrapperExited /\ pc' = "kill_handle" /\ UNCHANGED return_to
  /\ UNCHANGED <<births, exitcode, pid, forced, has_diagnostic, treeVars, stopVars>>

KillHandle ==
  /\ pc = "kill_handle"
  /\ \/ EndProcesses({pid}, "nonzero")
     \/ UNCHANGED <<proc, exitcode>>
  /\ pc' = "kill_wait_again"
  /\ UNCHANGED <<births, objectVars, treeVars, stopVars, return_to>>

\* Fault: a wrapper that outlives kill() too is passed over.
KillWaitAgain_Silent ==
  /\ pc = "kill_wait_again"
  /\ Poll
  /\ Snapshot("kill_after")
  /\ UNCHANGED <<births, exitcode, pid, forced, has_diagnostic, treeVars, stopVars>>

\* wait(5): a wrapper that outlives kill() too is noted in the diagnostic, and no exception.
KillWaitAgain ==
  /\ pc = "kill_wait_again"
  /\ Poll
  /\ forced_wait_timeout' = (forced_wait_timeout \/ ~WrapperExited)
  /\ Snapshot("kill_after")
  /\ UNCHANGED <<births, exitcode, pid, forced, has_diagnostic, treeVars, target, kill_list,
                 cleanup_outcome, result>>

\* taskkill /T /F on a pid of the list ends whatever tree the pid names now, fails, or
\* raises on its timeout.
TaskKill(p) ==
  /\ p \in kill_list
  /\ \/ /\ \/ Exists(p) /\ EndProcesses({p} \cup Descendants(Parents, p), "nonzero")
           \/ UNCHANGED <<proc, exitcode>>
        /\ kill_list' = kill_list \ {p}
        /\ UNCHANGED <<pc, result>>
     \/ Return("raised") /\ kill_list' = {} /\ UNCHANGED <<proc, exitcode>>
  /\ UNCHANGED <<births, objectVars, treeVars, target, cleanup_outcome,
                 forced_wait_timeout, return_to>>

KillCaptured ==
  /\ pc = "kill_captured"
  /\ \/ \E p \in Pids : TaskKill(p)
     \/ /\ kill_list = {}
        /\ Snapshot("kill_after")
        /\ UNCHANGED <<osVars, objectVars, treeVars, stopVars>>

\* What the second snapshot still finds alive on Windows is killed in turn.
KillAfter ==
  /\ pc = "kill_after"
  /\ kill_list' = IF Windows /\ target \in KillSafe THEN AliveRecords \ {pid} ELSE {}
  /\ pc' = IF kill_list' = {} THEN "kill_done" ELSE "kill_residual"
  /\ UNCHANGED <<osVars, objectVars, treeVars, target, cleanup_outcome,
                 forced_wait_timeout, result, return_to>>

KillResidual ==
  /\ pc = "kill_residual"
  /\ \/ \E p \in Pids : TaskKill(p)
     \/ /\ kill_list = {}
        /\ Snapshot("kill_done")
        /\ UNCHANGED <<osVars, objectVars, treeVars, stopVars>>

KillDone ==
  /\ pc = "kill_done"
  /\ cleanup_outcome' = TreeOutcome
  /\ Return("killed")
  /\ UNCHANGED <<osVars, objectVars, treeVars, target, kill_list, forced_wait_timeout,
                 return_to>>

KillStep ==
  \/ KillBegun \/ KillBefore \/ KillRoot \/ KillWait \/ KillHandle \/ KillWaitAgain
  \/ KillCaptured \/ KillAfter \/ KillResidual \/ KillDone

---------------------------------------------------------------------------
(* managed_residual_processes and is_alive.  close() ends the reader        *)
(* thread and the pipes, which are not modelled.                           *)

ManagedResidualProcesses ==
  /\ Enter("residual")
  /\ UNCHANGED <<osVars, objectVars, treeVars, target, kill_list, cleanup_outcome,
                 forced_wait_timeout>>

ResidualDone ==
  /\ pc = "residual"
  /\ Return(IF AliveRecords # {} THEN "residual" ELSE "no-residual")
  /\ UNCHANGED <<osVars, objectVars, treeVars, target, kill_list, cleanup_outcome,
                 forced_wait_timeout, return_to>>

IsAlive ==
  /\ pc = "idle"
  /\ Poll
  /\ UNCHANGED <<births, exitcode, pid, forced, has_diagnostic, treeVars, stopVars, control>>

---------------------------------------------------------------------------

\* Everything the supervisor's thread does inside a call.
Supervise == SnapshotStep \/ StopStep \/ KillStep \/ ResidualDone

\* The calls its owner makes; the thread is idle between them.
Call == GracefulStop \/ ForceKillTree \/ ManagedResidualProcesses \/ IsAlive

Init ==
  /\ proc = [p \in Pids |-> Free]
  /\ births = 0
  /\ exitcode = "none"
  /\ pid = NoPid
  /\ returncode = "none"
  /\ forced = FALSE
  /\ has_diagnostic = FALSE
  /\ managed_processes = [p \in Pids |-> 0]
  /\ unverified_processes = {}
  /\ root_identity_status = "unknown"
  /\ process_tree_error = FALSE
  /\ records = [p \in Pids |-> "none"]
  /\ todo = {}
  /\ ppid_map = NoParents
  /\ children = NoChildren
  /\ listed_at = 0
  /\ target = "unknown"
  /\ kill_list = {}
  /\ cleanup_outcome = "not_attempted"
  /\ forced_wait_timeout = FALSE
  /\ result = "none"
  /\ pc = "none"
  /\ return_to = "idle"

Next == Start \/ Call \/ Supervise \/ Environment

Spec == Init /\ [][Next]_vars

---------------------------------------------------------------------------
(* Properties.                                                             *)

PcLabels ==
  {"none", "idle", "root", "descendants", "children", "records", "stop_forced",
   "stop_begun", "stop_refused", "stop_already_exited", "stop_command", "stop_command_failed",
   "stop_timeout", "stop_wait", "stop_exited", "kill_begun", "kill_before", "kill_root",
   "kill_wait", "kill_handle", "kill_wait_again", "kill_captured", "kill_after",
   "kill_residual", "kill_done", "residual"}

\* Every variable has its type; a wrapper is known whenever the supervisor runs.
TypeOK ==
  /\ proc \in [Pids -> Process]
  /\ births \in Nat
  /\ exitcode \in {"none", "zero", "nonzero"}
  /\ pid \in Pids \cup {NoPid}
  /\ pc # "none" => pid \in Pids
  /\ returncode \in {"none", "zero", "nonzero"}
  /\ forced \in BOOLEAN
  /\ has_diagnostic \in BOOLEAN
  /\ managed_processes \in [Pids -> Nat]
  /\ unverified_processes \in SUBSET Pids
  /\ root_identity_status \in {"unknown", "verified", "absent", "mismatch"}
  /\ process_tree_error \in BOOLEAN
  /\ records \in [Pids -> {"none", "alive", "dead", "unknown"}]
  /\ todo \in SUBSET Pids
  /\ ppid_map \in [Pids -> Pids \cup {NoPid}]
  /\ children \in [Pids -> Nat]
  /\ listed_at \in Nat
  /\ target \in {"unknown", "verified", "absent", "mismatch"}
  /\ kill_list \in SUBSET Pids
  /\ cleanup_outcome \in {"not_attempted", "forced", "verification-failed", "graceful-exit",
                          "nonzero-exit", "residual-processes", "clean"}
  /\ forced_wait_timeout \in BOOLEAN
  /\ result \in {"none", "graceful", "not-graceful", "killed", "raised",
                 "residual", "no-residual"}
  /\ pc \in PcLabels
  /\ return_to \in PcLabels

\* A process the supervisor adopted, and that is still that process, is alive.
KnownAlive(p) == managed_processes[p] # 0 /\ proc[p].birth = managed_processes[p]

KnownDead == \A p \in Pids : ~KnownAlive(p)

\* A cleanup outcome in the evidence tells the truth for as long as it is there: after
\* "clean" every adopted process is gone and the wrapper has ended, after
\* "graceful-exit" the wrapper ended with exit code 0, and on Windows, where the tree is
\* verified, so has every adopted process (force_kill_tree, graceful_stop).
CleanupOutcomeSound ==
  /\ cleanup_outcome = "clean" => KnownDead /\ WrapperExited
  /\ cleanup_outcome = "graceful-exit" =>
       returncode = "zero" /\ (Windows => KnownDead)

\* graceful_stop never returns True for a server that was killed by force, nor before the
\* wrapper is reaped, nor on Windows while an adopted process lives.
GracefulSound ==
  result = "graceful" =>
    ~forced /\ returncode # "none" /\ (Windows => KnownDead)

\* The tree of a server is the wrapper and its descendants: whatever pids are reused while
\* a snapshot is read, the supervisor adopts, and so selects for a kill, a process of
\* another program only if it took over a pid after the snapshot had listed the parents,
\* while the listed pids were being looked up (process_tree_snapshot).  True on Linux.
AdoptsOnlyOwn ==
  [][\A p \in Pids :
       KnownAlive(p)' /\ ~KnownAlive(p) => proc'[p].bds \/ proc'[p].birth > listed_at]_vars

\* Killing the server through its wrapper, the process group on Linux or the wrapper's pid
\* on Windows, never ends another program, although the wrapper's pid may be in use again
\* (force_kill_tree).  On Linux nothing else the supervisor does ends one either.
SparesOtherPrograms ==
  [][(pc' # pc /\ (~Windows \/ pc \in {"kill_root", "kill_handle"})) =>
       \A p \in Pids : Exists(p) /\ ~proc[p].bds => proc'[p] = proc[p]]_vars

=============================================================================
