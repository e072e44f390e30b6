---------------------------- MODULE TaskAffinity ----------------------------
(***************************************************************************)
(* CPU isolation of one process for a measurement, thread by thread, from  *)
(* controller/candidate_a_blocked_benchmark.py: capture_process_affinity,  *)
(* pin_and_verify_task_affinity and restore_process_affinity, called by    *)
(* apply_measurement_affinity and _restore_affinity.                       *)
(*                                                                         *)
(* Linux keeps a CPU mask per thread and has no call that sets the masks   *)
(* of all threads.  The controller lists /proc/<pid>/task and visits the   *)
(* listed threads one after the other, while threads of the process spawn  *)
(* (a new thread has the mask of the thread that spawned it) and exit.     *)
(***************************************************************************)
EXTENDS Naturals

CONSTANTS Tids,         \* thread ids; none is used again within a behaviour
          Main,         \* the main thread: its id is the process id
          Masks,        \* CPU sets
          NoMask,       \* no entry in a dictionary of masks
          Pin,          \* the CPU set of the measurement
          MaxAttempts   \* rounds a loop tries before it gives up: 8 in the code

ASSUME TaskAffinityAssumption ==
  /\ Main \in Tids
  /\ Pin \in Masks
  /\ NoMask \notin Masks
  /\ MaxAttempts \in Nat \ {0}

VARIABLES
  live,        \* threads of the process
  born,        \* thread ids used so far
  mask,        \* the kernel's mask of each thread
  captured,    \* snapshot["tid_affinities"] as capture_task_affinity returned it
  original,    \* the same dictionary, to which the pin adds the threads it meets
  process_affinity,  \* snapshot["process_affinity"]
  tids,        \* the listing of the current round
  todo,        \* listed threads the round has not visited yet
  observed,    \* threads whose mask was read as wanted: the keys of observed, final_restored
  failures,    \* the keys of failures in restore_process_affinity
  attempt,     \* rounds begun
  pc           \* the statement that is next

kernelVars == <<live, born, mask>>
baseVars   == <<captured, original, process_affinity>>
roundVars  == <<tids, todo, observed, failures, attempt>>
vars == <<kernelVars, baseVars, roundVars, pc>>

Dictionary == [Tids -> Masks \cup {NoMask}]

Keys(d) == {t \in Tids : d[t] # NoMask}

---------------------------------------------------------------------------
(* The process.                                                            *)

Spawn(t, u) ==
  /\ t \in live
  /\ u \in Tids \ born
  /\ live' = live \cup {u}
  /\ born' = born \cup {u}
  /\ mask' = [mask EXCEPT ![u] = mask[t]]
  /\ UNCHANGED <<baseVars, roundVars, pc>>

ThreadExit(t) ==
  /\ t \in live \ {Main}
  /\ live' = live \ {t}
  /\ UNCHANGED <<born, mask, baseVars, roundVars, pc>>

ProcessExit ==
  /\ live # {}
  /\ live' = {}
  /\ UNCHANGED <<born, mask, baseVars, roundVars, pc>>

Process ==
  \/ \E t, u \in Tids : Spawn(t, u)
  \/ \E t \in Tids : ThreadExit(t)
  \/ ProcessExit

---------------------------------------------------------------------------
(* Steps the three operations share.                                       *)

\* _linux_task_ids: a listing without tasks is an error.
List(next) ==
  /\ live # {}
  /\ tids' = live
  /\ todo' = live
  /\ pc' = next

\* The operation returns or raises, and its local variables are gone.
Leave(where) ==
  /\ tids' = {}
  /\ todo' = {}
  /\ observed' = {}
  /\ failures' = {}
  /\ attempt' = 0
  /\ pc' = where

Fail(where) ==
  /\ Leave(where)
  /\ UNCHANGED <<kernelVars, baseVars>>

\* Threads that were not in the listing of the round.
Newcomers == live \ tids

---------------------------------------------------------------------------
(* capture_process_affinity and capture_task_affinity.                     *)

\* A process that was restored can be measured again.
CaptureProcess ==
  /\ pc \in {"idle", "restored"}
  /\ Main \in live
  /\ process_affinity' = mask[Main]
  /\ captured' = [t \in Tids |-> NoMask]
  /\ pc' = "capture_list"
  /\ UNCHANGED <<kernelVars, original, roundVars>>

CaptureList ==
  /\ pc = "capture_list"
  /\ attempt < MaxAttempts
  /\ List("capture_visit")
  /\ attempt' = attempt + 1
  /\ UNCHANGED <<kernelVars, baseVars, observed, failures>>

\* A thread that exited since the listing cannot be queried.
CaptureVisit(t) ==
  /\ pc = "capture_visit"
  /\ t \in todo
  /\ t \in live \cup Keys(captured)
  /\ captured' = IF t \in Keys(captured) THEN captured
                                         ELSE [captured EXCEPT ![t] = mask[t]]
  /\ todo' = todo \ {t}
  /\ UNCHANGED <<kernelVars, original, process_affinity, tids, observed, failures, attempt, pc>>

\* The snapshot keeps the threads of the second listing, once all of them are captured.
CaptureCheck ==
  /\ pc = "capture_visit"
  /\ todo = {}
  /\ live # {}
  /\ IF live \subseteq Keys(captured)
       THEN /\ captured' = [t \in Tids |-> IF t \in live THEN captured[t] ELSE NoMask]
            /\ original' = captured'
            /\ Leave("pin_process")
       ELSE /\ pc' = "capture_list"
            /\ UNCHANGED <<captured, original, roundVars>>
  /\ UNCHANGED <<kernelVars, process_affinity>>

CaptureFail ==
  /\ pc \in {"idle", "restored", "capture_list", "capture_visit"}
  /\ \/ live = {}
     \/ pc = "capture_list" /\ attempt = MaxAttempts
     \/ pc = "capture_visit" /\ \E t \in todo : t \notin live \cup Keys(captured)
  /\ Fail("capture_failed")

CaptureStep ==
  \/ CaptureList \/ CaptureCheck \/ CaptureFail
  \/ \E t \in Tids : CaptureVisit(t)

---------------------------------------------------------------------------
(* pin_and_verify_task_affinity.                                           *)

\* apply_measurement_affinity: process.cpu_affinity([controlled]) sets the mask of the main
\* thread alone.
PinProcess ==
  /\ pc = "pin_process"
  /\ Main \in live
  /\ mask' = [mask EXCEPT ![Main] = Pin]
  /\ pc' = "pin_list"
  /\ UNCHANGED <<live, born, baseVars, roundVars>>

PinList ==
  /\ pc = "pin_list"
  /\ attempt < MaxAttempts
  /\ List("pin_visit")
  /\ attempt' = attempt + 1
  /\ UNCHANGED <<kernelVars, baseVars, observed, failures>>

\* Fault: only threads of the snapshot are pinned, new ones are merely recorded.
PinVisit_SnapshotOnly(t) ==
  /\ pc = "pin_visit"
  /\ t \in todo
  /\ t \in live
  /\ original' = [original EXCEPT ![t] = IF @ = NoMask THEN process_affinity ELSE @]
  /\ mask' = IF t \in Keys(captured) THEN [mask EXCEPT ![t] = Pin] ELSE mask
  /\ observed' = observed \cup {t}
  /\ todo' = todo \ {t}
  /\ UNCHANGED <<live, born, captured, process_affinity, tids, failures, attempt, pc>>

\* A thread without an entry gets the process affinity as its original one, and every
\* visited thread the target mask.
PinVisit(t) ==
  /\ pc = "pin_visit"
  /\ t \in todo
  /\ t \in live
  /\ original' = IF t \in Keys(original) THEN original
                                         ELSE [original EXCEPT ![t] = process_affinity]
  /\ mask' = [mask EXCEPT ![t] = Pin]
  /\ observed' = observed \cup {t}
  /\ todo' = todo \ {t}
  /\ UNCHANGED <<live, born, captured, process_affinity, tids, failures, attempt, pc>>

\* The round is stable if the second listing has no newcomer.
PinCheck ==
  /\ pc = "pin_visit"
  /\ todo = {}
  /\ live # {}
  /\ pc' = IF Newcomers = {} THEN "pin_final" ELSE "pin_list"
  /\ UNCHANGED <<kernelVars, baseVars, roundVars>>

\* The final listing may not have a thread that was never observed.
PinFinal ==
  /\ pc = "pin_final"
  /\ live # {}
  /\ live \subseteq observed
  /\ Leave("pinned")
  /\ UNCHANGED <<kernelVars, baseVars>>

\* A thread that exits under the visit, a mask that cannot be set, an unstable task set.
PinFail ==
  /\ pc \in {"pin_process", "pin_list", "pin_visit", "pin_final"}
  /\ \/ live = {}
     \/ pc \in {"pin_process", "pin_visit"}
     \/ pc = "pin_list" /\ attempt = MaxAttempts
     \/ pc = "pin_final" /\ ~(live \subseteq observed)
  /\ Fail("pin_failed")

PinStep ==
  \/ PinProcess \/ PinList \/ PinCheck \/ PinFinal \/ PinFail
  \/ \E t \in Tids : PinVisit(t)

---------------------------------------------------------------------------
(* restore_process_affinity.                                               *)

\* Fault: a thread without an entry has no default.
Target_NoDefault(t) == original[t]

\* The mask a thread is restored to: its original one, or the process affinity.
Target(t) == IF t \in Keys(original) THEN original[t] ELSE process_affinity

\* Called when the measurement ended, when the pin failed, and again when a restoration
\* failed (execute: the try block, the except and the finally clause).
Restore ==
  /\ pc \in {"pinned", "pin_failed", "restore_failed"}
  /\ pc' = "restore_process"
  /\ UNCHANGED <<kernelVars, baseVars, roundVars>>

\* Each round first restores the mask of the main thread, then lists the threads.
RestoreProcess ==
  /\ pc = "restore_process"
  /\ attempt < MaxAttempts
  /\ Main \in live
  /\ mask' = [mask EXCEPT ![Main] = process_affinity]
  /\ attempt' = attempt + 1
  /\ pc' = "restore_list"
  /\ UNCHANGED <<live, born, baseVars, tids, todo, observed, failures>>

RestoreList ==
  /\ pc = "restore_list"
  /\ List("restore_visit")
  /\ UNCHANGED <<kernelVars, baseVars, observed, failures, attempt>>

\* A mask that is refused, or set and not read back, is a failure, unless the thread has
\* exited by now.
RestoreVisit(t) ==
  /\ pc = "restore_visit"
  /\ t \in todo
  /\ \/ /\ t \in live
        /\ mask' = [mask EXCEPT ![t] = Target(t)]
        /\ observed' = observed \cup {t}
        /\ UNCHANGED failures
     \/ /\ t \in live
        /\ failures' = failures \cup {t}
        /\ observed' = observed \ {t}
        /\ mask' \in {mask, [mask EXCEPT ![t] = Target(t)]}
     \/ /\ t \notin live
        /\ failures' = failures \ {t}
        /\ observed' = observed \ {t}
        /\ UNCHANGED mask
  /\ todo' = todo \ {t}
  /\ UNCHANGED <<live, born, baseVars, tids, attempt, pc>>

RestoreCheck ==
  /\ pc = "restore_visit"
  /\ todo = {}
  /\ live # {}
  /\ failures' = failures \cap live
  /\ observed' = observed \cap live
  /\ pc' = IF Newcomers = {} THEN "restore_verify" ELSE "restore_process"
  /\ UNCHANGED <<kernelVars, baseVars, tids, todo, attempt>>

\* The process affinity is read back, and the threads are listed once more.
RestoreVerify ==
  /\ pc = "restore_verify"
  /\ Main \in live
  /\ mask[Main] = process_affinity
  /\ List("restore_final")
  /\ observed' = {}
  /\ UNCHANGED <<kernelVars, baseVars, failures, attempt>>

\* Every thread of the last listing is read again; observed is final_restored here.
RestoreFinalVisit(t) ==
  /\ pc = "restore_final"
  /\ t \in todo
  /\ IF t \in live /\ mask[t] = Target(t)
       THEN observed' = observed \cup {t} /\ UNCHANGED failures
       ELSE /\ failures' = IF t \in live THEN failures \cup {t} ELSE failures \ {t}
            /\ UNCHANGED observed
  /\ todo' = todo \ {t}
  /\ UNCHANGED <<kernelVars, baseVars, tids, attempt, pc>>

\* Fault: survivors that the last listing missed are not looked for.
SurvivorsRestored_KnownOnly == failures \cap live = {}

\* What the survivors must satisfy for the restoration to be proven.
SurvivorsRestored ==
  /\ failures \cap live = {}
  /\ live \subseteq observed

RestoreSurviving ==
  /\ pc = "restore_final"
  /\ todo = {}
  /\ live # {}
  /\ Leave(IF SurvivorsRestored THEN "restored" ELSE "restore_failed")
  /\ UNCHANGED <<kernelVars, baseVars>>

RestoreFail ==
  /\ pc \in {"restore_process", "restore_list", "restore_visit", "restore_verify",
             "restore_final"}
  /\ \/ live = {}
     \/ pc = "restore_process"
     \/ pc = "restore_verify" /\ mask[Main] # process_affinity
  /\ Fail("restore_failed")

RestoreStep ==
  \/ RestoreProcess \/ RestoreList \/ RestoreCheck \/ RestoreVerify
  \/ RestoreSurviving \/ RestoreFail
  \/ \E t \in Tids : RestoreVisit(t) \/ RestoreFinalVisit(t)

---------------------------------------------------------------------------

Init ==
  /\ live \in {S \in SUBSET Tids : Main \in S}
  /\ born = live
  /\ mask \in {m \in [Tids -> Masks] : \A t \in Tids \ live : m[t] = Pin}
  /\ captured = [t \in Tids |-> NoMask]
  /\ original = [t \in Tids |-> NoMask]
  /\ process_affinity = NoMask
  /\ tids = {}
  /\ todo = {}
  /\ observed = {}
  /\ failures = {}
  /\ attempt = 0
  /\ pc = "idle"

Controller == CaptureProcess \/ CaptureStep \/ PinStep \/ Restore \/ RestoreStep

\* A process that cannot be captured is not measured.
NotMeasured == pc = "capture_failed" /\ UNCHANGED vars

Next == Controller \/ Process \/ NotMeasured

Spec == Init /\ [][Next]_vars

---------------------------------------------------------------------------
(* Properties.                                                             *)

PcLabels ==
  {"idle", "capture_list", "capture_visit", "capture_failed", "pin_process", "pin_list",
   "pin_visit", "pin_final", "pinned", "pin_failed", "restore_process", "restore_list",
   "restore_visit", "restore_verify", "restore_final", "restored", "restore_failed"}

\* Every variable has its type.
TypeOK ==
  /\ live \in SUBSET born
  /\ born \in SUBSET Tids
  /\ mask \in [Tids -> Masks]
  /\ captured \in Dictionary
  /\ original \in Dictionary
  /\ process_affinity \in Masks \cup {NoMask}
  /\ pc \notin {"idle", "capture_failed"} => process_affinity \in Masks
  /\ tids \in SUBSET born
  /\ todo \in SUBSET tids
  /\ observed \in SUBSET born
  /\ failures \in SUBSET born
  /\ attempt \in 0..MaxAttempts
  /\ pc \in PcLabels

\* Every mask a thread may have had when the process was captured.
BaselineMasks == {captured[t] : t \in Keys(captured)} \cup {process_affinity}

\* The snapshot describes the process: before the first mask is changed every captured
\* thread has the mask the snapshot says, and a thread that is not in the snapshot has a
\* mask that is (capture_task_affinity).
BaselineSound ==
  pc = "pin_process" =>
    \A t \in live :
      /\ mask[t] \in BaselineMasks
      /\ t \in Keys(captured) => mask[t] = captured[t]

\* All existing tasks are pinned, and so is every task the process starts until the end of
\* the measurement, whatever spawned while the threads were visited
\* (pin_and_verify_task_affinity).
PinSound == pc = "pinned" => \A t \in live : mask[t] = Pin

\* A proven restoration leaves no thread with the mask of the measurement: a thread of the
\* snapshot has its own mask again, and any other thread has one of the process's masks,
\* although threads kept spawning from threads not restored yet, some calls were refused
\* and the pin or an earlier restoration failed half way (restore_process_affinity).
RestoreSound ==
  pc = "restored" =>
    \A t \in live :
      /\ mask[t] \in BaselineMasks
      /\ t \in Keys(captured) => mask[t] = captured[t]
=============================================================================
