---------------------------- MODULE CaseEvidence ----------------------------
(***************************************************************************)
(* One case of the blocked benchmark, seen from both ends: what the        *)
(* controller records while it measures (measure_with_windows and the rest *)
(* of execute in candidate_a_blocked_benchmark.py), and what the analyzer  *)
(* (validate_case in candidate_a_blocked_analyzer.py) later demands of     *)
(* these records. The two are separate programs that never meet: the one   *)
(* writes time stamps, counters and affinity samples, the other accepts a  *)
(* case or refuses it, and with it the whole campaign.                     *)
(*                                                                         *)
(* Time is a counter: every statement that reads the clock lets some pass. *)
(* The server, the load generator and the operating system go on beside    *)
(* the controller. The masks of the threads are the subject of module      *)
(* TaskAffinity, the clean-up of a failed case that of BlockedBenchmark.   *)
(***************************************************************************)
EXTENDS Integers

CONSTANTS
  Second,    \* units of time in a second
  Warmup,    \* WARMUP_SECONDS
  Measure,   \* MEASUREMENT_SECONDS
  Short,     \* bound: how long a statement may take when nothing is in its way
  Slow,      \* bound: how long a statement that waits for the server may take
  MaxEvents  \* bound: fleet_progress events that change the counters

ASSUME CaseAssumption ==
  /\ Second \in Nat \ {0} /\ Warmup \in Nat \ {0} /\ Measure \in Nat \ {0}
  /\ Short \subseteq Nat \ {0} /\ Slow \subseteq Nat \ {0} /\ MaxEvents \in Nat

VARIABLES
  pc,           \* the statement of the controller that is next
  mode,         \* "off" or "full": whether the case profiles
  now,          \* the monotonic clock
  root,         \* the process at the pid of the measured server
  bot,          \* the load generator: it runs, left with exit code 0, or with another
  counter,      \* newest counters of a fleet_progress event; 0 before the first one
  phase,        \* self._affinity_phase
  marks,        \* time stamps recorded so far; 0 where there is none
  progress,     \* counters recorded at the boundaries of the windows
  sampled,      \* phases of the affinity samples
  restoration,  \* affinity["restoration"]
  shutdown,     \* the fleet_shutdown event
  pep,          \* the PEP diagnostics of the profile
  disk,         \* status in candidate-a-blocked-result.json
  lost          \* history: "root" died before the last CPU snapshot, "bot" ended before the
                \* masks were given back

worldVars == <<root, bot, counter, lost>>
recordVars == <<marks, progress, sampled>>
closingVars == <<restoration, shutdown, pep>>
vars == <<pc, mode, now, phase, disk, worldVars, recordVars, closingVars>>

Marks == {"online", "warmup_start", "warmup_end", "tick_start", "measurement_start",
          "tick_end", "measurement_end", "before_disconnect"}
Boundaries == {"warmup_start", "warmup_end", "measurement_start", "measurement_end"}
Statements == {"start-bots", "warmup", "warmup-loop", "query-start", "cpu-start",
               "start-profiler", "loop", "query-end", "cpu-end", "stop-profiler",
               "restore", "disconnect", "shutdown", "tick-statistics"}
Ends == {"passed", "failed", "killed"}

\* One type invariant for the records of a case.
TypeOK ==
  /\ pc \in Statements \cup Ends /\ mode \in {"off", "full"} /\ now \in Nat
  /\ root \in {"same", "dead", "reused"} /\ bot \in {"running", "left", "crashed"}
  /\ counter \in 0 .. MaxEvents /\ lost \subseteq {"root", "bot"}
  /\ phase \in {"bootstrap", "warmup", "measurement"}
  /\ marks \in [Marks -> Nat] /\ progress \in [Boundaries -> 0 .. MaxEvents]
  /\ sampled \subseteq {"bootstrap", "warmup", "measurement"}
  /\ restoration \in {"PENDING", "PASS", "FAIL"}
  /\ shutdown \in {"none", "graceful", "incomplete"}
  /\ pep \in {"none", "zero", "reported"} /\ disk \in {"running", "FAIL", "PASS"}

\* The case after bds-affinity: the server of the measurement is up and pinned.
Init ==
  /\ pc = "start-bots" /\ mode \in {"off", "full"} /\ now = 1
  /\ root = "same" /\ bot = "running" /\ counter = 0 /\ lost = {}
  /\ phase = "bootstrap" /\ marks = [m \in Marks |-> 0]
  /\ progress = [b \in Boundaries |-> 0] /\ sampled = {}
  /\ restoration = "PENDING" /\ shutdown = "none" /\ pep = "none" /\ disk = "running"

-----------------------------------------------------------------------------
(* The processes beside the controller.                                    *)

Running == pc \notin Ends

RootDies ==
  /\ Running /\ root = "same" /\ root' = "dead"
  /\ lost' = IF marks["measurement_end"] = 0 THEN lost \cup {"root"} ELSE lost
  /\ UNCHANGED <<pc, mode, now, phase, disk, bot, counter, recordVars, closingVars>>

PidReused ==
  /\ Running /\ root = "dead" /\ root' = "reused"
  /\ UNCHANGED <<pc, mode, now, phase, disk, bot, counter, lost, recordVars, closingVars>>

\* The load generator ends unasked, with any exit code.
BotEnds ==
  /\ Running /\ bot = "running" /\ bot' \in {"left", "crashed"}
  /\ lost' = IF restoration # "PASS" THEN lost \cup {"bot"} ELSE lost
  /\ UNCHANGED <<pc, mode, now, phase, disk, root, counter, recordVars, closingVars>>

\* Fault: no bound on the counters.
BotProgress_Unbounded ==
  /\ Running /\ bot = "running" /\ counter' = counter + 1
  /\ UNCHANGED <<pc, mode, now, phase, disk, root, bot, lost, recordVars, closingVars>>

\* The fleet counts, and says so in fleet_progress events; malformed events change nothing.
BotProgress ==
  /\ Running /\ bot = "running" /\ counter < MaxEvents /\ counter' = counter + 1
  /\ UNCHANGED <<pc, mode, now, phase, disk, root, bot, lost, recordVars, closingVars>>

-----------------------------------------------------------------------------
(* The controller.                                                         *)

At(s) == pc = s /\ UNCHANGED <<mode, worldVars>>
Take(durations) == \E d \in durations : now' = now + d
Mark(m) == marks' = [marks EXCEPT ![m] = now']
\* _capture_bot_boundary: the newest counters, whenever the event came.
Capture(b) == Mark(b) /\ progress' = [progress EXCEPT ![b] = counter]

\* _managed_root_process and _verify_all_affinity: pid, create time and command line are
\* those of the server that was started, no zombie, and its threads are pinned again. Those
\* of the load generator are too, but that one is not asked whether it lives: until it is
\* polled the kernel may pin what is left of it.
Verifies == root = "same"
Sample(p) == sampled' = sampled \cup {p}

\* execute(), except: the failure is on disk before anything is cleaned up.
Raise ==
  /\ pc' = "failed" /\ disk' = "FAIL"
  /\ UNCHANGED <<now, phase, recordVars, closingVars>>

StartBots ==
  /\ At("start-bots")
  /\ \/ /\ Verifies /\ pc' = "warmup" /\ Take(Short) /\ Mark("online") /\ Sample(phase)
        /\ UNCHANGED <<phase, disk, progress, closingVars>>
     \/ Raise

WarmupStart ==
  /\ At("warmup") /\ pc' = "warmup-loop" /\ phase' = "warmup"
  /\ Take(Short) /\ Capture("warmup_start")
  /\ UNCHANGED <<disk, sampled, closingVars>>

\* _wait_alive and the loop of the measurement: poll, verify and sleep until the deadline.
Poll(s, deadline) ==
  /\ At(s) /\ now < deadline
  /\ \/ /\ bot = "running" /\ Verifies /\ Sample(phase) /\ Take({Second} \cup Slow)
        /\ UNCHANGED <<pc, phase, disk, marks, progress, closingVars>>
     \/ Raise

WarmupDeadline == marks["warmup_start"] + Warmup * Second
WarmupPoll == Poll("warmup-loop", WarmupDeadline)
WarmupEnd ==
  /\ At("warmup-loop") /\ now >= WarmupDeadline /\ pc' = "query-start"
  /\ Take(Short) /\ Capture("warmup_end")
  /\ UNCHANGED <<phase, disk, sampled, closingVars>>

\* Fault: the answer is waited for without a deadline.
Query_NoDeadline(s, m, next) ==
  /\ At(s) /\ root = "same" /\ pc' = next /\ Take(Slow) /\ Mark(m)
  /\ UNCHANGED <<phase, disk, progress, sampled, closingVars>>

\* query_gametime: the answer is read until the output is quiet; a dead server gives none.
Query(s, m, next) ==
  /\ At(s)
  /\ \/ /\ root = "same" /\ pc' = next /\ Take(Slow) /\ Mark(m)
        /\ UNCHANGED <<phase, disk, progress, sampled, closingVars>>
     \/ Raise
QueryStart == Query("query-start", "tick_start", "cpu-start")

\* Fault: the phase stays that of the warm-up.
CpuStart_KeepsPhase ==
  /\ At("cpu-start")
  /\ \/ /\ Verifies /\ Sample(phase)
        /\ pc' = "start-profiler" /\ Take(Slow) /\ Capture("measurement_start")
        /\ UNCHANGED <<phase, disk, closingVars>>
     \/ Raise

\* _cpu_snapshot verifies first, reads the counter, and reads the clock last.
CpuStart ==
  /\ At("cpu-start")
  /\ \/ /\ Verifies /\ phase' = "measurement" /\ Sample("measurement")
        /\ pc' = "start-profiler" /\ Take(Slow) /\ Capture("measurement_start")
        /\ UNCHANGED <<disk, closingVars>>
     \/ Raise

StartProfiler ==
  /\ At("start-profiler")
  /\ \/ /\ pc' = "loop" /\ UNCHANGED <<phase, disk, recordVars, closingVars>>
        /\ IF mode = "full" THEN Take(Slow) ELSE now' = now
     \/ mode = "full" /\ Raise

\* Fault: the deadline counts from the gametime reading.
MeasureDeadline_FromTick == marks["tick_start"] + Measure * Second
MeasureDeadline == marks["measurement_start"] + Measure * Second
MeasurePoll == Poll("loop", MeasureDeadline)
MeasureEnd ==
  /\ At("loop") /\ now >= MeasureDeadline /\ pc' = "query-end" /\ Take(Short)
  /\ UNCHANGED <<phase, disk, recordVars, closingVars>>
QueryEnd == Query("query-end", "tick_end", "cpu-end")

\* progress_window_deltas: counters at all four boundaries, and none moved backwards.
DeltasOK(p) ==
  /\ \A b \in Boundaries : p[b] > 0
  /\ p["warmup_start"] <= p["warmup_end"] /\ p["warmup_end"] <= p["measurement_start"]
  /\ p["measurement_start"] <= p["measurement_end"]

CpuEnd ==
  /\ At("cpu-end")
  /\ \/ /\ Verifies /\ Sample(phase) /\ Take(Slow) /\ Capture("measurement_end")
        /\ DeltasOK(progress') /\ pc' = "stop-profiler"
        /\ UNCHANGED <<phase, disk, closingVars>>
     \/ Raise

\* extract_pep_events, validate_pep_events: callbacks that failed or were lost refuse the
\* case; what else the profile counts is kept.
Diagnostics == {"zero", "reported"}

\* stop_profiler: the profile must be uploaded by a live server.
StopProfiler ==
  /\ At("stop-profiler")
  /\ \/ /\ pc' = "restore" /\ Take(Short) /\ UNCHANGED <<phase, disk, recordVars, restoration, shutdown>>
        /\ IF mode = "full" THEN root = "same" /\ pep' \in Diagnostics ELSE pep' = pep
     \/ mode = "full" /\ Raise

\* Fault: a process that has ended is given its mask back too.
Restore_OfTheDead ==
  /\ At("restore")
  /\ \/ /\ Verifies /\ pc' = "disconnect" /\ restoration' = "PASS" /\ Take(Short)
        /\ UNCHANGED <<phase, disk, recordVars, shutdown, pep>>
     \/ /\ pc' = "failed" /\ restoration' = "FAIL" /\ disk' = "FAIL"
        /\ UNCHANGED <<now, phase, recordVars, shutdown, pep>>
     \/ Raise

\* _restore_affinity: the load generator and the server must be alive, and no zombies.  What
\* restore_process_affinity cannot catch leaves the restoration pending; BlockedBenchmark has
\* its partial failures.
Restore ==
  /\ At("restore")
  /\ \/ /\ bot = "running" /\ Verifies /\ pc' = "disconnect" /\ restoration' = "PASS"
        /\ Take(Short) /\ UNCHANGED <<phase, disk, recordVars, shutdown, pep>>
     \/ /\ pc' = "failed" /\ restoration' = "FAIL" /\ disk' = "FAIL"
        /\ UNCHANGED <<now, phase, recordVars, shutdown, pep>>
     \/ Raise

\* _workload_evidence: the event, whatever it says of the bots that were still online.
WorkloadEvidence == shutdown' \in {"graceful", "incomplete"}

\* before_disconnect and stop_bots: exit code 0, a fleet_shutdown and an empty server.  A
\* fleet that left by itself is not told from one that was asked to leave.
Disconnect ==
  /\ At("disconnect")
  /\ \/ /\ bot # "crashed" /\ root = "same" /\ pc' = "shutdown" /\ Take(Short)
        /\ Mark("before_disconnect") /\ WorkloadEvidence
        /\ UNCHANGED <<phase, disk, progress, sampled, restoration, pep>>
     \/ Raise

\* shutdown(): a server that has ended already counts as stopped (Linux).
Shutdown ==
  /\ At("shutdown")
  /\ \/ pc' = "tick-statistics" /\ Take(Short) /\ UNCHANGED <<phase, disk, recordVars, closingVars>>
     \/ Raise

\* tick_statistics: at least 100 samples between the two CPU snapshots; then the verdict.
TickStatistics ==
  /\ At("tick-statistics")
  /\ \/ pc' = "passed" /\ disk' = "PASS" /\ UNCHANGED <<now, phase, recordVars, closingVars>>
     \/ Raise

\* The job is cancelled: the disk keeps what was written last.
Killed ==
  /\ Running /\ pc' = "killed"
  /\ UNCHANGED <<mode, now, phase, disk, worldVars, recordVars, closingVars>>

Controller ==
  \/ StartBots \/ WarmupStart \/ WarmupPoll \/ WarmupEnd \/ QueryStart \/ CpuStart
  \/ StartProfiler \/ MeasurePoll \/ MeasureEnd \/ QueryEnd \/ CpuEnd \/ StopProfiler
  \/ Restore \/ Disconnect \/ Shutdown \/ TickStatistics
Environment == RootDies \/ PidReused \/ BotEnds \/ BotProgress \/ Killed
Next == Controller \/ Environment

Spec == Init /\ [][Next]_vars
\* The controller never waits for anything but a deadline.
FairSpec == Spec /\ WF_vars(Controller)

-----------------------------------------------------------------------------
(* The analyzer: validate_case on what is on disk.                         *)

Window == marks["measurement_end"] - marks["measurement_start"]

\* _check_window: both windows long enough, in order, and neither gametime reading further
\* than the tolerance from the CPU snapshot it belongs to.
WindowOK ==
  /\ marks["warmup_end"] - marks["warmup_start"] >= (Warmup - 1) * Second
  /\ marks["warmup_start"] < marks["warmup_end"]
  /\ (Measure - 1) * Second <= Window /\ Window <= (Measure + 3) * Second
  /\ marks["warmup_end"] <= marks["measurement_start"]
  /\ 0 < marks["tick_start"] /\ marks["tick_start"] < marks["tick_end"]
  /\ marks["tick_start"] <= marks["measurement_start"]
  /\ marks["tick_end"] <= marks["measurement_end"]
  /\ marks["measurement_start"] - marks["tick_start"] <= 5 * Second
  /\ marks["measurement_end"] - marks["tick_end"] <= 5 * Second

\* _check_affinity: the identity of the measured process is that of its last verification,
\* the samples cover both windows, and every mask is given back (_check_affinity_restoration).
RootIdentified == sampled # {}
SamplesOK == {"warmup", "measurement"} \subseteq sampled
RestorationOK == restoration = "PASS"

\* _check_workload: the boundaries in order, counters at each, and the whole fleet online
\* until it left.
BoundariesOK ==
  LET order == <<"online", "warmup_start", "warmup_end", "measurement_start",
                 "measurement_end", "before_disconnect">>
  IN \A i \in 1 .. 5 : marks[order[i]] < marks[order[i + 1]]
CountersOK == DeltasOK(progress)
FleetOK == shutdown = "graceful"

\* The profile of a full case is there, with the diagnostics that must be zero.
ProfileOK == mode = "full" => pep # "none"

ValidCase ==
  /\ disk = "PASS" /\ WindowOK /\ RootIdentified /\ SamplesOK /\ RestorationOK
  /\ BoundariesOK /\ CountersOK /\ FleetOK /\ ProfileOK

-----------------------------------------------------------------------------
(* What the two ends promise each other.                                   *)

\* A measurement whose end is recorded lasted at least MEASUREMENT_SECONDS, however long the
\* polls and the two gametime queries around it took (measure_with_windows).
MeasurementNeverShort ==
  marks["measurement_end"] > 0 => Window >= Measure * Second

\* A case the analyzer accepts was measured on the server that was started, alive until the
\* second CPU snapshot, under the load of a fleet that was alive until the masks were given
\* back after it: a process that dies between two polls, or after the last, is never
\* overlooked.  Later the fleet may leave by itself with exit code 0, and the case is accepted.
AcceptedIsMeasured ==
  ValidCase => lost = {}

\* What the controller passes the analyzer accepts, but for three things only the analyzer
\* looks at: a window that overran, a gametime reading too far from its CPU snapshot, and a
\* fleet that was not complete any more when it was told to leave.
PassedIsAccepted ==
  /\ pc = "passed" /\ shutdown = "graceful" /\ Window <= (Measure + 3) * Second
  /\ marks["measurement_start"] - marks["tick_start"] <= 5 * Second
  /\ marks["measurement_end"] - marks["tick_end"] <= 5 * Second
  => ValidCase

\* Every case ends with a verdict, unless its job is cancelled: each loop has a deadline.
CaseEnds == <>(pc \in Ends)
=============================================================================
