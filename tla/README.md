# bds-test-lab: a TLA+ model of the test controller

bds-test-lab drives a Minecraft Bedrock server with the Endstone plugin loader
through tests and measurements: a controller (`controller/*.py`, run by GitHub
Actions) downloads artifacts, starts a server, sends it commands, connects bots,
measures it, stops it, and writes evidence files that later decisions trust. This
directory models the parts of the controller whose correctness depends on the order
in which several actors move: the operating system, the server, its plugins, reader
threads, and the controller itself.

The property behind all modules is the one the lab exists for: **evidence is true.**
A result that says "graceful", "clean", "PASS", "pinned", "restored" or
"acknowledged" must be right whatever happened between the steps that led to it.

## 1. Inventory

| Component (source) | State | Operations | Hard behaviours | Module |
|---|---|---|---|---|
| Process supervisor, `ServerProcess` (controller/run_test.py) | Popen, pid and creation time, adopted processes, forced flag, lifecycle diagnostic | start, process_tree_snapshot, graceful_stop, force_kill_tree, managed_residual_processes | snapshots are not atomic, nor is the listing of descendants in them; pids are reused; taskkill times out; a killed wrapper outlives the waits for it, and a forced server dies late | `ServerProcess` |
| Integration run, `IntegrationTest.execute` (same file) | result in memory and on disk, stage | install, start, commands, profilers, recovery probe, shutdown, except/finally | failure in any stage; restart in the middle; controller killed | `IntegrationRun` |
| CPU isolation of one process (candidate_a_blocked_benchmark.py) | mask snapshot, listed threads, round counter | capture, pin, restore | threads spawn and exit during the walk; calls refused | `TaskAffinity` |
| Windows file control (combined_pack_gamerule_fleet_exact_runner.py, the plugin in fixtures/endstone-ci-lifecycle-control) | two request files, tokens, poll, captured lines | command, wait_command_output, graceful_stop; on_enable, poll, on_disable | non-atomic writes, refused deletions, left-over files, late completions, crashes | `FileControl` |
| Candidate A case and block (candidate_a_blocked_benchmark.py, _hardening.py, the job of candidate-a-blocked.yml) | result of each case, masks, manifests, upload marker | execute, run_case, run_block, prepare_evidence_for_upload, upload steps | processes that die in any stage; exceptions out of except and finally clauses; a cancelled job | `BlockedBenchmark` |
| Measurement of a case and its acceptance (candidate_a_blocked_benchmark.py, candidate_a_blocked_analyzer.py) | time stamps, counters, affinity samples, profile diagnostics | warm-up, windows, CPU snapshots, gametime queries, profiler, disconnect; validate_case | two programs that never meet; statements of unknown length between two clock readings; processes that die between two polls | `CaseEvidence` |
| Candidate A campaign (candidate_a_trigger.py, the analyzer's selection and decision, the workflow) | runs, their prior runs, uploaded evidence, summaries | trigger, block job, analyze | prior runs named by hand; runs that cancel each other; missing and repeated blocks | `Campaign` |
| Bot client and fleets (bot_validation.py, fleet_spark_validation.py, cross_platform_fleet_validation.py) | bot process, events printed and read | start, wait_event, terminate, force_close | a reader thread that lags; exit codes that report a caught signal; a bot that leaves by itself | `BotFleet` |
| Validation runners (31 variants: bot, fleet, scenario, chunk, Spark, extended, release, seed report, block actor, gamerule, attribution, combined pack, profiler matrix, monitoring, oracle, ELF rescan, EndKeep) | server, bots, capture, environment, verdict, result file | the methods of each runner in the order of its execute/main, its except and its finally clause | a failure at every step; an exception inside a clause; a server that survives its wrapper; an environment that outlives its phase | `ValidationScripts`, `Validation`, `RunContract` |
| Attribution runner with interactive shutdown (python_attribution_exact_runner.py) | a `ServerProcess` of its own | graceful_stop through the console command `cishutdown` | an exit or a lagging reader beside the wait for the acknowledgement | not modelled (section 6) |
| Artifact provider, bStats evidence, attribution tooling, Windows evidence, reports | files | sequential | none that two actors share | not modelled |
| Workflows (.github/workflows) | - | start the controllers | cancellation | in `BlockedBenchmark`, `Campaign` |

Interaction: workflows start one controller; a controller owns at most one
`ServerProcess` at a time and replaces it in restarts; the supervisor talks to the OS
(Popen, psutil, killpg, taskkill) and through stdin/stdout to the server, on Windows
through the request files instead of stdin; a reader thread appends the server's
output to a list every wait looks at, another one the events of a bot process;
measurements pin the threads of the server and of the bot process and restore them
after; a local capture stands in for the upload service while SPARK_BYTEBINURL names it;
the analyzer sees nothing but the artifacts of earlier runs.

`PROJECT.json` lists every component with its status, and every hazard at its line
with the properties that would catch it going wrong.

## 2. How the modules fit together

| Module | Extends or instantiates | Checked by | Proofs |
|---|---|---|---|
| `ServerProcess` | - | `MCServerProcess` | `ServerProcessProofs` |
| `IntegrationRun` | extends `ServerProcess` | `MCIntegrationRun` | `IntegrationRunProofs` |
| `TaskAffinity` | - | `MCTaskAffinity` | `TaskAffinityProofs` |
| `FileControl` | - | `MCFileControl` | `FileControlProofs` |
| `BlockedBenchmark` | - | `MCBlockedBenchmark` | `BlockedBenchmarkProofs` |
| `CaseEvidence` | - | `MCCaseEvidence` | `CaseEvidenceProofs` |
| `Campaign` | - | `MCCampaign` | `CampaignProofs` |
| `BotFleet`, `ValidationScripts` | - | through `Validation` | through `ValidationProofs` |
| `RunContract` | abstract specification | through `Validation` | `ValidationProofs` |
| `Validation` | extends the two above, instantiates `RunContract` | `MCValidation` | `ValidationProofs` |

The modules cut the system by hazard. What one module proves, the next one uses as a
single step: `Validation` takes a stop and a kill with the outcomes `ServerProcess`
establishes, `BlockedBenchmark` takes a pinning and a restoration as `TaskAffinity` has
them, `Campaign` takes the evidence of a block as `BlockedBenchmark` uploads it and a
case as `CaseEvidence` accepts it. No module holds a RECURSIVE operator; all bounds are
constants with named assumptions.

## 3. Modules

Each module has one action per operation or statement of the code at which another
actor can interleave. Operators with an underscore in their name, such as `Command_Overwrites`
before `Command`, are plausible bugs of the
code, used only to see that each property can fail.

### ServerProcess

The state is the object's (`pid`, `returncode`, `forced`, `managed_processes`,
`unverified_processes`, `root_identity_status`, `records`, `cleanup_outcome`, ...),
plus the OS's process table `proc` (creation time, parent, group, whether the process
belongs to the server) and the wrapper's exit code. `pc` is the statement the
supervisor's thread is at; `return_to` is where a snapshot under way returns to.

- `Snapshot`, `SnapshotRoot`, `SnapshotDescendants`, `SnapshotChild`, `SnapshotRecord`
  are `process_tree_snapshot`, split where it makes a system call: the identity of the
  root, the parents of all processes, the lookup of one listed pid after another, and
  one record per process. Between any two of them the environment may spawn, end and
  recycle processes. The two in the middle are psutil's `children(recursive=True)`, as the
  code uses it: `ppid_map` is read at once, a pid is taken for a descendant when the map
  links it to the root and the process that has it *by now* is not older than the root
  (`InTime`), and `Adopt` keeps the creation times that were read.
- `GracefulStop` and `Stop...` are the branches of `graceful_stop`, in the order of
  the code; `ForceKillTree` and `Kill...` those of `force_kill_tree` with its group
  kill on Linux and its taskkill calls on Windows, each of which may fail or raise. A
  SIGKILL ends any part of the group at once, perhaps none of it (`KillRoot`), and the
  rest later or never (`Exit`); so on both platforms `wait(15)` may time out, `kill()`
  may change nothing, and `wait(5)` may time out, too (`KillWait`, `KillHandle`,
  `KillWaitAgain`), which leaves `forced_wait_timeout` in the diagnostic and a wrapper
  that may be alive.
  `_begin_lifecycle` and `_finish_lifecycle` are folded into the actions that call
  them.
- `TreeOutcome` is `_process_tree_cleanup_outcome`, `RootTargetStatus` is
  `_windows_root_target_status`.
- `SpawnChild`, `SpawnForeign`, `Exit` are the operating system. On Linux an orphan is
  adopted by init and a dead wrapper stays a zombie until it is reaped; on Windows a
  child keeps its parent's pid for ever and the open handle pins the wrapper's pid.

### IntegrationRun

Extends `ServerProcess` and adds the run: `stage` is the statement of
`IntegrationTest.execute` that is next, `status` and `shutdown_status` the result in
memory, `disk_status` and `disk_shutdown` the same in the result file, `disk_forced` and
`disk_wait_timeout` its copy of the diagnostic (`shutdown_lifecycle`). Every write of the
file is in the action whose code makes it: `WriteResult`, and `RecordLifecycle`, which
copies the diagnostic and writes what the result says until then. The run moves only when
the supervisor's thread is in no call. Every stage can raise into the except clause
(`Handler...`), the finally clause writes the verdict unless `split_logs` raises, and
`ControllerCrash` ends the controller anywhere. The recovery probe replaces the
supervisor by a new one, whose predecessor's orphans may be alive.

### TaskAffinity

`live`, `born` and `mask` are the kernel's view of one process's threads; `captured`,
`original`, `process_affinity` the snapshot; `tids`, `todo`, `observed`, `failures`,
`attempt` the loop variables of the round under way. A round is a listing, one visit
per listed thread, and a check. A thread spawns from any live thread at any time,
with its parent's mask, and exits at any time. The rounds end after `MaxAttempts`
(8 in the code).

### FileControl

`command_file` and `shutdown_file` hold `NoFile`, `Empty` or a token. A write is two
steps (`Command`/`CommandWritten`, `GracefulStop`/`StopWritten`): the file is empty
in between, and its deletion is refused then, as Windows does while a writer has it
open. `PollCommand`, `CommandUnlink`, `Dispatch`, `ShutdownRead`, `ShutdownUnlink` are
the statements of `_poll_file_control`; `OnEnable` and `OnDisable` the plugin's other
callbacks; `ReadLine` the reader thread, so that `captured` trails `output`. A token
(uuid4) is the next number, which makes the order of execution visible. The
controller may write a command without waiting for it, as its callers do that look
for other output. The server crashes at any time; a new one is started on the same
files, and the first finds files of earlier runs.

### BlockedBenchmark

One job of the workflow: `pc` is the statement of the controller that is next (the
`stage` of `execute()`, or a statement of `run_block` and `hardened_run_block`), and
after the controller the step of the job. `bds` and `load` say of each case's server
and load generator whether it runs, has exited but was not waited for ("zombie"), or
is reaped ("gone"): psutil finds the second, and raises NoSuchProcess for the third,
outside the try block of `restore_process_affinity`. `pinned` are the processes on
measurement masks, `baselines` the keys of `_affinity_baselines`, `restored` is
`_affinity_restored`. The CPUs of the runner (`topo`) may change and change back.

- `Install` to `Ticks` are the try block of `execute()`: every stage may raise, which
  records the failed stage (`Raise`). `Handler`, `Cleanup` and `Finally` are its except
  and finally clauses; `RestoreOk`, `RestoreFails` (an `AffinityError`, caught) and
  `RestoreEscapes` (not caught) the outcomes of `_restore_affinity`.
- `BeforeCase` and `AfterCase` are `hardened_run_case` and the turn of the loop of
  `run_block`, which replaces the result of a case by "case-launch" when an exception
  reaches it. A result is "valid" when the upload gate would accept it
  (`_case_artifacts_are_exact`), "invalid" when it says PASS and the gate would not.
- `ClearGate`, `Setup`, `Evidence`, `Gate`, `Mark` are the rest of the block. `manifest`
  is the version of the block manifest on disk, `listed` the versions of the files that
  the evidence manifest has digests of, `gate` the upload marker, empty between its
  creation and its filling.
- `Kill` is the cancelled or timed-out job; `Prepare` and `Upload` are its `always()`
  steps. `shared` is a history variable: cases measured beside a survivor.

### CaseEvidence

One case from the start of its bots to its verdict, against a clock: `now` is the
monotonic clock, and every statement that reads it lets some of it pass (`Short`), or
as much as a server takes to answer (`Slow`). `marks` are the time stamps the controller
records, `progress` the counters at the boundaries of the windows, `sampled` the phases
of its affinity samples. `WarmupPoll` and `MeasurePoll` are the two polling loops;
`QueryStart`, `CpuStart`, `QueryEnd`, `CpuEnd` the gametime queries and CPU snapshots
whose order defines the measured window. `RootDies`, `PidReused`, `BotEnds`,
`BotProgress` and `Killed` happen beside it. A load generator that ends unasked has
`left` with exit code 0, which `stop_bots` takes for a fleet that left when it was told to
(`Disconnect`), or has `crashed`; `Restore` refuses a process that has ended, as
`restore_process_affinity` does of a zombie. `ValidCase` and its parts (`WindowOK`,
`SamplesOK`, `BoundariesOK`, ...) are `validate_case` of the analyzer, evaluated on what
the controller has on disk: the model puts the two programs side by side.

### Campaign

Runs of the workflow as processes without a common memory. `Trigger` is
`normalize_trigger` and the concurrency group, `BlockJob` one job of the sequential
matrix with whatever it uploads, `AnalyzeFails` and `Analyze` the analyze job. `Valid` is
the selection of the evidence (`EachBlockOnce`, `AllIntact`, `AllAccepted`,
`OneSignature`, `Balanced`), `Decision` the sequential decision. An effect is an integer;
the confidence interval is compared with its mean and with the precision limit after
both sides are squared and multiplied out, so no root or fraction is needed. `Critical2` is
the square of the critical value of Student's t in hundredths; `CampaignAssumption` asks only
that it is above 1 (`_T_995`, analyzer:70, has none below 2.86).

### BotFleet

`proc`, `code`, `asked` are the bot process; `printed` what it has printed and `seen`
how much of that the reader thread has stored: every judgement uses `Snapshot`, never
`printed`. The binary is not part of the repository, so it prints, exits and returns
codes as it likes; only a "signalled" ending presupposes a signal. A bot that is killed may
be running still when the wait for it is over (`KillBot`): `force_close` passes over that. `Drained` and
`CleanCode` are the normalisation of an exit that waitpid reports as SIGTERM.

### ValidationScripts and Validation

The runners differ in what they do and hardly in how they fail, so the model separates
the two. `ValidationScripts` has one definition per method of a runner, the sequence of
the steps it takes that start, use, watch or stop something, and one per try block,
except clause and finally clause, composed of them as the methods call each other.
`Validation` says what each kind of step does and how it fails (`StartServer`, `Ready`,
`Serve`, `StopServer`, `Shutdown`, `Crash`, `Quit`, `StartBot`, `LeaveSignal`, `Divert`,
`Restore`, `PassRun`, `Write`, `EndBot`, `EndServer`, `KillServer`, ...) and interleaves
it with a server and bots that die, print and exit on their own. An exception in the try
block goes to the except clause (`Raise`), unless the clause names its exceptions and not
this one (`Narrow`); one in a clause is passed over or, where the code has no guard
(`SplitLogs`, `KillServer`), ends the run. `bds` is the Bedrock server below the
`wrapper`, `stray` what is alive of earlier starts; a wrapper or a bot that was sent
SIGKILL, or TerminateProcess, and outlasted the wait for it is "killed" and may live on; `env`,
`inherited` and `published` follow the
environment from the runner into the server and into the URLs it reports.

`ScriptAssumption` states what makes a script trustworthy: a PASS comes after the last
server and bot are closed and is followed by nothing but writes; a crash is followed by a
start; a runner with bots ends them in a clause, one on Linux its server too, and one whose
except clause names its exceptions ends its bots in the finally clause; what nothing catches
(`Uncaught`) is in finally clauses only, after what ends bots, servers and captures; a shutdown
acts on the server started last;
a report is published only through a server that was started after the normal environment
had been restored (`Diverted` and `Tainted` read this off the script), and a runner with a
capture restores it in a clause, or by unwinding a `with` or an inner `finally`; every run
writes its result after its verdict. TLC checks it for the 31 scripts of `MCValidation`, and
the theorems hold for all scripts that satisfy it: a new runner has to be checked for that
only.

### RunContract

What every validation run promises, whatever it validates, in six actions: it takes a
server and a fleet while it works, passes only when it has given both back, records the
verdict it has reached, and is not over while its fleet plays on or its verdict is
unrecorded. `Validation` implements it with `phase` computed from `section` and
`verdict`, `open` from the wrapper and the bot process, and `recorded` the result file.
Bots that were killed count as given back, whether the wait for them saw them go or not.
`IntegrationRun` implements it on Linux, with the server open while any process of it
runs; a run whose last write is lost (`split_logs` raises, or the controller is killed)
counts as abandoned there.

## 4. Runs

| Run | Platform, bounds | Shows |
|---|---|---|
| `server_windows` | Windows, 2 pids, 3 births | outcomes are true with stale parents, denied lookups and failing taskkill, whatever calls are made in whatever order |
| `run_linux` | Linux, 3 pids, 3 births | adopted processes are the server's, or took over a pid while it was looked up; other programs spared; PASS means no server process; a wrapper that is left, and a server that was forced, is reported in the result file; the verdict is final |
| `run_windows` | Windows, 2 pids, 3 births | PASS means no adopted process lives; every run ends |
| `run_residual` | Windows, 2 pids, 3 births | finding 1 |
| `affinity` | 3 threads, 3 masks, 2 rounds | pin and restoration are sound |
| `file_control` | 3 requests, 2 servers | once and in order, true acknowledgements, nothing overwritten; every request is consumed or its server goes down |
| `file_control_exit` | 1 request, 1 server | finding 2 |
| `benchmark` | 3 cases, 2 changes of the CPUs | a valid upload is a complete, undisturbed block with its digests; survivors are reported; masks original before and restored after a case |
| `benchmark_hidden` | 2 cases, no change | finding 3 |
| `case_evidence` | warm-up 2 s, measurement 4 s, statements of 1 or 6 s | an accepted case was measured on the right server for long enough, under a fleet that lived until the masks were given back; what the controller passes is refused for three reasons only; every case ends |
| `campaign` | 3 runs, 2 looks of 2 blocks, 4 kinds of evidence | a claim rests on exactly one accepted evidence of every block, and not on one block alone |
| `validation` | 31 runners, 3 events per bot | a PASS left nothing behind but what the code cannot see, no run leaves its bots or its capture, reported URLs are public, a signalled fleet was drained, every run ends, and every run keeps `RunContract` |

Why these bounds are enough to be interesting. Pid reuse needs a wrapper, a process
that dies, and one that gets its pid: three births and two or three pids (a births
bound is what limits the state space; `Start` itself may exceed it by one so that a
run always can start its second server). Three pids on Linux are the wrapper, a child that
ends while the listing looks up the pids, and a program that takes over its pid. A thread missed
by a walk needs the main thread,
one listed and one spawned behind the walk; a second round is needed to see a retry. Two
servers on the same files are needed for a left-over request, and three requests for two
commands and a stop, or a late completion of the first command while the second is
awaited. A block needs a case that leaves a process behind, one measured beside it, and
one after both (3 cases; the code has 4); two changes of the CPUs are a change and its
reversal, which no comparison before and after a case would notice. A case needs a
statement longer than each tolerance of the analyzer (6 s against 3 s and 5 s) and one
within it; the windows only have to be longer than a poll. A campaign needs a look that
is measured twice and one that is measured once: three runs and two looks; a wrong prior
run, a missing block, a refused, a damaged and a drifting one. The scripts of
`validation` are those of the repository, unshortened; a bot prints at most one event of
each kind its runner asks for.
Pids, threads and runs of the workflow are compared for equality only, so symmetry is
used in runs without liveness properties.

### Fairness

`run_windows` assumes that the controller's thread keeps running (`WF(Controller)`): it is
an ordinary thread, every wait in it has a timeout, and the timeout is a branch of the
model that is always enabled. Nothing is assumed of the operating system, the server or
taskkill; the controller may instead be killed.
`file_control` assumes that the scheduler of a server that runs repeats the poll
(`WF(Plugin)`: `run_task` with a period) and that the controller does not die between
creating a file and filling it (`WF(Written)`: consecutive statements without a wait).
No fairness is assumed of the server's exit or of the reader thread.
`case_evidence` and `validation` assume `WF(Controller)` for the same reason as
`run_windows`; servers, bots and their readers may stop at any point.
`affinity`, `benchmark` and `campaign` assume none and have no liveness property.
`CHECK_DEADLOCK FALSE` is set where a job, a case or a campaign ends.

### Findings

1. `run_residual`: on Windows a run passes, "graceful; no residual BDS process", while
   a server process that the supervisor never listed lives.
2. `file_control_exit`: `graceful_stop` returns True for a server that crashed before.
3. `benchmark_hidden`: when a measured process is gone, the restoration raises
   NoSuchProcess out of the except or finally clause of `execute()`. The stage that had
   failed is replaced by "case-launch"; from the except clause the other process is not
   stopped either, and the next case is measured beside it. `UploadedIsClean` and
   `LeftoverIsReported` show what limits the damage: the case counts as failed, so the
   block is never uploaded as valid.

Weaknesses met while modelling, which the models contain and the properties are stated
around:

* `shutdown_status` is not reliable in the result file of a failed run. The except clause
  writes the file with the new lifecycle and the old status (run_test.py:766) and replaces
  the status in memory after that: when `split_logs` raises in the finally clause (776) the
  last write is lost, and the file says FAIL beside the "graceful" of the recovery probe's
  stop although its last server was killed. On Windows the status stays in memory, too,
  when `force_kill_tree` raises in the handler. `ForcedIsReported` is therefore about
  `status` and `shutdown_lifecycle`, which the file has in every case on Linux.
* A wrapper that outlives `killpg`, `kill()` and both waits (run_test.py:468-479) lives on
  after the run. `NoWrapperLeft` says that the result file then has FAIL, `forced` and
  `forced_wait_timeout`.
* A listed child may end before psutil looks its pid up, and a program that took the pid
  over meanwhile is adopted with its own creation time. `AdoptsOnlyOwn` says that nothing
  else can be. An adopted program can fail the verification of the stop; on Linux it is
  never killed (`SparesOtherPrograms`).
* A fleet that leaves by itself with exit code 0 is accepted as one that was asked to
  (python_attribution_validation.py:250, bot_validation.py:124): neither the controller nor
  the analyzer asks its `fleet_shutdown` for `reason=signal`. A case is accepted although
  its fleet left between the restoration of the masks and `stop_bots`; before, the polls
  and the restoration notice it, which is what `AcceptedIsMeasured` says.
* The crash of the recovery probe kills the server and does not ask whether it is gone
  (extended_validation.py:121): an Endstone process that outlived the kill, or that Windows
  declined to kill, can live beside a PASS. `PassIsClean` excepts it for the runners with a
  crash only.
* The plugin can read a shutdown request between its creation and its filling, and delete
  it after (`__init__.py`:92); the stop then times out and is forced. `RequestsConsumed`
  says only that no request stays: one that was deleted unread counts as consumed.
* A slow answer of the server makes the measured window longer than the "exact" 600 s
  (candidate_a_blocked_benchmark.py:1617); the analyzer refuses it above 603 s, which is
  one of the three exceptions of `PassedIsAccepted`.
* `bot_validation.start_server` returns the server only after its ready line: a start that
  times out leaves a server nobody holds (line 184). `NothingRunsOn` excepts it by `held`,
  and `RunContract` lets a failed run end with its server open.
* Handlers that test `is_alive()` do nothing when the wrapper died and its Bedrock server
  did not; the properties about failed runs speak of the wrapper.
* The oracle's except clause names its exceptions and not `subprocess.TimeoutExpired`: such
  a run ends with "running" in its result file and with its server alive
  (python_native_bridge_coverage_oracle.py:1304); `RunContract` calls that abandoned, and
  `NothingRunsOn` says that no other run leaves the server it holds without a kill.
* A runner can have PASS on disk and end with an exception of `split_logs` in its finally
  clause; an EndKeep runner whose kill raises in its finally clause loses its last write.
* A single bot or fleet that leaves early with exit code 0 is not noticed in windows that
  poll the server only; `terminate` then judges its events.

The other properties hold; where a property holds on one platform only, its statement
or its run says so. `AdoptsOnlyOwn` is one of these: on Windows a process keeps the pid
of its dead parent, and when a child of the server gets that pid, `children(recursive=True)`
lists an unrelated process that was there before, which is adopted. `PassMeansKnownDead` is
about Windows: on Linux the stop does not verify the tree, pgrep does (`PassMeansNoServer`),
and a program that was adopted by mistake may well live on.

How `NothingRunsOn` is to be read: it covers every ending of a run, by its last statement or
by an exception that nothing catches (`split_logs`, a kill in a finally clause, the oracle's
exceptions), and not a runner that is itself killed, which takes no further step. Bots and
wrappers have exited or been sent a kill that cannot be ignored; that they are gone, the code
itself does not wait for longer than its timeouts. Bedrock servers below the wrapper are not
in it: on Linux the group kill reaches them, too.

## 5. Proofs

TLAPS checks the following for every value of the constants that satisfies the
modules' assumptions: any number of pids, births, threads, masks, rounds, requests,
servers, cases, changes of the CPUs, runs and blocks, any lengths of windows, any scripts
that keep their assumption, and both platforms.

* `ServerProcessProofs`: `TypeOK`, `CleanupOutcomeSound`, `GracefulSound`, on Linux
  `AdoptsOnlyOwn` and `KillEnds`, and `SparesOtherPrograms`. A snapshot is not atomic, so
  what a record says must be of a kind
  that stays true: "dead" does, "alive" does not. The inductive invariant therefore
  says that creation times are handed out once (`BirthInv`), that the wrapper's slot
  is not reused until it is reaped, or on Windows while its handle is open
  (`WrapperInv`), that the parent of another program's process is one, too (`Family`,
  which is why the parents that are listed lead from the wrapper to no other program on Linux,
  and what fails on Windows; from then on a pid of that list is the server's or is taken over
  by a younger process, `ListInv`), that dead records stay true (`DeadInv`) and that
  every adopted process has a record when a snapshot ends (`CoverInv`); a "clean"
  outcome is then true when it is computed, and `OutcomeInv` keeps it true because
  only a snapshot that lists descendants adopts, and none does after it. No other program
  is killed because the group that is signalled is the one the wrapper founded, and nobody
  from outside can be in it while the wrapper is unreaped (`GroupInv`); a kill leaves
  the wrapper dead, or leaves `forced_wait_timeout`, because each way from the signal to the
  return goes through a wait that saw it dead or notes that it did not (`SignalInv`,
  `KilledInv`): nothing is assumed of how soon a SIGKILL takes effect.
* `IntegrationRunProofs`: `RunImplementsServer` (every step of a run is a step of
  `Spec` of `ServerProcess` or leaves its variables alone), so the theorems above hold
  in every run; `RunTypeOK`; on Windows `PassMeansKnownDead` along the path from the graceful
  stop to the verdict (`PassInv`); `VerdictIsFinal`. On Linux also `PassMeansNoServer`,
  `NoWrapperLeft`, `ForcedIsReported` and the refinement of `RunContract`, from four
  invariants of the run: a verdict is taken once, and reaches the disk only in the closing
  stages (`VerdictInv`); a stage is left only when the call it made has returned
  (`CallInv`); the finally clause is reached by a stop, which ends the wrapper, or by a kill,
  which ends it or is recorded with its timeout (`LeftInv`); a forced server leads through the
  except clause, whose kill has the force written to the file before anything after it can
  fail (`ForcedInv`).
  `NoServerInv` says that what pgrep did not find when the verdict was taken does not come
  back: a server process is spawned only by one that runs (`NoneSpawns`), and a run with a
  verdict starts no server.
* `TaskAffinityProofs`: `TypeOK`, `BaselineSound`, `PinSound`, `RestoreSound`. The
  argument for the pin: in a round, the threads visited so far are pinned, and in a
  stable round (the listing did not change) a thread can only have been spawned by a
  thread that was there, so all are (`PinInv`); a restoration is proven against the
  threads alive at the end, all of which were read (`FinalInv`).
* `FileControlProofs`: `TypeOK`, `ExecutedInOrder`, `AcknowledgementSound`,
  `GracefulAcknowledged`, `NeverOverwritten`, `EnableKeepsOwn`. The order needs to be
  strengthened to what has not been executed yet: a request in the file, the one held
  by the plugin and the one being written are each newer than all that was executed
  (`Fresh`, `RequestInv`, `WriteInv`), and what a starting server finds is older than
  its start (`DrawnInv`). An acknowledgement is sound because a completion line has its
  output line before it, and no line of the current token was printed before it was
  drawn (`OutputInv`).
* `BlockedBenchmarkProofs`: `TypeOK`, `UploadedIsClean`, `LeftoverIsReported`,
  `BaselinesAreOriginal`, `PassIsRestored`, for any number of cases. A case writes only
  its own result and an untouched case has no process (`Untouched`), so what holds at the
  end of a turn holds for good (`Processes`); along the stages of a case, what is pinned
  is what has a baseline, and it is restored before the result says PASS (`Masks`); the
  upload follows from the verdicts because a disturbed case needs an earlier
  "case-launch", which fails the block, and because the marker exists only after the
  last writes of the controller and the digests are taken after it (`Verdicts`).
* `CaseEvidenceProofs`: `TypeOK`, `MeasurementNeverShort`, `AcceptedIsMeasured`,
  `PassedIsAccepted`, for every length of the windows and every duration a statement can
  take. The order of the time stamps (`OrderInv`) follows from a clock that every reading
  moves on (`ClockInv`), the length of the windows from what the polling loops ask before
  they end; the samples of a phase exist because a poll takes one before it looks at the
  deadline (`SampleInv`); and a process that died is noticed by the next statement that
  looks at it, so beyond that statement nothing has been lost (`LostInv`): for the server the
  second CPU snapshot, for the fleet the restoration of its masks. The analyzer's
  checks are then shown one by one from what was recorded.
* `CampaignProofs`: `TypeOK`, `ClaimIsSupported`, `NoBlockDecides`, for any number of runs, looks and blocks
  in a look. The analyzer looks at the uploaded
  evidence only, and wants each block up to this look once; that every run it was given
  uploaded all of its blocks, and that no two of them measured the same look, it does not
  ask. `EveryCell` shows that it need not: the number of runs is fixed by the look, so
  there are as many blocks as pairs of a run and one of its jobs, and a set of pairs that
  has every block is the whole set (a surjection between finite sets of the same size).
  `NoBlockDecides` needs arithmetic about sums over sets of blocks, which the model computes
  with a fold. The library's facts about folds take an operator and cannot be cited, so
  `TotalIsSum` finds a set whose fold *is* a difference of two cardinalities: each integer is
  a column of that many points above or below zero, and what remains is counting. It is
  proved from a smallest set for which it fails, which the library's first-order theorem about
  the well-founded order of finite subsets provides. Then a block whose effect outweighs the
  rest would make the variance at least as large as the mean it supports (`SumOfSquares`,
  `Outweighs`), and as every critical value is above 1 the interval would contain zero.
* `ValidationProofs`: `TypeOK`, `PassIsClean`, `SignalledWasDrained`, `NothingRunsOn`,
  `ReportsArePublic` and the refinement `KeepsContract`, not for the 31 scripts of the repository
  but for all that satisfy `ScriptAssumption`. The inductive invariant says of the try block that what runs was
  opened by the script and not closed since (`TryInv`: `ServerOpen`, `BotOpen`,
  `Unchecked` and `Held` read the script backwards) and that the wrapper of an earlier start
  only lives on where the recovery probe crashed it (`StrayInv`), of the clauses that what
  they have to do is done or still to come (`HandlerInv`, `FinallyInv`), of a run without a verdict
  that it has written none (`UndecidedInv`). Bots that were let go have been judged, and
  no step after that can change their exit code (`DrainInv`, with the order of the events in
  `EventsInv`). The environment follows the script in the same way: it is diverted, and the
  capture listens, only between a step that diverts and the next that restores (`EnvInv`,
  `ListenInv`), so a server inherits a diverted environment only where the script says it is
  `Tainted`; what the try block leaves, a clause still has to end or restore (`LeftInv`).
  For the refinement each step of the run is shown to be one of the six
  actions of `RunContract` or a stutter.

Every inductive invariant was also checked by TLC on the bounds above.

Every invariant and every action property of the runs is stated by one of these theorems.
Only model-checked: liveness (`RunEnds` of both modules, `RequestsConsumed`, `CaseEnds`),
because fairness and ENABLED are out of the prover's reach. What the findings refute is
proved of nothing beyond its limits: `PassMeansNoServer` is a theorem on Linux and false on
Windows (finding 1), `AdoptsOnlyOwn` likewise. `RunKeepsContract` has no run of its own; TLC
found no violation of it on the bounds of `run_linux`. No module with a theorem reaches a RECURSIVE operator.

## 6. What is left out

* `ServerProcess`: captured lines, log file and `close()`; the contents of commands.
  A process is the wrapper, a process of the server, or one of another program.
* `IntegrationRun`: what the commands print, the profiler protocol and the bStats
  checks; each is a step that succeeds or raises. That a write of the result file fails
  (a full disk) is left out.
* `TaskAffinity`: the choice of the CPU, `validate_affinity_snapshot`; thread ids are not
  reused.
* `BlockedBenchmark`: what the windows, counters and digests of a case say is one
  judgement, "valid" or "invalid" (`CaseEvidence` has the windows and counters); a process is
  pinned or it is not (`TaskAffinity` has
  the walk over its threads), and the load generator, started with the controller's mask,
  has that mask as its own; a cancelled job kills the controller at once (its signal
  handling is left out) and its leftover processes end with the runner; pid reuse
  appears as a restoration that fails. The acceptance of stale results by the gate is in the
  model, the two hosts of the matrix are not: blocks share nothing.
* `FileControl`: the interactive `cishutdown` fallback of fixtures without file control, and
  the `ServerProcess` of python_attribution_exact_runner.py, whose `graceful_stop` writes
  `cishutdown` to the console of a Windows server and looks for its acknowledgement among the
  lines captured after that. An exit or a lagging reader beside that wait is the race
  `FileControl` has for its stop, but there is no token and no file, so nothing left over can
  be taken for an answer; it would be a module of its own that says less;
  read errors other than an empty file; the dictionary of pending tokens is reduced to
  the last one, so two commands drawn at the same line index are not told apart; the
  verification of the process tree is a nondeterministic failure (it is
  `ServerProcess`'s subject), and the wrapper and the server end together.
* `CaseEvidence`: the restoration of the masks is one step (`TaskAffinity`), the profile
  is there or not, and the checks of identities, digests and hosts are left out: files
  that were exchanged are `BlockedBenchmark`'s subject.
* `Campaign`: effects are small integers and a block's evidence is drawn from a given set;
  whether two hosts of one matrix measure the same, and what a summary says in words, is
  left out. The diagnostic runs one case by hand and decides nothing.
* `BotFleet`: events of single bots; a fleet's reports are summed up in one event.
* `ValidationScripts`, `Validation`: what commands, reports, profiles and bots say is one
  step that succeeds or raises; a call of the supervisor is one step with the outcomes of
  `ServerProcess`; retries inside a step are the step. A runner that is killed takes no more
  steps.
* Not modelled, because nothing in them depends on an order that another actor could
  change: the artifact provider (a download that is verified before use), the bStats
  evidence, the tools that check attribution payloads, wheels and provenance
  records, the Windows evidence
  and smoke checks, and the report builders. They are pure functions of files, or a
  sequence of commands that ends at the first failure.
* Floating-point statistics, timings, log wording, HTTP, ZIP and JSON formats: outside
  what a model checker can say something useful about.
