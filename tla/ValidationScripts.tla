-------------------------- MODULE ValidationScripts --------------------------
(***************************************************************************)
(* The runners of controller/ that drive a real server, mostly with real   *)
(* players: each method is the sequence of the steps it takes that start,  *)
(* use, watch or stop something, and a runner is the sequence of its       *)
(* methods. Module Validation says what a step does and how it fails.      *)
(*                                                                         *)
(*   work      files, downloads and data that is judged: no server needed  *)
(*   start     Popen of the server into self.server                        *)
(*   launch    Popen of the server into a local variable                   *)
(*   ready     wait until the log satisfies a predicate, server returned   *)
(*   serve     commands to the server, whose output is awaited and judged  *)
(*   local     a report that must reach the capture                        *)
(*   public    a report whose public URL goes into the result              *)
(*   stop      graceful_stop and close, self.server = None; a kill and an  *)
(*             exception otherwise                                         *)
(*   shutdown  IntegrationTest.shutdown; drop  self.server = None          *)
(*   crash     force_kill_tree and close, self.server = None               *)
(*   bots      start a bot or a fleet; online  wait for its event          *)
(*   watch     poll server and bot; leave  terminate the bot and judge it  *)
(*   divert    capture.start() and SPARK_BYTEBINURL                        *)
(*   mute      SPARK_PYTHON_HOTSPOT_MODE=off                               *)
(*   restore   capture.stop() and the environment as it was                *)
(*   pass      result["status"] = "PASS"; write  the result file           *)
(*   end_bot, end_server   kill what is alive; split  split_logs           *)
(*   quit      the server must leave by itself; kill  force_kill_tree in a *)
(*             finally clause                                              *)
(***************************************************************************)
EXTENDS Naturals, Sequences

Token ==
  {"work", "start", "launch", "ready", "serve", "local", "public", "stop", "shutdown",
   "drop", "crash", "bots", "online", "watch", "leave", "divert", "mute", "restore",
   "pass", "write", "end_bot", "end_server", "split", "quit", "kill"}

Start == <<"start", "ready">>
ShutdownAndPass == <<"shutdown", "pass">>

-----------------------------------------------------------------------------
(* bot_validation.main                                                     *)

install_endstone == <<"work">>
start_server == <<"launch", "ready">>
stop_server == <<"stop">>
patch_server_properties == <<"work">>
require_player == <<"serve">>
wait_player_state == <<"serve">>

BotMain ==
  install_endstone \o start_server \o stop_server \o patch_server_properties
    \o start_server \o <<"bots", "online">> \o require_player \o <<"watch", "leave">>
    \o wait_player_state \o stop_server \o <<"pass">>
BotFinally == <<"end_bot">> \o stop_server \o <<"write">>

-----------------------------------------------------------------------------
(* spark_bot_validation                                                    *)

SparkBotBootstrap == <<"start", "ready", "stop">> \o patch_server_properties \o Start
SparkBotStart == <<"bots", "online">> \o require_player
SparkBotProfile == <<"public">>
SparkBotStop == <<"leave">> \o wait_player_state
SparkBot ==
  <<"work">> \o SparkBotBootstrap \o <<"serve", "serve">> \o SparkBotProfile
    \o SparkBotStart \o <<"serve">> \o SparkBotProfile \o SparkBotStop
    \o ShutdownAndPass \o <<"write">>

-----------------------------------------------------------------------------
(* fleet_spark_validation and its subclasses                               *)

wait_player_count == <<"serve">>
FleetBootstrap ==
  <<"start", "ready", "serve", "stop">> \o patch_server_properties
    \o <<"start", "ready", "serve">>
FleetStart == <<"bots", "online">> \o wait_player_count
FleetProfile == <<"public">>
FleetStop == <<"leave">> \o wait_player_count
Fleet ==
  <<"work">> \o FleetBootstrap \o <<"serve">> \o FleetStart \o wait_player_count
    \o FleetProfile \o <<"serve">> \o FleetStop \o ShutdownAndPass \o <<"write">>
FleetHandler == <<"end_bot", "end_server", "write">>
FleetFinally == <<"end_bot", "split", "write">>

\* CrossPlatformFleetSparkValidation.start_fleet
CrossFleetStart == <<"bots", "online">> \o wait_player_count
\* The subclasses judge the statistics of the bots after the players have left.
ScenarioStop == FleetStop \o <<"work">>
ChunkWalkStop == FleetStop \o <<"work">>
TraversalBootstrap ==
  <<"start", "ready", "serve", "stop", "work">> \o <<"start", "ready", "serve">>
TraversalCommands == <<"serve">>
TraversalStop == FleetStop \o <<"work">>

\* The same execute with the methods of a subclass.
FleetWith(bootstrap, start, stop) ==
  <<"work">> \o bootstrap \o <<"serve">> \o start \o wait_player_count
    \o FleetProfile \o <<"serve">> \o stop \o ShutdownAndPass \o <<"write">>

Scenario == FleetWith(FleetBootstrap, FleetStart, ScenarioStop)
ChunkWalk == FleetWith(FleetBootstrap, FleetStart, ChunkWalkStop)
Traversal == FleetWith(TraversalBootstrap, FleetStart, TraversalStop)
CrossFleet == FleetWith(FleetBootstrap, CrossFleetStart, FleetStop)

-----------------------------------------------------------------------------
(* extended_validation and recovery_multisession_validation                *)

UploadProfile == <<"work">>
CrashProbe == <<"serve", "work", "crash", "start", "ready">> \o UploadProfile
Soak == <<"serve", "serve">>
Extended ==
  <<"work">> \o Start \o <<"serve", "public", "public">> \o CrashProbe \o Soak
    \o ShutdownAndPass
ExtendedHandler == <<"end_server">>
ExtendedFinally == <<"split", "write">>

MultiSession ==
  <<"work">> \o Start \o <<"public", "public">> \o CrashProbe \o <<"work", "serve">>
    \o ShutdownAndPass

-----------------------------------------------------------------------------
(* release_validation and pr11_seed_report_validation                      *)

ReleaseStart == Start \o <<"ready">>
ReleaseBootstrap == ReleaseStart \o <<"stop">> \o patch_server_properties \o ReleaseStart
RealPlayer == <<"bots", "online">> \o wait_player_state
StopRealPlayer == <<"leave">> \o wait_player_state
PlayerHealth == <<"serve">>
HealthUpload == <<"public">>
HealthDashboard == <<"public">>
DashboardRestart == <<"stop">> \o ReleaseStart \o <<"work">>
ReleaseCrashProbe ==
  <<"serve", "work", "crash">> \o ReleaseStart \o <<"ready">> \o UploadProfile

Release ==
  <<"work", "work">> \o ReleaseBootstrap \o <<"work">> \o RealPlayer \o PlayerHealth
    \o <<"serve">> \o HealthUpload \o HealthDashboard \o <<"public", "public">>
    \o StopRealPlayer \o DashboardRestart \o ReleaseCrashProbe \o <<"work">> \o Soak
    \o ShutdownAndPass
ReleaseHandler == <<"end_bot", "end_server">>
ReleaseFinally == <<"end_bot", "split", "write">>

SeedBootstrap == ReleaseStart \o <<"stop", "work">> \o ReleaseStart
PlaceBlockActor == <<"serve", "watch">> \o PlayerHealth \o <<"serve">>
\* cleanup_block_actor passes over every failure, so it is no step of its own.
SeedReport ==
  <<"work">> \o SeedBootstrap \o RealPlayer \o PlayerHealth \o PlaceBlockActor
    \o HealthUpload \o StopRealPlayer \o ShutdownAndPass

-----------------------------------------------------------------------------
(* block_actor_validation and the gamerule validations                     *)

FlatWorld == <<"start", "ready", "stop", "work">> \o Start
CaptureWorldInfo == <<"local">>
WaitWorldInfo == CaptureWorldInfo
BlockCommand == <<"serve">>
ReconcileMspt == BlockCommand
BlockLifecycle ==
  WaitWorldInfo \o BlockCommand \o WaitWorldInfo \o ReconcileMspt \o BlockCommand
    \o WaitWorldInfo \o BlockCommand \o WaitWorldInfo \o WaitWorldInfo
    \o ReconcileMspt \o BlockCommand
BlockActor ==
  <<"work", "divert">> \o FlatWorld \o <<"serve">> \o BlockLifecycle \o ShutdownAndPass
BlockActorHandler == <<"end_server">>
BlockActorFinally == <<"restore", "split", "write">>

DefaultBaseline == <<"work">> \o Start \o <<"ready", "serve">> \o ShutdownAndPass
FreshWorld == ReleaseStart \o <<"stop", "work">> \o ReleaseStart
DefaultProbe == <<"work">> \o FreshWorld \o <<"serve">> \o ShutdownAndPass

FallbackCapture == <<"local">>
WaypointsMapping == <<"serve">> \o FallbackCapture \o <<"serve">> \o FallbackCapture
ValidateGamerules == FallbackCapture \o <<"work">>
Fallback ==
  <<"work", "divert">> \o Start \o <<"serve">> \o WaypointsMapping \o ValidateGamerules
    \o ShutdownAndPass \o <<"write">>
GameruleHandler == <<"write", "end_server", "write">>
GameruleFinally == <<"restore">>

ApplyScenario == <<"serve">>
SemanticCapture == <<"local">>
ValidateSemantics == SemanticCapture \o <<"work">>
PhaseChange == <<"shutdown", "drop">>
OnlineReport == Start \o ApplyScenario \o <<"serve", "public">>
Semantic ==
  <<"work", "divert">> \o Start \o ApplyScenario \o ValidateSemantics \o PhaseChange
    \o <<"restore">> \o OnlineReport \o <<"shutdown", "drop", "pass", "write">>

-----------------------------------------------------------------------------
(* python_attribution_validation and python_attribution_performance        *)

AttributionStart == Start
WaitPlugin == <<"ready">>
\* On Windows the server that is only to write its files runs without the workload.
AttributionBootstrap(windows) ==
  (IF windows THEN <<"mute">> ELSE <<>>) \o AttributionStart \o WaitPlugin \o <<"stop">>
    \o (IF windows THEN <<"restore">> ELSE <<>>)
    \o patch_server_properties \o AttributionStart \o WaitPlugin \o <<"serve">>
StartBots == <<"bots", "online">> \o wait_player_count
StopBots == <<"leave">> \o wait_player_count
RunProfile == <<"public">>
ValidateProfile == <<"work">>
\* count = 0: start_bots and stop_bots return at once.
Attribution(windows, count) ==
  <<"work">> \o AttributionBootstrap(windows) \o <<"serve">>
    \o (IF count = 0 THEN <<>> ELSE StartBots) \o RunProfile \o ValidateProfile
    \o (IF count = 0 THEN <<>> ELSE StopBots) \o ShutdownAndPass \o <<"write">>
AttributionHandler == <<"write">> \o StopBots \o <<"shutdown">>

Measure == <<"serve">>
StopProfiler == <<"public">>
TickStatistics == <<"work">>
Performance(windows) ==
  <<"work">> \o AttributionBootstrap(windows) \o StartBots \o Measure \o StopProfiler
    \o StopBots \o <<"shutdown">> \o TickStatistics \o <<"pass", "write">>

-----------------------------------------------------------------------------
(* combined_pack_gamerule_fleet_validation                                 *)

StopForPhaseChange == <<"stop">>
InstallPacks == <<"work">>
\* On Windows the world of the first boot is renamed; on Linux a second boot makes one.
CombinedBootstrap(windows) ==
  <<"start", "ready", "serve">> \o StopForPhaseChange \o <<"work">>
    \o (IF windows THEN <<>> ELSE <<"start", "ready", "serve">> \o StopForPhaseChange)
    \o InstallPacks
PackFunctions == <<"serve">>
ModifiedGamerules == <<"serve">>
Assert20Players == wait_player_count
CapturePayload == <<"local">>
LocalMetadata == CapturePayload \o <<"work">>
PublicUpload == <<"public">>
CombinedStart ==
  <<"start", "ready", "serve">> \o PackFunctions \o ModifiedGamerules \o CrossFleetStart
    \o Assert20Players
LocalPhase ==
  <<"divert">> \o CombinedStart \o LocalMetadata \o FleetStop \o StopForPhaseChange
    \o <<"restore">>
PublicPhase ==
  CombinedStart \o <<"serve">> \o PublicUpload \o FleetProfile \o Assert20Players
    \o <<"public">> \o Assert20Players \o <<"serve">> \o FleetStop \o <<"shutdown", "drop">>
Combined(windows) ==
  <<"work">> \o CombinedBootstrap(windows) \o LocalPhase \o PublicPhase \o <<"pass", "write">>
CombinedHandler == <<"write", "end_bot", "end_server", "write">>
CombinedFinally == <<"restore">>

-----------------------------------------------------------------------------
(* The subclasses of PythonAttributionValidation                           *)

\* python_multi_plugin_validation: no bots; the version of the server is asked for.
MultiPluginInstall == <<"work">>
MultiPluginStart == AttributionStart \o <<"work", "ready", "work">>
MultiPluginWait == <<"ready", "ready">>
MultiPluginValidate == <<"work">>
MultiPlugin ==
  MultiPluginInstall \o MultiPluginStart \o MultiPluginWait \o <<"stop", "work">>
    \o MultiPluginStart \o MultiPluginWait \o <<"serve", "serve">> \o RunProfile
    \o MultiPluginValidate \o ShutdownAndPass \o <<"write">>

-----------------------------------------------------------------------------
(* final_profiler_matrix: one case of the matrix                           *)

MatrixStart(live) == Start \o (IF live THEN <<"ready">> ELSE <<>>) \o <<"work">>
MatrixBootstrap == <<"stop">> \o patch_server_properties
MatrixBot == <<"bots", "online">> \o wait_player_state
Warmup == <<"serve">>
StartProfiler == <<"serve">>
StartRetained == <<"serve">>
WaitRetained == <<"ready">>
ValidateRetained == <<"work">>
ReleaseRetained == <<"serve">>
MatrixProfile(live) == (IF live THEN <<>> ELSE StartProfiler) \o <<"public", "work">>
MatrixStopBot == <<"leave">> \o wait_player_state
Matrix(live) ==
  <<"work">> \o MatrixStart(live) \o <<"serve">> \o MatrixBootstrap \o MatrixStart(live)
    \o <<"serve">> \o MatrixBot \o Warmup
    \o (IF live THEN StartProfiler \o StartRetained \o WaitRetained \o ValidateRetained ELSE <<>>)
    \o MatrixProfile(live)
    \o (IF live THEN ReleaseRetained \o ValidateRetained ELSE <<>>)
    \o MatrixStopBot \o ShutdownAndPass
\* _cleanup_after_failure asks the server to give up the profile and passes over what fails.
MatrixHandler == <<"end_bot", "end_server">>
\* _write_evidence_manifest is not guarded either.
MatrixFinally == <<"split", "split", "write">>

-----------------------------------------------------------------------------
(* final_control_monitoring: one case of a pair, with or without Spark     *)

MonitoringStart == Start \o <<"ready", "work", "ready">>
Sanity == <<"serve">>
MonitoringBootstrap ==
  MonitoringStart \o Sanity \o <<"stop">> \o patch_server_properties \o MonitoringStart \o Sanity
ProfilerInactive == <<"serve">>
Measurement == ProfilerInactive \o <<"serve", "work">> \o ProfilerInactive
WorkloadMetrics == <<"work">>
Monitoring ==
  <<"work">> \o MonitoringBootstrap \o Measurement \o <<"shutdown">> \o WorkloadMetrics
    \o <<"pass">>
MonitoringHandler == <<"end_server">>
MonitoringFinally == <<"split", "write">>

-----------------------------------------------------------------------------
(* python_native_bridge_coverage_oracle, linux_elf_rescan_measurement      *)

OracleInstall == <<"work">>
OracleWait == <<"ready">>
CaptureProfile == <<"serve", "public", "work">>
Oracle ==
  OracleInstall \o Start \o OracleWait \o CaptureProfile \o <<"shutdown", "work", "pass">>
OracleHandler == <<"end_server">>
OracleFinally == <<"split", "write">>

WaitForMeasurement == <<"ready", "work">>
ElfRescan == <<"work">> \o Start \o WaitForMeasurement \o ShutdownAndPass

-----------------------------------------------------------------------------
(* The EndKeep runners                                                     *)

InstallerControl == Start \o <<"serve", "work", "quit", "pass">>
\* Written before the server is killed.
InstallerFinally == <<"write", "kill">>

\* What is left after a stop may be a worker of EndKeep, which is then shut down by the run.
Python315 == <<"start", "ready", "ready", "serve", "serve", "serve", "quit", "work", "pass">>
Python315Finally == <<"kill", "write">>

EndKeepStart == <<"start", "ready", "ready", "serve", "work">>
EndKeepStop == <<"work", "serve", "quit">>
Logicalization == <<"serve", "ready", "work">>
DrainRaw == <<"work", "serve">>
\* Stopped, or killed with SIGKILL together with its worker: the wrapper must follow.
InterruptWorker ==
  EndKeepStart \o Logicalization \o <<"work", "quit">> \o EndKeepStart \o DrainRaw \o EndKeepStop
EndKeep ==
  <<"work">> \o EndKeepStart \o <<"work">> \o EndKeepStop
    \o EndKeepStart \o <<"serve", "work">> \o EndKeepStop
    \o EndKeepStart \o <<"serve">> \o Logicalization \o <<"serve", "work">> \o EndKeepStop
    \o EndKeepStart \o DrainRaw \o EndKeepStop
    \o EndKeepStart \o Logicalization \o <<"work", "quit">>
    \o EndKeepStart \o <<"serve", "work">> \o EndKeepStop
    \o InterruptWorker \o <<"work", "pass">>
EndKeepFinally == <<"kill", "write">>
=============================================================================
