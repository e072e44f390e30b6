---------------------------- MODULE MCValidation ----------------------------
\* The validation runs of the repository: the runners, their scripts and their clauses.
EXTENDS Validation

Runners ==
  {"bot", "spark_bot", "fleet", "scenario", "chunk_walk", "traversal", "cross", "extended",
   "multi_session", "release", "release_windows", "seed_report", "block_actor", "baseline",
   "probe", "fallback", "semantic", "attribution", "attribution_windows", "headless",
   "performance", "combined", "combined_windows", "multi_plugin", "matrix", "monitoring",
   "oracle", "elf_rescan", "installer_control", "python315", "endkeep"}
OnWindows ==
  {"release_windows", "attribution_windows", "combined_windows", "installer_control",
   "endkeep"}

Fleets == {"spark_bot", "fleet", "scenario", "chunk_walk", "traversal", "cross"}
Attributions == {"attribution", "attribution_windows", "headless", "performance", "multi_plugin"}
Combineds == {"combined", "combined_windows"}
Releases == {"release", "release_windows", "seed_report"}
Gamerules == {"fallback", "semantic"}
Extendeds == {"extended", "multi_session", "baseline", "probe", "elf_rescan"}
EndKeeps == {"installer_control", "python315", "endkeep"}

Scripts == [r \in Runners |->
  CASE r = "bot" -> BotMain
    [] r = "spark_bot" -> SparkBot
    [] r = "fleet" -> Fleet
    [] r = "scenario" -> Scenario
    [] r = "chunk_walk" -> ChunkWalk
    [] r = "traversal" -> Traversal
    [] r = "cross" -> CrossFleet
    [] r = "extended" -> Extended
    [] r = "multi_session" -> MultiSession
    [] r \in {"release", "release_windows"} -> Release
    [] r = "seed_report" -> SeedReport
    [] r = "block_actor" -> BlockActor
    [] r = "baseline" -> DefaultBaseline
    [] r = "probe" -> DefaultProbe
    [] r = "fallback" -> Fallback
    [] r = "semantic" -> Semantic
    [] r = "attribution" -> Attribution(FALSE, 1)
    [] r = "attribution_windows" -> Attribution(TRUE, 1)
    [] r = "headless" -> Attribution(FALSE, 0)
    [] r = "performance" -> Performance(FALSE)
    [] r = "combined" -> Combined(FALSE)
    [] r = "combined_windows" -> Combined(TRUE)
    [] r = "multi_plugin" -> MultiPlugin
    [] r = "matrix" -> Matrix(TRUE)
    [] r = "monitoring" -> Monitoring
    [] r = "oracle" -> Oracle
    [] r = "elf_rescan" -> ElfRescan
    [] r = "installer_control" -> InstallerControl
    [] r = "python315" -> Python315
    [] r = "endkeep" -> EndKeep]

Handlers == [r \in Runners |->
  CASE r \in Fleets -> FleetHandler
    [] r \in Attributions -> AttributionHandler
    [] r \in Combineds -> CombinedHandler
    [] r \in Releases -> ReleaseHandler
    [] r \in Gamerules -> GameruleHandler
    [] r \in Extendeds -> ExtendedHandler
    [] r = "block_actor" -> BlockActorHandler
    [] r = "matrix" -> MatrixHandler
    [] r = "monitoring" -> MonitoringHandler
    [] r = "oracle" -> OracleHandler
    [] r \in EndKeeps \cup {"bot"} -> <<>>]

Finallys == [r \in Runners |->
  CASE r \in Fleets -> FleetFinally
    [] r \in Attributions -> <<>>
    [] r \in Combineds -> CombinedFinally
    [] r \in Releases -> ReleaseFinally
    [] r \in Gamerules -> GameruleFinally
    [] r \in Extendeds -> ExtendedFinally
    [] r = "block_actor" -> BlockActorFinally
    [] r = "matrix" -> MatrixFinally
    [] r = "monitoring" -> MonitoringFinally
    [] r = "oracle" -> OracleFinally
    [] r = "installer_control" -> InstallerFinally
    [] r = "python315" -> Python315Finally
    [] r = "endkeep" -> EndKeepFinally
    [] r = "bot" -> BotFinally]

Unlisted == {"oracle"}
Unwinding == Attributions \cup Combineds
CrossBots == {"cross", "attribution", "headless", "performance", "combined"}
Kinds == [r \in Runners |->
  CASE r \in {"bot", "spark_bot"} \cup Attributions -> "ended"
    [] r \in {"fleet", "cross"} \cup Combineds -> "complete"
    [] r \in {"scenario", "chunk_walk", "traversal"} -> "moved"
    [] OTHER -> "clean"]
=============================================================================
