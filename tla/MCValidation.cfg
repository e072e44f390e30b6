\* Each runner of the repository once, with the script of its source: bound 3 on the events
\* a bot prints.
CONSTANTS
  Runner <- Runners
  Windows <- OnWindows
  Script <- Scripts
  Handler <- Handlers
  Finally <- Finallys
  Unwinds <- Unwinding
  Narrow <- Unlisted
  Kind <- Kinds
  Normalizes <- CrossBots

SPECIFICATION FairSpec
INVARIANTS
  TypeOK
  PassIsClean
  NothingRunsOn
  ReportsArePublic
  SignalledWasDrained
PROPERTIES
  RunEnds
  KeepsContract
