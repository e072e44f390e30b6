----------------------------- MODULE Validation -----------------------------
(***************************************************************************)
(* A validation run: one runner executes the steps of its script, which    *)
(* may fail at each of them, then those of its except clause and of its    *)
(* finally clause, on a server and bots that live and die on their own.    *)
(*                                                                         *)
(* The supervisor's calls are single steps here, with the outcomes module  *)
(* ServerProcess establishes for them: a stop that succeeds has seen the   *)
(* wrapper exit, a kill has sent SIGKILL on Linux and may have done        *)
(* nothing on Windows, the wrapper can outlast the waits that follow it,   *)
(* and a Bedrock server can survive its wrapper. Scripts are those of      *)
(* module ValidationScripts.                                               *)
(***************************************************************************)
EXTENDS BotFleet, ValidationScripts

CONSTANTS
  Runner,      \* the runners, by platform where their scripts differ
  Windows,     \* those that run on Windows
  Script,      \* the try block of each
  Handler,     \* its except clause, after status = "FAIL"
  Finally,     \* its finally clause
  Unwinds,     \* runners whose methods restore the environment when they raise
  Narrow,      \* those whose except clause names the exceptions it catches
  Kind,        \* what each asks of the events of its bots
  Normalizes   \* those whose bots are CrossPlatformFleetBotProcess on Linux

VARIABLES
  runner,     \* the runner this is a run of
  section,    \* try, handler, finally; over or crashed
  step,       \* the step that is next
  leaving,    \* how far terminate() is
  held,       \* self.server is not None
  wrapper,    \* the Endstone process started last; killed: sent SIGKILL, not yet gone
  bds,        \* the Bedrock server below it
  stray,      \* what is alive of earlier starts
  listening,  \* the capture listens
  env,        \* the environment a server would inherit now
  inherited,  \* the environment the server has
  published,  \* environments of the servers whose public URLs are in the result
  verdict,    \* result["status"]
  disk        \* "status" in the result file

serverVars == <<held, wrapper, bds, stray>>
envVars == <<listening, env, inherited, published>>
at == <<section, step>>
vars == <<runner, at, leaving, serverVars, envVars, verdict, disk, botVars>>

Sections == {"try", "handler", "finally"}
Environments == {"normal", "captured", "muted"}
Plan ==
  IF section = "try" THEN Script[runner]
  ELSE IF section = "handler" THEN Handler[runner] ELSE Finally[runner]

TypeOK ==
  /\ runner \in Runner
  /\ section \in Sections \cup {"over", "crashed"}
  /\ step \in Nat \ {0}
  /\ leaving \in {"no", "asked", "gone"}
  /\ held \in BOOLEAN /\ stray \in SUBSET {"wrapper", "bedrock"} /\ listening \in BOOLEAN
  /\ wrapper \in {"none", "up", "killed", "dead"} /\ bds \in {"none", "up", "dead"}
  /\ env \in Environments /\ inherited \in Environments /\ published \in SUBSET Environments
  /\ verdict \in {"running", "PASS", "FAIL"} /\ disk \in {"running", "PASS", "FAIL"}
  /\ BotTypeOK

Init ==
  /\ runner \in Runner /\ section = "try" /\ step = 1 /\ leaving = "no"
  /\ held = FALSE /\ wrapper = "none" /\ bds = "none" /\ stray = {}
  /\ listening = FALSE /\ env = "normal" /\ inherited = "normal" /\ published = {}
  /\ verdict = "running" /\ disk = "running"
  /\ BotInit

\* is_alive
Up == wrapper \in {"up", "killed"}
Active == section \in Sections
AtOneOf(tokens) == Active /\ step <= Len(Plan) /\ Plan[step] \in tokens
At(token) == AtOneOf({token})

Advance == step' = step + 1 /\ UNCHANGED <<runner, section, leaving, verdict, disk>>

\* capture.stop() and the environment as it was.
Restored == listening' = FALSE /\ env' = "normal" /\ UNCHANGED <<inherited, published>>
EnvRaised == IF runner \in Unwinds THEN Restored ELSE UNCHANGED envVars

\* An exception: the try block is left and the run has failed, or, if its except clause does
\* not name the exception, has no verdict; the clauses that clean up pass over it.
Raise ==
  \/ /\ section = "try"
     /\ section' = "handler" /\ step' = 1 /\ verdict' = "FAIL"
     /\ leaving' = "no" /\ EnvRaised
     /\ UNCHANGED <<runner, disk>>
  \/ /\ section = "try" /\ runner \in Narrow
     /\ section' = "finally" /\ step' = 1 /\ leaving' = "no" /\ EnvRaised
     /\ UNCHANGED <<runner, verdict, disk>>
  \/ /\ section \in {"handler", "finally"}
     /\ step' = step + 1 /\ leaving' = "no"
     /\ UNCHANGED <<runner, section, verdict, disk, envVars>>

Ok == Advance /\ UNCHANGED envVars

-----------------------------------------------------------------------------
(* The server.                                                             *)

\* The outcomes of force_kill_tree: Linux kills the group of a wrapper it has not reaped,
\* and passes over a wait that is too short; Windows may leave the wrapper alone, or raise.
\* The Bedrock server may outlive it on both.
KillTree ==
  /\ wrapper' \in IF Up THEN {"dead", "killed"} \cup (IF runner \in Windows THEN {wrapper} ELSE {})
                 ELSE {wrapper}
  /\ bds' \in {bds, IF bds = "up" THEN "dead" ELSE bds}
  /\ UNCHANGED stray

\* A new ServerProcess: what is alive of the one before it is a stray from now on.
Forget ==
  stray' = stray \cup (IF Up THEN {"wrapper"} ELSE {}) \cup (IF bds = "up" THEN {"bedrock"} ELSE {})

\* The new wrapper inherits os.environ.
Popen ==
  /\ wrapper' = "up" /\ bds' = "up" /\ Forget
  /\ inherited' = env /\ UNCHANGED <<listening, env, published>>

\* A process that cannot be started leaves a server that has none.
StartServer ==
  /\ At("start")
  /\ held' = TRUE
  /\ \/ Popen /\ Advance
     \/ wrapper' = "none" /\ bds' = "none" /\ Forget /\ Raise
  /\ UNCHANGED botVars

\* bot_validation.start_server: the caller has no server before the ready line is seen.
LaunchServer ==
  /\ At("launch")
  /\ \/ Popen /\ Advance
     \/ Raise /\ UNCHANGED <<wrapper, bds, stray>>
  /\ UNCHANGED <<held, botVars>>

\* wait_for: while it was up it has said what was waited for, or an exception.
Ready ==
  /\ At("ready")
  /\ \/ Up /\ Ok /\ held' = TRUE
     \/ Raise /\ UNCHANGED held
  /\ UNCHANGED <<wrapper, bds, stray, botVars>>

\* Commands, waits for their output and what is asked of it.
Serve ==
  /\ At("serve")
  /\ (Up /\ Ok) \/ Raise
  /\ UNCHANGED <<serverVars, botVars>>

\* An upload that must be counted by the capture.
LocalReport ==
  /\ At("local")
  /\ \/ Up /\ listening /\ inherited = "captured" /\ Ok
     \/ Raise
  /\ UNCHANGED <<serverVars, botVars>>

\* A report that is uploaded and whose URL is kept: where it went nobody can tell.
PublicReport ==
  /\ At("public")
  /\ \/ /\ Up /\ Advance
        /\ published' = published \cup {inherited} /\ UNCHANGED <<listening, env, inherited>>
     \/ Raise
  /\ UNCHANGED <<serverVars, botVars>>

\* graceful_stop, which refuses a server that was killed, and close, or a kill and an
\* exception; without a server nothing.
StopServer ==
  /\ At("stop")
  /\ \/ /\ held /\ wrapper # "killed"
        /\ held' = FALSE /\ wrapper' = (IF Up THEN "dead" ELSE wrapper)
        /\ bds' \in {bds, IF bds = "up" THEN "dead" ELSE bds} /\ Ok /\ UNCHANGED stray
     \/ held /\ KillTree /\ Raise /\ UNCHANGED held
     \/ ~held /\ Ok /\ UNCHANGED serverVars
  /\ UNCHANGED botVars

\* Fault: the kill ends the shutdown, and not an exception.
Shutdown_Lenient ==
  /\ At("shutdown")
  /\ \/ held /\ KillTree /\ Ok /\ UNCHANGED held
     \/ ~held /\ Ok /\ UNCHANGED serverVars
  /\ UNCHANGED botVars

\* IntegrationTest.shutdown: after a graceful stop Linux looks for every Bedrock server,
\* Windows only for those that were adopted. The server stays self.server.
Shutdown ==
  /\ At("shutdown")
  /\ \/ /\ held /\ wrapper # "killed" /\ wrapper' = (IF Up THEN "dead" ELSE wrapper)
        /\ bds' \in {bds, IF bds = "up" THEN "dead" ELSE bds}
        /\ \/ (runner \in Windows \/ (bds' # "up" /\ "bedrock" \notin stray)) /\ Ok
           \/ Raise
        /\ UNCHANGED <<held, stray>>
     \/ held /\ KillTree /\ Raise /\ UNCHANGED held
     \/ ~held /\ Ok /\ UNCHANGED serverVars
  /\ UNCHANGED botVars

\* self.server = None
Drop == At("drop") /\ held' = FALSE /\ Ok /\ UNCHANGED <<wrapper, bds, stray, botVars>>

\* The crash the recovery probe makes: force_kill_tree, close, None, whether the wrapper is
\* gone or not; a kill that raises leaves the server held.
Crash ==
  /\ At("crash")
  /\ KillTree
  /\ \/ Ok /\ held' = FALSE
     \/ Raise /\ UNCHANGED held
  /\ UNCHANGED botVars

\* The EndKeep runners: a stop that must succeed, without a kill if it does not.
Quit ==
  /\ At("quit")
  /\ wrapper' \in {wrapper, IF Up THEN "dead" ELSE wrapper}
  /\ bds' \in {bds, IF bds = "up" THEN "dead" ELSE bds}
  /\ \/ wrapper' \notin {"up", "killed"} /\ held' = FALSE /\ Ok
     \/ Raise /\ UNCHANGED held
  /\ UNCHANGED <<stray, botVars>>

ServerTokens ==
  {"start", "launch", "ready", "serve", "local", "public", "stop", "shutdown", "drop",
   "crash", "quit"}
ServerSteps ==
  /\ AtOneOf(ServerTokens)
  /\ \/ StartServer \/ LaunchServer \/ Ready \/ Serve \/ LocalReport \/ PublicReport
     \/ StopServer \/ Shutdown \/ Drop \/ Crash \/ Quit

-----------------------------------------------------------------------------
(* The bots.                                                               *)

StartBot ==
  /\ At("bots")
  /\ \/ Launch /\ Ok
     \/ Raise /\ UNCHANGED botVars
  /\ UNCHANGED serverVars

\* wait_event
BotOnline ==
  /\ At("online")
  /\ (Online /\ Ok) \/ Raise
  /\ UNCHANGED <<serverVars, botVars>>

\* Both are polled, and the bot must not have left.
Watch ==
  /\ At("watch")
  /\ (Up /\ Running /\ Ok) \/ Raise
  /\ UNCHANGED <<serverVars, botVars>>

\* terminate: without a process there is nothing to do.
LeaveNobody ==
  /\ At("leave") /\ leaving = "no" /\ proc = "none"
  /\ Ok /\ UNCHANGED <<serverVars, botVars>>

LeaveSignal ==
  /\ At("leave") /\ leaving = "no" /\ Signal
  /\ leaving' = "asked"
  /\ UNCHANGED <<runner, at, verdict, disk, serverVars, envVars>>

LeaveGone ==
  /\ At("leave") /\ proc = "exited" /\ leaving \in {"no", "asked"}
  /\ leaving' = "gone"
  /\ UNCHANGED <<runner, at, verdict, disk, serverVars, envVars, botVars>>

\* Fault: a bot that does not exit is asked again.
LeaveKilled_Again ==
  /\ At("leave") /\ leaving = "asked" /\ Running
  /\ leaving' = "no"
  /\ UNCHANGED <<runner, at, verdict, disk, serverVars, envVars, botVars>>

\* The timeout of terminate: the bot is killed and the run fails, whether it goes or not.
LeaveKilled ==
  /\ At("leave") /\ leaving = "asked" /\ KillBot
  /\ Raise
  /\ UNCHANGED serverVars

\* The code and the events, as far as the reader has come when join() returns.
Judged == CleanCode(runner \in Normalizes) /\ Acceptable(Kind[runner])
LeaveJudged ==
  /\ At("leave") /\ leaving = "gone"
  /\ IF Judged
       THEN /\ leaving' = "no"
            /\ step' = step + 1
            /\ UNCHANGED <<runner, section, verdict, disk, envVars>>
       ELSE Raise
  /\ UNCHANGED <<serverVars, botVars>>

BotTokens == {"bots", "online", "watch", "leave"}
BotSteps ==
  /\ AtOneOf(BotTokens)
  /\ \/ StartBot \/ BotOnline \/ Watch \/ LeaveNobody \/ LeaveSignal \/ LeaveGone
     \/ LeaveKilled \/ LeaveJudged

-----------------------------------------------------------------------------
(* The rest of a script.                                                   *)

Work ==
  /\ At("work")
  /\ Ok \/ Raise
  /\ UNCHANGED <<serverVars, botVars>>

\* capture.start() and os.environ["SPARK_BYTEBINURL"]; the attribution runners' mode.
Divert ==
  /\ \/ At("divert") /\ listening' = TRUE /\ env' = "captured"
     \/ At("mute") /\ env' = "muted" /\ UNCHANGED listening
  /\ Advance /\ UNCHANGED <<inherited, published, serverVars, botVars>>

\* Fault: the capture is closed, and the environment still names it.
Restore_KeepsEnv ==
  /\ At("restore")
  /\ listening' = FALSE /\ UNCHANGED <<env, inherited, published>>
  /\ Advance /\ UNCHANGED <<serverVars, botVars>>

Restore == At("restore") /\ Restored /\ Advance /\ UNCHANGED <<serverVars, botVars>>

PassRun ==
  /\ At("pass")
  /\ verdict' = "PASS" /\ step' = step + 1
  /\ UNCHANGED <<runner, section, leaving, disk, serverVars, envVars, botVars>>

\* write_json: the file as it is in memory.
Write ==
  /\ At("write")
  /\ disk' = verdict /\ step' = step + 1
  /\ UNCHANGED <<runner, section, leaving, verdict, serverVars, envVars, botVars>>

\* Fault: force_close only of a bot that was asked to leave.
EndBot_OnlyAsked ==
  /\ At("end_bot")
  /\ IF Running /\ asked THEN KillBot ELSE UNCHANGED botVars
  /\ Ok /\ UNCHANGED serverVars

\* force_close of a bot that is alive.
EndBot ==
  /\ At("end_bot")
  /\ IF Running THEN KillBot ELSE UNCHANGED botVars
  /\ Ok /\ UNCHANGED serverVars

\* force_kill_tree of a server whose wrapper is alive; what it raises is passed over.
EndServer ==
  /\ At("end_server")
  /\ IF held /\ Up THEN KillTree ELSE UNCHANGED <<wrapper, bds, stray>>
  /\ Ok /\ UNCHANGED <<held, botVars>>

\* Fault: a return in the finally clause ends the run and swallows the exception.
SplitLogs_Returns ==
  /\ At("split")
  /\ \/ Ok
     \/ section' = "over" /\ UNCHANGED <<runner, step, leaving, verdict, disk, envVars>>
  /\ UNCHANGED <<serverVars, botVars>>

\* split_logs, or evidence that is written: nothing catches what they raise.
SplitLogs ==
  /\ At("split")
  /\ \/ Ok
     \/ section' = "crashed" /\ UNCHANGED <<runner, step, leaving, verdict, disk, envVars>>
  /\ UNCHANGED <<serverVars, botVars>>

\* A kill in a finally clause, and close: nothing catches what they raise.
KillServer ==
  /\ At("kill")
  /\ KillTree
  /\ \/ Ok
     \/ section' = "crashed" /\ UNCHANGED <<runner, step, leaving, verdict, disk, envVars>>
  /\ UNCHANGED <<held, botVars>>

\* A clause is done: the finally clause follows, and then the run is over, or the exception
\* that was not caught ends it.
NextSection ==
  /\ Active /\ step > Len(Plan)
  /\ \/ section # "finally" /\ section' = "finally"
     \/ section = "finally" /\ section' = (IF verdict = "running" THEN "crashed" ELSE "over")
  /\ step' = 1
  /\ UNCHANGED <<runner, leaving, verdict, disk, serverVars, envVars, botVars>>

Controller ==
  \/ ServerSteps \/ BotSteps
  \/ Work \/ Divert \/ Restore \/ PassRun \/ Write \/ EndBot \/ EndServer \/ KillServer
  \/ SplitLogs
  \/ NextSection

-----------------------------------------------------------------------------
(* Everything else, while the run lasts. A run that is killed takes no     *)
(* more steps, which Spec, without fairness, allows at any time.           *)

\* A process dies; a wrapper can leave its Bedrock server behind.
ServerDies ==
  /\ Active
  /\ \/ Up /\ wrapper' = "dead" /\ bds' \in {bds, "dead"} /\ UNCHANGED stray
     \/ bds = "up" /\ bds' = "dead" /\ UNCHANGED <<wrapper, stray>>
     \/ \E x \in stray : stray' = stray \ {x} /\ UNCHANGED <<wrapper, bds>>
  /\ UNCHANGED <<runner, at, leaving, held, envVars, verdict, disk, botVars>>

BotMoves ==
  /\ Active
  /\ BotPrints \/ BotExits \/ ReadEvent
  /\ UNCHANGED <<runner, at, leaving, serverVars, envVars, verdict, disk>>

Ended == ~Active /\ UNCHANGED vars

Next == Controller \/ ServerDies \/ BotMoves \/ Ended
Spec == Init /\ [][Next]_vars

\* The controller's thread goes on as long as it can; nothing else is asked for.
FairSpec == Spec /\ WF_vars(Controller)

-----------------------------------------------------------------------------
(* Scripts a run can be trusted with: assumed here, and checked by TLC for *)
(* those of the repository.                                                *)

\* The kill of a crash does not close a server: nothing looks whether it is gone.
Opens == {"start", "launch"}
Closes == {"stop", "shutdown", "quit"}

\* A server may be up, and a bot may run, when step i of the try block is next.
ServerOpen(r, i) ==
  \E j \in 1 .. i - 1 :
    /\ Script[r][j] \in Opens
    /\ \A k \in j + 1 .. i - 1 : Script[r][k] \notin Closes
BotOpen(r, i) ==
  \E j \in 1 .. i - 1 :
    /\ Script[r][j] = "bots"
    /\ \A k \in j + 1 .. i - 1 : Script[r][k] # "leave"

\* A Bedrock server may be left: nothing has looked for them since a start.
Unchecked(r, i) ==
  \E j \in 1 .. i - 1 :
    /\ Script[r][j] \in Opens
    /\ \A k \in j + 1 .. i - 1 : Script[r][k] # "shutdown"

\* self.server is the server started last when step i is next.
Held(r, i) ==
  \E j \in 1 .. i - 1 :
    /\ Script[r][j] \in {"start", "ready"}
    /\ \A k \in j + 1 .. i - 1 : Script[r][k] \notin {"stop", "drop", "crash", "quit"}

\* The environment, or the capture, is not what it was, and nothing has restored it.
Since(r, i, tokens) ==
  \E j \in 1 .. i - 1 :
    /\ Script[r][j] \in tokens
    /\ \A k \in j + 1 .. i - 1 : Script[r][k] # "restore"
Diverted(r, i) == Since(r, i, {"divert", "mute"})
Listens(r, i) == Since(r, i, {"divert"})

\* The server of step i was started meanwhile.
Tainted(r, i) ==
  \E j \in 1 .. i - 1 :
    /\ Script[r][j] \in Opens /\ Diverted(r, j)
    /\ \A k \in j + 1 .. i - 1 : Script[r][k] \notin Opens

Contains(s, tokens) == \E i \in DOMAIN s : s[i] \in tokens
Cleanup == Token \ {"start", "launch", "ready", "bots", "pass", "divert", "mute"}

\* What ends a server that is held, whether it raises or not; what nothing catches.
Ends == {"end_server", "stop", "shutdown", "kill"}
Uncaught == {"split", "kill"}

ASSUME ScriptAssumption ==
  /\ Script \in [Runner -> Seq(Token)]
  /\ Handler \in [Runner -> Seq(Cleanup)] /\ Finally \in [Runner -> Seq(Cleanup)]
  /\ \A r \in Runner :
       /\ \E i \in DOMAIN Script[r] : Script[r][i] = "pass"
       /\ \A i \in DOMAIN Script[r] : Script[r][i] = "pass" =>
            /\ ~ServerOpen(r, i) /\ ~BotOpen(r, i)
            /\ Listens(r, i) => Contains(Finally[r], {"restore"})
            /\ \A j \in DOMAIN Script[r] : j > i => Script[r][j] = "write"
       /\ \A i \in DOMAIN Script[r] :
            /\ Script[r][i] = "launch" => (i < Len(Script[r]) /\ Script[r][i + 1] = "ready")
            /\ Script[r][i] = "crash" => (i < Len(Script[r]) /\ Script[r][i + 1] = "start")
            /\ (Script[r][i] \in Opens /\ ServerOpen(r, i)) =>
                 (i > 1 /\ Script[r][i - 1] = "crash")
            /\ Script[r][i] = "drop" => ~ServerOpen(r, i)
            /\ Script[r][i] = "shutdown" => Held(r, i)
            /\ Script[r][i] = "public" => ~Tainted(r, i)
            /\ (Script[r][i] \in Opens /\ Contains(Script[r], {"shutdown"})) =>
                 \E j \in DOMAIN Script[r] : j > i /\ Script[r][j] = "shutdown"
       /\ Contains(Script[r], {"bots"}) =>
            (Contains(Handler[r], {"end_bot", "leave"}) \/ Contains(Finally[r], {"end_bot"}))
       /\ Contains(Script[r], {"divert"}) =>
            \/ r \in Unwinds
            \/ Contains(Handler[r], {"restore"})
            \/ Contains(Finally[r], {"restore"})
       /\ r \notin Windows => (Contains(Handler[r], Ends) \/ Contains(Finally[r], Ends))
       /\ r \in Narrow =>
            /\ Contains(Script[r], {"bots"}) => Contains(Finally[r], {"end_bot"})
            /\ Contains(Script[r], {"divert"}) =>
                 (r \in Unwinds \/ Contains(Finally[r], {"restore"}))
       /\ ~Contains(Script[r], Uncaught) /\ ~Contains(Handler[r], Uncaught)
       /\ \A i, j \in DOMAIN Finally[r] :
            (Finally[r][i] \in Uncaught /\ j > i) =>
              Finally[r][j] \notin {"end_bot", "restore"} \cup Ends
       /\ \/ Contains(Finally[r], {"write"})
          \/ /\ Contains(Handler[r], {"write"})
             /\ \A i \in DOMAIN Script[r] : Script[r][i] = "pass" =>
                  \E j \in DOMAIN Script[r] : j > i /\ Script[r][j] = "write"
  /\ Windows \subseteq Runner /\ Unwinds \subseteq Runner
  /\ Narrow \subseteq Runner /\ Normalizes \subseteq Runner
  /\ Kind \in [Runner -> {"clean", "ended", "complete", "moved"}]

-----------------------------------------------------------------------------
(* Properties.                                                             *)

\* "PASS" means that the run has taken down what it put up: no bot and no server it started
\* last runs, what is alive of earlier Endstone processes is what the recovery probe killed,
\* and on Linux, after a shutdown with its residual check, no Bedrock server of any start
\* is up.
PassIsClean ==
  verdict = "PASS" =>
    /\ ~Running /\ ~Up
    /\ "wrapper" \in stray => Contains(Script[runner], {"crash"})
    /\ (runner \notin Windows /\ Contains(Script[runner], {"shutdown"})) =>
         (bds # "up" /\ "bedrock" \notin stray)

\* However a run ends, by its last statement or by an exception nothing catches: its bots have
\* exited or been killed, its capture is closed, and the wrapper it knows of has, on Linux,
\* exited or been killed, too (except and finally clauses). Only a run whose except clause
\* does not name the exception leaves its server alone, and it has no verdict.
NothingRunsOn ==
  ~Active =>
    /\ proc # "running" /\ ~listening
    /\ (wrapper = "up" /\ held /\ runner \notin Windows) =>
         (verdict = "running" /\ runner \in Narrow)

\* The URLs a run that passed reports are of servers with the normal environment: neither
\* the capture's (combined, gamerule runs) nor without the workload (attribution runs).
ReportsArePublic ==
  verdict = "PASS" => published \subseteq {"normal"}

\* A run that passed although waitpid reported the signal has seen every bot report and
\* the fleet end because of the signal, and asked for it (_complete_linux_sigterm_shutdown).
SignalledWasDrained ==
  (verdict = "PASS" /\ proc = "exited" /\ code = "sigterm") =>
    /\ asked /\ runner \in Normalizes
    /\ Len(printed) = 3 /\ printed[2] # "incomplete" /\ printed[3] = "signalled"

\* Every run ends, although nothing makes the server or a bot answer.
RunEnds == <>(~Active)

\* The run as RunContract sees it; bots that were killed count as given back.
Phase ==
  IF section = "over" THEN "over"
  ELSE IF section = "crashed" THEN "abandoned"
  ELSE IF verdict = "running" THEN "working" ELSE "ending"
Open == (IF Up THEN {"server"} ELSE {}) \cup (IF proc = "running" THEN {"fleet"} ELSE {})
Contract == INSTANCE RunContract WITH phase <- Phase, open <- Open, recorded <- disk

\* Every run keeps the promises of RunContract.
KeepsContract == Contract!Spec
=============================================================================
