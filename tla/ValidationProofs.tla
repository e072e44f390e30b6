--------------------------- MODULE ValidationProofs ---------------------------
(***************************************************************************)
(* What is proved of a validation run, for every set of runners whose      *)
(* scripts satisfy ScriptAssumption: its type, that a PASS is clean, that  *)
(* a fleet that was signalled was drained, that a run leaves nothing       *)
(* running and reports only what is public, and that it implements         *)
(* RunContract.                                                            *)
(***************************************************************************)
EXTENDS Validation, TLAPS

-----------------------------------------------------------------------------
(* Types.                                                                  *)

\* The events of a bot keep their type, whatever happens to it.
LEMMA BotTypes ==
  ASSUME BotTypeOK,
         BotPrints \/ BotExits \/ ReadEvent \/ Launch \/ Signal \/ KillBot \/ UNCHANGED botVars
  PROVE  BotTypeOK'
<1>1. CASE BotPrints
  <2>1. PICK e \in Printable(printed) : printed' = Append(printed, e)
    BY <1>1 DEF BotPrints
  <2>2. e \in Events /\ Len(printed) <= 2
    BY <2>1 DEF Printable, Events, Stats, Endings, BotTypeOK
  <2>3. printed' \in Seq(Events) /\ Len(printed') = Len(printed) + 1
    BY <2>1, <2>2 DEF BotTypeOK
  <2> QED
    BY <1>1, <2>2, <2>3 DEF BotPrints, BotTypeOK
<1>2. CASE BotExits
  BY <1>2 DEF BotTypeOK, BotExits, Running
<1>3. CASE ReadEvent
  BY <1>3 DEF BotTypeOK, ReadEvent
<1>4. CASE Launch
  <2>1. printed' \in Seq(Events) /\ Len(printed') = 0
    BY <1>4 DEF Launch
  <2>2. seen' \in 0 .. Len(printed') /\ Len(printed') <= 3
    BY <1>4, <2>1 DEF Launch
  <2>3. proc' = "running" /\ code' = "none" /\ asked' = FALSE
    BY <1>4 DEF Launch
  <2> QED
    BY <2>1, <2>2, <2>3 DEF BotTypeOK
<1>5. CASE Signal \/ KillBot \/ UNCHANGED botVars
  BY <1>5 DEF BotTypeOK, Signal, KillBot, botVars
<1> QED
  BY <1>1, <1>2, <1>3, <1>4, <1>5

\* Whatever a step of the run does to its bots is one of the steps of BotFleet.
LEMMA BotStep ==
  ASSUME [Next]_vars
  PROVE  BotPrints \/ BotExits \/ ReadEvent \/ Launch \/ Signal \/ KillBot \/ UNCHANGED botVars
<1>1. CASE ServerSteps
  BY <1>1 DEF ServerSteps, StartServer, LaunchServer, Ready, Serve, LocalReport, PublicReport,
              StopServer, Shutdown, Drop, Crash, Quit
<1>2. CASE BotSteps
  BY <1>2 DEF BotSteps, StartBot, BotOnline, Watch, LeaveNobody, LeaveSignal, LeaveGone,
              LeaveKilled, LeaveJudged
<1>3. CASE Work \/ Divert \/ Restore \/ PassRun \/ Write
  BY <1>3 DEF Work, Divert, Restore, PassRun, Write
<1>4. CASE EndBot \/ EndServer \/ KillServer \/ SplitLogs \/ NextSection
  BY <1>4 DEF EndBot, EndServer, KillServer, SplitLogs, NextSection
<1>5. CASE ServerDies \/ BotMoves \/ Ended \/ UNCHANGED vars
  BY <1>5 DEF ServerDies, BotMoves, Ended, vars
<1> QED
  BY <1>1, <1>2, <1>3, <1>4, <1>5 DEF Next, Controller

\* Types of everything but the bots.
ControlTypeOK ==
  /\ runner \in Runner
  /\ section \in {"try", "handler", "finally", "over", "crashed"}
  /\ step \in Nat \ {0}
  /\ leaving \in {"no", "asked", "gone"}
  /\ verdict \in {"running", "PASS", "FAIL"} /\ disk \in {"running", "PASS", "FAIL"}
ServerTypeOK ==
  /\ held \in BOOLEAN /\ stray \in SUBSET {"wrapper", "bedrock"}
  /\ wrapper \in {"none", "up", "killed", "dead"} /\ bds \in {"none", "up", "dead"}
EnvTypeOK ==
  /\ listening \in BOOLEAN
  /\ env \in Environments /\ inherited \in Environments /\ published \in SUBSET Environments

\* The control, the server and the environment keep their types at every step.
LEMMA ControlTypes ==
  ASSUME ControlTypeOK, [Next]_vars
  PROVE  ControlTypeOK'
<1> USE DEF ControlTypeOK, Ok, Advance, Raise
<1>1. CASE ServerSteps
  BY <1>1 DEF ServerSteps, StartServer, LaunchServer, Ready, Serve, LocalReport, PublicReport,
              StopServer, Shutdown, Drop, Crash, Quit
<1>2. CASE BotSteps
  BY <1>2 DEF BotSteps, StartBot, BotOnline, Watch, LeaveNobody, LeaveSignal, LeaveGone,
              LeaveKilled, LeaveJudged, at
<1>3. CASE Work \/ Divert \/ Restore \/ PassRun \/ Write
  BY <1>3 DEF Work, Divert, Restore, PassRun, Write
<1>4. CASE EndBot \/ EndServer \/ KillServer \/ SplitLogs \/ NextSection
  BY <1>4 DEF EndBot, EndServer, KillServer, SplitLogs, NextSection
<1>5. CASE ServerDies \/ BotMoves \/ Ended \/ UNCHANGED vars
  BY <1>5 DEF ServerDies, BotMoves, Ended, vars, at
<1> QED
  BY <1>1, <1>2, <1>3, <1>4, <1>5 DEF Next, Controller

\* The server's variables keep their types.
LEMMA ServerTypes ==
  ASSUME ServerTypeOK, [Next]_vars
  PROVE  ServerTypeOK'
<1> USE DEF ServerTypeOK, serverVars
<1>1. CASE ServerSteps
  BY <1>1 DEF ServerSteps, StartServer, LaunchServer, Ready, Serve, LocalReport, PublicReport,
              StopServer, Shutdown, Drop, Crash, Quit, Popen, Forget, KillTree
<1>2. CASE BotSteps
  BY <1>2 DEF BotSteps, StartBot, BotOnline, Watch, LeaveNobody, LeaveSignal, LeaveGone,
              LeaveKilled, LeaveJudged
<1>3. CASE Work \/ Divert \/ Restore \/ PassRun \/ Write
  BY <1>3 DEF Work, Divert, Restore, PassRun, Write
<1>4. CASE EndBot \/ EndServer \/ KillServer \/ SplitLogs \/ NextSection
  BY <1>4 DEF EndBot, EndServer, KillServer, KillTree, SplitLogs, NextSection
<1>5. CASE ServerDies \/ BotMoves \/ Ended \/ UNCHANGED vars
  BY <1>5 DEF ServerDies, BotMoves, Ended, vars
<1> QED
  BY <1>1, <1>2, <1>3, <1>4, <1>5 DEF Next, Controller

\* The variables of the environment keep their types.
LEMMA EnvTypes ==
  ASSUME EnvTypeOK, [Next]_vars
  PROVE  EnvTypeOK'
<1> DEFINE Changed ==
      \/ UNCHANGED envVars
      \/ Restored
      \/ env' \in Environments /\ listening' \in BOOLEAN /\ UNCHANGED <<inherited, published>>
      \/ inherited' = env /\ UNCHANGED <<listening, env, published>>
      \/ published' = published \cup {inherited} /\ UNCHANGED <<listening, env, inherited>>
<1> USE DEF Ok, Raise, EnvRaised
<1>1. ASSUME ServerSteps PROVE Changed
  BY <1>1 DEF ServerSteps, StartServer, LaunchServer, Ready, Serve, LocalReport, PublicReport,
              StopServer, Shutdown, Drop, Crash, Quit, Popen
<1>2. ASSUME BotSteps PROVE Changed
  BY <1>2 DEF BotSteps, StartBot, BotOnline, Watch, LeaveNobody, LeaveSignal, LeaveGone,
              LeaveKilled, LeaveJudged
<1>3. ASSUME Work \/ Divert \/ Restore \/ PassRun \/ Write PROVE Changed
  BY <1>3 DEF Work, Divert, Restore, PassRun, Write, EnvTypeOK, Environments
<1>4. ASSUME EndBot \/ EndServer \/ KillServer \/ SplitLogs \/ NextSection PROVE Changed
  BY <1>4 DEF EndBot, EndServer, KillServer, SplitLogs, NextSection
<1>5. ASSUME ServerDies \/ BotMoves \/ Ended \/ UNCHANGED vars PROVE Changed
  BY <1>5 DEF ServerDies, BotMoves, Ended, vars
<1>6. Changed
  BY <1>1, <1>2, <1>3, <1>4, <1>5 DEF Next, Controller
<1> HIDE DEF Changed
<1>7. CASE UNCHANGED envVars
  BY <1>7 DEF EnvTypeOK, envVars
<1>8. CASE ~UNCHANGED envVars
  BY <1>6, <1>8 DEF EnvTypeOK, Restored, Environments, Changed
<1> QED
  BY <1>7, <1>8

\* All variables keep their types.
LEMMA TypeStep ==
  ASSUME TypeOK, [Next]_vars
  PROVE  TypeOK'
<1>1. ControlTypeOK /\ ServerTypeOK /\ EnvTypeOK /\ BotTypeOK
  BY DEF TypeOK, ControlTypeOK, ServerTypeOK, EnvTypeOK, Sections
<1>2. ControlTypeOK' /\ ServerTypeOK' /\ EnvTypeOK'
  BY <1>1, ControlTypes, ServerTypes, EnvTypes
<1>3. BotTypeOK'
  BY <1>1, BotStep, BotTypes
<1> QED
  BY <1>2, <1>3 DEF TypeOK, ControlTypeOK, ServerTypeOK, EnvTypeOK, Sections

\* All variables have their types at first.
LEMMA TypeInit == Init => TypeOK
<1> SUFFICES ASSUME Init PROVE TypeOK
  OBVIOUS
<1>1. printed \in Seq(Events) /\ Len(printed) = 0
  BY DEF Init, BotInit
<1>2. seen \in 0 .. Len(printed) /\ Len(printed) <= 3
  BY <1>1 DEF Init, BotInit
<1>3. proc = "none" /\ code = "none" /\ asked = FALSE
  BY DEF Init, BotInit
<1>4. BotTypeOK
  BY <1>1, <1>2, <1>3 DEF BotTypeOK
<1>5. ControlTypeOK
  BY DEF Init, ControlTypeOK
<1>7. ServerTypeOK
  BY DEF Init, ServerTypeOK
<1>6. EnvTypeOK
  BY DEF Init, EnvTypeOK, Environments
<1> QED
  BY <1>4, <1>5, <1>6, <1>7 DEF TypeOK, ControlTypeOK, ServerTypeOK, EnvTypeOK, Sections

\* Every variable keeps its type, whatever the scripts of the runners are.
THEOREM TypeCorrect == Spec => []TypeOK
<1>1. TypeOK /\ [Next]_vars => TypeOK'
  BY TypeStep
<1> QED
  BY <1>1, TypeInit, PTL DEF Spec

-----------------------------------------------------------------------------
(* The invariant.                                                          *)

\* Some token of a clause is still to come.
Later(s, i, tokens) == \E j \in i .. Len(s) : s[j] \in tokens
Launched(r, i) == i > 1 /\ Script[r][i - 1] \in {"launch", "crash"}

\* A bot that is being asked to leave is asked by the step that is next.
LeavingInv ==
  /\ leaving # "no" => At("leave")
  /\ leaving = "gone" => proc = "exited"

\* In the try block: what runs was opened by the script and not closed since, a server
\* nobody holds was launched or crashed just now, and "pass" is to come, or there is only
\* writing left.
TryInv ==
  section = "try" =>
    /\ verdict \in {"running", "PASS"}
    /\ verdict = "running" => Later(Script[runner], step, {"pass"})
    /\ Up => ServerOpen(runner, step)
    /\ Running => BotOpen(runner, step)
    /\ (runner \notin Windows /\ (bds = "up" \/ "bedrock" \in stray)) => Unchecked(runner, step)
    /\ (Up /\ ~held) => Launched(runner, step)
    /\ Held(runner, step) => held
    /\ verdict = "PASS" =>
         /\ \A j \in step .. Len(Script[runner]) : Script[runner][j] = "write"
         /\ \/ Contains(Finally[runner], {"write"}) \/ disk = "PASS"
            \/ Later(Script[runner], step, {"write"})

\* In the except clause: the failure is written, and the bots are ended, there or later.
HandlerInv ==
  section = "handler" =>
    /\ verdict = "FAIL"
    /\ \/ Contains(Finally[runner], {"write"}) \/ disk = "FAIL"
       \/ Later(Handler[runner], step, {"write"})
    /\ proc = "running" => \/ Contains(Finally[runner], {"end_bot"})
                           \/ Later(Handler[runner], step, {"end_bot", "leave"})

\* In the finally clause: a verdict is written, and the bots are ended.
FinallyInv ==
  section = "finally" =>
    /\ verdict # "running" => (disk = verdict \/ Later(Finally[runner], step, {"write"}))
    /\ proc = "running" => Later(Finally[runner], step, {"end_bot"})

\* A run without a verdict has written none, and does not end as if it had one; its except
\* clause did not name the exception.
UndecidedInv ==
  verdict = "running" =>
    /\ disk = "running" /\ section \in {"try", "finally", "crashed"}
    /\ section # "try" => runner \in Narrow

PassInv == PassIsClean /\ (verdict = "PASS" => section # "handler")

\* An Endstone process of an earlier start was killed by the recovery probe.
StrayInv == "wrapper" \in stray => Contains(Script[runner], {"crash"})

IInv ==
  /\ TypeOK /\ LeavingInv /\ TryInv /\ HandlerInv /\ FinallyInv /\ UndecidedInv /\ PassInv
  /\ StrayInv

-----------------------------------------------------------------------------
(* The steps of a run, by what they do to each part of its state.          *)

ServerShrinks == (Up' => Up) /\ (bds' = "up" => bds = "up")

\* Only a start brings up a server.
LEMMA ServerStep ==
  ASSUME [Next]_vars
  PROVE  ServerShrinks \/ (AtOneOf(Opens) /\ Popen /\ Advance /\ UNCHANGED botVars)
<1> USE DEF ServerShrinks, Up, At, AtOneOf, serverVars
<1>1. CASE StartServer \/ LaunchServer
  BY <1>1 DEF StartServer, LaunchServer, Opens, Forget
<1>2. CASE Ready \/ Serve \/ LocalReport \/ PublicReport \/ Drop
  BY <1>2 DEF Ready, Serve, LocalReport, PublicReport, Drop
<1>3. CASE StopServer \/ Shutdown \/ Crash \/ Quit
  BY <1>3 DEF StopServer, Shutdown, Crash, Quit, KillTree
<1>4. CASE BotSteps
  BY <1>4 DEF BotSteps, StartBot, BotOnline, Watch, LeaveNobody, LeaveSignal, LeaveGone,
              LeaveKilled, LeaveJudged
<1>5. CASE Work \/ Divert \/ Restore \/ PassRun \/ Write \/ NextSection
  BY <1>5 DEF Work, Divert, Restore, PassRun, Write, NextSection
<1>6. CASE EndBot \/ EndServer \/ KillServer \/ SplitLogs
  BY <1>6 DEF EndBot, EndServer, KillServer, KillTree, SplitLogs
<1>7. CASE ServerDies \/ BotMoves \/ Ended \/ UNCHANGED vars
  BY <1>7 DEF ServerDies, BotMoves, Ended, vars
<1> QED
  BY <1>1, <1>2, <1>3, <1>4, <1>5, <1>6, <1>7 DEF Next, Controller, ServerSteps

\* What is alive of earlier starts gets less, but for a start.
LEMMA StrayStep ==
  ASSUME [Next]_vars
  PROVE  stray' \subseteq stray \/ (AtOneOf(Opens) /\ Forget)
<1> USE DEF At, AtOneOf, serverVars
<1>1. CASE StartServer \/ LaunchServer
  BY <1>1 DEF StartServer, LaunchServer, Opens, Popen
<1>2. CASE Ready \/ Serve \/ LocalReport \/ PublicReport \/ Drop
  BY <1>2 DEF Ready, Serve, LocalReport, PublicReport, Drop
<1>3. CASE StopServer \/ Shutdown \/ Crash \/ Quit
  BY <1>3 DEF StopServer, Shutdown, Crash, Quit, KillTree
<1>4. CASE BotSteps
  BY <1>4 DEF BotSteps, StartBot, BotOnline, Watch, LeaveNobody, LeaveSignal, LeaveGone,
              LeaveKilled, LeaveJudged
<1>5. CASE Work \/ Divert \/ Restore \/ PassRun \/ Write \/ NextSection
  BY <1>5 DEF Work, Divert, Restore, PassRun, Write, NextSection
<1>6. CASE EndBot \/ EndServer \/ KillServer \/ SplitLogs
  BY <1>6 DEF EndBot, EndServer, KillServer, KillTree, SplitLogs
<1>7. CASE ServerDies \/ BotMoves \/ Ended \/ UNCHANGED vars
  BY <1>7 DEF ServerDies, BotMoves, Ended, vars
<1> QED
  BY <1>1, <1>2, <1>3, <1>4, <1>5, <1>6, <1>7 DEF Next, Controller, ServerSteps

BotShrinks ==
  /\ Running' => Running
  /\ proc' = "running" => proc = "running"
  /\ proc = "exited" => proc' = "exited"

\* Only a launch makes a bot run, and one that has exited stays exited until then.
LEMMA BotsStep ==
  ASSUME [Next]_vars
  PROVE  BotShrinks \/ (At("bots") /\ Launch /\ Ok /\ UNCHANGED serverVars)
<1> USE DEF BotShrinks, Running, botVars, Signal, KillBot
<1>1. CASE ServerSteps
  BY <1>1 DEF ServerSteps, StartServer, LaunchServer, Ready, Serve, LocalReport, PublicReport,
              StopServer, Shutdown, Drop, Crash, Quit
<1>2. CASE BotSteps
  BY <1>2 DEF BotSteps, StartBot, BotOnline, Watch, LeaveNobody, LeaveSignal, LeaveGone,
              LeaveKilled, LeaveJudged
<1>3. CASE Work \/ Divert \/ Restore \/ PassRun \/ Write \/ NextSection
  BY <1>3 DEF Work, Divert, Restore, PassRun, Write, NextSection
<1>4. CASE EndBot \/ EndServer \/ KillServer \/ SplitLogs
  BY <1>4 DEF EndBot, EndServer, KillServer, SplitLogs
<1>5. CASE ServerDies \/ BotMoves \/ Ended \/ UNCHANGED vars
  BY <1>5 DEF ServerDies, BotMoves, Ended, vars, BotPrints, BotExits, ReadEvent
<1> QED
  BY <1>1, <1>2, <1>3, <1>4, <1>5 DEF Next, Controller

\* The ways a step moves the control: it stays where it is, ...
Stays == UNCHANGED <<runner, section, step, verdict, disk>>
\* ... goes on to the next step of its clause, ...
Advances ==
  /\ section' = section /\ step' = step + 1 /\ runner' = runner
  /\ \/ ~At("pass") /\ verdict' = verdict
     \/ At("pass") /\ verdict' = "PASS"
  /\ \/ ~At("write") /\ disk' = disk
     \/ At("write") /\ disk' = verdict
\* ... leaves the try block, ...
Escapes ==
  /\ section = "try" /\ section' \in {"handler", "finally"} /\ step' = 1
  /\ ~AtOneOf({"pass", "write"})
  /\ verdict' = (IF section' = "handler" THEN "FAIL" ELSE verdict)
  /\ section' = "finally" => runner \in Narrow
  /\ runner' = runner /\ disk' = disk
\* ... or dies.
Crashes ==
  /\ section' = "crashed" /\ AtOneOf({"split", "kill"})
  /\ UNCHANGED <<runner, step, verdict, disk>>

\* The controller stays, goes on, escapes from its section or dies: there is nothing else.
LEMMA ControlStep ==
  ASSUME [Next]_vars
  PROVE  \/ Stays
         \/ AtOneOf(Token) /\ Advances
         \/ AtOneOf(Token) /\ Escapes
         \/ Crashes
         \/ NextSection
<1> USE DEF Stays, Advances, Escapes, Crashes, Ok, Advance, Raise, At, AtOneOf, ServerTokens,
            BotTokens, Token
<1>1. CASE ServerSteps
  <2> SUFFICES ASSUME AtOneOf(ServerTokens),
                      \/ Ok \/ Advance \/ Raise
               PROVE  Advances \/ Escapes
    BY <1>1 DEF ServerSteps, StartServer, LaunchServer, Ready, Serve, LocalReport, PublicReport,
                StopServer, Shutdown, Drop, Crash, Quit
  <2> QED
    OBVIOUS
<1>2. CASE BotSteps
  BY <1>2 DEF BotSteps, StartBot, BotOnline, Watch, LeaveNobody, LeaveSignal, LeaveGone,
              LeaveKilled, LeaveJudged, at
<1>3. CASE Work \/ Divert \/ Restore \/ PassRun \/ Write
  BY <1>3 DEF Work, Divert, Restore, PassRun, Write
<1>4. CASE EndBot \/ EndServer \/ KillServer \/ SplitLogs \/ NextSection
  BY <1>4 DEF EndBot, EndServer, KillServer, SplitLogs
<1>5. CASE ServerDies \/ BotMoves \/ Ended \/ UNCHANGED vars
  BY <1>5 DEF ServerDies, BotMoves, Ended, vars, at
<1> QED
  BY <1>1, <1>2, <1>3, <1>4, <1>5 DEF Next, Controller

\* The section under way is a sequence of tokens, whichever it is.
LEMMA PlanType ==
  ASSUME TypeOK
  PROVE  Plan \in Seq(Token) /\ Len(Plan) \in Nat /\ step \in Nat
<1>1. \A s \in Seq(Cleanup) : s \in Seq(Token)
  <2> SUFFICES ASSUME NEW s \in Seq(Cleanup) PROVE s \in Seq(Token)
    OBVIOUS
  <2>1. \A i \in 1 .. Len(s) : s[i] \in Cleanup /\ s[i] \in Token
    BY DEF Cleanup
  <2> QED
    BY <2>1
<1>2. Plan \in Seq(Token)
  BY <1>1, ScriptAssumption DEF TypeOK, Plan
<1> QED
  BY <1>2 DEF TypeOK

\* A bot that is to leave or to be ended has exited or been killed when the step is over,
\* and as long as nothing fails it has left.
LEMMA BotsGone ==
  ASSUME TypeOK, [Next]_vars, LeavingInv, At("leave") \/ At("end_bot"),
         step' = step + 1 \/ section' # section
  PROVE  /\ proc' # "running"
         /\ (At("leave") /\ section = "try" /\ section' = "try") => ~Running'
<1> USE PlanType DEF LeavingInv, At, AtOneOf, Running, botVars, Signal, KillBot, ServerTokens,
                     BotTokens
<1>1. CASE ServerSteps
  BY <1>1 DEF ServerSteps
<1>2. CASE BotSteps
  BY <1>2 DEF BotSteps, StartBot, BotOnline, Watch, LeaveNobody, LeaveSignal, LeaveGone,
              LeaveKilled, LeaveJudged, at, Raise
<1>3. CASE Work \/ Divert \/ Restore \/ PassRun \/ Write \/ NextSection
  BY <1>3 DEF Work, Divert, Restore, PassRun, Write, NextSection
<1>4. CASE EndBot \/ EndServer \/ KillServer \/ SplitLogs
  BY <1>4 DEF EndBot, EndServer, KillServer, SplitLogs
<1>5. CASE ServerDies \/ BotMoves \/ Ended \/ UNCHANGED vars
  BY <1>5 DEF ServerDies, BotMoves, Ended, vars, at
<1> QED
  BY <1>1, <1>2, <1>3, <1>4, <1>5 DEF Next, Controller

\* A server that is to be stopped, shut down or asked to quit is down when the step is over.
LEMMA ServerDown ==
  ASSUME [Next]_vars, AtOneOf(Closes), section = "try", section' = "try", step' = step + 1,
         held \/ ~Up
  PROVE  ~Up'
<1> USE DEF At, AtOneOf, Up, serverVars, Closes, Raise, ServerTokens, BotTokens
<1>1. CASE ServerSteps
  BY <1>1 DEF ServerSteps, StartServer, LaunchServer, Ready, Serve, LocalReport, PublicReport,
              StopServer, Shutdown, Drop, Crash, Quit
<1>2. CASE BotSteps
  BY <1>2 DEF BotSteps
<1>3. CASE Work \/ Divert \/ Restore \/ PassRun \/ Write \/ NextSection
  BY <1>3 DEF Work, Divert, Restore, PassRun, Write, NextSection
<1>4. CASE EndBot \/ EndServer \/ KillServer \/ SplitLogs
  BY <1>4 DEF EndBot, EndServer, KillServer, SplitLogs
<1>5. CASE ServerDies \/ BotMoves \/ Ended \/ UNCHANGED vars
  BY <1>5 DEF ServerDies, BotMoves, Ended, vars, at
<1> QED
  BY <1>1, <1>2, <1>3, <1>4, <1>5 DEF Next, Controller

\* A shutdown that goes on found, on Linux, no server process left.
LEMMA NothingResidual ==
  ASSUME [Next]_vars, At("shutdown"), section = "try", section' = "try", held,
         runner \notin Windows
  PROVE  Stays \/ (bds' # "up" /\ "bedrock" \notin stray')
<1> USE DEF At, AtOneOf, Up, serverVars, Stays, Raise, ServerTokens, BotTokens
<1>1. CASE ServerSteps
  BY <1>1 DEF ServerSteps, StartServer, LaunchServer, Ready, Serve, LocalReport, PublicReport,
              StopServer, Shutdown, Drop, Crash, Quit
<1>2. CASE BotSteps
  BY <1>2 DEF BotSteps
<1>3. CASE Work \/ Divert \/ Restore \/ PassRun \/ Write \/ NextSection
  BY <1>3 DEF Work, Divert, Restore, PassRun, Write, NextSection
<1>4. CASE EndBot \/ EndServer \/ KillServer \/ SplitLogs
  BY <1>4 DEF EndBot, EndServer, KillServer, SplitLogs
<1>5. CASE ServerDies \/ BotMoves \/ Ended \/ UNCHANGED vars
  BY <1>5 DEF ServerDies, BotMoves, Ended, vars, at
<1> QED
  BY <1>1, <1>2, <1>3, <1>4, <1>5 DEF Next, Controller

\* Who holds the server.
LEMMA HeldStep ==
  ASSUME TypeOK, [Next]_vars, section = "try", section' = "try"
  PROVE  \/ held' = held /\ (step' = step + 1 => ~AtOneOf({"start", "ready"}))
         \/ AtOneOf({"start", "ready"}) /\ held' = TRUE /\ step' = step + 1
         \/ AtOneOf({"stop", "drop", "crash", "quit"}) /\ step' = step + 1
<1> USE PlanType DEF Ok, Advance, At, AtOneOf, serverVars, Raise, ServerTokens, BotTokens
<1>1. CASE ServerSteps
  BY <1>1 DEF ServerSteps, StartServer, LaunchServer, Ready, Serve, LocalReport, PublicReport,
              StopServer, Shutdown, Drop, Crash, Quit
<1>2. CASE BotSteps
  BY <1>2 DEF BotSteps, StartBot, BotOnline, Watch, LeaveNobody, LeaveSignal, LeaveGone,
              LeaveKilled, LeaveJudged
<1>3. CASE Work \/ Divert \/ Restore \/ PassRun \/ Write \/ NextSection
  BY <1>3 DEF Work, Divert, Restore, PassRun, Write, NextSection
<1>4. CASE EndBot \/ EndServer \/ KillServer \/ SplitLogs
  BY <1>4 DEF EndBot, EndServer, KillServer, SplitLogs
<1>5. CASE ServerDies \/ BotMoves \/ Ended \/ UNCHANGED vars
  BY <1>5 DEF ServerDies, BotMoves, Ended, vars, at
<1> QED
  BY <1>1, <1>2, <1>3, <1>4, <1>5 DEF Next, Controller

-----------------------------------------------------------------------------
(* How what the scripts promise moves on with the steps.                   *)

\* What a script has opened stays open until it closes it.
LEMMA OpenStep ==
  ASSUME NEW r \in Runner, NEW i \in 1 .. Len(Script[r])
  PROVE  /\ Script[r][i] \in Opens => ServerOpen(r, i + 1) /\ Unchecked(r, i + 1)
         /\ (ServerOpen(r, i) /\ Script[r][i] \notin Closes) => ServerOpen(r, i + 1)
         /\ (Unchecked(r, i) /\ Script[r][i] # "shutdown") => Unchecked(r, i + 1)
         /\ Script[r][i] = "bots" => BotOpen(r, i + 1)
         /\ (BotOpen(r, i) /\ Script[r][i] # "leave") => BotOpen(r, i + 1)
<1>1. Len(Script[r]) \in Nat
  BY ScriptAssumption
<1>2. i \in Nat /\ i \in 1 .. i + 1 - 1 /\ i + 1 .. i + 1 - 1 = {}
  BY <1>1
<1>3. Script[r][i] \in Opens => ServerOpen(r, i + 1) /\ Unchecked(r, i + 1)
  BY <1>2 DEF ServerOpen, Unchecked
<1>4. (ServerOpen(r, i) /\ Script[r][i] \notin Closes) => ServerOpen(r, i + 1)
  BY <1>2 DEF ServerOpen
<1>5. (Unchecked(r, i) /\ Script[r][i] # "shutdown") => Unchecked(r, i + 1)
  BY <1>2 DEF Unchecked
<1>6. Script[r][i] = "bots" => BotOpen(r, i + 1)
  BY <1>2 DEF BotOpen
<1>7. (BotOpen(r, i) /\ Script[r][i] # "leave") => BotOpen(r, i + 1)
  BY <1>2 DEF BotOpen
<1> QED
  BY <1>3, <1>4, <1>5, <1>6, <1>7

\* A server held after a step that does not take one was held before it.
LEMMA HeldBack ==
  ASSUME NEW r \in Runner, NEW i \in 1 .. Len(Script[r]), Held(r, i + 1),
         Script[r][i] \notin {"start", "ready"}
  PROVE  Held(r, i) /\ Script[r][i] \notin {"stop", "drop", "crash", "quit"}
<1>1. Len(Script[r]) \in Nat /\ i \in Nat
  BY ScriptAssumption
<1>2. PICK j \in 1 .. i + 1 - 1 :
        /\ Script[r][j] \in {"start", "ready"}
        /\ \A k \in j + 1 .. i + 1 - 1 : Script[r][k] \notin {"stop", "drop", "crash", "quit"}
  BY DEF Held
<1>3. j \in 1 .. i - 1 /\ i \in j + 1 .. i + 1 - 1
  BY <1>1, <1>2
<1> QED
  BY <1>1, <1>2, <1>3 DEF Held

\* What is still to come, and is not this step, comes after it.
LEMMA LaterStep ==
  ASSUME NEW s, Len(s) \in Nat, NEW i \in Nat \ {0}, NEW tokens
  PROVE  /\ (Later(s, i, tokens) /\ s[i] \notin tokens) => Later(s, i + 1, tokens)
         /\ i > Len(s) => ~Later(s, i, tokens)
BY DEF Later

-----------------------------------------------------------------------------
(* The invariant is inductive, clause by clause.                           *)

\* The bots' judgement moves on in the order of the code.
LEMMA LeavingStep ==
  ASSUME IInv, [Next]_vars
  PROVE  LeavingInv'
<1> USE PlanType DEF IInv, LeavingInv, At, AtOneOf, Ok, Advance, Raise, ServerTokens, BotTokens,
                     Active
<1>1. CASE ServerSteps
  <2>1. leaving = "no"
    BY <1>1 DEF ServerSteps
  <2> QED
    BY <1>1, <2>1 DEF ServerSteps, StartServer, LaunchServer, Ready, Serve, LocalReport,
                      PublicReport, StopServer, Shutdown, Drop, Crash, Quit
<1>2. CASE BotSteps
  BY <1>2 DEF BotSteps, StartBot, BotOnline, Watch, LeaveNobody, LeaveSignal, LeaveGone,
              LeaveKilled, LeaveJudged, at, botVars, Plan, Signal
<1>3. CASE Work \/ Divert \/ Restore \/ PassRun \/ Write \/ NextSection
  BY <1>3 DEF Work, Divert, Restore, PassRun, Write, NextSection
<1>4. CASE EndBot \/ EndServer \/ KillServer \/ SplitLogs
  BY <1>4 DEF EndBot, EndServer, KillServer, SplitLogs
<1>5. CASE ServerDies \/ BotMoves \/ Ended \/ UNCHANGED vars
  BY <1>5, BotsStep DEF ServerDies, BotMoves, Ended, vars, at, Plan, BotShrinks
<1> QED
  BY <1>1, <1>2, <1>3, <1>4, <1>5 DEF Next, Controller

\* A start does not stay where it is.
LEMMA StartsGo ==
  ASSUME [Next]_vars, At("start") \/ At("launch"), section = "try", section' = "try",
         step' = step, step' # step + 1
  PROVE  stray' \subseteq stray
<1> USE DEF At, AtOneOf, serverVars, Raise, ServerTokens, BotTokens
<1>1. CASE ServerSteps
  BY <1>1 DEF ServerSteps, StartServer, LaunchServer, Ready, Serve, LocalReport, PublicReport,
              StopServer, Shutdown, Drop, Crash, Quit, Advance
<1>2. CASE BotSteps
  BY <1>2 DEF BotSteps
<1>3. CASE Work \/ Divert \/ Restore \/ PassRun \/ Write \/ NextSection
  BY <1>3 DEF Work, Divert, Restore, PassRun, Write, NextSection
<1>4. CASE EndBot \/ EndServer \/ KillServer \/ SplitLogs
  BY <1>4 DEF EndBot, EndServer, KillServer, SplitLogs
<1>5. CASE ServerDies \/ BotMoves \/ Ended \/ UNCHANGED vars
  BY <1>5 DEF ServerDies, BotMoves, Ended, vars
<1> QED
  BY <1>1, <1>2, <1>3, <1>4, <1>5 DEF Next, Controller

\* In the try block.
LEMMA TryStep ==
  ASSUME IInv, [Next]_vars
  PROVE  TryInv'
<1> SUFFICES ASSUME section' = "try" PROVE TryInv'
  BY DEF TryInv
<1> DEFINE S == Script[runner]
<1>1. TypeOK /\ TryInv /\ LeavingInv
  BY DEF IInv
<1>2. Len(S) \in Nat /\ step \in Nat \ {0} /\ runner \in Runner
  BY <1>1, ScriptAssumption DEF TypeOK
<1>3. section = "try" /\ runner' = runner
  <2>1. section # "try" => section' # "try"
    BY ControlStep DEF Stays, Advances, Escapes, Crashes, NextSection, Active, Sections
  <2> QED
    BY <2>1, ControlStep DEF Stays, Advances, Escapes, Crashes, NextSection
<1>4. Plan = S
  BY <1>3 DEF Plan
<1>5. \/ Stays
      \/ step \in 1 .. Len(S) /\ Advances
  <2>1. AtOneOf(Token) => step <= Len(S)
    BY <1>4 DEF AtOneOf
  <2> QED
    BY <1>2, <1>3, <2>1, ControlStep DEF Escapes, Crashes, NextSection
<1>6. CASE Stays
  <2>1. step' = step /\ step' # step + 1
    BY <1>2, <1>6 DEF Stays
  <2>2. ServerShrinks /\ BotShrinks /\ held' = held
    BY <2>1, <1>1, <1>3, ServerStep, BotsStep, HeldStep DEF Advance, Ok
  <2>3. verdict' = verdict /\ disk' = disk
    BY <1>6 DEF Stays
  <2>4. stray' \subseteq stray
    <3>1. stray' \subseteq stray \/ At("start") \/ At("launch")
      BY StrayStep DEF At, AtOneOf, Opens
    <3> QED
      BY <1>2, <1>3, <2>1, <3>1, StartsGo
  <2> QED
    BY <1>1, <1>3, <2>1, <2>2, <2>3, <2>4
    DEF TryInv, ServerShrinks, BotShrinks, ServerOpen, BotOpen, Unchecked, Launched, Held, Later
<1>7. CASE step \in 1 .. Len(S) /\ Advances
  <2>1. step' = step + 1
    BY <1>7 DEF Advances
  <2>2. \A tokens : S[step] \in tokens => AtOneOf(tokens)
    BY <1>3, <1>4, <1>7 DEF AtOneOf, Active, Sections
  <2>3. \A tokens : AtOneOf(tokens) => S[step] \in tokens
    BY <1>4 DEF AtOneOf
  <2>4. (Up /\ ~held) => S[step] \in {"ready", "start"}
    <3>1. \A i \in 1 .. Len(S) : /\ S[i] = "launch" => S[i + 1] = "ready"
                                 /\ S[i] = "crash" => S[i + 1] = "start"
      BY <1>2, ScriptAssumption
    <3>2. (Up /\ ~held) => step - 1 \in 1 .. Len(S) /\ S[step - 1] \in {"launch", "crash"}
      BY <1>1, <1>2, <1>3, <1>7 DEF TryInv, Launched
    <3> QED
      BY <1>2, <3>1, <3>2
  <2>5. verdict' \in {"running", "PASS"}
    BY <1>1, <1>3, <1>7 DEF TryInv, Advances
  <2>6. Up' => ServerOpen(runner, step + 1)
    <3> SUFFICES ASSUME Up' PROVE ServerOpen(runner, step + 1)
      OBVIOUS
    <3>1. CASE S[step] \in Opens
      BY <3>1, <1>2, <1>7, OpenStep
    <3>2. CASE S[step] \in Closes
      <4>1. ~(Up /\ ~held)
        BY <2>4, <3>2 DEF Closes
      <4>2. ~Up'
        BY <4>1, <3>2, <2>1, <2>2, <1>3, ServerDown
      <4> QED
        BY <4>2
    <3>3. CASE S[step] \notin Opens /\ S[step] \notin Closes
      <4>1. Up
        BY <3>3, <2>3, ServerStep DEF ServerShrinks
      <4> QED
        BY <4>1, <3>3, <1>1, <1>2, <1>3, <1>7, OpenStep DEF TryInv
    <3> QED
      BY <3>1, <3>2, <3>3
  <2>7. Running' => BotOpen(runner, step + 1)
    <3> SUFFICES ASSUME Running' PROVE BotOpen(runner, step + 1)
      OBVIOUS
    <3>1. CASE S[step] = "bots"
      BY <3>1, <1>2, <1>7, OpenStep
    <3>2. CASE S[step] = "leave"
      BY <3>2, <2>1, <2>2, <1>1, <1>3, BotsGone DEF At
    <3>3. CASE S[step] # "bots" /\ S[step] # "leave"
      <4>1. Running
        BY <3>3, <2>3, BotsStep DEF BotShrinks, At
      <4> QED
        BY <4>1, <3>3, <1>1, <1>2, <1>3, <1>7, OpenStep DEF TryInv
    <3> QED
      BY <3>1, <3>2, <3>3
  <2>8. (runner \notin Windows /\ (bds' = "up" \/ "bedrock" \in stray')) =>
          Unchecked(runner, step + 1)
    <3> SUFFICES ASSUME runner \notin Windows, bds' = "up" \/ "bedrock" \in stray'
                 PROVE  Unchecked(runner, step + 1)
      OBVIOUS
    <3>1. CASE S[step] \in Opens
      BY <3>1, <1>2, <1>7, OpenStep
    <3>2. CASE S[step] = "shutdown"
      <4>1. Held(runner, step)
        BY <3>2, <1>2, <1>7, ScriptAssumption
      <4>2. held
        BY <4>1, <1>1, <1>3 DEF TryInv
      <4>3. ~Stays
        BY <2>1, <1>2 DEF Stays
      <4> QED
        BY <4>2, <4>3, <3>2, <2>2, <1>3, NothingResidual DEF At
    <3>3. CASE S[step] \notin Opens /\ S[step] # "shutdown"
      <4>1. bds = "up" \/ "bedrock" \in stray
        BY <3>3, <2>3, ServerStep, StrayStep DEF ServerShrinks
      <4> QED
        BY <4>1, <3>3, <1>1, <1>2, <1>3, <1>7, OpenStep DEF TryInv
    <3> QED
      BY <3>1, <3>2, <3>3
  <2>9. (Up' /\ ~held') => Launched(runner, step + 1)
    <3> SUFFICES ASSUME Up', ~held', S[step] # "crash" PROVE S[step] = "launch"
      BY <1>2 DEF Launched
    <3>1. CASE held' = held /\ S[step] \notin {"start", "ready"}
      BY <3>1, <2>3, <2>4, ServerStep DEF ServerShrinks, Opens
    <3>2. CASE S[step] \in {"stop", "quit"}
      <4>1. S[step] \in Closes
        BY <3>2 DEF Closes
      <4>2. ~(Up /\ ~held)
        BY <2>4, <3>2
      <4>3. ~Up'
        BY <4>1, <4>2, <2>1, <2>2, <1>3, ServerDown
      <4> QED
        BY <4>3
    <3>3. CASE S[step] = "drop"
      <4>1. ~ServerOpen(runner, step)
        BY <3>3, <1>2, <1>7, ScriptAssumption
      <4>2. ~Up
        BY <4>1, <1>1, <1>3 DEF TryInv
      <4> QED
        BY <4>2, <3>3, <2>3, ServerStep DEF ServerShrinks, Opens
    <3> QED
      BY <3>1, <3>2, <3>3, <2>1, <2>2, <2>3, <1>1, <1>3, HeldStep
  <2>10. Held(runner, step + 1) => held'
    <3> SUFFICES ASSUME Held(runner, step + 1) PROVE held'
      OBVIOUS
    <3>1. CASE S[step] \in {"start", "ready"}
      BY <3>1, <2>1, <2>2, <2>3, <1>1, <1>3, HeldStep
    <3>2. CASE S[step] \notin {"start", "ready"}
      <4>1. Held(runner, step) /\ S[step] \notin {"stop", "drop", "crash", "quit"}
        BY <3>2, <1>2, <1>7, HeldBack
      <4>2. held
        BY <4>1, <1>1, <1>3 DEF TryInv
      <4>3. held' = held
        BY <4>1, <3>2, <2>3, <1>1, <1>3, HeldStep
      <4> QED
        BY <4>2, <4>3
    <3> QED
      BY <3>1, <3>2
  <2>11. verdict' = "PASS" =>
           /\ \A j \in step + 1 .. Len(S) : S[j] = "write"
           /\ \/ Contains(Finally[runner], {"write"}) \/ disk' = "PASS"
              \/ Later(S, step + 1, {"write"})
    <3>1. CASE At("pass")
      <4>1. S[step] = "pass"
        BY <3>1, <2>3 DEF At
      <4>2. \A j \in 1 .. Len(S) : j > step => S[j] = "write"
        BY <4>1, <1>2, <1>7, ScriptAssumption
      <4>3. \/ Contains(Finally[runner], {"write"})
            \/ \E j \in 1 .. Len(S) : j > step /\ S[j] = "write"
        BY <4>1, <1>2, <1>7, ScriptAssumption
      <4> QED
        BY <4>2, <4>3, <1>2 DEF Later
    <3>2. CASE ~At("pass") /\ verdict = "PASS"
      <4>1. /\ \A j \in step .. Len(S) : S[j] = "write"
            /\ \/ Contains(Finally[runner], {"write"}) \/ disk = "PASS"
               \/ Later(S, step, {"write"})
        BY <3>2, <1>1, <1>3 DEF TryInv
      <4>2. At("write")
        BY <4>1, <2>2, <1>2, <1>7 DEF At
      <4>3. disk' = "PASS"
        BY <4>2, <3>2, <1>7 DEF Advances
      <4> QED
        BY <4>1, <4>3, <1>2
    <3> QED
      BY <3>1, <3>2, <1>7 DEF Advances
  <2>12. verdict' = "running" => Later(S, step + 1, {"pass"})
    <3> SUFFICES ASSUME verdict' = "running" PROVE Later(S, step + 1, {"pass"})
      OBVIOUS
    <3>1. verdict = "running" /\ S[step] # "pass"
      BY <1>7, <2>2 DEF Advances, At
    <3>2. Later(S, step, {"pass"})
      BY <1>1, <1>3, <3>1 DEF TryInv
    <3> QED
      BY <1>2, <3>1, <3>2, LaterStep
  <2> QED
    BY <1>3, <2>1, <2>5, <2>6, <2>7, <2>8, <2>9, <2>10, <2>11, <2>12
    DEF TryInv, ServerOpen, BotOpen, Unchecked, Launched, Held, Later
<1> QED
  BY <1>5, <1>6, <1>7

\* In the clauses that clean up nothing is started and nothing passes.
LEMMA CleaningUp ==
  ASSUME TypeOK, section \in {"handler", "finally"}
  PROVE  ~AtOneOf(Opens) /\ ~At("bots") /\ ~At("pass") /\ ~AtOneOf({"ready", "divert", "mute"})
<1>1. Plan \in Seq(Cleanup)
  BY ScriptAssumption DEF TypeOK, Plan
<1>2. AtOneOf(Token) => Plan[step] \in Cleanup
  BY <1>1 DEF AtOneOf, TypeOK
<1>3. Active /\ step <= Len(Plan) => Plan[step] \in Cleanup
  BY <1>1 DEF TypeOK
<1> QED
  BY <1>3 DEF At, AtOneOf, Cleanup, Opens

\* A try block is left by a pass or by an exception something catches.
LEMMA TryGoesOn ==
  ASSUME TypeOK, TryInv, section = "try"
  PROVE  /\ ~Crashes
         /\ verdict = "running" => ~NextSection
<1>1. runner \in Runner /\ step \in Nat \ {0} /\ Plan = Script[runner]
  BY DEF TypeOK, Plan
<1>2. Script[runner] \in Seq(Token) /\ Len(Script[runner]) \in Nat
  BY <1>1, ScriptAssumption
<1>3. ~AtOneOf({"split", "kill"})
  <2>1. \A i \in 1 .. Len(Script[runner]) : Script[runner][i] \notin {"split", "kill"}
    BY <1>1, <1>2, ScriptAssumption DEF Contains, Uncaught
  <2> QED
    BY <1>1, <1>2, <2>1 DEF AtOneOf
<1>4. step > Len(Script[runner]) => ~Later(Script[runner], step, {"pass"})
  BY <1>1, <1>2 DEF Later
<1> QED
  BY <1>1, <1>3, <1>4 DEF Crashes, NextSection, TryInv

\* A run that has passed only writes and goes on: it does not fail, and starts nothing.
LEMMA PassedOn ==
  ASSUME IInv, [Next]_vars, verdict = "PASS"
  PROVE  ~(AtOneOf(Token) /\ Escapes) /\ ~AtOneOf(Opens) /\ ~At("bots") /\ ~At("pass")
<1>1. TypeOK /\ TryInv /\ PassInv /\ HandlerInv
  BY DEF IInv
<1>2. section = "try" /\ Active /\ step <= Len(Plan) => Plan[step] = "write"
  BY <1>1, ScriptAssumption DEF TryInv, Plan, TypeOK
<1>3. CASE section = "try"
  BY <1>2, <1>3 DEF At, AtOneOf, Opens, Escapes
<1>4. CASE section # "try"
  <2>1. ~Active \/ section = "finally"
    BY <1>1, <1>4 DEF PassInv, Active, Sections
  <2> QED
    BY <1>1, <1>4, <2>1, CleaningUp DEF Escapes, At, AtOneOf
<1> QED
  BY <1>3, <1>4

\* What a PASS says stays true.
LEMMA PassStep ==
  ASSUME IInv, StrayInv', [Next]_vars
  PROVE  PassInv'
<1> SUFFICES ASSUME verdict' = "PASS" PROVE PassInv'
  BY DEF PassInv, PassIsClean
<1>1. TypeOK /\ TryInv /\ PassInv
  BY DEF IInv
<1>2. runner' = runner
  BY ControlStep DEF Stays, Advances, Escapes, Crashes, NextSection
<1>3. CASE verdict = "PASS"
  <2>1. ServerShrinks /\ BotShrinks /\ stray' \subseteq stray
    BY <1>3, PassedOn, ServerStep, StrayStep, BotsStep
  <2>2. section' # "handler"
    BY <1>1, <1>3, PassedOn, ControlStep
    DEF PassInv, Stays, Advances, Crashes, NextSection
  <2> QED
    BY <1>1, <1>2, <1>3, <2>1, <2>2 DEF PassInv, PassIsClean, ServerShrinks, BotShrinks, StrayInv
<1>4. CASE verdict # "PASS"
  <2>1. At("pass") /\ Advances
    BY <1>4, ControlStep DEF Stays, Advances, Escapes, Crashes, NextSection
  <2>2. section = "try" /\ section' = "try"
    BY <1>1, <2>1, CleaningUp DEF At, AtOneOf, Active, Sections, Advances
  <2>3. step \in 1 .. Len(Script[runner]) /\ Script[runner][step] = "pass" /\ runner \in Runner
    <3>1. Len(Script[runner]) \in Nat
      BY <1>1, ScriptAssumption DEF TypeOK
    <3> QED
      BY <1>1, <2>1, <2>2, <3>1 DEF At, AtOneOf, Plan, TypeOK
  <2>4. ServerShrinks /\ BotShrinks /\ stray' \subseteq stray
    BY <2>1, <2>2, <2>3, ServerStep, StrayStep, BotsStep DEF At, AtOneOf, Plan, Opens
  <2>5. ~Up /\ ~Running
    BY <1>1, <2>2, <2>3, ScriptAssumption DEF TryInv
  <2>6. (runner \notin Windows /\ Contains(Script[runner], {"shutdown"})) =>
          (bds # "up" /\ "bedrock" \notin stray)
    <3> SUFFICES ASSUME Contains(Script[runner], {"shutdown"}), Unchecked(runner, step)
                 PROVE  FALSE
      BY <1>1, <2>2 DEF TryInv
    <3>1. PICK j \in 1 .. step - 1 :
            /\ Script[runner][j] \in Opens
            /\ \A k \in j + 1 .. step - 1 : Script[runner][k] # "shutdown"
      BY DEF Unchecked
    <3>2. Len(Script[runner]) \in Nat
      BY <2>3, ScriptAssumption
    <3>3. j \in 1 .. Len(Script[runner])
      BY <2>3, <3>2
    <3>4. PICK k \in 1 .. Len(Script[runner]) : k > j /\ Script[runner][k] = "shutdown"
      BY <2>3, <3>1, <3>2, <3>3, ScriptAssumption
    <3>5. k > step => Script[runner][k] = "write"
      BY <2>3, <3>2, ScriptAssumption
    <3> QED
      BY <2>3, <3>1, <3>2, <3>3, <3>4, <3>5
  <2> QED
    BY <1>2, <2>2, <2>4, <2>5, <2>6 DEF PassInv, PassIsClean, ServerShrinks, BotShrinks, StrayInv
<1> QED
  BY <1>3, <1>4

\* What is alive of earlier Endstone processes.
LEMMA StraysStep ==
  ASSUME IInv, [Next]_vars
  PROVE  StrayInv'
<1>1. TypeOK /\ TryInv /\ StrayInv /\ runner \in Runner
  BY DEF IInv, TypeOK
<1>2. runner' = runner
  BY ControlStep DEF Stays, Advances, Escapes, Crashes, NextSection
<1>3. CASE stray' \subseteq stray
  BY <1>1, <1>2, <1>3 DEF StrayInv
<1>4. CASE AtOneOf(Opens) /\ Forget
  <2> SUFFICES ASSUME Up PROVE Contains(Script[runner], {"crash"})
    BY <1>1, <1>2, <1>4 DEF StrayInv, Forget
  <2>1. section = "try"
    BY <1>1, <1>4, CleaningUp DEF AtOneOf, Active, Sections
  <2>2. Script[runner] \in Seq(Token) /\ Len(Script[runner]) \in Nat /\ step \in Nat \ {0}
    BY <1>1, ScriptAssumption DEF TypeOK
  <2>3. step \in 1 .. Len(Script[runner]) /\ Script[runner][step] \in Opens
    BY <1>4, <2>1, <2>2 DEF AtOneOf, Plan
  <2>4. ServerOpen(runner, step)
    BY <1>1, <2>1 DEF TryInv
  <2>5. step > 1 /\ Script[runner][step - 1] = "crash"
    BY <1>1, <2>3, <2>4, ScriptAssumption
  <2>6. step - 1 \in DOMAIN Script[runner]
    BY <2>2, <2>3, <2>5
  <2> QED
    BY <2>5, <2>6 DEF Contains
<1> QED
  BY <1>3, <1>4, StrayStep

\* A run without a verdict.
LEMMA UndecidedStep ==
  ASSUME IInv, [Next]_vars
  PROVE  UndecidedInv'
<1> SUFFICES ASSUME verdict' = "running" PROVE UndecidedInv'
  BY DEF UndecidedInv
<1>1. UndecidedInv /\ HandlerInv /\ TypeOK /\ TryInv /\ runner \in Runner
  BY DEF IInv, TypeOK
<1>2. verdict = "running"
  BY ControlStep DEF Stays, Advances, Escapes, Crashes, NextSection
<1>3. ~(section = "try" /\ NextSection) /\ ~(section = "try" /\ Crashes)
  BY <1>1, <1>2, TryGoesOn
<1> QED
  BY <1>1, <1>2, <1>3, ControlStep
  DEF UndecidedInv, HandlerInv, Stays, Advances, Escapes, Crashes, NextSection, Active, Sections

\* A bot that runs in the try block was started by the script.
LEMMA BotsContained ==
  ASSUME TypeOK, TryInv, section = "try", AtOneOf(Token), proc = "running"
  PROVE  Contains(Script[runner], {"bots"})
<1>1. PICK j \in 1 .. step - 1 : Script[runner][j] = "bots"
  BY DEF TryInv, BotOpen, Running
<1>2. /\ Script[runner] \in Seq(Token) /\ step <= Len(Script[runner])
      /\ step \in Nat \ {0}
  BY ScriptAssumption DEF AtOneOf, Plan, TypeOK
<1>3. j \in DOMAIN Script[runner]
  BY <1>1, <1>2
<1> QED
  BY <1>1, <1>3 DEF Contains

\* The except clause.
LEMMA HandlerStep ==
  ASSUME IInv, [Next]_vars
  PROVE  HandlerInv'
<1> SUFFICES ASSUME section' = "handler" PROVE HandlerInv'
  BY DEF HandlerInv
<1> DEFINE H == Handler[runner]
<1>1. TypeOK /\ TryInv /\ HandlerInv /\ LeavingInv /\ runner \in Runner
  BY DEF IInv, TypeOK
<1>2. Len(H) \in Nat /\ step \in Nat \ {0}
  BY <1>1, ScriptAssumption DEF TypeOK
<1>3. CASE section = "handler"
  <2>1. Plan = H
    BY <1>3 DEF Plan
  <2>2. BotShrinks
    BY <1>1, <1>3, CleaningUp, BotsStep
  <2>3. CASE Stays
    BY <1>1, <1>3, <2>2, <2>3 DEF HandlerInv, Stays, BotShrinks, Later
  <2>4. CASE AtOneOf(Token) /\ Advances
    <3>1. step' = step + 1 /\ runner' = runner /\ verdict' = "FAIL"
      BY <1>1, <1>3, <2>4, CleaningUp DEF HandlerInv, Advances
    <3>2. CASE At("write")
      <4>1. disk' = "FAIL" /\ H[step] # "end_bot" /\ H[step] # "leave"
        BY <1>1, <1>3, <2>1, <2>4, <3>2 DEF HandlerInv, Advances, At, AtOneOf
      <4>2. Later(H, step, {"end_bot", "leave"}) => Later(H, step + 1, {"end_bot", "leave"})
        BY <1>2, <4>1, LaterStep
      <4> QED
        BY <1>1, <1>3, <2>2, <3>1, <4>1, <4>2 DEF HandlerInv, BotShrinks, Later
    <3>3. CASE At("end_bot") \/ At("leave")
      <4>1. proc' # "running"
        BY <1>1, <3>1, <3>3, BotsGone
      <4>2. disk' = disk /\ H[step] # "write"
        BY <2>1, <2>4, <3>3 DEF Advances, At, AtOneOf
      <4>3. Later(H, step, {"write"}) => Later(H, step + 1, {"write"})
        BY <1>2, <4>2, LaterStep
      <4> QED
        BY <1>1, <1>3, <3>1, <4>1, <4>2, <4>3 DEF HandlerInv, Later
    <3>4. CASE ~At("write") /\ ~At("end_bot") /\ ~At("leave")
      <4>1. disk' = disk /\ H[step] \notin {"write", "end_bot", "leave"}
        BY <2>1, <2>4, <3>4 DEF Advances, At, AtOneOf
      <4>2. /\ Later(H, step, {"write"}) => Later(H, step + 1, {"write"})
            /\ Later(H, step, {"end_bot", "leave"}) => Later(H, step + 1, {"end_bot", "leave"})
        BY <1>2, <4>1, LaterStep
      <4> QED
        BY <1>1, <1>3, <2>2, <3>1, <4>1, <4>2 DEF HandlerInv, BotShrinks, Later
    <3> QED
      BY <3>2, <3>3, <3>4
  <2> QED
    BY <1>3, <2>3, <2>4, ControlStep DEF Escapes, Crashes, NextSection
<1>4. CASE section # "handler"
  <2>1. AtOneOf(Token) /\ Escapes
    BY <1>4, ControlStep DEF Stays, Advances, Crashes, NextSection
  <2>2. section = "try" /\ step' = 1 /\ runner' = runner /\ verdict' = "FAIL"
    BY <2>1 DEF Escapes
  <2>3. H \in Seq(Cleanup)
    BY <1>1, ScriptAssumption
  <2>4. \A tokens : Contains(H, tokens) => Later(H, 1, tokens)
    BY <2>3 DEF Contains, Later
  <2>5. Contains(Finally[runner], {"write"}) \/ Later(H, 1, {"write"})
    BY <1>1, <2>4, ScriptAssumption
  <2>6. proc' = "running" => proc = "running"
    BY <2>2, BotsStep DEF BotShrinks, Ok, Advance
  <2>7. proc = "running" => Contains(Script[runner], {"bots"})
    BY <1>1, <2>1, <2>2, BotsContained
  <2>8. Contains(Script[runner], {"bots"}) =>
          Contains(Finally[runner], {"end_bot"}) \/ Later(H, 1, {"end_bot", "leave"})
    BY <1>1, <2>4, ScriptAssumption
  <2> QED
    BY <2>2, <2>5, <2>6, <2>7, <2>8 DEF HandlerInv, Later
<1> QED
  BY <1>3, <1>4

\* The finally clause of a run with a verdict.
LEMMA FinallyStep ==
  ASSUME IInv, [Next]_vars
  PROVE  FinallyInv'
<1> SUFFICES ASSUME section' = "finally" PROVE FinallyInv'
  BY DEF FinallyInv
<1> DEFINE F == Finally[runner]
<1>1. /\ TypeOK /\ TryInv /\ HandlerInv /\ FinallyInv /\ LeavingInv /\ PassInv
      /\ runner \in Runner
  BY DEF IInv, TypeOK
<1>2. F \in Seq(Cleanup) /\ Len(F) \in Nat /\ step \in Nat \ {0}
  BY <1>1, ScriptAssumption DEF TypeOK
<1>3. CASE section = "finally"
  <2>1. Plan = F
    BY <1>3 DEF Plan
  <2>2. BotShrinks
    BY <1>1, <1>3, CleaningUp, BotsStep
  <2>3. verdict' = verdict
    BY <1>1, <1>3, CleaningUp, ControlStep DEF Stays, Advances, Escapes, Crashes, NextSection
  <2>4. CASE Stays
    BY <1>1, <1>3, <2>2, <2>3, <2>4 DEF FinallyInv, Stays, BotShrinks, Later
  <2>5. CASE AtOneOf(Token) /\ Advances
    <3>1. step' = step + 1 /\ runner' = runner
      BY <2>5 DEF Advances
    <3>2. CASE At("write")
      <4>1. disk' = verdict /\ F[step] # "end_bot"
        BY <2>1, <2>5, <3>2 DEF Advances, At, AtOneOf
      <4>2. Later(F, step, {"end_bot"}) => Later(F, step + 1, {"end_bot"})
        BY <1>2, <4>1, LaterStep
      <4> QED
        BY <1>1, <1>3, <2>2, <2>3, <3>1, <4>1, <4>2 DEF FinallyInv, BotShrinks, Later
    <3>3. CASE At("end_bot")
      <4>1. proc' # "running"
        BY <1>1, <3>1, <3>3, BotsGone
      <4>2. disk' = disk /\ F[step] # "write"
        BY <2>1, <2>5, <3>3 DEF Advances, At, AtOneOf
      <4>3. Later(F, step, {"write"}) => Later(F, step + 1, {"write"})
        BY <1>2, <4>2, LaterStep
      <4> QED
        BY <1>1, <1>3, <2>3, <3>1, <4>1, <4>2, <4>3 DEF FinallyInv, Later
    <3>4. CASE ~At("write") /\ ~At("end_bot")
      <4>1. disk' = disk /\ F[step] \notin {"write", "end_bot"}
        BY <2>1, <2>5, <3>4 DEF Advances, At, AtOneOf
      <4>2. /\ Later(F, step, {"write"}) => Later(F, step + 1, {"write"})
            /\ Later(F, step, {"end_bot"}) => Later(F, step + 1, {"end_bot"})
        BY <1>2, <4>1, LaterStep
      <4> QED
        BY <1>1, <1>3, <2>2, <2>3, <3>1, <4>1, <4>2 DEF FinallyInv, BotShrinks, Later
    <3> QED
      BY <3>2, <3>3, <3>4
  <2> QED
    BY <1>3, <2>4, <2>5, ControlStep DEF Escapes, Crashes, NextSection
<1>4. CASE section # "finally"
  <2>0. \A tokens : Contains(F, tokens) => Later(F, 1, tokens)
    BY <1>2 DEF Contains, Later
  <2>1. CASE AtOneOf(Token) /\ Escapes
    <3>1. /\ section = "try" /\ step' = 1 /\ runner' = runner /\ verdict' = verdict
          /\ runner \in Narrow
      BY <2>1 DEF Escapes
    <3>2. verdict = "running"
      BY <1>1, <2>1, <3>1, PassedOn DEF TryInv
    <3>3. proc' = "running" => proc = "running"
      BY <3>1, BotsStep DEF BotShrinks, Ok, Advance
    <3>4. proc = "running" => Contains(F, {"end_bot"})
      BY <1>1, <2>1, <3>1, BotsContained, ScriptAssumption
    <3> QED
      BY <2>0, <3>1, <3>2, <3>3, <3>4 DEF FinallyInv, Later
  <2>2. CASE NextSection
    <3>1. /\ step' = 1 /\ runner' = runner /\ verdict' = verdict /\ disk' = disk
          /\ proc' = proc /\ step > Len(Plan) /\ section \in {"try", "handler"}
      BY <1>4, <2>2 DEF NextSection, botVars, Active, Sections
    <3>2. CASE section = "try"
      <4>1. verdict = "PASS"
        BY <1>1, <2>2, <3>2, TryGoesOn DEF TryInv
      <4>2. ~Running
        BY <1>1, <4>1 DEF PassInv, PassIsClean
      <4>3. Len(Script[runner]) \in Nat /\ step > Len(Script[runner])
        BY <1>1, <3>1, <3>2, ScriptAssumption DEF Plan
      <4>4. ~Later(Script[runner], step, {"write"})
        BY <1>2, <4>3, LaterStep
      <4> QED
        BY <1>1, <2>0, <3>1, <3>2, <4>1, <4>2, <4>4 DEF TryInv, FinallyInv, Later, Running
    <3>3. CASE section = "handler"
      <4>1. Len(Handler[runner]) \in Nat /\ step > Len(Handler[runner])
        BY <1>1, <3>1, <3>3, ScriptAssumption DEF Plan
      <4>2. /\ ~Later(Handler[runner], step, {"write"})
            /\ ~Later(Handler[runner], step, {"end_bot", "leave"})
        BY <1>2, <4>1, LaterStep
      <4> QED
        BY <1>1, <2>0, <3>1, <3>3, <4>2 DEF HandlerInv, FinallyInv, Later
    <3> QED
      BY <3>1, <3>2, <3>3
  <2> QED
    BY <1>4, <2>1, <2>2, ControlStep DEF Stays, Advances, Crashes
<1> QED
  BY <1>3, <1>4

\* The invariant is inductive.
LEMMA Inductive == IInv /\ [Next]_vars => IInv'
<1> SUFFICES ASSUME IInv, [Next]_vars PROVE IInv'
  OBVIOUS
<1>1. TypeOK'
  BY TypeStep DEF IInv
<1> QED
  BY <1>1, LeavingStep, TryStep, HandlerStep, FinallyStep, UndecidedStep, PassStep, StraysStep
  DEF IInv

\* A run starts in the invariant.
LEMMA Initially == Init => IInv
<1> SUFFICES ASSUME Init PROVE IInv
  OBVIOUS
<1>1. ~Up /\ ~Running /\ bds = "none" /\ stray = {}
  BY DEF Init, BotInit, Up, Running
<1>2. ~Held(runner, step)
  BY DEF Init, Held
<1>5. Later(Script[runner], step, {"pass"})
  BY ScriptAssumption DEF Init, Later
<1>3. TryInv
  BY <1>1, <1>2, <1>5 DEF Init, TryInv
<1>4. LeavingInv /\ HandlerInv /\ FinallyInv /\ UndecidedInv /\ PassInv /\ StrayInv
  BY DEF Init, BotInit, LeavingInv, HandlerInv, FinallyInv, UndecidedInv, PassInv, PassIsClean,
         StrayInv
<1> QED
  BY <1>3, <1>4, TypeInit DEF IInv

\* The invariant holds in every state of a run.
LEMMA Always == Spec => []IInv
BY Initially, Inductive, PTL DEF Spec

\* A run that passes has taken down what it put up, whatever its script is, as long as the
\* script stops its server and its bots before it passes.
THEOREM PassedIsClean == Spec => []PassIsClean
<1>1. IInv => PassIsClean
  BY DEF IInv, PassInv
<1> QED
  BY <1>1, Always, PTL

-----------------------------------------------------------------------------
(* A fleet that was signalled was drained.                                 *)

\* What a bot has printed comes in order, and an ending that names the signal had one.
EventsInv ==
  /\ Len(printed) >= 1 => printed[1] = "online"
  /\ Len(printed) >= 2 => printed[2] \in Stats
  /\ Len(printed) >= 3 => (printed[3] \in Endings /\ (printed[3] = "signalled" => asked))

\* The script has let go of its bots, or the run has passed.
Released == verdict = "PASS" \/ (section = "try" /\ ~BotOpen(runner, step))

\* A bot the signal killed, if waitpid is to be believed, was drained when it was let go.
DrainInv ==
  (Released /\ proc = "exited" /\ code = "sigterm") => (runner \in Normalizes /\ Drained)

\* What the reader has stored is what was printed, as far as it has come.
LEMMA PrefixHas ==
  ASSUME NEW s \in Seq(Events), NEW n \in 0 .. Len(s), NEW wanted
  PROVE  Has(SubSeq(s, 1, n), wanted) <=> \E i \in 1 .. n : s[i] \in wanted
<1>1. Len(SubSeq(s, 1, n)) = n /\ DOMAIN SubSeq(s, 1, n) = 1 .. n
  OBVIOUS
<1>2. \A i \in 1 .. n : SubSeq(s, 1, n)[i] = s[i]
  OBVIOUS
<1> QED
  BY <1>1, <1>2 DEF Has

\* At most three events, of which the reader has stored a few.
LEMMA Numbers ==
  ASSUME NEW l \in Nat, l <= 3, NEW m \in 0 .. l
  PROVE  /\ l <= 2 => l \in {0, 1, 2}
         /\ \A i \in 1 .. m : i \in {1, 2, 3} /\ i <= l /\ (i = 3 => l = 3)
OBVIOUS

\* The order of the events.
LEMMA EventsStep ==
  ASSUME BotTypeOK, EventsInv, [Next]_vars
  PROVE  EventsInv'
<1>1. CASE BotPrints
  <2>1. PICK e \in Printable(printed) :
          (e = "signalled" => asked) /\ printed' = Append(printed, e) /\ asked' = asked
    BY <1>1 DEF BotPrints
  <2>2. printed \in Seq(Events) /\ Len(printed) \in Nat /\ Len(printed) <= 2
    BY <2>1 DEF Printable, BotTypeOK
  <2>3. /\ Len(printed') = Len(printed) + 1 /\ printed'[Len(printed) + 1] = e
        /\ \A i \in 1 .. Len(printed) : printed'[i] = printed[i]
    BY <2>1, <2>2
  <2>4. CASE Len(printed) = 0
    BY <2>1, <2>3, <2>4 DEF EventsInv, Printable
  <2>5. CASE Len(printed) = 1
    BY <2>1, <2>3, <2>5 DEF EventsInv, Printable
  <2>6. CASE Len(printed) = 2
    BY <2>1, <2>3, <2>6 DEF EventsInv, Printable
  <2>7. Len(printed) \in {0, 1, 2}
    BY <2>2, Numbers DEF BotTypeOK
  <2> QED
    BY <2>4, <2>5, <2>6, <2>7
<1>2. CASE Launch
  BY <1>2 DEF Launch, EventsInv
<1>3. CASE BotExits \/ ReadEvent \/ Signal \/ KillBot \/ UNCHANGED botVars
  BY <1>3 DEF BotExits, ReadEvent, Signal, KillBot, botVars, EventsInv
<1> QED
  BY <1>1, <1>2, <1>3, BotStep

\* A bot is let go in the try block by a judgement that accepts it.
LEMMA LetGoJudged ==
  ASSUME TypeOK, LeavingInv, [Next]_vars, At("leave"), section = "try", section' = "try",
         step' = step + 1
  PROVE  proc = proc' /\ code = code' /\ UNCHANGED botVars /\ (proc = "none" \/ Judged)
<1> USE PlanType DEF At, AtOneOf, botVars, Raise, ServerTokens, BotTokens
<1>1. CASE ServerSteps
  BY <1>1 DEF ServerSteps
<1>2. CASE BotSteps
  BY <1>2 DEF BotSteps, StartBot, BotOnline, Watch, LeaveNobody, LeaveSignal, LeaveGone,
              LeaveKilled, LeaveJudged, at
<1>3. CASE Work \/ Divert \/ Restore \/ PassRun \/ Write \/ NextSection
  BY <1>3 DEF Work, Divert, Restore, PassRun, Write, NextSection
<1>4. CASE EndBot \/ EndServer \/ KillServer \/ SplitLogs
  BY <1>4 DEF EndBot, EndServer, KillServer, SplitLogs
<1>5. CASE ServerDies \/ BotMoves \/ Ended \/ UNCHANGED vars
  BY <1>5 DEF ServerDies, BotMoves, Ended, vars, at
<1> QED
  BY <1>1, <1>2, <1>3, <1>4, <1>5 DEF Next, Controller

\* What releases the bots is the end of a terminate().
LEMMA ReleasedBy ==
  ASSUME IInv, [Next]_vars, ~Released, Released'
  PROVE  At("leave") /\ section = "try" /\ section' = "try" /\ step' = step + 1
<1>1. TypeOK
  BY DEF IInv
<1>2. AtOneOf(Token) /\ Advances
  <2>1. ~Stays
    BY DEF Stays, Released, BotOpen
  <2> QED
    BY <2>1, ControlStep DEF Escapes, Crashes, NextSection, Released
<1>3. section = "try"
  BY <1>1, <1>2, CleaningUp DEF Advances, Released, AtOneOf, Active, Sections
<1>4. /\ runner \in Runner /\ step \in 1 .. Len(Script[runner])
      /\ Plan = Script[runner] /\ BotOpen(runner, step)
  <2>1. Len(Script[runner]) \in Nat /\ runner \in Runner
    BY <1>1, ScriptAssumption DEF TypeOK
  <2> QED
    BY <1>1, <1>2, <1>3, <2>1 DEF AtOneOf, Plan, TypeOK, Released
<1>5. ~At("pass")
  BY <1>4, ScriptAssumption DEF At, AtOneOf
<1>6. section' = "try" /\ step' = step + 1 /\ runner' = runner /\ verdict' # "PASS"
  BY <1>2, <1>3, <1>5 DEF Advances, Released
<1>7. ~BotOpen(runner, step + 1)
  BY <1>6 DEF Released, BotOpen
<1>8. Script[runner][step] = "leave"
  BY <1>4, <1>7, OpenStep
<1> QED
  BY <1>2, <1>3, <1>4, <1>6, <1>8 DEF At, AtOneOf

\* A bot that is let go was judged, and none that was let go dies any more.
LEMMA DrainStep ==
  ASSUME IInv, DrainInv, [Next]_vars
  PROVE  DrainInv'
<1> SUFFICES ASSUME Released', proc' = "exited", code' = "sigterm"
             PROVE  (runner \in Normalizes /\ Drained)'
  BY DEF DrainInv
<1>1. TypeOK /\ BotTypeOK /\ BotTypeOK' /\ LeavingInv /\ TryInv /\ PassInv
  BY TypeStep DEF IInv, TypeOK
<1>2. runner' = runner
  BY ControlStep DEF Stays, Advances, Escapes, Crashes, NextSection
<1>3. CASE Released
  <2>1. ~Running
    BY <1>1, <1>3 DEF Released, TryInv, PassInv, PassIsClean
  <2>2. UNCHANGED botVars \/ ReadEvent
    BY <2>1, BotStep DEF BotPrints, BotExits, Launch, Signal, KillBot
  <2>3. /\ proc' = proc /\ code' = code /\ printed' = printed
        /\ seen' = seen \/ seen' = seen + 1
    BY <2>2 DEF ReadEvent, botVars
  <2>4. runner \in Normalizes /\ Drained
    BY <1>3, <2>3 DEF DrainInv
  <2>5. seen \in Nat
    BY <1>1 DEF BotTypeOK
  <2>6. ASSUME NEW wanted, Has(Snapshot, wanted) PROVE Has(Snapshot', wanted)
    <3>1. /\ printed \in Seq(Events) /\ seen \in 0 .. Len(printed)
          /\ printed' \in Seq(Events) /\ seen' \in 0 .. Len(printed')
      BY <1>1 DEF BotTypeOK
    <3>2. PICK i \in 1 .. seen : printed[i] \in wanted
      BY <2>6, <3>1, PrefixHas DEF Snapshot
    <3>3. i \in 1 .. seen' /\ printed'[i] \in wanted
      BY <2>3, <2>5, <3>2
    <3>4. Has(SubSeq(printed', 1, seen'), wanted)
      BY <3>1, <3>3, PrefixHas
    <3> QED
      BY <3>4 DEF Snapshot
  <2> QED
    BY <1>2, <2>4, <2>6 DEF Drained, Has
<1>4. CASE ~Released
  <2>1. UNCHANGED botVars /\ proc' = proc /\ code' = code /\ (proc = "none" \/ Judged)
    BY <1>1, <1>4, ReleasedBy, LetGoJudged
  <2>2. runner \in Normalizes /\ Drained
    BY <2>1 DEF Judged, CleanCode
  <2> QED
    BY <1>2, <2>1, <2>2 DEF Drained, Has, Snapshot, botVars
<1> QED
  BY <1>3, <1>4

\* A run that passes although the exit code of its bots is that of the signal has asked for
\* it and has seen every bot report and the fleet end because of it.
THEOREM SignalledFleetsWereDrained == Spec => []SignalledWasDrained
<1>1. Init => EventsInv /\ DrainInv
  BY DEF Init, BotInit, EventsInv, DrainInv
<1>2. IInv /\ EventsInv /\ DrainInv /\ [Next]_vars => (EventsInv /\ DrainInv)'
  BY EventsStep, DrainStep DEF IInv, TypeOK
<1>3. ASSUME IInv, EventsInv, DrainInv PROVE SignalledWasDrained
  <2> SUFFICES ASSUME verdict = "PASS", proc = "exited", code = "sigterm"
               PROVE  /\ asked /\ runner \in Normalizes
                      /\ Len(printed) = 3 /\ printed[2] # "incomplete" /\ printed[3] = "signalled"
    BY DEF SignalledWasDrained
  <2>1. runner \in Normalizes /\ Drained
    BY <1>3 DEF DrainInv, Released
  <2>2. /\ printed \in Seq(Events) /\ seen \in 0 .. Len(printed)
        /\ Len(printed) \in Nat /\ Len(printed) <= 3
    BY <1>3 DEF IInv, TypeOK, BotTypeOK
  <2>3. PICK i \in 1 .. seen : printed[i] \in {"signalled"}
    BY <2>1, <2>2, PrefixHas DEF Drained, Snapshot
  <2>4. PICK j \in 1 .. seen : printed[j] \in {"moved", "idle"}
    BY <2>1, <2>2, PrefixHas DEF Drained, Snapshot
  <2>5. \A k \in 1 .. seen : k \in {1, 2, 3} /\ k <= Len(printed) /\ (k = 3 => Len(printed) = 3)
    BY <2>2, Numbers
  <2>6. i = 3 /\ Len(printed) = 3
    <3>1. i = 1 => printed[i] = "online"
      BY <1>3, <2>2, <2>5 DEF EventsInv
    <3>2. i = 2 => printed[i] \in Stats
      BY <1>3, <2>2, <2>5 DEF EventsInv
    <3> QED
      BY <2>3, <2>5, <3>1, <3>2 DEF Stats
  <2>7. j = 2
    <3>1. j = 1 => printed[j] = "online"
      BY <1>3, <2>2, <2>5 DEF EventsInv
    <3>2. j = 3 => printed[j] \in Endings
      BY <1>3, <2>2, <2>6 DEF EventsInv
    <3> QED
      BY <2>4, <2>5, <3>1, <3>2 DEF Endings
  <2> QED
    BY <1>3, <2>1, <2>3, <2>4, <2>6, <2>7 DEF EventsInv
<1> QED
  BY <1>1, <1>2, <1>3, Always, PTL DEF Spec

-----------------------------------------------------------------------------
(* What is left behind, and what was reported.                             *)

\* In the try block the environment and the capture are what the script has made of them
\* since they were restored, the server has the environment of its start, and only a server
\* with the normal one has published anything.
EnvInv ==
  section = "try" =>
    /\ env # "normal" => Diverted(runner, step)
    /\ listening => Listens(runner, step)
    /\ inherited # "normal" => Tainted(runner, step)
    /\ published \subseteq {"normal"}
    /\ (verdict = "PASS" /\ listening) => Contains(Finally[runner], {"restore"})

\* A step that is still to come closes the capture, if it listens, ...
ListenInv ==
  /\ (section = "handler" /\ listening) =>
       Contains(Finally[runner], {"restore"}) \/ Later(Handler[runner], step, {"restore"})
  /\ (section = "finally" /\ listening) => Later(Finally[runner], step, {"restore"})

\* ... and one ends the wrapper the run knows of, on Linux, if it is up and was not killed.
Left == runner \notin Windows /\ wrapper = "up" /\ held
LeftInv ==
  /\ (section = "handler" /\ Left) =>
       Contains(Finally[runner], Ends) \/ Later(Handler[runner], step, Ends)
  /\ (section = "finally" /\ verdict # "running" /\ Left) => Later(Finally[runner], step, Ends)

\* What a step of the try block does to the environment.
LEMMA EnvStep ==
  ASSUME TypeOK, [Next]_vars, section = "try", section' = "try"
  PROVE  \/ UNCHANGED envVars /\ (step' = step + 1 => ~AtOneOf({"restore"} \cup Opens))
         \/ /\ AtOneOf({"divert", "mute"}) /\ (listening' => (listening \/ At("divert")))
            /\ UNCHANGED <<inherited, published>> /\ step' = step + 1
         \/ At("restore") /\ Restored /\ step' = step + 1
         \/ /\ AtOneOf(Opens) /\ inherited' = env /\ UNCHANGED <<listening, env, published>>
            /\ step' = step + 1
         \/ /\ At("public") /\ published' = published \cup {inherited}
            /\ UNCHANGED <<listening, env, inherited>> /\ step' = step + 1
<1> USE PlanType DEF Ok, Advance, At, AtOneOf, envVars, Raise, ServerTokens, BotTokens, Opens
<1>1. CASE ServerSteps
  BY <1>1 DEF ServerSteps, StartServer, LaunchServer, Ready, Serve, LocalReport, PublicReport,
              StopServer, Shutdown, Drop, Crash, Quit, Popen
<1>2. CASE BotSteps
  BY <1>2 DEF BotSteps, StartBot, BotOnline, Watch, LeaveNobody, LeaveSignal, LeaveGone,
              LeaveKilled, LeaveJudged, at
<1>3. CASE Work \/ Divert \/ Restore \/ PassRun \/ Write \/ NextSection
  BY <1>3 DEF Work, Divert, Restore, PassRun, Write, NextSection
<1>4. CASE EndBot \/ EndServer \/ KillServer \/ SplitLogs
  BY <1>4 DEF EndBot, EndServer, KillServer, SplitLogs
<1>5. CASE ServerDies \/ BotMoves \/ Ended \/ UNCHANGED vars
  BY <1>5 DEF ServerDies, BotMoves, Ended, vars, at
<1> QED
  BY <1>1, <1>2, <1>3, <1>4, <1>5 DEF Next, Controller

\* Where nothing is diverted, the capture only ever stops to listen; a restore sees to it,
\* and so does an exception in the methods that unwind.
LEMMA ListenStep ==
  ASSUME TypeOK, [Next]_vars
  PROVE  /\ ~At("divert") => (listening' => listening)
         /\ (At("restore") /\ step' = step + 1) => ~listening'
         /\ (AtOneOf(Token) /\ Escapes /\ runner \in Unwinds) => ~listening'
<1> USE PlanType DEF Ok, Advance, At, AtOneOf, envVars, Raise, EnvRaised, Restored, Escapes,
                     ServerTokens, BotTokens
<1>1. CASE ServerSteps
  BY <1>1 DEF ServerSteps, StartServer, LaunchServer, Ready, Serve, LocalReport, PublicReport,
              StopServer, Shutdown, Drop, Crash, Quit, Popen
<1>2. CASE BotSteps
  BY <1>2 DEF BotSteps, StartBot, BotOnline, Watch, LeaveNobody, LeaveSignal, LeaveGone,
              LeaveKilled, LeaveJudged, at
<1>3. CASE Work \/ Divert \/ Restore \/ PassRun \/ Write \/ NextSection
  BY <1>3 DEF Work, Divert, Restore, PassRun, Write, NextSection
<1>4. CASE EndBot \/ EndServer \/ KillServer \/ SplitLogs
  BY <1>4 DEF EndBot, EndServer, KillServer, SplitLogs
<1>5. CASE ServerDies \/ BotMoves \/ Ended \/ UNCHANGED vars
  BY <1>5 DEF ServerDies, BotMoves, Ended, vars, at
<1> QED
  BY <1>1, <1>2, <1>3, <1>4, <1>5 DEF Next, Controller

\* In the clauses that clean up, what the run knows of only gets less, and on Linux the steps
\* that end a server end it, whether they raise or not.
LEMMA LeftStep ==
  ASSUME TypeOK, [Next]_vars, section \in {"handler", "finally"}
  PROVE  /\ Left' => Left
         /\ (AtOneOf(Ends) /\ step' = step + 1) => ~Left'
         /\ (At("kill") /\ Crashes) => ~Left'
<1> USE CleaningUp DEF Left, Up, Ends, Ok, Advance, At, AtOneOf, serverVars, Raise, ServerTokens,
                       BotTokens
<1>0. step \in Nat /\ step + 1 # step /\ runner' = runner
  <2>1. step \in Nat
    BY DEF TypeOK
  <2> QED
    BY <2>1, ControlStep DEF Stays, Advances, Escapes, Crashes, NextSection
<1>1. CASE ServerSteps
  BY <1>0, <1>1 DEF ServerSteps, StartServer, LaunchServer, Ready, Serve, LocalReport, PublicReport,
              StopServer, Shutdown, Drop, Crash, Quit, KillTree, Opens
<1>2. CASE BotSteps
  BY <1>0, <1>2 DEF BotSteps, StartBot, BotOnline, Watch, LeaveNobody, LeaveSignal, LeaveGone,
              LeaveKilled, LeaveJudged, at
<1>3. CASE Work \/ Divert \/ Restore \/ PassRun \/ Write
  BY <1>0, <1>3 DEF Work, Divert, Restore, PassRun, Write
<1>6. CASE NextSection
  BY <1>0, <1>6 DEF NextSection
<1>4. CASE EndBot \/ EndServer \/ KillServer \/ SplitLogs
  BY <1>0, <1>4 DEF EndBot, EndServer, KillServer, SplitLogs, KillTree
<1>5. CASE ServerDies \/ BotMoves \/ Ended \/ UNCHANGED vars
  BY <1>0, <1>5 DEF ServerDies, BotMoves, Ended, vars, at, Crashes
<1> QED
  BY <1>1, <1>2, <1>3, <1>4, <1>5, <1>6 DEF Next, Controller

\* Nothing happens after the end.
LEMMA AtTheEnd ==
  ASSUME [Next]_vars, ~Active
  PROVE  UNCHANGED vars
<1> USE DEF AtOneOf, At
<1>1. ~ServerSteps /\ ~BotSteps
  BY DEF ServerSteps, BotSteps
<1>2. ~Work /\ ~Divert /\ ~Restore /\ ~PassRun /\ ~Write
  BY DEF Work, Divert, Restore, PassRun, Write
<1>3. ~EndBot /\ ~EndServer /\ ~KillServer /\ ~SplitLogs /\ ~NextSection
  BY DEF EndBot, EndServer, KillServer, SplitLogs, NextSection
<1>4. ~ServerDies /\ ~BotMoves
  BY DEF ServerDies, BotMoves
<1> QED
  BY <1>1, <1>2, <1>3, <1>4 DEF Next, Controller, Ended

\* A server publishes while it is up.
LEMMA PublishStep ==
  ASSUME [Next]_vars, published' # published
  PROVE  Up
<1> USE DEF Ok, Raise, EnvRaised, Restored, envVars
<1>1. CASE ServerSteps
  BY <1>1 DEF ServerSteps, StartServer, LaunchServer, Ready, Serve, LocalReport, PublicReport,
              StopServer, Shutdown, Drop, Crash, Quit, Popen
<1>2. CASE BotSteps
  BY <1>2 DEF BotSteps, StartBot, BotOnline, Watch, LeaveNobody, LeaveSignal, LeaveGone,
              LeaveKilled, LeaveJudged
<1>3. CASE Work \/ Divert \/ Restore \/ PassRun \/ Write \/ NextSection
  BY <1>3 DEF Work, Divert, Restore, PassRun, Write, NextSection
<1>4. CASE EndBot \/ EndServer \/ KillServer \/ SplitLogs
  BY <1>4 DEF EndBot, EndServer, KillServer, SplitLogs
<1>5. CASE ServerDies \/ BotMoves \/ Ended \/ UNCHANGED vars
  BY <1>5 DEF ServerDies, BotMoves, Ended, vars
<1> QED
  BY <1>1, <1>2, <1>3, <1>4, <1>5 DEF Next, Controller

\* What was diverted stays so until it is restored, and a server that was started meanwhile
\* is what runs until the next start.
LEMMA SinceStep ==
  ASSUME NEW r \in Runner, NEW i \in 1 .. Len(Script[r]), NEW tokens
  PROVE  /\ Script[r][i] \in tokens => Since(r, i + 1, tokens)
         /\ (Since(r, i, tokens) /\ Script[r][i] # "restore") => Since(r, i + 1, tokens)
<1>1. Len(Script[r]) \in Nat
  BY ScriptAssumption
<1>2. i \in Nat /\ i \in 1 .. i + 1 - 1 /\ i + 1 .. i + 1 - 1 = {}
  BY <1>1
<1> QED
  BY <1>2 DEF Since

\* A server started while the capture was announced is tainted until the next start.
LEMMA TaintedStep ==
  ASSUME NEW r \in Runner, NEW i \in 1 .. Len(Script[r])
  PROVE  /\ (Script[r][i] \in Opens /\ Diverted(r, i)) => Tainted(r, i + 1)
         /\ (Tainted(r, i) /\ Script[r][i] \notin Opens) => Tainted(r, i + 1)
<1>1. Len(Script[r]) \in Nat
  BY ScriptAssumption
<1>2. i \in Nat /\ i \in 1 .. i + 1 - 1 /\ i + 1 .. i + 1 - 1 = {}
  BY <1>1
<1> QED
  BY <1>2 DEF Tainted

\* What is to be closed at the end was opened by the script.
LEMMA ListensContains ==
  ASSUME NEW r \in Runner, NEW i \in 1 .. Len(Script[r]), Listens(r, i)
  PROVE  Contains(Script[r], {"divert"})
<1>1. Script[r] \in Seq(Token) /\ Len(Script[r]) \in Nat
  BY ScriptAssumption
<1>2. PICK j \in 1 .. i - 1 : Script[r][j] \in {"divert"}
  BY DEF Listens, Since
<1>3. j \in 1 .. Len(Script[r]) /\ DOMAIN Script[r] = 1 .. Len(Script[r])
  BY <1>1
<1> QED
  BY <1>2, <1>3 DEF Contains

\* The try block: what the script says of the environment holds.
LEMMA EnvInvStep ==
  ASSUME IInv, EnvInv, [Next]_vars
  PROVE  EnvInv'
<1> SUFFICES ASSUME section' = "try" PROVE EnvInv'
  BY DEF EnvInv
<1> DEFINE S == Script[runner]
<1>1. TypeOK /\ TryInv /\ runner \in Runner
  BY DEF IInv, TypeOK
<1>2. Len(S) \in Nat /\ step \in Nat \ {0} /\ step + 1 # step
  BY <1>1, ScriptAssumption DEF TypeOK
<1>3. section = "try" /\ runner' = runner
  <2>1. section # "try" => section' # "try"
    BY ControlStep DEF Stays, Advances, Escapes, Crashes, NextSection, Active, Sections
  <2> QED
    BY <2>1, ControlStep DEF Stays, Advances, Escapes, Crashes, NextSection
<1>4. Plan = S
  BY <1>3 DEF Plan
<1>5. \/ Stays
      \/ step \in 1 .. Len(S) /\ Advances
  <2>1. AtOneOf(Token) => step <= Len(S)
    BY <1>4 DEF AtOneOf
  <2> QED
    BY <1>2, <1>3, <2>1, ControlStep DEF Escapes, Crashes, NextSection
<1>6. CASE Stays
  <2>1. step' = step /\ step' # step + 1 /\ verdict' = verdict
    BY <1>2, <1>6 DEF Stays
  <2>2. UNCHANGED envVars
    BY <1>1, <1>3, <2>1, EnvStep
  <2> QED
    BY <1>3, <2>1, <2>2 DEF EnvInv, envVars, Diverted, Listens, Since, Tainted
<1>7. CASE step \in 1 .. Len(S) /\ Advances
  <2>1. step' = step + 1
    BY <1>7 DEF Advances
  <2>2. \A tokens : S[step] \in tokens <=> AtOneOf(tokens)
    BY <1>3, <1>4, <1>7 DEF AtOneOf, Active, Sections
  <2>3. /\ env # "normal" => Diverted(runner, step)
        /\ listening => Listens(runner, step)
        /\ inherited # "normal" => Tainted(runner, step)
        /\ published \subseteq {"normal"}
        /\ (verdict = "PASS" /\ listening) => Contains(Finally[runner], {"restore"})
    BY <1>3 DEF EnvInv
  <2>4. /\ (Diverted(runner, step) /\ S[step] # "restore") => Diverted(runner, step + 1)
        /\ (Listens(runner, step) /\ S[step] # "restore") => Listens(runner, step + 1)
        /\ S[step] \in {"divert", "mute"} => Diverted(runner, step + 1)
        /\ S[step] = "divert" => Listens(runner, step + 1)
    BY <1>1, <1>7, SinceStep DEF Diverted, Listens
  <2>5. /\ (S[step] \in Opens /\ Diverted(runner, step)) => Tainted(runner, step + 1)
        /\ (Tainted(runner, step) /\ S[step] \notin Opens) => Tainted(runner, step + 1)
    BY <1>1, <1>7, TaintedStep
  <2>6. /\ env' # "normal" => Diverted(runner, step + 1)
        /\ listening' => Listens(runner, step + 1)
        /\ inherited' # "normal" => Tainted(runner, step + 1)
        /\ published' \subseteq {"normal"}
    <3>1. CASE UNCHANGED envVars /\ S[step] \notin {"restore"} \cup Opens
      BY <2>3, <2>4, <2>5, <3>1 DEF envVars
    <3>2. CASE /\ S[step] \in {"divert", "mute"}
               /\ (listening' => (listening \/ S[step] = "divert"))
               /\ UNCHANGED <<inherited, published>>
      BY <2>3, <2>4, <2>5, <3>2 DEF Opens
    <3>3. CASE S[step] = "restore" /\ Restored
      BY <2>3, <2>5, <3>3 DEF Restored, Opens
    <3>4. CASE S[step] \in Opens /\ inherited' = env /\ UNCHANGED <<listening, env, published>>
      BY <2>3, <2>4, <2>5, <3>4 DEF Opens
    <3>5. CASE /\ S[step] = "public" /\ published' = published \cup {inherited}
               /\ UNCHANGED <<listening, env, inherited>>
      <4>1. ~Tainted(runner, step)
        BY <1>1, <1>2, <1>7, <3>5, ScriptAssumption
      <4> QED
        BY <2>3, <2>4, <2>5, <3>5, <4>1 DEF Opens
    <3> QED
      BY <1>1, <1>3, <2>1, <2>2, <3>1, <3>2, <3>3, <3>4, <3>5, EnvStep DEF At
  <2>7. (verdict' = "PASS" /\ listening') => Contains(Finally[runner], {"restore"})
    <3> SUFFICES ASSUME verdict' = "PASS", listening'
                 PROVE  Contains(Finally[runner], {"restore"})
      OBVIOUS
    <3>1. CASE At("pass")
      <4>1. S[step] = "pass" /\ ~At("divert")
        BY <3>1, <1>4 DEF At, AtOneOf
      <4>2. Listens(runner, step)
        BY <1>1, <2>3, <4>1, ListenStep
      <4> QED
        BY <1>1, <1>7, <4>1, <4>2, ScriptAssumption
    <3>2. CASE ~At("pass")
      <4>1. verdict = "PASS"
        BY <1>7, <3>2 DEF Advances
      <4>2. S[step] = "write"
        BY <1>1, <1>3, <1>7, <4>1 DEF TryInv
      <4>3. ~At("divert")
        BY <1>4, <4>2 DEF At, AtOneOf
      <4> QED
        BY <1>1, <2>3, <4>1, <4>3, ListenStep
    <3> QED
      BY <3>1, <3>2
  <2> QED
    BY <1>3, <2>1, <2>6, <2>7 DEF EnvInv, Diverted, Listens, Since, Tainted
<1> QED
  BY <1>5, <1>6, <1>7

\* A capture that still listens after an exception was opened by the script, in a method
\* that does not unwind.
LEMMA ListensOn ==
  ASSUME IInv, EnvInv, [Next]_vars, section = "try", AtOneOf(Token), Escapes, listening'
  PROVE  runner \notin Unwinds /\ Contains(Script[runner], {"divert"})
<1>1. TypeOK /\ runner \in Runner
  BY DEF IInv, TypeOK
<1>2. step \in 1 .. Len(Script[runner])
  <2>1. Len(Script[runner]) \in Nat
    BY <1>1, ScriptAssumption
  <2> QED
    BY <1>1, <2>1 DEF AtOneOf, Plan, TypeOK
<1>3. runner \notin Unwinds
  BY <1>1, ListenStep
<1>4. CASE At("divert")
  <2>1. Script[runner][step] = "divert"
    BY <1>4 DEF At, AtOneOf, Plan
  <2>2. Script[runner] \in Seq(Token) /\ step \in DOMAIN Script[runner]
    BY <1>1, <1>2, ScriptAssumption
  <2> QED
    BY <1>3, <2>1, <2>2 DEF Contains
<1>5. CASE ~At("divert")
  <2>1. Listens(runner, step)
    BY <1>1, <1>5, ListenStep DEF EnvInv
  <2> QED
    BY <1>1, <1>2, <1>3, <2>1, ListensContains
<1> QED
  BY <1>4, <1>5

\* The clauses that clean up: a token that is to come comes.
LEMMA LaterInvStep ==
  ASSUME IInv, EnvInv, ListenInv, LeftInv, [Next]_vars
  PROVE  (ListenInv /\ LeftInv)'
<1> DEFINE H == Handler[runner]
           F == Finally[runner]
<1>1. TypeOK /\ TryInv /\ HandlerInv /\ PassInv /\ runner \in Runner /\ runner' = runner
  BY ControlStep DEF IInv, TypeOK, Stays, Advances, Escapes, Crashes, NextSection
<1>2. /\ H \in Seq(Cleanup) /\ Len(H) \in Nat /\ F \in Seq(Cleanup) /\ Len(F) \in Nat
      /\ step \in Nat \ {0}
  BY <1>1, ScriptAssumption DEF TypeOK
<1>3. \A tokens : /\ Contains(F, tokens) => Later(F, 1, tokens)
                  /\ Contains(H, tokens) => Later(H, 1, tokens)
  BY <1>2 DEF Contains, Later
<1>4. CASE section \in {"handler", "finally"} /\ section' = section
  <2>1. (listening' => listening) /\ (Left' => Left)
    BY <1>1, <1>4, CleaningUp, ListenStep, LeftStep DEF At, AtOneOf
  <2>2. verdict' = verdict
    BY <1>1, <1>4, CleaningUp, ControlStep DEF Stays, Advances, Escapes, Crashes, NextSection
  <2>3. \/ step' = step
        \/ Active /\ step <= Len(Plan) /\ step' = step + 1
    BY <1>4, ControlStep DEF Stays, Advances, Escapes, Crashes, NextSection, AtOneOf
  <2>4. CASE step' = step
    BY <1>1, <1>4, <2>1, <2>2, <2>4 DEF ListenInv, LeftInv, Later
  <2>5. CASE Active /\ step <= Len(Plan) /\ step' = step + 1
    <3>1. (listening' => Plan[step] # "restore") /\ (Left' => Plan[step] \notin Ends)
      BY <1>1, <1>4, <2>5, ListenStep, LeftStep DEF At, AtOneOf
    <3>2. CASE section = "handler"
      <4>1. Plan = H
        BY <3>2 DEF Plan
      <4>2. /\ (listening' /\ Later(H, step, {"restore"})) => Later(H, step + 1, {"restore"})
            /\ (Left' /\ Later(H, step, Ends)) => Later(H, step + 1, Ends)
        BY <1>2, <3>1, <4>1, LaterStep
      <4> QED
        BY <1>1, <1>4, <2>1, <2>5, <3>2, <4>2 DEF ListenInv, LeftInv, Later
    <3>3. CASE section = "finally"
      <4>1. Plan = F
        BY <3>3 DEF Plan
      <4>2. /\ (listening' /\ Later(F, step, {"restore"})) => Later(F, step + 1, {"restore"})
            /\ (Left' /\ Later(F, step, Ends)) => Later(F, step + 1, Ends)
        BY <1>2, <3>1, <4>1, LaterStep
      <4> QED
        BY <1>1, <1>4, <2>1, <2>2, <2>5, <3>3, <4>2 DEF ListenInv, LeftInv, Later
    <3> QED
      BY <1>4, <3>2, <3>3
  <2> QED
    BY <2>3, <2>4, <2>5
<1>5. CASE section = "try" /\ section' = "handler"
  <2>1. AtOneOf(Token) /\ Escapes
    BY <1>5, ControlStep DEF Stays, Advances, Crashes, NextSection
  <2>2. step' = 1 /\ step \in 1 .. Len(Script[runner])
    <3>1. Len(Script[runner]) \in Nat
      BY <1>1, ScriptAssumption
    <3> QED
      BY <1>2, <1>5, <2>1, <3>1 DEF Escapes, AtOneOf, Plan
  <2>3. listening' => Contains(F, {"restore"}) \/ Contains(H, {"restore"})
    <3> SUFFICES ASSUME listening' PROVE Contains(F, {"restore"}) \/ Contains(H, {"restore"})
      OBVIOUS
    <3>1. runner \notin Unwinds /\ Contains(Script[runner], {"divert"})
      BY <1>1, <1>5, <2>1, ListensOn
    <3> QED
      BY <1>1, <3>1, ScriptAssumption
  <2>4. Left' => Contains(F, Ends) \/ Contains(H, Ends)
    BY <1>1, ScriptAssumption DEF Left
  <2> QED
    BY <1>1, <1>3, <1>5, <2>2, <2>3, <2>4 DEF ListenInv, LeftInv, Later
<1>6. CASE section \in {"try", "handler"} /\ section' = "finally"
  <2>1. CASE AtOneOf(Token) /\ Escapes
    <3>1. section = "try" /\ step' = 1 /\ runner \in Narrow /\ verdict' = verdict
      BY <1>6, <2>1 DEF Escapes
    <3>2. verdict = "running"
      BY <1>1, <2>1, <3>1, PassedOn DEF TryInv
    <3>3. listening' => Contains(F, {"restore"})
      BY <1>1, <2>1, <3>1, ListensOn, ScriptAssumption
    <3> QED
      BY <1>1, <1>3, <1>6, <3>1, <3>2, <3>3 DEF ListenInv, LeftInv, Later
  <2>2. CASE NextSection
    <3>1. /\ step' = 1 /\ verdict' = verdict /\ listening' = listening /\ Left' = Left
          /\ step > Len(Plan)
      BY <1>1, <2>2 DEF NextSection, serverVars, envVars, Left
    <3>2. CASE section = "try"
      <4>1. verdict = "PASS" /\ ~Up
        BY <1>1, <2>2, <3>2, TryGoesOn DEF TryInv, PassInv, PassIsClean
      <4> QED
        BY <1>1, <1>3, <1>6, <3>1, <3>2, <4>1 DEF EnvInv, ListenInv, LeftInv, Left, Later, Up
    <3>3. CASE section = "handler"
      <4>1. step > Len(H)
        BY <3>1, <3>3 DEF Plan
      <4>2. ~Later(H, step, {"restore"}) /\ ~Later(H, step, Ends)
        BY <1>2, <4>1, LaterStep
      <4> QED
        BY <1>1, <1>3, <1>6, <3>1, <3>3, <4>2 DEF ListenInv, LeftInv, Later
    <3> QED
      BY <1>6, <3>2, <3>3
  <2> QED
    BY <1>6, <2>1, <2>2, ControlStep DEF Stays, Advances, Crashes
<1>7. CASE section' \notin {"handler", "finally"}
  BY <1>7 DEF ListenInv, LeftInv
<1>8. \/ section' = section
      \/ section = "try"
      \/ section = "handler" /\ section' = "finally"
      \/ section' \notin {"handler", "finally"}
  BY ControlStep DEF Stays, Advances, Escapes, Crashes, NextSection, Active, Sections
<1> QED
  BY <1>4, <1>5, <1>6, <1>7, <1>8

\* After a step of the finally clause whose exceptions nothing catches there is nothing
\* left to end.
LEMMA LastEnds ==
  ASSUME TypeOK, section = "finally", AtOneOf(Uncaught)
  PROVE  /\ ~Later(Finally[runner], step, {"end_bot"}) /\ ~Later(Finally[runner], step, {"restore"})
         /\ Later(Finally[runner], step, Ends) => At("kill")
<1> DEFINE F == Finally[runner]
<1>1. F \in Seq(Cleanup) /\ Len(F) \in Nat /\ step \in Nat \ {0} /\ runner \in Runner
  BY ScriptAssumption DEF TypeOK
<1>2. Plan = F /\ step \in DOMAIN F /\ F[step] \in Uncaught
  BY <1>1 DEF AtOneOf, Plan
<1>3. \A j \in DOMAIN F : j > step => F[j] \notin {"end_bot", "restore"} \cup Ends
  BY <1>1, <1>2, ScriptAssumption
<1>4. \A j \in step .. Len(F) : j = step \/ (j \in DOMAIN F /\ j > step)
  BY <1>1
<1>5. F[step] = "split" \/ F[step] = "kill"
  BY <1>2 DEF Uncaught
<1>6. \A j \in step .. Len(F) : F[j] \notin {"end_bot", "restore"}
  BY <1>3, <1>4, <1>5
<1>7. F[step] = "split" => \A j \in step .. Len(F) : F[j] \notin Ends
  BY <1>3, <1>4 DEF Ends
<1>8. F[step] = "kill" => At("kill")
  BY <1>2 DEF At, AtOneOf
<1> QED
  BY <1>5, <1>6, <1>7, <1>8 DEF Later

\* The end.
LEMMA NothingStep ==
  ASSUME IInv, ListenInv, LeftInv, NothingRunsOn, [Next]_vars
  PROVE  NothingRunsOn'
<1> SUFFICES ASSUME ~Active' PROVE NothingRunsOn'
  BY DEF NothingRunsOn
<1>1. TypeOK /\ TryInv /\ HandlerInv /\ FinallyInv /\ UndecidedInv /\ runner \in Runner
  BY DEF IInv, TypeOK
<1>2. CASE ~Active
  <2>1. UNCHANGED vars
    BY <1>2, AtTheEnd
  <2> QED
    BY <1>2, <2>1 DEF NothingRunsOn, vars, serverVars, envVars, botVars, Active, at
<1>3. CASE Active /\ NextSection
  <2>1. section = "finally" /\ step > Len(Plan) /\ Plan = Finally[runner]
    BY <1>3 DEF NextSection, Plan, Active, Sections
  <2>2. /\ ~Later(Finally[runner], step, {"end_bot"}) /\ ~Later(Finally[runner], step, {"restore"})
        /\ ~Later(Finally[runner], step, Ends)
    <3>1. Len(Finally[runner]) \in Nat /\ step \in Nat \ {0}
      BY <1>1, ScriptAssumption DEF TypeOK
    <3> QED
      BY <2>1, <3>1, LaterStep
  <2>3. /\ proc # "running" /\ ~listening /\ (verdict # "running" => ~Left)
        /\ verdict = "running" => runner \in Narrow
    BY <1>1, <2>1, <2>2 DEF FinallyInv, ListenInv, LeftInv, UndecidedInv
  <2>4. UNCHANGED <<runner, held, wrapper, listening, proc, verdict>>
    BY <1>3 DEF NextSection, serverVars, envVars, botVars
  <2> QED
    BY <2>3, <2>4 DEF NothingRunsOn, Left
<1>4. CASE Active /\ Crashes
  <2>1. section = "finally" /\ AtOneOf(Uncaught)
    <3>1. AtOneOf(Uncaught)
      BY <1>4 DEF Crashes, Uncaught
    <3>2. section # "handler"
      <4> SUFFICES ASSUME section = "handler" PROVE FALSE
        OBVIOUS
      <4>1. Plan = Handler[runner] /\ Handler[runner] \in Seq(Cleanup) /\ step \in Nat \ {0}
        BY <1>1, ScriptAssumption DEF Plan, TypeOK
      <4>2. ~Contains(Handler[runner], Uncaught)
        BY <1>1, ScriptAssumption
      <4> QED
        BY <3>1, <4>1, <4>2 DEF AtOneOf, Contains
    <3> QED
      BY <1>1, <1>4, <3>1, <3>2, TryGoesOn DEF Active, Sections
  <2>2. proc # "running" /\ ~listening
    BY <1>1, <2>1, LastEnds DEF FinallyInv, ListenInv
  <2>3. proc' # "running" /\ ~listening'
    <3>1. ~At("divert") /\ ~At("bots")
      BY <1>1, <2>1, CleaningUp DEF At, AtOneOf
    <3> QED
      BY <1>1, <2>2, <3>1, ListenStep, BotsStep DEF BotShrinks
  <2>4. Left' => verdict = "running"
    BY <1>1, <1>4, <2>1, LastEnds, LeftStep DEF LeftInv
  <2>5. verdict' = verdict /\ runner' = runner /\ (verdict = "running" => runner \in Narrow)
    BY <1>1, <1>4, <2>1 DEF Crashes, UndecidedInv
  <2> QED
    BY <2>3, <2>4, <2>5 DEF NothingRunsOn, Left
<1> QED
  BY <1>2, <1>3, <1>4, ControlStep DEF Stays, Advances, Escapes, Active, Sections

\* However a run ends, by its last statement or by an exception nothing catches, no bot of
\* its plays on unless it was killed, its capture is closed, and on Linux the wrapper it
\* knows of has exited or been killed, but for the run its except clause gave no verdict.
THEOREM RunsLeaveNothing == Spec => []NothingRunsOn
<1>1. Init => EnvInv /\ ListenInv /\ LeftInv /\ NothingRunsOn
  BY DEF Init, EnvInv, ListenInv, LeftInv, NothingRunsOn, Active, Sections
<1>2. IInv /\ (EnvInv /\ ListenInv /\ LeftInv /\ NothingRunsOn) /\ [Next]_vars
        => (EnvInv /\ ListenInv /\ LeftInv /\ NothingRunsOn)'
  BY EnvInvStep, LaterInvStep, NothingStep
<1> QED
  BY <1>1, <1>2, Always, PTL DEF Spec

\* After "pass" no server is up, and what was published until then was the script's.
LEMMA PublicStep ==
  ASSUME IInv, EnvInv, ReportsArePublic, [Next]_vars
  PROVE  ReportsArePublic'
<1> SUFFICES ASSUME verdict' = "PASS" PROVE published' \subseteq {"normal"}
  BY DEF ReportsArePublic
<1>1. TypeOK /\ PassInv /\ TryInv
  BY DEF IInv
<1>2. CASE section' = "try"
  BY <1>2, EnvInvStep DEF EnvInv
<1>3. CASE section' # "try" /\ verdict = "PASS"
  <2>1. ~Up
    BY <1>1, <1>3 DEF PassInv, PassIsClean
  <2> QED
    BY <1>3, <2>1, PublishStep DEF ReportsArePublic
<1>4. CASE section' # "try" /\ verdict # "PASS"
  <2>1. At("pass") /\ section' = section
    BY <1>4, ControlStep DEF Stays, Advances, Escapes, Crashes, NextSection
  <2> QED
    BY <1>1, <1>4, <2>1, CleaningUp DEF At, AtOneOf, Active, Sections
<1> QED
  BY <1>2, <1>3, <1>4

\* The reports of a run that passed are of servers with the normal environment: none is of
\* a server that was started while the capture or the workload's mode was in it.
THEOREM PassedReportsArePublic == Spec => []ReportsArePublic
<1>1. Init => EnvInv /\ ReportsArePublic
  BY DEF Init, EnvInv, ReportsArePublic
<1>2. IInv /\ (EnvInv /\ ReportsArePublic) /\ [Next]_vars => (EnvInv /\ ReportsArePublic)'
  BY EnvInvStep, PublicStep
<1> QED
  BY <1>1, <1>2, Always, PTL DEF Spec

-----------------------------------------------------------------------------
(* The run implements RunContract.                                         *)

\* Nothing is opened, nothing is decided, nothing is written: the contract lets go.
LEMMA LetGo ==
  ASSUME ServerShrinks, BotShrinks, Phase' = Phase, verdict' = verdict, disk' = disk
  PROVE  Contract!Release
BY DEF ServerShrinks, BotShrinks, Contract!Release, Open

\* Writing leaves everything as it runs.
LEMMA WriteStep ==
  ASSUME TypeOK, [Next]_vars, At("write"), Advances
  PROVE  Open' = Open
<1> USE PlanType DEF At, AtOneOf, Open, Up, Running, serverVars, botVars, Active, Sections,
                     Advances, ServerTokens, BotTokens
<1>1. CASE ServerSteps \/ BotSteps
  BY <1>1 DEF ServerSteps, BotSteps
<1>2. CASE Work \/ Divert \/ Restore \/ PassRun \/ Write \/ NextSection
  BY <1>2 DEF Work, Divert, Restore, PassRun, Write, NextSection
<1>3. CASE EndBot \/ EndServer
  BY <1>3 DEF EndBot, EndServer
<1>4. CASE KillServer \/ SplitLogs
  BY <1>4 DEF KillServer, SplitLogs, Ok, Advance
<1>5. CASE ServerDies \/ BotMoves \/ Ended \/ UNCHANGED vars
  BY <1>5 DEF ServerDies, BotMoves, Ended, vars, at
<1> QED
  BY <1>1, <1>2, <1>3, <1>4, <1>5 DEF Next, Controller

\* A step of the run is a step of the contract, or none.
LEMMA ContractStep ==
  ASSUME IInv, [Next]_vars
  PROVE  [Contract!Next]_Contract!vars
<1>1. /\ TypeOK /\ TryInv /\ HandlerInv /\ FinallyInv /\ UndecidedInv /\ LeavingInv /\ PassInv
      /\ Len(Plan) \in Nat /\ step \in Nat \ {0} /\ runner \in Runner
  BY PlanType DEF IInv, TypeOK
<1>2. section \in {"try", "handler", "finally", "over", "crashed"}
  BY <1>1 DEF TypeOK, Sections
<1>3. CASE ~(ServerShrinks /\ BotShrinks)
  <2>1. \/ AtOneOf(Opens) /\ Popen /\ Advance /\ UNCHANGED botVars
        \/ At("bots") /\ Launch /\ Ok /\ UNCHANGED serverVars
    BY <1>3, ServerStep, BotsStep
  <2>2. section = "try" /\ verdict = "running"
    BY <1>1, <2>1, CleaningUp, PassedOn DEF TryInv, At, AtOneOf, Active, Sections
  <2>3. Phase = "working" /\ Phase' = "working" /\ verdict' = verdict /\ disk' = disk
    BY <2>1, <2>2 DEF Advance, Ok, Phase
  <2>4. CASE Popen /\ UNCHANGED botVars
    <3>1. Open' = Open \cup {"server"}
      BY <2>4 DEF Open, Popen, Up, Running, botVars
    <3> QED
      BY <2>3, <3>1 DEF Contract!Next, Contract!Acquire, Contract!Resources
  <2>5. CASE Launch /\ UNCHANGED serverVars
    <3>1. Open' = Open \cup {"fleet"}
      BY <2>5 DEF Open, Launch, Up, Running, serverVars
    <3> QED
      BY <2>3, <3>1 DEF Contract!Next, Contract!Acquire, Contract!Resources
  <2> QED
    BY <2>1, <2>4, <2>5
<1>4. CASE ServerShrinks /\ BotShrinks /\ Stays
  <2>1. Phase' = Phase /\ verdict' = verdict /\ disk' = disk
    BY <1>4 DEF Stays, Phase
  <2> QED
    BY <1>4, <2>1, LetGo DEF Contract!Next
<1>5. CASE ServerShrinks /\ BotShrinks /\ AtOneOf(Token) /\ Advances /\ ~At("pass") /\ ~At("write")
  <2>1. Phase' = Phase /\ verdict' = verdict /\ disk' = disk
    BY <1>5 DEF Advances, Phase
  <2> QED
    BY <1>5, <2>1, LetGo DEF Contract!Next
<1>6. CASE ServerShrinks /\ BotShrinks /\ At("pass") /\ Advances
  <2>1. section = "try" /\ section' = "try" /\ verdict = "running"
    BY <1>1, <1>2, <1>6, CleaningUp, PassedOn DEF TryInv, At, AtOneOf, Active, Sections, Advances
  <2>2. ~Up /\ ~Running
    BY <1>1, <1>6, <2>1, ScriptAssumption DEF TryInv, At, AtOneOf, Plan
  <2>3. Open = {} /\ Open' = {}
    BY <1>6, <2>2 DEF Open, Running, ServerShrinks, BotShrinks
  <2>4. Phase = "working" /\ Phase' = "ending"
    BY <1>6, <2>1 DEF Advances, Phase
  <2>5. verdict' = "PASS" /\ disk' = disk
    BY <1>6, <2>1 DEF Advances, At, AtOneOf
  <2> QED
    BY <2>3, <2>4, <2>5 DEF Contract!Next, Contract!Pass
<1>7. CASE At("write") /\ Advances
  <2>1. Open' = Open /\ verdict' = verdict /\ disk' = verdict /\ section' = section
    BY <1>1, <1>7, WriteStep DEF Advances, At, AtOneOf
  <2>2. CASE verdict = "running"
    BY <1>1, <2>1, <2>2 DEF UndecidedInv, Contract!vars, Phase
  <2>3. CASE verdict # "running"
    <3>1. Phase = "ending" /\ Phase' = "ending"
      BY <1>7, <2>1, <2>3 DEF Phase, At, AtOneOf, Active, Sections
    <3> QED
      BY <2>1, <3>1 DEF Contract!Next, Contract!Record
  <2> QED
    BY <2>2, <2>3
<1>8. CASE ServerShrinks /\ BotShrinks /\ AtOneOf(Token) /\ Escapes
  <2>1. section = "try" /\ verdict = "running" /\ disk' = disk
    BY <1>1, <1>8, PassedOn DEF Escapes, TryInv
  <2>2. Phase = "working"
    BY <2>1 DEF Phase
  <2>3. CASE section' = "handler"
    <3>1. Phase' = "ending" /\ verdict' = "FAIL"
      BY <1>8, <2>3 DEF Escapes, Phase
    <3>2. Open' \in SUBSET Open
      BY <1>8 DEF ServerShrinks, BotShrinks, Open
    <3> QED
      BY <2>1, <2>2, <3>1, <3>2 DEF Contract!Next, Contract!Fail
  <2>4. CASE section' = "finally"
    <3>1. Phase' = "working" /\ verdict' = verdict
      BY <1>8, <2>1, <2>4 DEF Escapes, Phase
    <3> QED
      BY <1>8, <2>1, <2>2, <3>1, LetGo DEF Contract!Next
  <2> QED
    BY <1>8, <2>3, <2>4 DEF Escapes
<1>9. CASE Crashes
  <2>0. ServerShrinks /\ BotShrinks
    BY <1>1, <1>9, ServerStep, BotsStep DEF Crashes, AtOneOf, At, Opens, Active, Sections
  <2>1. Open' \in SUBSET Open /\ verdict' = verdict /\ disk' = disk /\ Phase' = "abandoned"
    BY <1>9, <2>0 DEF Crashes, Phase, Open, ServerShrinks, BotShrinks
  <2>2. Phase \in {"working", "ending"}
    BY <1>9 DEF Crashes, AtOneOf, Active, Sections, Phase
  <2> QED
    BY <2>1, <2>2 DEF Contract!Next, Contract!Abandon
<1>10. CASE NextSection
  <2>1. /\ Open' = Open /\ verdict' = verdict /\ disk' = disk
        /\ step > Len(Plan) /\ section \in Sections
    BY <1>10 DEF NextSection, Open, Up, Running, serverVars, botVars, Active
  <2>2. CASE section # "finally"
    <3>1. Phase' = Phase
      BY <1>10, <2>1, <2>2 DEF NextSection, Phase, Sections
    <3> QED
      BY <2>1, <3>1 DEF Contract!vars
  <2>3. CASE section = "finally" /\ verdict = "running"
    <3>1. Phase = "working" /\ Phase' = "abandoned"
      BY <1>10, <2>3 DEF NextSection, Phase
    <3> QED
      BY <2>1, <3>1 DEF Contract!Next, Contract!Abandon
  <2>4. CASE section = "finally" /\ verdict # "running"
    <3>1. Phase = "ending" /\ Phase' = "over"
      BY <1>10, <2>4 DEF NextSection, Phase
    <3>2. Plan = Finally[runner]
      BY <2>4 DEF Plan
    <3>3. ~Later(Finally[runner], step, {"write"}) /\ ~Later(Finally[runner], step, {"end_bot"})
      BY <1>1, <2>1, <3>2, LaterStep
    <3>4. disk = verdict /\ proc # "running"
      BY <1>1, <2>4, <3>3 DEF FinallyInv
    <3>5. "fleet" \notin Open
      BY <3>4 DEF Open
    <3> QED
      BY <2>1, <3>1, <3>4, <3>5 DEF Contract!Next, Contract!End
  <2> QED
    BY <2>2, <2>3, <2>4
<1> QED
  BY <1>3, <1>4, <1>5, <1>6, <1>7, <1>8, <1>9, <1>10, ControlStep

\* Every run keeps RunContract: it passes only with nothing running, ends only with its
\* verdict on disk and its bots gone, and a run that was cut short is not taken for one
\* that ended.
THEOREM RunImplementsContract == Spec => KeepsContract
<1>1. Init => Contract!Init
  BY DEF Init, BotInit, Contract!Init, Phase, Open, Up, Running
<1> QED
  BY <1>1, Always, ContractStep, PTL DEF Spec, KeepsContract, Contract!Spec

=============================================================================
