------------------------------ MODULE BotFleet ------------------------------
(***************************************************************************)
(* A bot process, or a fleet of bots in one process, as the runners see    *)
(* it: BotProcess and its subclasses start it, a thread reads the events   *)
(* it prints, and terminate() ends it and judges what was read.            *)
(*                                                                         *)
(* The binary is not part of the repository: it may print and exit with    *)
(* any code at any time. The reader is a thread of its own, and terminate()*)
(* joins it for three seconds only: what is judged may be less than what   *)
(* was printed.                                                            *)
(***************************************************************************)
EXTENDS Naturals, Sequences

VARIABLES
  proc,     \* the bot process: none, running, killed (sent SIGKILL, not yet gone) or exited
  code,     \* its exit code, as waitpid reports it
  asked,    \* a termination signal was sent
  printed,  \* the events it has printed
  seen      \* how many of them _read_loop has stored

botVars == <<proc, code, asked, printed, seen>>

\* fleet_online (online of a single bot); then bot_stats of all bots: all moved, all
\* online but some idle, or some missing; then fleet_shutdown (disconnected): after a
\* signal, for a reason of its own, or not graceful.
Stats == {"moved", "idle", "incomplete"}
Endings == {"signalled", "quit", "failed"}
Events == {"online"} \cup Stats \cup Endings
Graceful == {"signalled", "quit"}

\* Events come in this order, and no more of them: bound of the printed sequence.
Printable(p) ==
  IF Len(p) = 0 THEN {"online"}
  ELSE IF Len(p) = 1 THEN Stats
  ELSE IF Len(p) = 2 THEN Endings ELSE {}

BotTypeOK ==
  /\ proc \in {"none", "running", "killed", "exited"}
  /\ code \in {"none", "zero", "sigterm", "other"}
  /\ asked \in BOOLEAN
  /\ printed \in Seq(Events) /\ Len(printed) <= 3
  /\ seen \in 0 .. Len(printed)

BotInit == proc = "none" /\ code = "none" /\ asked = FALSE /\ printed = <<>> /\ seen = 0

\* poll() is None
Running == proc \in {"running", "killed"}

-----------------------------------------------------------------------------
(* The process and the reader.                                             *)

\* A bot answers a signal, and only a signal, with an ending that says so.
BotPrints ==
  /\ Running
  /\ \E e \in Printable(printed) :
       /\ e = "signalled" => asked
       /\ printed' = Append(printed, e)
  /\ UNCHANGED <<proc, code, asked, seen>>

\* On hosted Linux runners a signalled process may report the signal although it caught it.
BotExits ==
  /\ Running
  /\ proc' = "exited"
  /\ \E c \in {"zero", "other"} \cup (IF asked THEN {"sigterm"} ELSE {}) : code' = c
  /\ UNCHANGED <<asked, printed, seen>>

\* _read_loop
ReadEvent ==
  /\ seen < Len(printed)
  /\ seen' = seen + 1
  /\ UNCHANGED <<proc, code, asked, printed>>

\* event_snapshot
Snapshot == SubSeq(printed, 1, seen)
Has(events, wanted) == \E i \in DOMAIN events : events[i] \in wanted

-----------------------------------------------------------------------------
(* What the runners call.                                                  *)

\* Fault: the reader of the new process counts on from that of the old one.
Launch_KeepsReader ==
  /\ proc' = "running" /\ code' = "none" /\ asked' = FALSE
  /\ printed' = <<>> /\ UNCHANGED seen

\* start: a new BotProcess; Popen may fail, and then there is no process.
Launch ==
  /\ proc' = "running" /\ code' = "none" /\ asked' = FALSE
  /\ printed' = <<>> /\ seen' = 0

\* wait_event: the events are looked at before the process is.
Online == Has(Snapshot, {"online"})

\* terminate, first half: a bot that has exited is not signalled.
Signal ==
  /\ Running
  /\ asked' = TRUE
  /\ UNCHANGED <<proc, code, printed, seen>>

\* terminate and force_close: kill() and a wait of five seconds, which may be too short.
KillBot ==
  /\ Running
  /\ \/ proc' = "exited" /\ code' = "other"
     \/ proc' = "killed" /\ UNCHANGED code
  /\ UNCHANGED <<asked, printed, seen>>

\* Fault: the reason of the shutdown event is not looked at.
Drained_AnyReason == Has(Snapshot, {"moved", "idle"}) /\ Has(Snapshot, Graceful)

\* _complete_linux_sigterm_shutdown: one bot_stats event of each bot, and a shutdown event
\* whose reason is the signal.
Drained == Has(Snapshot, {"moved", "idle"}) /\ Has(Snapshot, {"signalled"})

\* The exit code terminate() returns; normalizes: CrossPlatformFleetBotProcess on Linux.
CleanCode(normalizes) == code = "zero" \/ (normalizes /\ code = "sigterm" /\ Drained)

\* What a runner asks of the events it has read, by the kind of its stop method.
Acceptable(kind) ==
  CASE kind = "clean" -> TRUE
    [] kind = "ended" -> Has(Snapshot, Graceful)
    [] kind = "complete" -> Has(Snapshot, Graceful) /\ Has(Snapshot, {"moved", "idle"})
    [] kind = "moved" -> Has(Snapshot, Graceful) /\ Has(Snapshot, {"moved"})
=============================================================================
