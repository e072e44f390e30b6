---------------------------- MODULE FileControl ----------------------------
(***************************************************************************)
(* The file transport that drives a Windows server: the controller's side  *)
(* is _FrameworkShutdownServerProcess of                                   *)
(* controller/combined_pack_gamerule_fleet_exact_runner.py, the server's   *)
(* side the plugin of fixtures/endstone-ci-lifecycle-control.              *)
(*                                                                         *)
(* The controller writes a command or a shutdown request, each with a      *)
(* fresh token, to a file of the plugin's data folder; the plugin polls    *)
(* the two files, deletes what it finds and acts on it; the controller     *)
(* learns of it from the server's output, which a thread of its own reads. *)
(* Writing a file is two steps, creating it empty and completing it, and   *)
(* Windows refuses to delete a file while its writer has it open.  The     *)
(* data folder outlives a server: its files may be left from an earlier    *)
(* server or run.                                                          *)
(***************************************************************************)
EXTENDS Naturals, Sequences

CONSTANTS NoFile,      \* content of a file that does not exist
          Empty,       \* content of a file that was created and not written yet
          MaxToken,    \* bound: how many requests the controller writes
          MaxStarts    \* bound: how many servers it starts

ASSUME FileControlAssumption ==
  /\ NoFile \notin Nat
  /\ Empty \notin Nat
  /\ NoFile # Empty
  /\ MaxToken \in Nat
  /\ MaxStarts \in Nat

VARIABLES
  command_file,   \* command.request: NoFile, Empty or the token of a complete request
  shutdown_file,  \* shutdown.request
  server,         \* the server process
  exitcode,       \* how it ended
  plugin,         \* the statement of the plugin that is next
  held,           \* what the plugin read from the file it works on
  output,         \* lines the server printed
  captured,       \* how many of them the reader thread appended to self.lines
  issued,         \* tokens drawn so far: uuid4, modelled as 1, 2, ...
  first,          \* tokens drawn before the server was started
  start,          \* start_index of the last command, output_start of the stop
  token,          \* its token
  result,         \* what the controller's last call returned
  pc,             \* where the controller is
  starts          \* servers started

files == <<command_file, shutdown_file>>
serverVars == <<server, exitcode, plugin, held, output>>
controllerVars == <<issued, first, start, token, result, pc, starts>>
vars == <<files, serverVars, captured, controllerVars>>

Content == {NoFile, Empty} \cup Nat

Line(kind, t) == [kind |-> kind, token |-> t]

\* Lines of the controller's snapshot from an index on.
Lines(from) == {output[i] : i \in from + 1 .. captured}

---------------------------------------------------------------------------
(* The plugin.  It runs on the server's main thread, and stops where it is  *)
(* when the process ends.                                                   *)

\* Fault: requests that are already there are kept.
OnEnable_KeepsFiles ==
  /\ server = "starting"
  /\ server' = "running"
  /\ plugin' = "waiting"
  /\ output' = Append(output, Line("enabled", 0))
  /\ UNCHANGED <<files, exitcode, held, captured, controllerVars>>

\* on_enable deletes both files before it schedules the poll and logs the registration.
OnEnable ==
  /\ server = "starting"
  /\ server' = "running"
  /\ command_file' = NoFile
  /\ shutdown_file' = NoFile
  /\ plugin' = "waiting"
  /\ output' = Append(output, Line("enabled", 0))
  /\ UNCHANGED <<exitcode, held, captured, controllerVars>>

\* _poll_file_control reads the command file; a file without content does not parse.
PollCommand ==
  /\ plugin = "waiting"
  /\ IF command_file = NoFile
       THEN plugin' = "shutdown_check" /\ UNCHANGED held
       ELSE plugin' = "command_read" /\ held' = command_file
  /\ UNCHANGED <<files, server, exitcode, output, captured, controllerVars>>

\* An unlink that is refused raises out of the poll, which is repeated later.
Abandon ==
  /\ plugin' = "waiting"
  /\ held' = NoFile

\* Fault: a request that parsed stays in its file.
CommandUnlink_Keeps ==
  /\ plugin = "command_read"
  /\ IF held = Empty
       THEN command_file' = NoFile /\ held' = NoFile /\ plugin' = "shutdown_check"
       ELSE plugin' = "dispatch" /\ UNCHANGED <<command_file, held>>
  /\ UNCHANGED <<shutdown_file, server, exitcode, output, captured, controllerVars>>

\* Whatever was read, the file is deleted; an empty request is rejected.
CommandUnlink ==
  /\ plugin = "command_read"
  /\ IF pc = "command_write"
       THEN Abandon /\ UNCHANGED command_file
       ELSE /\ command_file' = NoFile
            /\ IF held = Empty
                 THEN held' = NoFile /\ plugin' = "shutdown_check"
                 ELSE plugin' = "dispatch" /\ UNCHANGED held
  /\ UNCHANGED <<shutdown_file, server, exitcode, output, captured, controllerVars>>

\* "output" stands for the request line and whatever the command prints.  The dispatch
\* may say false, or raise, and then nothing completes it.
Dispatch ==
  /\ plugin = "dispatch"
  /\ \/ \E kind \in {"completed", "refused"} :
          /\ output' = Append(Append(output, Line("output", held)), Line(kind, held))
          /\ plugin' = "shutdown_check"
          /\ held' = NoFile
     \/ output' = Append(output, Line("output", held)) /\ Abandon
  /\ UNCHANGED <<files, server, exitcode, captured, controllerVars>>

ShutdownRead ==
  /\ plugin = "shutdown_check"
  /\ IF shutdown_file = NoFile
       THEN plugin' = "waiting" /\ UNCHANGED held
       ELSE plugin' = "shutdown_read" /\ held' = shutdown_file
  /\ UNCHANGED <<files, server, exitcode, output, captured, controllerVars>>

\* Fault: the poll is cancelled before the token is looked at.
ShutdownUnlink_CancelsFirst ==
  /\ plugin = "shutdown_read"
  /\ IF pc = "stop_write"
       THEN Abandon /\ UNCHANGED <<shutdown_file, server, output>>
       ELSE /\ shutdown_file' = NoFile
            /\ plugin' = "cancelled"
            /\ held' = NoFile
            /\ IF held = Empty
                 THEN UNCHANGED <<server, output>>
                 ELSE /\ output' = Append(output, Line("shutdown", held))
                      /\ server' = "stopping"
  /\ UNCHANGED <<command_file, exitcode, captured, controllerVars>>

\* A request with a token ends the polling and shuts the server down; one without is
\* ignored.
ShutdownUnlink ==
  /\ plugin = "shutdown_read"
  /\ IF pc = "stop_write"
       THEN Abandon /\ UNCHANGED <<shutdown_file, server, output>>
       ELSE /\ shutdown_file' = NoFile
            /\ held' = NoFile
            /\ IF held = Empty
                 THEN plugin' = "waiting" /\ UNCHANGED <<server, output>>
                 ELSE /\ plugin' = "cancelled"
                      /\ output' = Append(output, Line("shutdown", held))
                      /\ server' = "stopping"
  /\ UNCHANGED <<command_file, exitcode, captured, controllerVars>>

\* on_disable deletes the shutdown file, then the command file; a refused deletion raises.
OnDisable ==
  /\ server = "stopping"
  /\ plugin \in {"waiting", "cancelled"}
  /\ plugin' = "off"
  /\ shutdown_file' = IF pc = "stop_write" THEN shutdown_file ELSE NoFile
  /\ command_file' = IF pc \in {"stop_write", "command_write"} THEN command_file ELSE NoFile
  /\ UNCHANGED <<server, exitcode, held, output, captured, controllerVars>>

Poll ==
  PollCommand \/ CommandUnlink \/ Dispatch \/ ShutdownRead \/ ShutdownUnlink

Plugin == OnEnable \/ Poll \/ OnDisable

---------------------------------------------------------------------------
(* The server process and the reader thread.                               *)

Down(code) ==
  /\ server' = "down"
  /\ exitcode' = code
  /\ plugin' = "off"
  /\ held' = NoFile

\* The server shuts down for a reason of its own.
Stopping ==
  /\ server = "running"
  /\ server' = "stopping"
  /\ UNCHANGED <<files, exitcode, plugin, held, output, captured, controllerVars>>

\* The process ends, from a shutdown or out of the blue.
Exit ==
  /\ server # "down"
  /\ \E code \in {"zero", "nonzero"} : Down(code)
  /\ UNCHANGED <<files, output, captured, controllerVars>>

\* _read_loop
ReadLine ==
  /\ captured < Len(output)
  /\ captured' = captured + 1
  /\ UNCHANGED <<files, serverVars, controllerVars>>

---------------------------------------------------------------------------
(* The controller.                                                         *)

\* Fault: the lines of the previous server are kept.
StartServer_KeepsLines ==
  /\ pc = "none"
  /\ starts < MaxStarts
  /\ starts' = starts + 1
  /\ server' = "starting"
  /\ exitcode' = "none"
  /\ output' = <<>>
  /\ first' = issued
  /\ start' = 0
  /\ token' = 0
  /\ result' = "none"
  /\ pc' = "registering"
  /\ UNCHANGED <<files, plugin, held, captured, issued>>

\* A new server is started when the one before it was stopped, or by a new run of the
\* controller in the same folder.
StartServer ==
  /\ pc = "none"
  /\ starts < MaxStarts
  /\ starts' = starts + 1
  /\ server' = "starting"
  /\ exitcode' = "none"
  /\ output' = <<>>
  /\ captured' = 0
  /\ first' = issued
  /\ start' = 0
  /\ token' = 0
  /\ result' = "none"
  /\ pc' = "registering"
  /\ UNCHANGED <<files, plugin, held, issued>>

\* An exception leaves the call; the run cleans up and ends.
Raise ==
  /\ pc' = "failed"
  /\ result' = "raised"
  /\ UNCHANGED <<files, serverVars, captured, issued, first, start, token, starts>>

\* start_server returns when the registration line is there, and raises when the server
\* died or the time is up.
Registered ==
  /\ pc = "registering"
  /\ \/ /\ Line("enabled", 0) \in Lines(0)
        /\ pc' = "idle"
        /\ UNCHANGED <<files, serverVars, captured, issued, first, start, token, result, starts>>
     \/ Raise

\* A request gets a fresh token, and an index into the lines captured so far.
Draw ==
  /\ issued < MaxToken
  /\ issued' = issued + 1
  /\ token' = issued + 1
  /\ start' = captured
  /\ result' = "none"

\* Fault: a pending request is not looked for.
Command_Overwrites ==
  /\ pc = "idle"
  /\ \/ server = "down" /\ Raise
     \/ /\ server # "down"
        /\ Draw
        /\ command_file' = Empty
        /\ pc' = "command_write"
        /\ UNCHANGED <<shutdown_file, serverVars, captured, first, starts>>

\* command: a dead server and a pending request are errors.
Command ==
  /\ pc = "idle"
  /\ \/ (server = "down" \/ command_file # NoFile) /\ Raise
     \/ /\ server # "down"
        /\ command_file = NoFile
        /\ Draw
        /\ command_file' = Empty
        /\ pc' = "command_write"
        /\ UNCHANGED <<shutdown_file, serverVars, captured, first, starts>>

\* The caller may wait for the acknowledgement, or look for other output and go on.
CommandWritten ==
  /\ pc = "command_write"
  /\ command_file' = token
  /\ \E next \in {"idle", "waiting"} : pc' = next
  /\ UNCHANGED <<shutdown_file, serverVars, captured, issued, first, start, token, result,
                 starts>>

\* Fault: any completion line acknowledges the request.
Acknowledged_AnyToken == \E l \in Lines(start) : l.kind = "completed"

\* wait_command_output: the completion line carries the token of the request.
Acknowledged == Line("completed", token) \in Lines(start)

\* The wait also raises: on a refused dispatch, a dead server, the end of its time.
WaitCommandOutput ==
  /\ pc = "waiting"
  /\ \/ /\ Acknowledged
        /\ result' = "acknowledged"
        /\ pc' = "idle"
        /\ UNCHANGED <<files, serverVars, captured, issued, first, start, token, starts>>
     \/ Raise

\* graceful_stop of a server that is gone returns True; otherwise it writes the request.
GracefulStop ==
  /\ pc = "idle"
  /\ \/ /\ server = "down"
        /\ result' = "already-exited"
        /\ pc' = "none"
        /\ UNCHANGED <<files, serverVars, captured, issued, first, start, token, starts>>
     \/ /\ server # "down"
        /\ Draw
        /\ shutdown_file' = Empty
        /\ pc' = "stop_write"
        /\ UNCHANGED <<command_file, serverVars, captured, first, starts>>

StopWritten ==
  /\ pc = "stop_write"
  /\ shutdown_file' = token
  /\ pc' = "stop_wait"
  /\ UNCHANGED <<command_file, serverVars, captured, issued, first, start, token, result,
                 starts>>

\* Fault: the acknowledgement is recorded and not required.
Observed_NotRequired == TRUE

\* _record_shutdown_acknowledgement: the token is in the lines the reader got to.
Observed == Line("shutdown", token) \in Lines(start)

\* The process ended and the reader was given some time.  The process tree may fail its
\* verification.  A stop that is not graceful, or times out, fails the run.
StopWait ==
  /\ pc = "stop_wait"
  /\ \/ /\ server = "down" /\ exitcode = "zero" /\ Observed
        /\ result' = "graceful"
        /\ pc' = "none"
        /\ UNCHANGED <<files, serverVars, captured, issued, first, start, token, starts>>
     \/ Raise

\* The handlers of the run force the server down.
ForceKill ==
  /\ pc = "failed"
  /\ pc' = "none"
  /\ IF server = "down" THEN UNCHANGED <<server, exitcode, plugin, held>>
                        ELSE Down("nonzero")
  /\ UNCHANGED <<files, output, captured, issued, first, start, token, result, starts>>

Written == CommandWritten \/ StopWritten

Controller ==
  \/ StartServer \/ Registered \/ Command \/ WaitCommandOutput
  \/ GracefulStop \/ Written \/ StopWait \/ ForceKill

\* Nothing is left to do: no server runs, and no more are started.
Finished ==
  /\ pc = "none"
  /\ starts = MaxStarts
  /\ UNCHANGED vars

---------------------------------------------------------------------------

\* The folder may hold complete or empty requests of an earlier run.
Init ==
  /\ command_file \in {NoFile, Empty, 0}
  /\ shutdown_file \in {NoFile, Empty, 0}
  /\ server = "down"
  /\ exitcode = "none"
  /\ plugin = "off"
  /\ held = NoFile
  /\ output = <<>>
  /\ captured = 0
  /\ issued = 0
  /\ first = 0
  /\ start = 0
  /\ token = 0
  /\ result = "none"
  /\ pc = "none"
  /\ starts = 0

Next == Plugin \/ Stopping \/ Exit \/ ReadLine \/ Controller \/ Finished

Spec == Init /\ [][Next]_vars

\* The scheduler of a server that runs repeats the poll, and the controller does not die
\* in the middle of a write.
FairSpec == Spec /\ WF_vars(Plugin) /\ WF_vars(Written)

---------------------------------------------------------------------------
(* Properties.                                                             *)

Kinds == {"enabled", "output", "completed", "refused", "shutdown"}

\* Every variable has its type, and no index points behind the captured lines.
TypeOK ==
  /\ command_file \in Content
  /\ shutdown_file \in Content
  /\ server \in {"down", "starting", "running", "stopping"}
  /\ exitcode \in {"none", "zero", "nonzero"}
  /\ plugin \in {"off", "waiting", "command_read", "dispatch", "shutdown_check",
                 "shutdown_read", "cancelled"}
  /\ held \in Content
  /\ output \in Seq([kind: Kinds, token: Nat])
  /\ captured \in 0 .. Len(output)
  /\ issued \in Nat
  /\ first \in 0 .. issued
  /\ start \in 0 .. captured
  /\ token \in 0 .. issued
  /\ result \in {"none", "acknowledged", "graceful", "already-exited", "raised"}
  /\ pc \in {"none", "registering", "idle", "command_write", "waiting", "stop_write",
             "stop_wait", "failed"}
  /\ starts \in Nat

Executed(i) == i \in DOMAIN output /\ output[i].kind = "output"

\* A server executes the commands of the controller that started it in the order in which
\* they were issued, each at most once: also when a dispatch raises, the deletion of a
\* file is refused and requests were left behind by an earlier server
\* (_poll_file_control, on_enable).
ExecutedInOrder ==
  /\ \A i \in DOMAIN output : Executed(i) => output[i].token > first
  /\ \A i, j \in DOMAIN output :
       Executed(i) /\ Executed(j) /\ i < j => output[i].token < output[j].token

\* When wait_command_output returns, the server has executed that very request, and its
\* output is among the lines that are returned, although other requests may have been
\* issued without waiting and be completed late.
AcknowledgementSound ==
  result = "acknowledged" =>
    /\ Line("output", token) \in Lines(start)
    /\ \E i \in DOMAIN output : output[i] = Line("completed", token)

\* A stop that wrote its request is graceful only if this server shut down because of that
\* request, and then ended with exit code 0 (graceful_stop).
GracefulAcknowledged ==
  result = "graceful" =>
    /\ exitcode = "zero"
    /\ \E i \in DOMAIN output : output[i] = Line("shutdown", token)

\* A complete command request is never replaced by another one: it leaves its file only
\* by being deleted (command).
NeverOverwritten ==
  [][(command_file \in Nat /\ command_file' # command_file) => command_file' = NoFile]_vars

\* A request for the running server is deleted by its plugin after it was read, or when
\* the server is going down: not by its own on_enable, nor unread.
Deleted(file) == file \in Nat /\ file > first /\ file' = NoFile

\* The plugin's start never deletes a request of the controller that waits for it
\* (on_enable, the registration in _start_windows_interactive_server).
EnableKeepsOwn ==
  [][server = "starting" /\ server' = "running" =>
       ~Deleted(command_file) /\ ~Deleted(shutdown_file)]_vars

\* graceful_stop returns True only for a server that ended with exit code 0.
TrueMeansZeroExit == result \in {"graceful", "already-exited"} => exitcode = "zero"

\* A request is consumed or its server goes down: neither an empty file nor a refused
\* deletion ends the polling.
RequestsConsumed ==
  /\ command_file # NoFile /\ server = "running" ~> command_file = NoFile \/ server # "running"
  /\ shutdown_file # NoFile /\ server = "running" ~> shutdown_file = NoFile \/ server # "running"
=============================================================================
