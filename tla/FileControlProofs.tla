-------------------------- MODULE FileControlProofs --------------------------
(***************************************************************************)
(* What FileControl promises for any number of requests and servers: types, *)
(* the order of execution, and the truth of what the controller is told.   *)
(***************************************************************************)
EXTENDS FileControl, TLAPS

LineType == [kind: Kinds, token: Nat]

\* Every command executed so far is older than request x.
Newest(x) == \A i \in 1 .. Len(output) : output[i].kind = "output" => output[i].token < x

\* Request x was drawn for the running server and is yet to be executed.
Fresh(x) == first < x /\ x <= issued /\ Newest(x)

\* Nobody has a token that was not drawn; what a starting server finds is not its own.
DrawnInv ==
  /\ \A i \in 1 .. Len(output) : output[i].token <= issued
  /\ command_file \in Nat => command_file <= issued
  /\ shutdown_file \in Nat => shutdown_file <= issued
  /\ held \in Nat => held <= issued
  /\ server = "starting" /\ command_file \in Nat => command_file <= first
  /\ server = "starting" /\ shutdown_file \in Nat => shutdown_file <= first

\* The plugin lives and dies with its server; the controller leaves a server that starts
\* alone until it is registered, and has none when it starts the next.
ServerInv ==
  /\ plugin # "off" => server \in {"running", "stopping"}
  /\ server = "starting" => pc \in {"registering", "failed"} /\ Len(output) = 0
  /\ pc = "none" => server = "down"

\* The request a plugin at work finds in the command file, and the one it holds, are next.
RequestInv ==
  /\ plugin # "off" /\ command_file \in Nat => Fresh(command_file)
  /\ plugin = "command_read" /\ held \in Nat => held = command_file
  /\ plugin \in {"command_read", "shutdown_read"} => held # NoFile
  /\ plugin = "dispatch" =>
       /\ held \in Nat
       /\ Fresh(held)
       /\ command_file \in Nat => held < command_file

\* A command that is being written is newer than all others.
WriteInv ==
  /\ pc = "command_write" =>
       /\ command_file = Empty
       /\ token = issued
       /\ Fresh(token)
       /\ plugin = "dispatch" => held < token
  /\ pc = "stop_write" => token = issued

\* What the executed commands printed.
OrderInv ==
  /\ \A i \in 1 .. Len(output) : output[i].kind = "output" => first < output[i].token
  /\ \A i, j \in 1 .. Len(output) :
       /\ output[i].kind = "output"
       /\ output[j].kind = "output"
       /\ i < j
       => output[i].token < output[j].token

\* A completion follows the output of its command, and nothing of the current request was
\* printed before it was drawn.
OutputInv ==
  /\ \A j \in 1 .. Len(output) :
       output[j].kind = "completed" =>
         \E i \in 1 .. Len(output) : i < j /\ output[i] = Line("output", output[j].token)
  /\ \A i \in 1 .. Len(output) :
       output[i].kind \in {"output", "completed"} /\ output[i].token = token => start < i

\* AcknowledgementSound, by index.
AckInv ==
  result = "acknowledged" =>
    /\ \E i \in 1 .. Len(output) :
         start < i /\ i <= captured /\ output[i] = Line("output", token)
    /\ \E i \in 1 .. Len(output) : output[i] = Line("completed", token)

IInv ==
  /\ TypeOK
  /\ DrawnInv
  /\ ServerInv
  /\ RequestInv
  /\ WriteInv
  /\ OrderInv
  /\ OutputInv
  /\ AckInv

---------------------------------------------------------------------------

\* The library's facts about Append, for lines.
LEMMA AppendLine ==
  ASSUME NEW s \in Seq(LineType), NEW l \in LineType
  PROVE  /\ Append(s, l) \in Seq(LineType)
         /\ Len(Append(s, l)) = Len(s) + 1
         /\ \A i \in 1 .. Len(s) : Append(s, l)[i] = s[i]
         /\ Append(s, l)[Len(s) + 1] = l
  OBVIOUS

\* A line of the plugin's output has its type.
LEMMA LineTyped ==
  ASSUME NEW k \in Kinds, NEW t \in Nat
  PROVE  Line(k, t) \in LineType
  BY DEF Line, LineType

\* The transport starts in the inductive invariant.
LEMMA InitIInv == Init => IInv
<1> SUFFICES ASSUME Init PROVE IInv
  OBVIOUS
<1> USE FileControlAssumption DEF Init
<1>1. output \in Seq([kind: Kinds, token: Nat]) /\ Len(output) = 0
  OBVIOUS
<1>2. TypeOK
  BY <1>1 DEF TypeOK, Content
<1> QED
  BY <1>1, <1>2 DEF IInv, DrawnInv, ServerInv, RequestInv, WriteInv, OrderInv, OutputInv,
     AckInv

---------------------------------------------------------------------------
(* The plugin keeps the invariant.                                         *)

\* A line that concerns no command keeps what is said of the commands.
LEMMA OtherLine ==
  ASSUME IInv, NEW l \in LineType, l.kind \notin {"output", "completed"}, l.token <= issued,
         output' = Append(output, l), UNCHANGED <<captured, issued, first, start, token, result>>
  PROVE  /\ output' \in Seq(LineType)
         /\ Len(output') = Len(output) + 1
         /\ \A i \in 1 .. Len(output') : output'[i].token <= issued
         /\ \A x : Fresh(x) => Fresh(x)'
         /\ OrderInv' /\ OutputInv' /\ AckInv'
<1>1. output \in Seq(LineType) /\ Len(output) \in Nat
  BY DEF IInv, TypeOK, LineType
<1>2. /\ output' \in Seq(LineType)
      /\ Len(output') = Len(output) + 1
      /\ \A i \in 1 .. Len(output) : output'[i] = output[i]
      /\ output'[Len(output) + 1] = l
  BY <1>1, AppendLine
<1>3. \A i \in 1 .. Len(output') : i \in 1 .. Len(output) \/ i = Len(output) + 1
  BY <1>1, <1>2
<1>4. \A i \in 1 .. Len(output') : output'[i].token <= issued
  BY <1>2, <1>3 DEF IInv, DrawnInv
<1>5. \A x : Fresh(x) => Fresh(x)'
  BY <1>2, <1>3 DEF Fresh, Newest
<1>6. OrderInv'
  BY <1>1, <1>2, <1>3 DEF IInv, OrderInv
<1>7. OutputInv'
  BY <1>1, <1>2, <1>3 DEF IInv, OutputInv
<1>8. AckInv'
  <2> SUFFICES ASSUME result = "acknowledged" PROVE AckInv'
    BY DEF AckInv
  <2>1. PICK i \in 1 .. Len(output) :
          start < i /\ i <= captured /\ output[i] = Line("output", token)
    BY DEF IInv, AckInv
  <2>2. PICK j \in 1 .. Len(output) : output[j] = Line("completed", token)
    BY DEF IInv, AckInv
  <2>3. i \in 1 .. Len(output') /\ j \in 1 .. Len(output')
    BY <1>1, <1>2
  <2> QED
    BY <1>2, <2>1, <2>2, <2>3 DEF AckInv, Line
<1> QED
  BY <1>2, <1>4, <1>5, <1>6, <1>7, <1>8

\* on_enable: what is left over is older than the server that finds it.
LEMMA EnableIInv == ASSUME IInv, OnEnable PROVE IInv'
<1> USE FileControlAssumption
<1> DEFINE l == Line("enabled", 0)
<1>1. l \in LineType /\ l.kind = "enabled" /\ l.token = 0
  BY LineTyped DEF Kinds, Line
<1> HIDE DEF l
<1>2. /\ output' \in Seq(LineType)
      /\ Len(output') = Len(output) + 1
      /\ \A i \in 1 .. Len(output') : output'[i].token <= issued
      /\ OrderInv' /\ OutputInv' /\ AckInv'
  BY <1>1, OtherLine DEF OnEnable, controllerVars, IInv, TypeOK, l
<1>3. TypeOK'
  BY <1>2 DEF IInv, TypeOK, LineType, OnEnable, Content, controllerVars
<1>4. DrawnInv' /\ ServerInv' /\ RequestInv' /\ WriteInv'
  BY <1>2 DEF IInv, TypeOK, OnEnable, controllerVars, DrawnInv, ServerInv, RequestInv, WriteInv
<1> QED
  BY <1>2, <1>3, <1>4 DEF IInv

---------------------------------------------------------------------------
(* Steps that print nothing.                                               *)

\* The current request stays the same.
LEMMA SameRequest ==
  ASSUME IInv, UNCHANGED <<output, first, start, token>>, captured' \in Nat,
         captured <= captured', result' = result \/ result' # "acknowledged"
  PROVE  OrderInv' /\ OutputInv' /\ AckInv'
<1>1. OrderInv'
  BY DEF IInv, OrderInv
<1>2. OutputInv'
  BY DEF IInv, OutputInv
<1>3. AckInv'
  BY DEF IInv, TypeOK, AckInv
<1> QED
  BY <1>1, <1>2, <1>3

\* What the server printed are lines.
LEMMA OutputTyped ==
  ASSUME IInv
  PROVE  \A i \in 1 .. Len(output) : output[i].kind \in Kinds /\ output[i].token \in Nat
<1>1. output \in Seq(LineType)
  BY DEF IInv, TypeOK, LineType
<1>2. \A i \in 1 .. Len(output) : output[i] \in LineType
  BY <1>1
<1> QED
  BY <1>2 DEF LineType

\* A new request is drawn.
LEMMA NewRequest ==
  ASSUME IInv, Draw, UNCHANGED <<output, first>>
  PROVE  OrderInv' /\ OutputInv' /\ AckInv' /\ \A i \in 1 .. Len(output) : output[i].token < token'
<1>1. \A i \in 1 .. Len(output) : output[i].token \in Nat
  BY OutputTyped
<1>2. \A i \in 1 .. Len(output) : output[i].token < token'
  BY <1>1 DEF IInv, TypeOK, DrawnInv, Draw
<1>3. OrderInv'
  BY DEF IInv, OrderInv
<1>4. OutputInv'
  <2>1. token' \in Nat
    BY DEF IInv, TypeOK, Draw
  <2>2. \A i \in 1 .. Len(output) : output[i].token # token'
    BY <1>1, <1>2, <2>1
  <2> QED
    BY <2>2 DEF IInv, OutputInv
<1>5. AckInv'
  BY DEF AckInv, Draw
<1> QED
  BY <1>2, <1>3, <1>4, <1>5

\* An exception changes nothing but the controller's place.
LEMMA RaiseIInv ==
  ASSUME IInv, Raise, pc # "none"
  PROVE  IInv'
<1> USE DEF Raise, files, serverVars
<1>1. TypeOK'
  BY DEF IInv, TypeOK, Content
<1>2. DrawnInv' /\ ServerInv'
  BY DEF IInv, DrawnInv, ServerInv
<1>3. RequestInv' /\ WriteInv'
  BY DEF IInv, RequestInv, WriteInv, Fresh, Newest
<1>4. OrderInv' /\ OutputInv' /\ AckInv'
  BY SameRequest DEF IInv, TypeOK
<1> QED
  BY <1>1, <1>2, <1>3, <1>4 DEF IInv

\* _poll_file_control takes the command it finds in the file.
LEMMA PollCommandIInv == ASSUME IInv, PollCommand PROVE IInv'
<1> USE FileControlAssumption DEF PollCommand, files, controllerVars
<1>1. TypeOK'
  BY DEF IInv, TypeOK, Content
<1>2. DrawnInv'
  BY DEF IInv, TypeOK, Content, DrawnInv
<1>3. ServerInv'
  BY DEF IInv, TypeOK, ServerInv
<1>4. RequestInv'
  BY DEF IInv, TypeOK, Content, ServerInv, RequestInv, WriteInv, Fresh, Newest
<1>5. WriteInv'
  BY DEF IInv, TypeOK, Content, ServerInv, RequestInv, WriteInv, Fresh, Newest
<1>6. OrderInv' /\ OutputInv' /\ AckInv'
  BY SameRequest DEF IInv, TypeOK
<1> QED
  BY <1>1, <1>2, <1>3, <1>4, <1>5, <1>6 DEF IInv

\* The command file is deleted, or its deletion is refused.
LEMMA CommandUnlinkIInv == ASSUME IInv, CommandUnlink PROVE IInv'
<1> USE FileControlAssumption DEF CommandUnlink, Abandon, controllerVars
<1>1. TypeOK'
  BY DEF IInv, TypeOK, Content
<1>2. DrawnInv'
  BY DEF IInv, TypeOK, Content, DrawnInv
<1>3. ServerInv'
  BY DEF IInv, TypeOK, ServerInv
<1>4. RequestInv'
  BY DEF IInv, TypeOK, Content, ServerInv, RequestInv, WriteInv, Fresh, Newest
<1>5. WriteInv'
  BY DEF IInv, TypeOK, Content, ServerInv, RequestInv, WriteInv, Fresh, Newest
<1>6. OrderInv' /\ OutputInv' /\ AckInv'
  BY SameRequest DEF IInv, TypeOK
<1> QED
  BY <1>1, <1>2, <1>3, <1>4, <1>5, <1>6 DEF IInv

\* _poll_file_control looks for a shutdown request.
LEMMA ShutdownReadIInv == ASSUME IInv, ShutdownRead PROVE IInv'
<1> USE FileControlAssumption DEF ShutdownRead, files, controllerVars
<1>1. TypeOK'
  BY DEF IInv, TypeOK, Content
<1>2. DrawnInv'
  BY DEF IInv, TypeOK, Content, DrawnInv
<1>3. ServerInv'
  BY DEF IInv, TypeOK, ServerInv
<1>4. RequestInv'
  BY DEF IInv, TypeOK, Content, ServerInv, RequestInv, WriteInv, Fresh, Newest
<1>5. WriteInv'
  BY DEF IInv, TypeOK, Content, ServerInv, RequestInv, WriteInv, Fresh, Newest
<1>6. OrderInv' /\ OutputInv' /\ AckInv'
  BY SameRequest DEF IInv, TypeOK
<1> QED
  BY <1>1, <1>2, <1>3, <1>4, <1>5, <1>6 DEF IInv

\* on_disable removes the files nobody is writing.
LEMMA OnDisableIInv == ASSUME IInv, OnDisable PROVE IInv'
<1> USE FileControlAssumption DEF OnDisable, controllerVars
<1>1. TypeOK'
  BY DEF IInv, TypeOK, Content
<1>2. DrawnInv'
  BY DEF IInv, TypeOK, Content, DrawnInv
<1>3. ServerInv'
  BY DEF IInv, TypeOK, ServerInv
<1>4. RequestInv'
  BY DEF IInv, TypeOK, Content, ServerInv, RequestInv, WriteInv, Fresh, Newest
<1>5. WriteInv'
  BY DEF IInv, TypeOK, Content, ServerInv, RequestInv, WriteInv, Fresh, Newest
<1>6. OrderInv' /\ OutputInv' /\ AckInv'
  BY SameRequest DEF IInv, TypeOK
<1> QED
  BY <1>1, <1>2, <1>3, <1>4, <1>5, <1>6 DEF IInv

\* The plugin prints the output of the command it holds, and perhaps its completion.
LEMMA PrintIInv ==
  ASSUME IInv, plugin = "dispatch",
         output' \in Seq(LineType),
         Len(output') \in {Len(output) + 1, Len(output) + 2},
         \A i \in 1 .. Len(output) : output'[i] = output[i],
         output'[Len(output) + 1] = Line("output", held),
         \A i \in 1 .. Len(output') : i > Len(output) =>
           /\ output'[i].token = held
           /\ i # Len(output) + 1 => output'[i].kind \in {"completed", "refused"},
         plugin' \in {"waiting", "shutdown_check"}, held' = NoFile,
         UNCHANGED <<files, server, exitcode, captured, controllerVars>>
  PROVE  IInv'
<1> USE FileControlAssumption DEF files, controllerVars
<1>1. /\ held \in Nat /\ first < held /\ held <= issued
      /\ \A i \in 1 .. Len(output) : output[i].kind = "output" => output[i].token < held
      /\ command_file \in Nat => held < command_file
      /\ pc = "command_write" => held < token
  BY DEF IInv, RequestInv, WriteInv, Fresh, Newest
<1>2. Len(output) \in Nat /\ output'[Len(output) + 1].kind = "output"
  BY DEF IInv, TypeOK, Line
<1>3. \A i \in 1 .. Len(output) : output[i].kind \in Kinds /\ output[i].token \in Nat
  BY OutputTyped
<1>4. \A i \in 1 .. Len(output') : i \in 1 .. Len(output) \/ i = Len(output) + 1 \/ i = Len(output) + 2
  BY <1>2
<1>5. Len(output) + 1 \in 1 .. Len(output')
  BY <1>2
<1>6. TypeOK'
  BY <1>2 DEF IInv, TypeOK, LineType, Content
<1>7. DrawnInv'
  <2>1. ASSUME NEW i \in 1 .. Len(output') PROVE output'[i].token <= issued
    <3>1. CASE i \in 1 .. Len(output)
      BY <3>1 DEF IInv, DrawnInv
    <3>2. CASE i > Len(output)
      BY <1>1, <3>2
    <3> QED
      BY <1>2, <3>1, <3>2
  <2>2. held' \notin Nat
    OBVIOUS
  <2> QED
    BY <2>1, <2>2 DEF IInv, DrawnInv
<1>8. ServerInv'
  BY DEF IInv, ServerInv
<1>9. \A x \in Nat : Fresh(x) /\ held < x => Fresh(x)'
  BY <1>1, <1>2, <1>3, <1>4 DEF Fresh, Newest
<1>10. RequestInv' /\ WriteInv'
  BY <1>1, <1>9 DEF IInv, TypeOK, RequestInv, WriteInv
<1>11. OrderInv'
  <2>1. \A i \in 1 .. Len(output') : output'[i].kind = "output" => first < output'[i].token
    BY <1>1, <1>2, <1>4 DEF IInv, OrderInv
  <2>2. \A i \in 1 .. Len(output') :
          output'[i].kind = "output" => i \in 1 .. Len(output) + 1
    BY <1>2, <1>4
  <2>3. ASSUME NEW i \in 1 .. Len(output'), NEW j \in 1 .. Len(output'),
               output'[i].kind = "output", output'[j].kind = "output", i < j
        PROVE  output'[i].token < output'[j].token
    <3>1. i \in 1 .. Len(output)
      BY <1>2, <2>2, <2>3
    <3>2. CASE j \in 1 .. Len(output)
      BY <2>3, <3>1, <3>2 DEF IInv, OrderInv
    <3>3. CASE j = Len(output) + 1
      BY <1>1, <1>2, <2>3, <3>1, <3>3
    <3> QED
      BY <1>2, <2>2, <2>3, <3>2, <3>3
  <2> QED
    BY <2>1, <2>3 DEF OrderInv
<1>12. OutputInv'
  <2>1. ASSUME NEW j \in 1 .. Len(output'), output'[j].kind = "completed"
        PROVE  \E i \in 1 .. Len(output') :
                 i < j /\ output'[i] = Line("output", output'[j].token)
    <3>1. CASE j \in 1 .. Len(output)
      <4>1. PICK i \in 1 .. Len(output) : i < j /\ output[i] = Line("output", output[j].token)
        BY <2>1, <3>1 DEF IInv, OutputInv
      <4> QED
        BY <1>2, <3>1, <4>1
    <3>2. CASE j = Len(output) + 2
      BY <1>2, <1>5, <3>2
    <3> QED
      BY <1>2, <1>4, <2>1, <3>1, <3>2
  <2>2. ASSUME NEW i \in 1 .. Len(output'), output'[i].kind \in {"output", "completed"},
               output'[i].token = token
        PROVE  start < i
    <3>1. CASE i \in 1 .. Len(output)
      BY <2>2, <3>1 DEF IInv, OutputInv
    <3>2. CASE i > Len(output)
      BY <1>2, <3>2 DEF IInv, TypeOK
    <3> QED
      BY <1>2, <3>1, <3>2
  <2> QED
    BY <2>1, <2>2 DEF OutputInv
<1>13. AckInv'
  <2> SUFFICES ASSUME result = "acknowledged" PROVE AckInv'
    BY DEF AckInv
  <2>1. PICK i \in 1 .. Len(output) :
          start < i /\ i <= captured /\ output[i] = Line("output", token)
    BY DEF IInv, AckInv
  <2>2. PICK j \in 1 .. Len(output) : output[j] = Line("completed", token)
    BY DEF IInv, AckInv
  <2>3. i \in 1 .. Len(output') /\ j \in 1 .. Len(output')
    BY <1>2
  <2> QED
    BY <2>1, <2>2, <2>3 DEF AckInv, Line
<1> QED
  BY <1>6, <1>7, <1>8, <1>10, <1>11, <1>12, <1>13 DEF IInv

\* A command is executed: it is newer than all that were.
LEMMA DispatchIInv == ASSUME IInv, Dispatch PROVE IInv'
<1>1. /\ output \in Seq(LineType)
      /\ held \in Nat
      /\ Len(output) \in Nat
  BY DEF IInv, TypeOK, LineType, Dispatch, RequestInv
<1>2. /\ Line("output", held) \in LineType
      /\ Line("output", held).token = held
  BY <1>1, LineTyped DEF Kinds, Line
<1> DEFINE once == Append(output, Line("output", held))
<1>3. /\ once \in Seq(LineType)
      /\ Len(once) = Len(output) + 1
      /\ \A i \in 1 .. Len(output) : once[i] = output[i]
      /\ once[Len(output) + 1] = Line("output", held)
  BY <1>1, <1>2, AppendLine
<1>4. plugin = "dispatch" /\ UNCHANGED <<files, server, exitcode, captured, controllerVars>>
  BY DEF Dispatch
<1>5. CASE output' = once /\ Abandon
  <2>1. \A i \in 1 .. Len(output') : i > Len(output) => i = Len(output) + 1
    BY <1>1, <1>3, <1>5
  <2> HIDE DEF once
  <2> QED
    BY <1>2, <1>3, <1>4, <1>5, <2>1, PrintIInv DEF Abandon
<1>6. CASE \E kind \in {"completed", "refused"} :
             /\ output' = Append(once, Line(kind, held))
             /\ plugin' = "shutdown_check"
             /\ held' = NoFile
  <2>1. PICK kind \in {"completed", "refused"} :
             /\ output' = Append(once, Line(kind, held))
             /\ plugin' = "shutdown_check"
             /\ held' = NoFile
    BY <1>6
  <2>2. Line(kind, held).kind = kind /\ Line(kind, held).token = held
    BY DEF Line
  <2>3. Line(kind, held) \in LineType
    BY <1>1, LineTyped DEF Kinds
  <2> HIDE DEF once
  <2>4. /\ output' \in Seq(LineType)
        /\ Len(output') = Len(once) + 1
        /\ \A i \in 1 .. Len(once) : output'[i] = once[i]
        /\ output'[Len(once) + 1] = Line(kind, held)
    BY <1>3, <2>1, <2>3, AppendLine
  <2>5. /\ Len(output') = Len(output) + 2
        /\ \A i \in 1 .. Len(output) : output'[i] = output[i]
        /\ output'[Len(output) + 1] = Line("output", held)
        /\ output'[Len(output) + 2] = Line(kind, held)
    BY <1>1, <1>3, <2>4
  <2>6. \A i \in 1 .. Len(output') :
          i > Len(output) => i = Len(output) + 1 \/ i = Len(output) + 2
    BY <1>1, <2>5
  <2> QED
    BY <1>1, <1>2, <1>4, <2>1, <2>2, <2>4, <2>5, <2>6, PrintIInv
<1> QED
  BY <1>5, <1>6 DEF Dispatch

\* The shutdown file is deleted and a complete request acknowledged, or the poll gives up.
LEMMA ShutdownUnlinkIInv == ASSUME IInv, ShutdownUnlink PROVE IInv'
<1> USE FileControlAssumption
<1>1. CASE output' = output
  <2> USE <1>1 DEF ShutdownUnlink, Abandon, controllerVars
  <2>1. TypeOK'
    BY DEF IInv, TypeOK, Content
  <2>2. DrawnInv' /\ ServerInv'
    BY DEF IInv, TypeOK, Content, DrawnInv, ServerInv
  <2>3. RequestInv' /\ WriteInv'
    BY DEF IInv, TypeOK, Content, RequestInv, WriteInv, Fresh, Newest
  <2>4. OrderInv' /\ OutputInv' /\ AckInv'
    BY SameRequest DEF IInv, TypeOK
  <2> QED
    BY <2>1, <2>2, <2>3, <2>4 DEF IInv
<1>2. CASE output' # output
  <2> DEFINE l == Line("shutdown", held)
  <2>1. /\ output' = Append(output, l)
        /\ held \in Nat
        /\ held <= issued
        /\ shutdown_file' = NoFile
        /\ held' = NoFile
        /\ plugin = "shutdown_read"
        /\ plugin' = "cancelled"
        /\ server' = "stopping"
        /\ UNCHANGED <<command_file, exitcode, captured, controllerVars>>
    BY <1>2 DEF ShutdownUnlink, Abandon, IInv, TypeOK, Content, RequestInv, DrawnInv
  <2>2. l \in LineType /\ l.kind = "shutdown" /\ l.token = held
    BY <2>1, LineTyped DEF Kinds, Line
  <2> HIDE DEF l
  <2>3. /\ output' \in Seq(LineType)
        /\ Len(output') = Len(output) + 1
        /\ \A i \in 1 .. Len(output') : output'[i].token <= issued
        /\ \A x : Fresh(x) => Fresh(x)'
        /\ OrderInv' /\ OutputInv' /\ AckInv'
    BY <2>1, <2>2, OtherLine DEF controllerVars
  <2>4. TypeOK'
    BY <2>1, <2>3 DEF IInv, TypeOK, LineType, Content, controllerVars
  <2>5. DrawnInv' /\ ServerInv'
    BY <2>1, <2>3 DEF IInv, TypeOK, DrawnInv, ServerInv, controllerVars
  <2>6. RequestInv' /\ WriteInv'
    BY <2>1, <2>3 DEF IInv, TypeOK, RequestInv, WriteInv, controllerVars
  <2> QED
    BY <2>3, <2>4, <2>5, <2>6 DEF IInv
<1> QED
  BY <1>1, <1>2

---------------------------------------------------------------------------
(* The server, the reader thread and the controller keep it.               *)

\* A server begins to stop, for whatever reason.
LEMMA StoppingIInv == ASSUME IInv, Stopping PROVE IInv'
<1> USE FileControlAssumption DEF Stopping, files, controllerVars
<1>1. TypeOK'
  BY DEF IInv, TypeOK, Content
<1>2. DrawnInv'
  BY DEF IInv, TypeOK, Content, DrawnInv
<1>3. ServerInv'
  BY DEF IInv, TypeOK, ServerInv
<1>4. RequestInv'
  BY DEF IInv, TypeOK, Content, ServerInv, RequestInv, WriteInv, Fresh, Newest
<1>5. WriteInv'
  BY DEF IInv, TypeOK, Content, ServerInv, RequestInv, WriteInv, Fresh, Newest
<1>6. OrderInv' /\ OutputInv' /\ AckInv'
  BY SameRequest DEF IInv, TypeOK
<1> QED
  BY <1>1, <1>2, <1>3, <1>4, <1>5, <1>6 DEF IInv

\* A server ends, obediently or not.
LEMMA ExitIInv == ASSUME IInv, Exit PROVE IInv'
<1> USE FileControlAssumption DEF Exit, Down, files, controllerVars
<1>1. TypeOK'
  BY DEF IInv, TypeOK, Content
<1>2. DrawnInv'
  BY DEF IInv, TypeOK, Content, DrawnInv
<1>3. ServerInv'
  BY DEF IInv, TypeOK, ServerInv
<1>4. RequestInv'
  BY DEF IInv, TypeOK, Content, ServerInv, RequestInv, WriteInv, Fresh, Newest
<1>5. WriteInv'
  BY DEF IInv, TypeOK, Content, ServerInv, RequestInv, WriteInv, Fresh, Newest
<1>6. OrderInv' /\ OutputInv' /\ AckInv'
  BY SameRequest DEF IInv, TypeOK
<1> QED
  BY <1>1, <1>2, <1>3, <1>4, <1>5, <1>6 DEF IInv

\* The reader thread stores the next line.
LEMMA ReadLineIInv == ASSUME IInv, ReadLine PROVE IInv'
<1> USE FileControlAssumption DEF ReadLine, files, serverVars, controllerVars
<1>1. TypeOK'
  BY DEF IInv, TypeOK, Content
<1>2. DrawnInv'
  BY DEF IInv, TypeOK, Content, DrawnInv
<1>3. ServerInv'
  BY DEF IInv, TypeOK, ServerInv
<1>4. RequestInv'
  BY DEF IInv, TypeOK, Content, ServerInv, RequestInv, WriteInv, Fresh, Newest
<1>5. WriteInv'
  BY DEF IInv, TypeOK, Content, ServerInv, RequestInv, WriteInv, Fresh, Newest
<1>6. OrderInv' /\ OutputInv' /\ AckInv'
  BY SameRequest DEF IInv, TypeOK
<1> QED
  BY <1>1, <1>2, <1>3, <1>4, <1>5, <1>6 DEF IInv

\* A step that changes nothing.
LEMMA StutterIInv == ASSUME IInv, UNCHANGED vars PROVE IInv'
<1> USE FileControlAssumption DEF vars, files, serverVars, controllerVars
<1>1. TypeOK'
  BY DEF IInv, TypeOK, Content
<1>2. DrawnInv'
  BY DEF IInv, TypeOK, Content, DrawnInv
<1>3. ServerInv'
  BY DEF IInv, TypeOK, ServerInv
<1>4. RequestInv'
  BY DEF IInv, TypeOK, Content, ServerInv, RequestInv, WriteInv, Fresh, Newest
<1>5. WriteInv'
  BY DEF IInv, TypeOK, Content, ServerInv, RequestInv, WriteInv, Fresh, Newest
<1>6. OrderInv' /\ OutputInv' /\ AckInv'
  BY SameRequest DEF IInv, TypeOK
<1> QED
  BY <1>1, <1>2, <1>3, <1>4, <1>5, <1>6 DEF IInv

\* The command file gets its token.
LEMMA CommandWrittenIInv == ASSUME IInv, CommandWritten PROVE IInv'
<1> USE FileControlAssumption DEF CommandWritten, serverVars
<1>1. TypeOK'
  BY DEF IInv, TypeOK, Content
<1>2. DrawnInv'
  BY DEF IInv, TypeOK, Content, DrawnInv, WriteInv, ServerInv
<1>3. ServerInv'
  BY DEF IInv, TypeOK, ServerInv
<1>4. RequestInv'
  BY DEF IInv, TypeOK, Content, ServerInv, RequestInv, WriteInv, Fresh, Newest
<1>5. WriteInv'
  BY DEF IInv, TypeOK, Content, ServerInv, RequestInv, WriteInv, Fresh, Newest
<1>6. OrderInv' /\ OutputInv' /\ AckInv'
  BY SameRequest DEF IInv, TypeOK
<1> QED
  BY <1>1, <1>2, <1>3, <1>4, <1>5, <1>6 DEF IInv

\* The shutdown file gets its token.
LEMMA StopWrittenIInv == ASSUME IInv, StopWritten PROVE IInv'
<1> USE FileControlAssumption DEF StopWritten, serverVars
<1>1. TypeOK'
  BY DEF IInv, TypeOK, Content
<1>2. DrawnInv'
  BY DEF IInv, TypeOK, Content, DrawnInv, WriteInv, ServerInv
<1>3. ServerInv'
  BY DEF IInv, TypeOK, ServerInv
<1>4. RequestInv'
  BY DEF IInv, TypeOK, Content, ServerInv, RequestInv, WriteInv, Fresh, Newest
<1>5. WriteInv'
  BY DEF IInv, TypeOK, Content, ServerInv, RequestInv, WriteInv, Fresh, Newest
<1>6. OrderInv' /\ OutputInv' /\ AckInv'
  BY SameRequest DEF IInv, TypeOK
<1> QED
  BY <1>1, <1>2, <1>3, <1>4, <1>5, <1>6 DEF IInv

\* The controller kills the server.
LEMMA ForceKillIInv == ASSUME IInv, ForceKill PROVE IInv'
<1> USE FileControlAssumption DEF ForceKill, Down, files
<1>1. TypeOK'
  BY DEF IInv, TypeOK, Content
<1>2. DrawnInv'
  BY DEF IInv, TypeOK, Content, DrawnInv
<1>3. ServerInv'
  BY DEF IInv, TypeOK, ServerInv
<1>4. RequestInv'
  BY DEF IInv, TypeOK, Content, ServerInv, RequestInv, WriteInv, Fresh, Newest
<1>5. WriteInv'
  BY DEF IInv, TypeOK, Content, ServerInv, RequestInv, WriteInv, Fresh, Newest
<1>6. OrderInv' /\ OutputInv' /\ AckInv'
  BY SameRequest DEF IInv, TypeOK
<1> QED
  BY <1>1, <1>2, <1>3, <1>4, <1>5, <1>6 DEF IInv

\* The controller starts a server on the files of the one before.
LEMMA StartServerIInv == ASSUME IInv, StartServer PROVE IInv'
<1> USE FileControlAssumption DEF StartServer, files
<1>1. output' \in Seq([kind: Kinds, token: Nat]) /\ Len(output') = 0
  OBVIOUS
<1>2. TypeOK'
  BY <1>1 DEF IInv, TypeOK, Content
<1>3. DrawnInv' /\ ServerInv'
  BY <1>1 DEF IInv, TypeOK, DrawnInv, ServerInv
<1>4. RequestInv' /\ WriteInv'
  BY <1>1 DEF IInv, TypeOK, ServerInv, RequestInv, WriteInv
<1>5. OrderInv' /\ OutputInv' /\ AckInv'
  BY <1>1 DEF OrderInv, OutputInv, AckInv
<1> QED
  BY <1>2, <1>3, <1>4, <1>5 DEF IInv

\* The controller has seen the plugin's registration line.
LEMMA RegisteredIInv == ASSUME IInv, Registered PROVE IInv'
<1>1. CASE Raise
  BY <1>1, RaiseIInv DEF Registered
<1>2. CASE ~Raise
  <2>1. /\ pc = "registering"
        /\ Line("enabled", 0) \in Lines(0)
        /\ pc' = "idle"
        /\ UNCHANGED <<files, serverVars, captured, issued, first, start, token, result, starts>>
    BY <1>2 DEF Registered
  <2>2. server # "starting"
    BY <2>1 DEF IInv, TypeOK, ServerInv, Lines
  <2> USE <2>1, <2>2 DEF files, serverVars
  <2>3. TypeOK'
    BY DEF IInv, TypeOK, Content
  <2>4. DrawnInv' /\ ServerInv'
    BY DEF IInv, DrawnInv, ServerInv
  <2>5. RequestInv' /\ WriteInv'
    BY DEF IInv, RequestInv, WriteInv, Fresh, Newest
  <2>6. OrderInv' /\ OutputInv' /\ AckInv'
    BY SameRequest DEF IInv, TypeOK
  <2> QED
    BY <2>3, <2>4, <2>5, <2>6 DEF IInv
<1> QED
  BY <1>1, <1>2

\* The controller creates the command file for a new token.
LEMMA CommandIInv == ASSUME IInv, Command PROVE IInv'
<1> USE FileControlAssumption
<1>1. CASE Raise
  BY <1>1, RaiseIInv DEF Command
<1>2. CASE ~Raise
  <2>1. /\ pc = "idle"
        /\ server # "down"
        /\ command_file = NoFile
        /\ Draw
        /\ command_file' = Empty
        /\ pc' = "command_write"
        /\ UNCHANGED <<shutdown_file, serverVars, captured, first, starts>>
    BY <1>2 DEF Command
  <2>2. OrderInv' /\ OutputInv' /\ AckInv'
        /\ \A i \in 1 .. Len(output) : output[i].token < token'
    BY <2>1, NewRequest DEF serverVars
  <2> USE <2>1 DEF serverVars, Draw
  <2>3. TypeOK'
    BY DEF IInv, TypeOK, Content
  <2>4. DrawnInv'
    BY <2>2, OutputTyped DEF IInv, TypeOK, DrawnInv, ServerInv
  <2>5. ServerInv'
    BY DEF IInv, ServerInv
  <2>6. RequestInv'
    BY DEF IInv, TypeOK, RequestInv, Fresh, Newest
  <2>7. WriteInv'
    BY <2>2 DEF IInv, TypeOK, RequestInv, WriteInv, Fresh, Newest
  <2> QED
    BY <2>2, <2>3, <2>4, <2>5, <2>6, <2>7 DEF IInv
<1> QED
  BY <1>1, <1>2

\* The completion line is among the captured ones, so the output before it is, too.
LEMMA WaitCommandOutputIInv == ASSUME IInv, WaitCommandOutput PROVE IInv'
<1>1. CASE Raise
  BY <1>1, RaiseIInv DEF WaitCommandOutput
<1>2. CASE ~Raise
  <2>1. /\ pc = "waiting"
        /\ Acknowledged
        /\ result' = "acknowledged"
        /\ pc' = "idle"
        /\ UNCHANGED <<files, serverVars, captured, issued, first, start, token, starts>>
    BY <1>2 DEF WaitCommandOutput
  <2>2. Len(output) \in Nat /\ captured \in Nat /\ captured <= Len(output) /\ start \in Nat
    BY DEF IInv, TypeOK
  <2>3. PICK j \in start + 1 .. captured : output[j] = Line("completed", token)
    BY <2>1 DEF Acknowledged, Lines
  <2>4. j \in 1 .. Len(output) /\ output[j].kind = "completed" /\ output[j].token = token
    BY <2>2, <2>3 DEF Line
  <2>5. PICK i \in 1 .. Len(output) : i < j /\ output[i] = Line("output", token)
    BY <2>4 DEF IInv, OutputInv
  <2>6. start < i /\ i <= captured
    BY <2>2, <2>3, <2>5 DEF IInv, OutputInv, Line
  <2>7. AckInv'
    BY <2>1, <2>3, <2>4, <2>5, <2>6 DEF AckInv, serverVars, Line
  <2> USE <2>1 DEF files, serverVars
  <2>8. TypeOK'
    BY DEF IInv, TypeOK, Content
  <2>9. DrawnInv' /\ ServerInv'
    BY DEF IInv, DrawnInv, ServerInv
  <2>10. RequestInv' /\ WriteInv'
    BY DEF IInv, RequestInv, WriteInv, Fresh, Newest
  <2>11. OrderInv' /\ OutputInv'
    BY DEF IInv, OrderInv, OutputInv
  <2> QED
    BY <2>7, <2>8, <2>9, <2>10, <2>11 DEF IInv
<1> QED
  BY <1>1, <1>2

\* The controller creates the shutdown file, or finds the server gone.
LEMMA GracefulStopIInv == ASSUME IInv, GracefulStop PROVE IInv'
<1> USE FileControlAssumption
<1>1. CASE server = "down"
  <2> USE <1>1 DEF GracefulStop, files, serverVars
  <2>1. TypeOK'
    BY DEF IInv, TypeOK, Content
  <2>2. DrawnInv' /\ ServerInv'
    BY DEF IInv, DrawnInv, ServerInv
  <2>3. RequestInv' /\ WriteInv'
    BY DEF IInv, RequestInv, WriteInv, Fresh, Newest
  <2>4. OrderInv' /\ OutputInv' /\ AckInv'
    BY SameRequest DEF IInv, TypeOK
  <2> QED
    BY <2>1, <2>2, <2>3, <2>4 DEF IInv
<1>2. CASE server # "down"
  <2>1. /\ pc = "idle"
        /\ Draw
        /\ shutdown_file' = Empty
        /\ pc' = "stop_write"
        /\ UNCHANGED <<command_file, serverVars, captured, first, starts>>
    BY <1>2 DEF GracefulStop
  <2>2. OrderInv' /\ OutputInv' /\ AckInv'
    BY <2>1, NewRequest DEF serverVars
  <2> USE <2>1 DEF serverVars, Draw
  <2>3. TypeOK'
    BY DEF IInv, TypeOK, Content
  <2>4. DrawnInv'
    BY OutputTyped DEF IInv, TypeOK, DrawnInv, ServerInv
  <2>5. ServerInv'
    BY DEF IInv, ServerInv
  <2>6. RequestInv' /\ WriteInv'
    BY DEF IInv, TypeOK, RequestInv, WriteInv, Fresh, Newest
  <2> QED
    BY <2>2, <2>3, <2>4, <2>5, <2>6 DEF IInv
<1> QED
  BY <1>1, <1>2

\* The controller's wait for the server's end is over.
LEMMA StopWaitIInv == ASSUME IInv, StopWait PROVE IInv'
<1>1. CASE Raise
  BY <1>1, RaiseIInv DEF StopWait
<1>2. CASE ~Raise
  <2> USE <1>2 DEF StopWait, files, serverVars
  <2>1. TypeOK'
    BY DEF IInv, TypeOK, Content
  <2>2. DrawnInv' /\ ServerInv'
    BY DEF IInv, DrawnInv, ServerInv
  <2>3. RequestInv' /\ WriteInv'
    BY DEF IInv, RequestInv, WriteInv, Fresh, Newest
  <2>4. OrderInv' /\ OutputInv' /\ AckInv'
    BY SameRequest DEF IInv, TypeOK
  <2> QED
    BY <2>1, <2>2, <2>3, <2>4 DEF IInv
<1> QED
  BY <1>1, <1>2

---------------------------------------------------------------------------
(* The theorems.                                                           *)

\* Every step of the transport keeps the invariant.
LEMMA NextIInv == ASSUME IInv, [Next]_vars PROVE IInv'
<1>1. CASE Plugin
  BY <1>1, EnableIInv, PollCommandIInv, CommandUnlinkIInv, DispatchIInv, ShutdownReadIInv,
     ShutdownUnlinkIInv, OnDisableIInv DEF Plugin, Poll
<1>2. CASE Stopping \/ Exit \/ ReadLine
  BY <1>2, StoppingIInv, ExitIInv, ReadLineIInv
<1>3. CASE Controller
  BY <1>3, StartServerIInv, RegisteredIInv, CommandIInv, WaitCommandOutputIInv,
     GracefulStopIInv, CommandWrittenIInv, StopWrittenIInv, StopWaitIInv, ForceKillIInv
     DEF Controller, Written
<1>4. CASE Finished \/ UNCHANGED vars
  BY <1>4, StutterIInv DEF Finished
<1> QED
  BY <1>1, <1>2, <1>3, <1>4 DEF Next

\* The strengthening of the properties below is an invariant, for any number of requests
\* and servers.
THEOREM Inductive == Spec => []IInv
<1> QED
  BY InitIInv, NextIInv, PTL DEF Spec

\* Every variable keeps its type, and no index of the controller points behind the lines
\* the reader thread captured.
THEOREM TypeCorrect == Spec => []TypeOK
<1>1. IInv => TypeOK
  BY DEF IInv
<1> QED
  BY <1>1, Inductive, PTL

\* A server executes only the commands of the controller that started it, in the order in
\* which they were issued and each at most once (_poll_file_control and on_enable of the
\* plugin, command of _FrameworkShutdownServerProcess).
THEOREM ExecutionInOrder == Spec => []ExecutedInOrder
<1>1. IInv => ExecutedInOrder
  <2> SUFFICES ASSUME IInv PROVE ExecutedInOrder
    OBVIOUS
  <2>1. DOMAIN output = 1 .. Len(output) /\ first \in Nat
    BY DEF IInv, TypeOK
  <2> QED
    BY <2>1, OutputTyped DEF IInv, OrderInv, ExecutedInOrder, Executed
<1> QED
  BY <1>1, Inductive, PTL

\* When wait_command_output returns, the server has executed that request and completed it,
\* and the output is among the lines it returns.
THEOREM AcknowledgementIsSound == Spec => []AcknowledgementSound
<1>1. IInv => AcknowledgementSound
  <2> SUFFICES ASSUME IInv, result = "acknowledged" PROVE AcknowledgementSound
    BY DEF AcknowledgementSound
  <2>1. DOMAIN output = 1 .. Len(output) /\ start \in Nat /\ captured \in Nat
    BY DEF IInv, TypeOK
  <2>2. PICK i \in 1 .. Len(output) :
          start < i /\ i <= captured /\ output[i] = Line("output", token)
    BY DEF IInv, AckInv
  <2>3. i \in start + 1 .. captured
    BY <2>1, <2>2
  <2>4. Line("output", token) \in Lines(start)
    BY <2>2, <2>3 DEF Lines
  <2> QED
    BY <2>1, <2>4 DEF IInv, AckInv, AcknowledgementSound
<1> QED
  BY <1>1, Inductive, PTL

\* What graceful_stop saw when it returned stays true until the next server is started.
GracefulInv ==
  result = "graceful" =>
    /\ pc = "none"
    /\ exitcode = "zero"
    /\ \E i \in DOMAIN output : output[i] = Line("shutdown", token)

\* A stop that wrote its request is graceful only if this server shut down because of that
\* request, and then ended with exit code 0 (graceful_stop).
THEOREM GracefulIsAcknowledged == Spec => []GracefulAcknowledged
<1>1. Init => GracefulInv
  BY DEF Init, GracefulInv
<1>2. IInv /\ GracefulInv /\ [Next]_vars => GracefulInv'
  <2> SUFFICES ASSUME IInv, GracefulInv, [Next]_vars, result' = "graceful" PROVE GracefulInv'
    BY DEF GracefulInv
  <2>1. CASE StopWait
    <3>1. server = "down" /\ exitcode = "zero" /\ Observed /\ pc' = "none"
          /\ UNCHANGED <<output, exitcode, token>>
      BY <2>1 DEF StopWait, Raise, serverVars
    <3>2. Len(output) \in Nat /\ captured \in 0 .. Len(output) /\ start \in Nat
          /\ DOMAIN output = 1 .. Len(output)
      BY DEF IInv, TypeOK
    <3>3. PICK i \in start + 1 .. captured : output[i] = Line("shutdown", token)
      BY <3>1 DEF Observed, Lines
    <3>4. i \in DOMAIN output
      BY <3>2, <3>3
    <3> QED
      BY <3>1, <3>3, <3>4 DEF GracefulInv, Line
  <2>2. CASE ~StopWait
    <3>1. UNCHANGED result
      BY <2>2 DEF Next, Plugin, OnEnable, Poll, PollCommand, CommandUnlink, Dispatch,
         ShutdownRead, ShutdownUnlink, OnDisable, Stopping, Exit, ReadLine, Controller,
         StartServer, Registered, Command, WaitCommandOutput, GracefulStop, Written,
         CommandWritten, StopWritten, ForceKill, Finished, Draw, Raise, vars, controllerVars
    <3>2. pc = "none" /\ server = "down" /\ plugin = "off"
      BY <3>1 DEF GracefulInv, IInv, TypeOK, ServerInv
    <3>3. UNCHANGED <<output, exitcode, token, pc>>
      BY <2>2, <3>2 DEF Next, Plugin, OnEnable, Poll, PollCommand, CommandUnlink, Dispatch,
         ShutdownRead, ShutdownUnlink, OnDisable, Stopping, Exit, ReadLine, Controller,
         StartServer, Registered, Command, WaitCommandOutput, GracefulStop, Written,
         CommandWritten, StopWritten, ForceKill, Finished, vars, controllerVars, serverVars
    <3> QED
      BY <3>1, <3>3 DEF GracefulInv, Line
  <2> QED
    BY <2>1, <2>2
<1>3. GracefulInv => GracefulAcknowledged
  BY DEF GracefulInv, GracefulAcknowledged
<1> QED
  BY <1>1, <1>2, <1>3, Inductive, PTL DEF Spec

\* The plugin's start never deletes a request of the controller that waits for it.
THEOREM EnableKeepsOwnRequests == Spec => EnableKeepsOwn
<1>1. IInv /\ [Next]_vars =>
        [server = "starting" /\ server' = "running" =>
           ~Deleted(command_file) /\ ~Deleted(shutdown_file)]_vars
  BY DEF IInv, TypeOK, DrawnInv, Deleted
<1> QED
  BY <1>1, Inductive, PTL DEF Spec, EnableKeepsOwn

\* A complete command request leaves its file only by being deleted.
THEOREM RequestsAreNotOverwritten == Spec => NeverOverwritten
<1>1. IInv /\ [Next]_vars =>
        [(command_file \in Nat /\ command_file' # command_file) => command_file' = NoFile]_vars
  <2> SUFFICES ASSUME IInv, Next, command_file \in Nat, command_file' # command_file
               PROVE  command_file' = NoFile
    BY DEF vars, files
  <2>1. pc # "command_write"
    BY FileControlAssumption DEF IInv, WriteInv
  <2> QED
    BY <2>1, FileControlAssumption DEF Next, Plugin, OnEnable, Poll, PollCommand, CommandUnlink,
       Dispatch, ShutdownRead, ShutdownUnlink, OnDisable, Stopping, Exit, ReadLine, Controller,
       StartServer, Registered, Command, WaitCommandOutput, GracefulStop, Written,
       CommandWritten, StopWritten, StopWait, ForceKill, Finished, Raise, vars, files
<1> QED
  BY <1>1, Inductive, PTL DEF Spec, NeverOverwritten
=============================================================================
