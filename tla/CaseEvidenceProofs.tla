------------------------- MODULE CaseEvidenceProofs -------------------------
(***************************************************************************)
(* Proofs about one case, for windows of any length and statements that    *)
(* take any time: what the controller has recorded when it comes to a      *)
(* statement (OrderInv, SampleInv), who may have died by then (LostInv),   *)
(* and what the result file says (DiskInv). The analyzer's checks follow   *)
(* from what holds at the last statement.                                  *)
(***************************************************************************)
EXTENDS CaseEvidence, TLAPS

-----------------------------------------------------------------------------
(* The statements that follow one another.                                 *)

PastDisconnect == {"shutdown", "tick-statistics", "passed"}
PastRestore == {"disconnect"} \cup PastDisconnect
PastProfile == {"restore"} \cup PastRestore
PastCpuEnd == {"stop-profiler"} \cup PastProfile
PastQueryEnd == {"cpu-end"} \cup PastCpuEnd
PastCpuStart == {"start-profiler", "loop", "query-end"} \cup PastQueryEnd
PastQueryStart == {"cpu-start"} \cup PastCpuStart
PastWarmup == {"query-start"} \cup PastQueryStart
PastWarmupStart == {"warmup-loop"} \cup PastWarmup
PastOnline == {"warmup"} \cup PastWarmupStart

-----------------------------------------------------------------------------
(* The types, in four parts.                                               *)

PlaceOK ==
  /\ pc \in Statements \cup Ends /\ mode \in {"off", "full"} /\ now \in Nat
  /\ disk \in {"running", "FAIL", "PASS"}
WorldOK ==
  /\ root \in {"same", "dead", "reused"} /\ bot \in {"running", "left", "crashed"}
  /\ counter \in 0 .. MaxEvents /\ lost \subseteq {"root", "bot"}
RecordOK ==
  /\ phase \in {"bootstrap", "warmup", "measurement"}
  /\ marks \in [Marks -> Nat] /\ progress \in [Boundaries -> 0 .. MaxEvents]
  /\ sampled \subseteq {"bootstrap", "warmup", "measurement"}
ClosingOK ==
  /\ restoration \in {"PENDING", "PASS", "FAIL"}
  /\ shutdown \in {"none", "graceful", "incomplete"} /\ pep \in {"none", "zero", "reported"}

-----------------------------------------------------------------------------
(* The inductive invariant.                                                *)

WarmupTime == Warmup * Second
MeasureTime == Measure * Second

\* No time stamp lies in the future.
ClockInv == now > 0 /\ \A m \in Marks : marks[m] <= now

\* The time stamps are taken in the order of the statements, and the loops last as long as
\* they must.
OrderInv ==
  /\ pc \in PastOnline => marks["online"] > 0
  /\ pc \in PastWarmupStart => marks["online"] < marks["warmup_start"]
  /\ pc \in PastWarmup => marks["warmup_start"] + WarmupTime <= marks["warmup_end"]
  /\ pc \in PastQueryStart => marks["warmup_end"] < marks["tick_start"]
  /\ pc \in PastCpuStart => marks["tick_start"] < marks["measurement_start"]
  /\ pc \in {"query-end", "cpu-end"} => marks["measurement_start"] + MeasureTime <= now
  /\ pc \in PastQueryEnd => marks["measurement_start"] < marks["tick_end"]
  /\ pc \in PastCpuEnd => marks["tick_end"] < marks["measurement_end"]
  /\ pc \in Statements \ PastCpuEnd => marks["measurement_end"] = 0
  /\ pc \in PastDisconnect => marks["measurement_end"] < marks["before_disconnect"]
  /\ pc \in Statements \ PastDisconnect => marks["before_disconnect"] = 0

\* Each window has a sample of the affinities: the warm-up cannot end before its first poll.
SampleInv ==
  /\ pc = "warmup-loop" =>
       phase = "warmup" /\ ("warmup" \in sampled \/ now = marks["warmup_start"])
  /\ pc \in PastWarmup => "warmup" \in sampled
  /\ pc \in PastCpuStart => "measurement" \in sampled

\* A process that died too early is still gone; who is past a check was not lost before it.
LostInv ==
  /\ "root" \in lost => root # "same"
  /\ "bot" \in lost => bot # "running"
  /\ pc \in PastCpuEnd => "root" \notin lost
  /\ pc \in PastRestore => "bot" \notin lost

\* What a passed case has besides.
ClosingInv ==
  /\ pc \in PastCpuEnd => DeltasOK(progress)
  /\ pc \in PastProfile => (mode = "full" => pep # "none")
  /\ pc \in PastRestore => restoration = "PASS"

DiskInv == disk = "PASS" <=> pc = "passed"

IInv ==
  /\ TypeOK /\ ClockInv /\ OrderInv /\ SampleInv /\ LostInv /\ ClosingInv /\ DiskInv
  /\ MeasurementNeverShort

-----------------------------------------------------------------------------
(* The steps.                                                              *)

\* The windows are whole numbers of seconds, and not empty.
LEMMA TimeType == WarmupTime \in Nat /\ WarmupTime > 0 /\ MeasureTime \in Nat /\ MeasureTime > 0
BY CaseAssumption DEF WarmupTime, MeasureTime

\* A case starts in the inductive invariant.
LEMMA InitHolds == ASSUME Init PROVE IInv
BY TimeType, CaseAssumption
   DEF Init, IInv, TypeOK, ClockInv, OrderInv, SampleInv, LostInv, ClosingInv, DiskInv,
       MeasurementNeverShort, Marks, Boundaries, Statements, Ends, PastOnline, PastWarmupStart,
       PastWarmup, PastQueryStart, PastCpuStart, PastQueryEnd, PastCpuEnd, PastProfile,
       PastRestore, PastDisconnect

\* The place of the controller, its clock and its verdict.
LEMMA PlaceStep == ASSUME TypeOK, [Next]_vars PROVE PlaceOK'
<1> USE CaseAssumption DEF TypeOK, PlaceOK, Statements, Ends, Take, At, Raise, worldVars,
         recordVars, closingVars, Running
<1>1. CASE RootDies \/ PidReused \/ BotEnds \/ BotProgress \/ Killed
  BY <1>1 DEF RootDies, PidReused, BotEnds, BotProgress, Killed
<1>2. CASE StartBots \/ WarmupStart \/ WarmupPoll \/ WarmupEnd
  BY <1>2 DEF StartBots, WarmupStart, WarmupPoll, Poll, WarmupDeadline, WarmupEnd
<1>3. CASE QueryStart \/ CpuStart \/ StartProfiler \/ MeasurePoll
  BY <1>3 DEF QueryStart, Query, CpuStart, StartProfiler, MeasurePoll, Poll
<1>4. CASE MeasureEnd \/ QueryEnd \/ CpuEnd \/ StopProfiler
  BY <1>4 DEF MeasureEnd, MeasureDeadline, QueryEnd, Query, CpuEnd, StopProfiler
<1>5. CASE Restore \/ Disconnect \/ Shutdown \/ TickStatistics
  BY <1>5 DEF Restore, Disconnect, Shutdown, TickStatistics
<1>6. CASE UNCHANGED vars
  BY <1>6 DEF vars
<1> QED
  BY <1>1, <1>2, <1>3, <1>4, <1>5, <1>6 DEF Next, Controller, Environment

\* The processes.
LEMMA WorldStep == ASSUME TypeOK, [Next]_vars PROVE WorldOK'
<1> USE CaseAssumption DEF TypeOK, WorldOK, At, Raise, worldVars, recordVars, closingVars,
         Running
<1>1. CASE RootDies \/ PidReused
  BY <1>1 DEF RootDies, PidReused
<1>2. CASE BotEnds
  BY <1>2 DEF BotEnds
<1>3. CASE BotProgress
  BY <1>3 DEF BotProgress
<1>4. CASE Killed
  BY <1>4 DEF Killed
<1>5. CASE StartBots \/ WarmupStart \/ WarmupPoll \/ WarmupEnd
  BY <1>5 DEF StartBots, WarmupStart, WarmupPoll, Poll, WarmupDeadline, WarmupEnd
<1>6. CASE QueryStart \/ CpuStart \/ StartProfiler \/ MeasurePoll
  BY <1>6 DEF QueryStart, Query, CpuStart, StartProfiler, MeasurePoll, Poll
<1>7. CASE MeasureEnd \/ QueryEnd \/ CpuEnd \/ StopProfiler
  BY <1>7 DEF MeasureEnd, MeasureDeadline, QueryEnd, Query, CpuEnd, StopProfiler
<1>8. CASE Restore \/ Disconnect \/ Shutdown \/ TickStatistics
  BY <1>8 DEF Restore, Disconnect, Shutdown, TickStatistics
<1>9. CASE UNCHANGED vars
  BY <1>9 DEF vars
<1> QED
  BY <1>1, <1>2, <1>3, <1>4, <1>5, <1>6, <1>7, <1>8, <1>9 DEF Next, Controller,
     Environment

\* The records.
LEMMA RecordStep == ASSUME WorldOK, RecordOK, now' \in Nat, [Next]_vars PROVE RecordOK'
<1> USE DEF WorldOK, RecordOK, Marks, Boundaries, Mark, Capture, Sample, At, Raise,
         worldVars, recordVars, closingVars, Running
<1>1. CASE RootDies \/ PidReused \/ BotEnds \/ BotProgress \/ Killed
  BY <1>1 DEF RootDies, PidReused, BotEnds, BotProgress, Killed
<1>2. CASE StartBots
  BY <1>2 DEF StartBots
<1>3. CASE WarmupStart
  BY <1>3 DEF WarmupStart
<1>4. CASE WarmupPoll
  BY <1>4 DEF WarmupPoll, Poll, WarmupDeadline
<1>5. CASE WarmupEnd
  BY <1>5 DEF WarmupEnd, WarmupDeadline
<1>6. CASE QueryStart \/ QueryEnd
  BY <1>6 DEF QueryStart, Query, QueryEnd
<1>7. CASE CpuStart
  BY <1>7 DEF CpuStart
<1>8. CASE StartProfiler \/ MeasurePoll
  BY <1>8 DEF StartProfiler, MeasurePoll, Poll
<1>9. CASE MeasureEnd
  BY <1>9 DEF MeasureEnd, MeasureDeadline
<1>10. CASE CpuEnd
  BY <1>10 DEF CpuEnd
<1>11. CASE StopProfiler
  BY <1>11 DEF StopProfiler
<1>12. CASE Restore
  BY <1>12 DEF Restore
<1>13. CASE Disconnect
  BY <1>13 DEF Disconnect
<1>14. CASE Shutdown \/ TickStatistics
  BY <1>14 DEF Shutdown, TickStatistics
<1>15. CASE UNCHANGED vars
  BY <1>15 DEF vars
<1> QED
  BY <1>1, <1>2, <1>3, <1>4, <1>5, <1>6, <1>7, <1>8, <1>9, <1>10, <1>11, <1>12, <1>13,
     <1>14, <1>15 DEF Next, Controller, Environment

\* The end of a case.
LEMMA ClosingTypeStep == ASSUME TypeOK, [Next]_vars PROVE ClosingOK'
<1> USE DEF TypeOK, ClosingOK, WorkloadEvidence, Diagnostics, At, Raise, worldVars,
         recordVars, closingVars, Running
<1>1. CASE RootDies \/ PidReused \/ BotEnds \/ BotProgress \/ Killed
  BY <1>1 DEF RootDies, PidReused, BotEnds, BotProgress, Killed
<1>2. CASE StartBots \/ WarmupStart \/ WarmupPoll \/ WarmupEnd
  BY <1>2 DEF StartBots, WarmupStart, WarmupPoll, Poll, WarmupDeadline, WarmupEnd
<1>3. CASE QueryStart \/ CpuStart \/ StartProfiler \/ MeasurePoll
  BY <1>3 DEF QueryStart, Query, CpuStart, StartProfiler, MeasurePoll, Poll
<1>4. CASE MeasureEnd \/ QueryEnd \/ CpuEnd \/ StopProfiler
  BY <1>4 DEF MeasureEnd, MeasureDeadline, QueryEnd, Query, CpuEnd, StopProfiler
<1>5. CASE Restore \/ Disconnect \/ Shutdown \/ TickStatistics
  BY <1>5 DEF Restore, Disconnect, Shutdown, TickStatistics
<1>6. CASE UNCHANGED vars
  BY <1>6 DEF vars
<1> QED
  BY <1>1, <1>2, <1>3, <1>4, <1>5, <1>6 DEF Next, Controller, Environment

\* The clock goes on, and what is recorded is its new value.
LEMMA ClockStep == ASSUME TypeOK, ClockInv, [Next]_vars PROVE ClockInv'
<1> USE CaseAssumption DEF TypeOK, ClockInv, Marks, Take, Mark, Capture, At, Raise,
         worldVars, recordVars, closingVars, Running
<1>1. CASE RootDies \/ PidReused \/ BotEnds \/ BotProgress \/ Killed
  BY <1>1 DEF RootDies, PidReused, BotEnds, BotProgress, Killed
<1>2. CASE StartBots
  BY <1>2 DEF StartBots
<1>3. CASE WarmupStart
  BY <1>3 DEF WarmupStart
<1>4. CASE WarmupPoll
  BY <1>4 DEF WarmupPoll, Poll, WarmupDeadline
<1>5. CASE WarmupEnd
  BY <1>5 DEF WarmupEnd, WarmupDeadline
<1>6. CASE QueryStart \/ QueryEnd
  BY <1>6 DEF QueryStart, Query, QueryEnd
<1>7. CASE CpuStart
  BY <1>7 DEF CpuStart
<1>8. CASE StartProfiler \/ MeasurePoll
  BY <1>8 DEF StartProfiler, MeasurePoll, Poll
<1>9. CASE MeasureEnd
  BY <1>9 DEF MeasureEnd, MeasureDeadline
<1>10. CASE CpuEnd
  BY <1>10 DEF CpuEnd
<1>11. CASE StopProfiler
  BY <1>11 DEF StopProfiler
<1>12. CASE Restore
  BY <1>12 DEF Restore
<1>13. CASE Disconnect
  BY <1>13 DEF Disconnect
<1>14. CASE Shutdown \/ TickStatistics
  BY <1>14 DEF Shutdown, TickStatistics
<1>15. CASE UNCHANGED vars
  BY <1>15 DEF vars
<1> QED
  BY <1>1, <1>2, <1>3, <1>4, <1>5, <1>6, <1>7, <1>8, <1>9, <1>10, <1>11, <1>12, <1>13,
     <1>14, <1>15 DEF Next, Controller, Environment

\* The order of the time stamps.
LEMMA OrderStep == ASSUME TypeOK, ClockInv, OrderInv, [Next]_vars PROVE OrderInv'
<1> USE TimeType, CaseAssumption DEF TypeOK, ClockInv, OrderInv, Marks, Statements, Ends,
         WarmupTime, MeasureTime, Take, Mark, Capture, PastOnline, PastWarmupStart,
         PastWarmup, PastQueryStart, PastCpuStart, PastQueryEnd, PastCpuEnd, PastProfile,
         PastRestore, PastDisconnect, At, Raise, worldVars, recordVars, closingVars,
         Running
<1>1. CASE RootDies \/ PidReused \/ BotEnds \/ BotProgress \/ Killed
  BY <1>1 DEF RootDies, PidReused, BotEnds, BotProgress, Killed
<1>2. CASE StartBots
  BY <1>2 DEF StartBots
<1>3. CASE WarmupStart
  BY <1>3 DEF WarmupStart
<1>4. CASE WarmupPoll
  BY <1>4 DEF WarmupPoll, Poll, WarmupDeadline
<1>5. CASE WarmupEnd
  BY <1>5 DEF WarmupEnd, WarmupDeadline
<1>6. CASE QueryStart \/ QueryEnd
  BY <1>6 DEF QueryStart, Query, QueryEnd
<1>7. CASE CpuStart
  BY <1>7 DEF CpuStart
<1>8. CASE StartProfiler \/ MeasurePoll
  BY <1>8 DEF StartProfiler, MeasurePoll, Poll
<1>9. CASE MeasureEnd
  BY <1>9 DEF MeasureEnd, MeasureDeadline
<1>10. CASE CpuEnd
  BY <1>10 DEF CpuEnd
<1>11. CASE StopProfiler
  BY <1>11 DEF StopProfiler
<1>12. CASE Restore
  BY <1>12 DEF Restore
<1>13. CASE Disconnect
  BY <1>13 DEF Disconnect
<1>14. CASE Shutdown \/ TickStatistics
  BY <1>14 DEF Shutdown, TickStatistics
<1>15. CASE UNCHANGED vars
  BY <1>15 DEF vars
<1> QED
  BY <1>1, <1>2, <1>3, <1>4, <1>5, <1>6, <1>7, <1>8, <1>9, <1>10, <1>11, <1>12, <1>13,
     <1>14, <1>15 DEF Next, Controller, Environment

\* The samples: a poll takes one, and the warm-up has time for a poll.
LEMMA SampleStep == ASSUME TypeOK, ClockInv, SampleInv, [Next]_vars PROVE SampleInv'
<1> USE TimeType DEF TypeOK, ClockInv, SampleInv, WarmupTime, Marks, Take, Mark, Capture,
         Sample, Verifies, PastOnline, PastWarmupStart, PastWarmup, PastQueryStart,
         PastCpuStart, PastQueryEnd, PastCpuEnd, PastProfile, PastRestore, PastDisconnect,
         At, Raise, worldVars, recordVars, closingVars, Running
<1>1. CASE RootDies \/ PidReused \/ BotEnds \/ BotProgress \/ Killed
  BY <1>1 DEF RootDies, PidReused, BotEnds, BotProgress, Killed
<1>2. CASE StartBots
  BY <1>2 DEF StartBots
<1>3. CASE WarmupStart
  BY <1>3 DEF WarmupStart
<1>4. CASE WarmupPoll
  BY <1>4 DEF WarmupPoll, Poll, WarmupDeadline
<1>5. CASE WarmupEnd
  BY <1>5 DEF WarmupEnd, WarmupDeadline
<1>6. CASE QueryStart \/ QueryEnd
  BY <1>6 DEF QueryStart, Query, QueryEnd
<1>7. CASE CpuStart
  BY <1>7 DEF CpuStart
<1>8. CASE StartProfiler \/ MeasurePoll
  BY <1>8 DEF StartProfiler, MeasurePoll, Poll
<1>9. CASE MeasureEnd
  BY <1>9 DEF MeasureEnd, MeasureDeadline
<1>10. CASE CpuEnd
  BY <1>10 DEF CpuEnd
<1>11. CASE StopProfiler
  BY <1>11 DEF StopProfiler
<1>12. CASE Restore
  BY <1>12 DEF Restore
<1>13. CASE Disconnect
  BY <1>13 DEF Disconnect
<1>14. CASE Shutdown \/ TickStatistics
  BY <1>14 DEF Shutdown, TickStatistics
<1>15. CASE UNCHANGED vars
  BY <1>15 DEF vars
<1> QED
  BY <1>1, <1>2, <1>3, <1>4, <1>5, <1>6, <1>7, <1>8, <1>9, <1>10, <1>11, <1>12, <1>13,
     <1>14, <1>15 DEF Next, Controller, Environment

\* The dead.
LEMMA LostStep == ASSUME TypeOK, OrderInv, ClosingInv, LostInv, [Next]_vars PROVE LostInv'
<1> USE DEF TypeOK, Marks, LostInv, OrderInv, ClosingInv, Statements, Ends, Verifies, PastOnline,
         PastWarmupStart, PastWarmup, PastQueryStart, PastCpuStart, PastQueryEnd,
         PastCpuEnd, PastProfile, PastRestore, PastDisconnect, At, Raise, worldVars,
         recordVars, closingVars, Running
<1>1. CASE RootDies \/ PidReused
  BY <1>1 DEF RootDies, PidReused
<1>2. CASE BotEnds
  BY <1>2 DEF BotEnds
<1>3. CASE BotProgress
  BY <1>3 DEF BotProgress
<1>4. CASE Killed
  BY <1>4 DEF Killed
<1>5. CASE StartBots
  BY <1>5 DEF StartBots
<1>6. CASE WarmupStart
  BY <1>6 DEF WarmupStart
<1>7. CASE WarmupPoll
  BY <1>7 DEF WarmupPoll, Poll, WarmupDeadline
<1>8. CASE WarmupEnd
  BY <1>8 DEF WarmupEnd, WarmupDeadline
<1>9. CASE QueryStart \/ QueryEnd
  BY <1>9 DEF QueryStart, Query, QueryEnd
<1>10. CASE CpuStart
  BY <1>10 DEF CpuStart
<1>11. CASE StartProfiler \/ MeasurePoll
  BY <1>11 DEF StartProfiler, MeasurePoll, Poll
<1>12. CASE MeasureEnd
  BY <1>12 DEF MeasureEnd, MeasureDeadline
<1>13. CASE CpuEnd
  BY <1>13 DEF CpuEnd
<1>14. CASE StopProfiler
  BY <1>14 DEF StopProfiler
<1>15. CASE Restore
  BY <1>15 DEF Restore
<1>16. CASE Disconnect
  BY <1>16 DEF Disconnect
<1>17. CASE Shutdown \/ TickStatistics
  BY <1>17 DEF Shutdown, TickStatistics
<1>18. CASE UNCHANGED vars
  BY <1>18 DEF vars
<1> QED
  BY <1>1, <1>2, <1>3, <1>4, <1>5, <1>6, <1>7, <1>8, <1>9, <1>10, <1>11, <1>12, <1>13,
     <1>14, <1>15, <1>16, <1>17, <1>18 DEF Next, Controller, Environment

\* The rest of a passed case.
LEMMA ClosingStep == ASSUME TypeOK, ClosingInv, [Next]_vars PROVE ClosingInv'
<1> USE DEF TypeOK, ClosingInv, DeltasOK, Diagnostics, PastOnline, PastWarmupStart,
         PastWarmup, PastQueryStart, PastCpuStart, PastQueryEnd, PastCpuEnd, PastProfile,
         PastRestore, PastDisconnect, At, Raise, worldVars, recordVars, closingVars,
         Running
<1>1. CASE RootDies \/ PidReused \/ BotEnds \/ BotProgress \/ Killed
  BY <1>1 DEF RootDies, PidReused, BotEnds, BotProgress, Killed
<1>2. CASE StartBots \/ WarmupStart \/ WarmupPoll \/ WarmupEnd
  BY <1>2 DEF StartBots, WarmupStart, WarmupPoll, Poll, WarmupDeadline, WarmupEnd
<1>3. CASE QueryStart \/ CpuStart \/ StartProfiler \/ MeasurePoll
  BY <1>3 DEF QueryStart, Query, CpuStart, StartProfiler, MeasurePoll, Poll
<1>4. CASE MeasureEnd \/ QueryEnd \/ CpuEnd \/ StopProfiler
  BY <1>4 DEF MeasureEnd, MeasureDeadline, QueryEnd, Query, CpuEnd, StopProfiler
<1>5. CASE Restore \/ Disconnect \/ Shutdown \/ TickStatistics
  BY <1>5 DEF Restore, Disconnect, Shutdown, TickStatistics
<1>6. CASE UNCHANGED vars
  BY <1>6 DEF vars
<1> QED
  BY <1>1, <1>2, <1>3, <1>4, <1>5, <1>6 DEF Next, Controller, Environment

\* The result file.
LEMMA DiskStep == ASSUME TypeOK, DiskInv, [Next]_vars PROVE DiskInv'
<1> USE DEF TypeOK, DiskInv, Ends, At, Raise, worldVars, recordVars, closingVars, Running
<1>1. CASE RootDies \/ PidReused \/ BotEnds \/ BotProgress \/ Killed
  BY <1>1 DEF RootDies, PidReused, BotEnds, BotProgress, Killed
<1>2. CASE StartBots \/ WarmupStart \/ WarmupPoll \/ WarmupEnd
  BY <1>2 DEF StartBots, WarmupStart, WarmupPoll, Poll, WarmupDeadline, WarmupEnd
<1>3. CASE QueryStart \/ CpuStart \/ StartProfiler \/ MeasurePoll
  BY <1>3 DEF QueryStart, Query, CpuStart, StartProfiler, MeasurePoll, Poll
<1>4. CASE MeasureEnd \/ QueryEnd \/ CpuEnd \/ StopProfiler
  BY <1>4 DEF MeasureEnd, MeasureDeadline, QueryEnd, Query, CpuEnd, StopProfiler
<1>5. CASE Restore \/ Disconnect \/ Shutdown \/ TickStatistics
  BY <1>5 DEF Restore, Disconnect, Shutdown, TickStatistics
<1>6. CASE UNCHANGED vars
  BY <1>6 DEF vars
<1> QED
  BY <1>1, <1>2, <1>3, <1>4, <1>5, <1>6 DEF Next, Controller, Environment

\* The length of the measurement.
LEMMA ShortStep ==
  ASSUME TypeOK, ClockInv, OrderInv, MeasurementNeverShort, [Next]_vars
  PROVE  MeasurementNeverShort'
<1> USE CaseAssumption DEF TypeOK, OrderInv, MeasurementNeverShort, Window, MeasureTime,
         Marks, Statements, Ends, Take, Mark, Capture, PastOnline, PastWarmupStart,
         PastWarmup, PastQueryStart, PastCpuStart, PastQueryEnd, PastCpuEnd, PastProfile,
         PastRestore, PastDisconnect, At, Raise, worldVars, recordVars, closingVars,
         Running
<1>1. CASE RootDies \/ PidReused \/ BotEnds \/ BotProgress \/ Killed
  BY <1>1 DEF RootDies, PidReused, BotEnds, BotProgress, Killed
<1>2. CASE StartBots
  BY <1>2 DEF StartBots
<1>3. CASE WarmupStart
  BY <1>3 DEF WarmupStart
<1>4. CASE WarmupPoll
  BY <1>4 DEF WarmupPoll, Poll, WarmupDeadline
<1>5. CASE WarmupEnd
  BY <1>5 DEF WarmupEnd, WarmupDeadline
<1>6. CASE QueryStart \/ QueryEnd
  BY <1>6 DEF QueryStart, Query, QueryEnd
<1>7. CASE CpuStart
  BY <1>7 DEF CpuStart
<1>8. CASE StartProfiler \/ MeasurePoll
  BY <1>8 DEF StartProfiler, MeasurePoll, Poll
<1>9. CASE MeasureEnd
  BY <1>9 DEF MeasureEnd, MeasureDeadline
<1>10. CASE CpuEnd
  BY <1>10 DEF CpuEnd
<1>11. CASE StopProfiler
  BY <1>11 DEF StopProfiler
<1>12. CASE Restore
  BY <1>12 DEF Restore
<1>13. CASE Disconnect
  BY <1>13 DEF Disconnect
<1>14. CASE Shutdown \/ TickStatistics
  BY <1>14 DEF Shutdown, TickStatistics
<1>15. CASE UNCHANGED vars
  BY <1>15 DEF vars
<1> QED
  BY <1>1, <1>2, <1>3, <1>4, <1>5, <1>6, <1>7, <1>8, <1>9, <1>10, <1>11, <1>12, <1>13,
     <1>14, <1>15 DEF Next, Controller, Environment

\* A step keeps the type of every record.
LEMMA TypeStep == ASSUME TypeOK, [Next]_vars PROVE TypeOK'
<1>1. PlaceOK' /\ WorldOK' /\ RecordOK' /\ ClosingOK'
  BY PlaceStep, WorldStep, RecordStep, ClosingTypeStep
     DEF TypeOK, PlaceOK, WorldOK, RecordOK
<1> QED
  BY <1>1 DEF TypeOK, PlaceOK, WorldOK, RecordOK, ClosingOK

\* The invariant holds in every state of a case.
LEMMA InductiveInvariant == Spec => []IInv
<1>1. Init => IInv
  BY InitHolds
<1>2. IInv /\ [Next]_vars => IInv'
  BY TypeStep, ClockStep, OrderStep, SampleStep, LostStep, ClosingStep, DiskStep, ShortStep
     DEF IInv
<1> QED
  BY <1>1, <1>2, PTL DEF Spec

-----------------------------------------------------------------------------
(* The theorems.                                                           *)

\* Every record of a case keeps its type.
THEOREM TypeCorrect == Spec => []TypeOK
<1>1. IInv => TypeOK
  BY DEF IInv
<1> QED
  BY <1>1, InductiveInvariant, PTL

\* A recorded measurement has its full length, however slow the server and the polls were.
THEOREM MeasurementsAreLongEnough == Spec => []MeasurementNeverShort
<1>1. IInv => MeasurementNeverShort
  BY DEF IInv
<1> QED
  BY <1>1, InductiveInvariant, PTL

\* What the analyzer accepts was measured on the server that was started, under a fleet
\* that lived until the masks were given back (_cpu_snapshot, restore_process_affinity).
THEOREM AcceptedCasesAreMeasured == Spec => []AcceptedIsMeasured
<1>1. IInv => AcceptedIsMeasured
  BY DEF IInv, AcceptedIsMeasured, ValidCase, DiskInv, LostInv, TypeOK, PastCpuEnd,
         PastProfile, PastRestore, PastDisconnect
<1> QED
  BY <1>1, InductiveInvariant, PTL

\* What the controller passes the analyzer accepts, but for the three things that only the
\* analyzer looks at.
THEOREM PassedCasesAreAccepted == Spec => []PassedIsAccepted
<1>1. IInv => PassedIsAccepted
  <2> SUFFICES ASSUME IInv, pc = "passed", shutdown = "graceful",
                      Window <= (Measure + 3) * Second,
                      marks["measurement_start"] - marks["tick_start"] <= 5 * Second,
                      marks["measurement_end"] - marks["tick_end"] <= 5 * Second
               PROVE  ValidCase
    BY DEF PassedIsAccepted
  <2> USE DEF IInv, PastOnline, PastWarmupStart, PastWarmup, PastQueryStart, PastCpuStart,
              PastQueryEnd, PastCpuEnd, PastProfile, PastRestore, PastDisconnect
  <2>1. marks \in [Marks -> Nat] /\ OrderInv
    BY DEF TypeOK
  <2>2. WindowOK
    <3>1. /\ marks["warmup_start"] + WarmupTime <= marks["warmup_end"]
          /\ marks["online"] > 0 /\ marks["online"] < marks["warmup_start"]
          /\ marks["warmup_end"] < marks["tick_start"]
          /\ marks["tick_start"] < marks["measurement_start"]
          /\ marks["measurement_start"] < marks["tick_end"]
          /\ marks["tick_end"] < marks["measurement_end"]
      BY <2>1 DEF OrderInv
    <3>2. Window >= MeasureTime
      BY <3>1, <2>1 DEF MeasurementNeverShort, MeasureTime, Marks
    <3>3. (Warmup - 1) * Second = WarmupTime - Second /\ (Measure - 1) * Second = MeasureTime - Second
      BY CaseAssumption DEF WarmupTime, MeasureTime
    <3> QED
      BY <2>1, <3>1, <3>2, <3>3, TimeType, CaseAssumption DEF WindowOK, Window, Marks
  <2>3. RootIdentified /\ SamplesOK /\ RestorationOK /\ FleetOK /\ ProfileOK /\ CountersOK
    BY DEF RootIdentified, SamplesOK, RestorationOK, FleetOK, ProfileOK, CountersOK, SampleInv,
           ClosingInv
  <2>4. BoundariesOK
    <3>1. /\ marks["online"] < marks["warmup_start"]
          /\ marks["warmup_start"] < marks["warmup_end"]
          /\ marks["warmup_end"] < marks["measurement_start"]
          /\ marks["measurement_start"] < marks["measurement_end"]
          /\ marks["measurement_end"] < marks["before_disconnect"]
      BY <2>1, TimeType DEF OrderInv, Marks
    <3> QED
      BY <3>1 DEF BoundariesOK
  <2> QED
    BY <2>2, <2>3, <2>4 DEF ValidCase, DiskInv
<1> QED
  BY <1>1, InductiveInvariant, PTL
=============================================================================
