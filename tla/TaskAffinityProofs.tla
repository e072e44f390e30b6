------------------------- MODULE TaskAffinityProofs -------------------------
(***************************************************************************)
(* What TaskAffinity promises, for every set of threads, every set of      *)
(* masks and every number of rounds: the types, the soundness of the       *)
(* snapshot, of the pin and of the restoration.                            *)
(***************************************************************************)
EXTENDS TaskAffinity, TLAPS

\* Where a complete snapshot is there.
AfterCapture ==
  {"pin_process", "pin_list", "pin_visit", "pin_final", "pinned", "pin_failed",
   "restore_process", "restore_list", "restore_visit", "restore_verify", "restore_final",
   "restored", "restore_failed"}

\* No mask has been changed since the snapshot began.
Untouched == {"capture_list", "capture_visit", "pin_process"}

\* The dictionaries know used thread ids only, and the snapshot never loses an entry: what
\* the pin adds to it is the process affinity.
DictionariesInv ==
  /\ Keys(captured) \subseteq born
  /\ Keys(original) \subseteq born
  /\ pc \in AfterCapture =>
       \A t \in Tids :
         original[t] = captured[t] \/ (captured[t] = NoMask /\ original[t] = process_affinity)

\* Until the first mask is set, the captured masks are the current ones.
CaptureInv ==
  pc \in Untouched => \A t \in live : t \in Keys(captured) => mask[t] = captured[t]

\* The listed threads a round of the pin has visited are pinned; a stable round has
\* visited all threads, and a new thread takes the mask of a pinned one.
PinInv ==
  /\ pc = "pin_visit" => \A t \in live : t \in tids \ todo => mask[t] = Pin
  /\ pc \in {"pin_final", "pinned"} => \A t \in live : mask[t] = Pin

\* A thread that was read as restored still is when the survivors are counted.
FinalInv == pc = "restore_final" => \A t \in live : t \in observed => mask[t] = Target(t)

\* The inductive invariant.
IInv ==
  /\ TypeOK
  /\ DictionariesInv
  /\ CaptureInv
  /\ BaselineSound
  /\ PinInv
  /\ FinalInv
  /\ RestoreSound

---------------------------------------------------------------------------

\* The initial states satisfy the inductive invariant.
LEMMA InitIInv == Init => IInv
<1> SUFFICES ASSUME Init PROVE IInv
  OBVIOUS
<1> USE TaskAffinityAssumption
<1>1. TypeOK
  BY DEF Init, TypeOK, Dictionary, PcLabels
<1>2. DictionariesInv /\ CaptureInv /\ BaselineSound /\ PinInv /\ FinalInv /\ RestoreSound
  BY DEF Init, DictionariesInv, CaptureInv, BaselineSound, PinInv, FinalInv, RestoreSound,
         Keys, AfterCapture, Untouched
<1> QED
  BY <1>1, <1>2 DEF IInv

\* A new thread has the mask of a live one and an id no dictionary knows.
LEMMA SpawnIInv == ASSUME IInv, NEW t \in Tids, NEW u \in Tids, Spawn(t, u) PROVE IInv'
<1> USE TaskAffinityAssumption DEF Spawn, baseVars, roundVars
<1>1. TypeOK'
  BY DEF IInv, TypeOK
<1>2. DictionariesInv'
  BY DEF IInv, DictionariesInv, Keys
<1>3. \A x \in live' : x = u \/ (x \in live /\ mask'[x] = mask[x])
  BY DEF IInv, TypeOK
<1>4. u \notin Keys(captured) /\ u \notin Keys(original) /\ u \notin observed /\ u \notin tids
      /\ u \notin live
  BY DEF IInv, TypeOK, DictionariesInv
<1>5. mask'[u] = mask[t] /\ t \in live
  BY DEF IInv, TypeOK
<1>6. Keys(captured)' = Keys(captured) /\ Keys(original)' = Keys(original)
      /\ BaselineMasks' = BaselineMasks /\ \A x \in Tids : Target(x)' = Target(x)
  BY DEF Keys, BaselineMasks, Target
<1>7. CaptureInv' /\ BaselineSound' /\ PinInv' /\ FinalInv' /\ RestoreSound'
  BY <1>3, <1>4, <1>5, <1>6
     DEF IInv, TypeOK, CaptureInv, BaselineSound, PinInv, FinalInv, RestoreSound
<1> QED
  BY <1>1, <1>2, <1>7 DEF IInv

\* Every statement about live threads holds of fewer threads too.
LEMMA ExitIInv ==
  ASSUME IInv, live' \subseteq live, UNCHANGED <<born, mask, baseVars, roundVars, pc>>
  PROVE  IInv'
<1> USE DEF baseVars, roundVars
<1>1. TypeOK' /\ DictionariesInv'
  BY DEF IInv, TypeOK, DictionariesInv, Keys
<1>2. CaptureInv' /\ BaselineSound' /\ PinInv' /\ FinalInv' /\ RestoreSound'
  BY DEF IInv, TypeOK, CaptureInv, BaselineSound, PinInv, FinalInv, RestoreSound, Keys,
         BaselineMasks, Target
<1> QED
  BY <1>1, <1>2 DEF IInv

---------------------------------------------------------------------------
(* The controller's steps.                                                 *)

\* Leave and Fail keep what they do not name.
LEMMA FailIInv ==
  ASSUME IInv, NEW where \in {"capture_failed", "pin_failed", "restore_failed"}, Fail(where),
         where # "capture_failed" => pc \in AfterCapture
  PROVE  IInv'
<1> USE TaskAffinityAssumption DEF Fail, Leave, kernelVars, baseVars
<1>1. TypeOK'
  BY DEF IInv, TypeOK, PcLabels, AfterCapture
<1>2. DictionariesInv'
  BY DEF IInv, DictionariesInv, Keys, AfterCapture
<1>3. CaptureInv' /\ BaselineSound' /\ PinInv' /\ FinalInv' /\ RestoreSound'
  BY DEF CaptureInv, BaselineSound, PinInv, FinalInv, RestoreSound, Untouched
<1> QED
  BY <1>1, <1>2, <1>3 DEF IInv

\* Capturing keeps the invariant: an entry is the mask its thread has, and a stable listing
\* leaves no thread out.
LEMMA CaptureIInv == ASSUME IInv, CaptureProcess \/ CaptureStep PROVE IInv'
<1> USE TaskAffinityAssumption DEF Keys
<1>1. CASE CaptureProcess
  <2> USE <1>1 DEF CaptureProcess, kernelVars, roundVars
  <2>1. TypeOK'
    BY DEF IInv, TypeOK, Dictionary, PcLabels
  <2>2. DictionariesInv' /\ CaptureInv'
    BY DEF IInv, TypeOK, DictionariesInv, CaptureInv, AfterCapture, Untouched, Dictionary
  <2>3. BaselineSound' /\ PinInv' /\ FinalInv' /\ RestoreSound'
    BY DEF BaselineSound, PinInv, FinalInv, RestoreSound
  <2> QED
    BY <2>1, <2>2, <2>3 DEF IInv
<1>2. CASE CaptureList
  <2> USE <1>2 DEF CaptureList, List, kernelVars, baseVars
  <2>1. TypeOK'
    BY DEF IInv, TypeOK, PcLabels
  <2>2. DictionariesInv' /\ CaptureInv'
    BY DEF IInv, TypeOK, DictionariesInv, CaptureInv, AfterCapture, Untouched
  <2>3. BaselineSound' /\ PinInv' /\ FinalInv' /\ RestoreSound'
    BY DEF BaselineSound, PinInv, FinalInv, RestoreSound
  <2> QED
    BY <2>1, <2>2, <2>3 DEF IInv
<1>3. ASSUME NEW t \in Tids, CaptureVisit(t) PROVE IInv'
  <2> USE <1>3 DEF CaptureVisit, kernelVars
  <2>1. TypeOK'
    BY DEF IInv, TypeOK, Dictionary
  <2>2. DictionariesInv' /\ CaptureInv'
    BY DEF IInv, TypeOK, DictionariesInv, CaptureInv, AfterCapture, Untouched, Dictionary
  <2>3. BaselineSound' /\ PinInv' /\ FinalInv' /\ RestoreSound'
    BY DEF BaselineSound, PinInv, FinalInv, RestoreSound
  <2> QED
    BY <2>1, <2>2, <2>3 DEF IInv
<1>4. CASE CaptureCheck
  <2>1. CASE live \subseteq Keys(captured)
    <3> USE <1>4, <2>1 DEF CaptureCheck, Leave, kernelVars
    <3>1. \A t \in live : captured'[t] = captured[t] /\ captured[t] # NoMask
      BY DEF IInv, TypeOK
    <3>2. TypeOK'
      BY DEF IInv, TypeOK, Dictionary, PcLabels
    <3>3. DictionariesInv' /\ CaptureInv'
      BY DEF IInv, TypeOK, DictionariesInv, CaptureInv, Untouched, Dictionary
    <3>4. BaselineSound'
      <4> SUFFICES ASSUME NEW t \in live'
                   PROVE  mask'[t] = captured'[t] /\ t \in Tids /\ captured'[t] # NoMask
        BY DEF BaselineSound, BaselineMasks
      <4> QED
        BY <3>1 DEF IInv, TypeOK, CaptureInv, Untouched
    <3>5. PinInv' /\ FinalInv' /\ RestoreSound'
      BY DEF PinInv, FinalInv, RestoreSound
    <3> QED
      BY <3>2, <3>3, <3>4, <3>5 DEF IInv
  <2>2. CASE ~(live \subseteq Keys(captured))
    <3> USE <1>4, <2>2 DEF CaptureCheck, kernelVars, roundVars
    <3>1. TypeOK'
      BY DEF IInv, TypeOK, PcLabels
    <3>2. DictionariesInv' /\ CaptureInv'
      BY DEF IInv, DictionariesInv, CaptureInv, AfterCapture, Untouched
    <3>3. BaselineSound' /\ PinInv' /\ FinalInv' /\ RestoreSound'
      BY DEF BaselineSound, PinInv, FinalInv, RestoreSound
    <3> QED
      BY <3>1, <3>2, <3>3 DEF IInv
  <2> QED
    BY <2>1, <2>2
<1>5. CASE CaptureFail
  BY <1>5, FailIInv DEF CaptureFail
<1> QED
  BY <1>1, <1>2, <1>3, <1>4, <1>5 DEF CaptureStep

\* Pinning keeps the invariant: a visited thread is pinned and only pinned threads spawn
\* into a round that turns out to be stable.
LEMMA PinIInv == ASSUME IInv, PinStep PROVE IInv'
<1> USE TaskAffinityAssumption DEF Keys
<1>1. CASE PinProcess
  <2> USE <1>1 DEF PinProcess, baseVars, roundVars
  <2>1. TypeOK' /\ DictionariesInv'
    BY DEF IInv, TypeOK, DictionariesInv, PcLabels, AfterCapture
  <2>2. CaptureInv' /\ BaselineSound' /\ PinInv' /\ FinalInv' /\ RestoreSound'
    BY DEF CaptureInv, BaselineSound, PinInv, FinalInv, RestoreSound, Untouched
  <2> QED
    BY <2>1, <2>2 DEF IInv
<1>2. CASE PinList
  <2> USE <1>2 DEF PinList, List, kernelVars, baseVars
  <2>1. TypeOK' /\ DictionariesInv'
    BY DEF IInv, TypeOK, DictionariesInv, PcLabels, AfterCapture
  <2>2. CaptureInv' /\ BaselineSound' /\ PinInv' /\ FinalInv' /\ RestoreSound'
    BY DEF CaptureInv, BaselineSound, PinInv, FinalInv, RestoreSound, Untouched
  <2> QED
    BY <2>1, <2>2 DEF IInv
<1>3. ASSUME NEW t \in Tids, PinVisit(t) PROVE IInv'
  <2> USE <1>3 DEF PinVisit
  <2>1. TypeOK'
    BY DEF IInv, TypeOK, Dictionary
  <2>2. DictionariesInv'
    BY DEF IInv, TypeOK, DictionariesInv, Dictionary, AfterCapture
  <2>3. CaptureInv' /\ BaselineSound' /\ PinInv' /\ FinalInv' /\ RestoreSound'
    BY DEF IInv, TypeOK, CaptureInv, BaselineSound, PinInv, FinalInv, RestoreSound, Untouched
  <2> QED
    BY <2>1, <2>2, <2>3 DEF IInv
<1>4. CASE PinCheck
  <2> USE <1>4 DEF PinCheck, Newcomers, kernelVars, baseVars, roundVars
  <2>1. TypeOK' /\ DictionariesInv'
    BY DEF IInv, TypeOK, DictionariesInv, PcLabels, AfterCapture
  <2>2. CaptureInv' /\ BaselineSound' /\ PinInv' /\ FinalInv' /\ RestoreSound'
    BY DEF IInv, TypeOK, CaptureInv, BaselineSound, PinInv, FinalInv, RestoreSound, Untouched
  <2> QED
    BY <2>1, <2>2 DEF IInv
<1>5. CASE PinFinal
  <2> USE <1>5 DEF PinFinal, Leave, kernelVars, baseVars
  <2>1. TypeOK' /\ DictionariesInv'
    BY DEF IInv, TypeOK, DictionariesInv, PcLabels, AfterCapture
  <2>2. CaptureInv' /\ BaselineSound' /\ PinInv' /\ FinalInv' /\ RestoreSound'
    BY DEF IInv, CaptureInv, BaselineSound, PinInv, FinalInv, RestoreSound, Untouched
  <2> QED
    BY <2>1, <2>2 DEF IInv
<1>6. CASE PinFail
  BY <1>6, FailIInv DEF PinFail, AfterCapture
<1> QED
  BY <1>1, <1>2, <1>3, <1>4, <1>5, <1>6 DEF PinStep

\* Restoring keeps the invariant: nothing but the kernel's masks and the bookkeeping of the
\* rounds changes, and the last pass only reads.
LEMMA RestoreIInv == ASSUME IInv, Restore \/ RestoreStep PROVE IInv'
<1> USE TaskAffinityAssumption DEF Keys
<1>1. CASE Restore \/ RestoreProcess \/ RestoreList \/ RestoreCheck
  <2> USE <1>1 DEF Restore, RestoreProcess, RestoreList, RestoreCheck, List, Newcomers,
                   kernelVars, baseVars, roundVars
  <2>1. TypeOK'
    BY DEF IInv, TypeOK, PcLabels
  <2>2. DictionariesInv'
    BY DEF IInv, DictionariesInv, AfterCapture
  <2>3. CaptureInv' /\ BaselineSound' /\ PinInv' /\ FinalInv' /\ RestoreSound'
    BY DEF CaptureInv, BaselineSound, PinInv, FinalInv, RestoreSound, Untouched
  <2> QED
    BY <2>1, <2>2, <2>3 DEF IInv
<1>2. ASSUME NEW t \in Tids, RestoreVisit(t) PROVE IInv'
  <2> USE <1>2 DEF RestoreVisit, baseVars
  <2>1. Target(t) \in Masks
    BY DEF IInv, TypeOK, Dictionary, Target
  <2>2. TypeOK'
    BY <2>1 DEF IInv, TypeOK
  <2>3. DictionariesInv'
    BY DEF IInv, DictionariesInv, AfterCapture
  <2>4. CaptureInv' /\ BaselineSound' /\ PinInv' /\ FinalInv' /\ RestoreSound'
    BY DEF CaptureInv, BaselineSound, PinInv, FinalInv, RestoreSound, Untouched
  <2> QED
    BY <2>2, <2>3, <2>4 DEF IInv
<1>3. CASE RestoreVerify
  <2> USE <1>3 DEF RestoreVerify, List, kernelVars, baseVars
  <2>1. TypeOK' /\ DictionariesInv'
    BY DEF IInv, TypeOK, DictionariesInv, PcLabels, AfterCapture
  <2>2. CaptureInv' /\ BaselineSound' /\ PinInv' /\ FinalInv' /\ RestoreSound'
    BY DEF CaptureInv, BaselineSound, PinInv, FinalInv, RestoreSound, Untouched
  <2> QED
    BY <2>1, <2>2 DEF IInv
<1>4. ASSUME NEW t \in Tids, RestoreFinalVisit(t) PROVE IInv'
  <2> USE <1>4 DEF RestoreFinalVisit, kernelVars, baseVars
  <2>1. TypeOK' /\ DictionariesInv'
    BY DEF IInv, TypeOK, DictionariesInv, AfterCapture
  <2>2. FinalInv'
    BY DEF IInv, FinalInv, Target
  <2>3. CaptureInv' /\ BaselineSound' /\ PinInv' /\ RestoreSound'
    BY DEF CaptureInv, BaselineSound, PinInv, RestoreSound, Untouched
  <2> QED
    BY <2>1, <2>2, <2>3 DEF IInv
<1>5. CASE RestoreSurviving
  <2> USE <1>5 DEF RestoreSurviving, Leave, kernelVars, baseVars
  <2>1. TypeOK' /\ DictionariesInv'
    BY DEF IInv, TypeOK, DictionariesInv, PcLabels, AfterCapture
  <2>2. RestoreSound'
    <3> SUFFICES ASSUME SurvivorsRestored, NEW t \in live
                 PROVE  /\ mask[t] \in BaselineMasks
                        /\ t \in Keys(captured) => mask[t] = captured[t]
      BY DEF RestoreSound, BaselineMasks
    <3>1. mask[t] = Target(t) /\ t \in Tids
      BY DEF IInv, TypeOK, FinalInv, SurvivorsRestored
    <3>2. original[t] = captured[t] \/ (captured[t] = NoMask /\ original[t] = process_affinity)
      BY <3>1 DEF IInv, DictionariesInv, AfterCapture
    <3> QED
      BY <3>1, <3>2 DEF Target, BaselineMasks
  <2>3. CaptureInv' /\ BaselineSound' /\ PinInv' /\ FinalInv'
    BY DEF CaptureInv, BaselineSound, PinInv, FinalInv, Untouched
  <2> QED
    BY <2>1, <2>2, <2>3 DEF IInv
<1>6. CASE RestoreFail
  BY <1>6, FailIInv DEF RestoreFail, AfterCapture
<1> QED
  BY <1>1, <1>2, <1>3, <1>4, <1>5, <1>6 DEF RestoreStep

---------------------------------------------------------------------------
(* Theorems.                                                               *)

\* The invariant is inductive: every action of the controller and of the process, and a
\* stuttering step, keeps it.
LEMMA NextIInv == ASSUME IInv, [Next]_vars PROVE IInv'
<1>1. CASE Controller
  BY <1>1, CaptureIInv, PinIInv, RestoreIInv DEF Controller
<1>2. CASE Process
  <2>1. ASSUME NEW t \in Tids, NEW u \in Tids, Spawn(t, u) PROVE IInv'
    BY <2>1, SpawnIInv
  <2>2. ASSUME NEW t \in Tids, ThreadExit(t) PROVE IInv'
    BY <2>2, ExitIInv DEF ThreadExit
  <2>3. ASSUME ProcessExit PROVE IInv'
    BY <2>3, ExitIInv DEF ProcessExit
  <2> QED
    BY <1>2, <2>1, <2>2, <2>3 DEF Process
<1>3. CASE NotMeasured \/ UNCHANGED vars
  BY <1>3, ExitIInv DEF NotMeasured, vars, kernelVars
<1> QED
  BY <1>1, <1>2, <1>3 DEF Next

\* The inductive invariant holds in every behaviour.
THEOREM Inductive == Spec => []IInv
<1>1. Init => IInv
  BY InitIInv
<1>2. IInv /\ [Next]_vars => IInv'
  BY NextIInv
<1> QED
  BY <1>1, <1>2, PTL DEF Spec

\* Every variable of a measurement keeps its type, however many threads and rounds.
THEOREM TypeCorrect == Spec => []TypeOK
<1>1. IInv => TypeOK
  BY DEF IInv
<1> QED
  BY <1>1, Inductive, PTL

\* The snapshot a measurement starts from describes the process (capture_task_affinity).
THEOREM BaselineIsSound == Spec => []BaselineSound
<1>1. IInv => BaselineSound
  BY DEF IInv
<1> QED
  BY <1>1, Inductive, PTL

\* A successful pin covers every thread there is and will be
\* (pin_and_verify_task_affinity).
THEOREM PinIsSound == Spec => []PinSound
<1>1. IInv => PinSound
  BY DEF IInv, PinInv, PinSound
<1> QED
  BY <1>1, Inductive, PTL

\* A proven restoration leaves no thread with a mask the process did not have before
\* (restore_process_affinity).
THEOREM RestorationIsSound == Spec => []RestoreSound
<1>1. IInv => RestoreSound
  BY DEF IInv
<1> QED
  BY <1>1, Inductive, PTL
=============================================================================
