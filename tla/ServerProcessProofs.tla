------------------------- MODULE ServerProcessProofs -------------------------
(***************************************************************************)
(* What ServerProcess promises on any machine, Linux or Windows, with any  *)
(* number of pids and processes: types, the processes the supervisor       *)
(* adopts, and the truth of the outcomes it reports.                       *)
(***************************************************************************)
EXTENDS ServerProcess, TLAPS

Labels == PcLabels \ {"none", "idle", "root", "descendants", "children", "records"}

\* A snapshot returns to a statement of the call that began it.
ReturnInv == pc \in {"root", "descendants", "children", "records"} => return_to \in Labels

\* Creation times are handed out once: none is larger than births.
BirthInv ==
  /\ \A p \in Pids : proc[p].birth <= births /\ managed_processes[p] <= births
  /\ \A p \in Pids : proc[p].birth = 0 => proc[p].parent = NoPid

\* The wrapper's slot.  It is occupied while the wrapper runs, and on Linux until it is
\* reaped; until then, and on Windows for the life of the handle, nobody else gets it.
WrapperInv ==
  pid \in Pids =>
    /\ returncode # "none" => WrapperExited
    /\ ~WrapperExited \/ (~Windows /\ returncode = "none") => Exists(pid)
    /\ (Windows \/ returncode = "none") /\ Exists(pid) => proc[pid].bds
    /\ ~Windows /\ returncode # "none" => ~KnownAlive(pid)

\* The parent of another program's process is another program's process.
Family ==
  \A p \in Pids :
    Exists(p) /\ ~proc[p].bds /\ proc[p].parent # NoPid =>
      Exists(proc[p].parent) /\ ~proc[proc[p].parent].bds

\* On Linux, where the children of the dead have no parent, other programs are no descendants
\* of the wrapper.
OwnInv == ~Windows => Family

\* Descendants are read from a root that cannot have been replaced, before any record.
DescendantsInv ==
  pc \in {"descendants", "children"} =>
    /\ Windows \/ returncode = "none"
    /\ root_identity_status = "verified"
    /\ \A p \in Pids : records[p] = "none"

\* The creation times that are read have been handed out.
ListBound == \A p \in Pids : children[p] <= births

\* What a record or the root status says of a dead process stays true.
DeadInv ==
  /\ \A p \in Pids : records[p] = "dead" => ~KnownAlive(p)
  /\ pid \in Pids /\ records[pid] = "dead" => WrapperExited
  /\ pid \in Pids /\ root_identity_status = "absent" => ~KnownAlive(pid) /\ WrapperExited

\* After a snapshot every adopted process, and the wrapper, has a record.
Covered(p) == managed_processes[p] # 0 \/ p = pid => records[p] # "none"

CoverInv ==
  /\ pc \in Labels => \A p \in Pids : Covered(p)
  /\ pc = "records" => \A p \in Pids : p \in todo \/ Covered(p)

\* A process tree that was found dead does not grow again.
Dead == cleanup_outcome = "clean" \/ (Windows /\ cleanup_outcome = "graceful-exit")

OutcomeInv ==
  /\ CleanupOutcomeSound
  /\ Dead => pc \notin {"descendants", "children"}
  /\ cleanup_outcome = "graceful-exit" => pc # "none"

\* Where graceful_stop is under way for a server that was not forced, and where it knows
\* that the wrapper was reaped.
Unforced == {"stop_begun", "stop_refused", "stop_already_exited", "stop_command",
             "stop_command_failed", "stop_timeout", "stop_wait", "stop_exited"}
Reaped == {"stop_already_exited", "stop_exited"}

StopInv ==
  /\ pc \in Unforced => ~forced
  /\ pc \in {"root", "descendants", "children", "records"} /\ return_to \in Unforced => ~forced
  /\ pc \in Reaped => returncode # "none"
  /\ pc \in {"root", "descendants", "children", "records"} /\ return_to \in Reaped =>
       returncode # "none"
  /\ result # "none" => pc = "idle"
  /\ GracefulSound

\* What the machine does to the process table, and the supervisor with Popen, keeps.
MachineInv == BirthInv /\ WrapperInv /\ OwnInv

\* What a snapshot under way knows.
SnapshotInv == ReturnInv /\ DescendantsInv /\ ListBound /\ DeadInv /\ CoverInv

\* The inductive invariant.
IInv == TypeOK /\ MachineInv /\ SnapshotInv /\ OutcomeInv /\ StopInv

---------------------------------------------------------------------------
(* The machine.                                                            *)

MachineTypeOK ==
  /\ proc \in [Pids -> Process]
  /\ births \in Nat
  /\ exitcode \in {"none", "zero", "nonzero"}
  /\ returncode \in {"none", "zero", "nonzero"}

\* A step that adopts nobody: no adopted process comes to life, an exit is final.
MachineStep ==
  /\ MachineTypeOK'
  /\ MachineInv'
  /\ pid' = pid
  /\ managed_processes' = managed_processes
  /\ \A p \in Pids : KnownAlive(p)' => KnownAlive(p)
  /\ WrapperExited => WrapperExited'
  /\ returncode # "none" => returncode' = returncode
  /\ births <= births'

\* Nothing happens.
LEMMA SameMachine ==
  ASSUME IInv, UNCHANGED <<osVars, pid, returncode, managed_processes>> PROVE MachineStep
BY DEF IInv, TypeOK, MachineInv, MachineTypeOK, MachineStep, osVars, BirthInv, WrapperInv,
       OwnInv, Family, KnownAlive, Exists, WrapperExited

\* poll() frees a slot at most.
LEMMA PollMachine ==
  ASSUME IInv, pid \in Pids, Poll, UNCHANGED <<births, exitcode, pid, managed_processes>>
  PROVE  MachineStep /\ (WrapperExited => returncode' # "none")
<1> USE ServerProcessAssumption DEF IInv, TypeOK, MachineInv, WrapperExited
<1>1. CASE ~(WrapperExited /\ returncode = "none")
  <2>1. UNCHANGED <<osVars, pid, returncode, managed_processes>>
    BY <1>1 DEF Poll, osVars
  <2> QED
    BY <1>1, <2>1, SameMachine
<1>2. CASE WrapperExited /\ returncode = "none"
  <2>1. /\ returncode' = exitcode
        /\ proc' = [proc EXCEPT ![pid] = Free]
    BY <1>2 DEF Poll
  <2>2. Free \in Process
    BY DEF Free, Process
  <2>3. MachineTypeOK'
    BY <1>2, <2>1, <2>2 DEF MachineTypeOK
  <2>4. \A p \in Pids : proc'[p] = IF p = pid THEN Free ELSE proc[p]
    BY <2>1
  <2>5. BirthInv'
    BY <2>4 DEF BirthInv, Free
  <2>6. /\ WrapperInv'
        /\ \A p \in Pids : KnownAlive(p)' => KnownAlive(p)
    BY <1>2, <2>1, <2>4 DEF WrapperInv, KnownAlive, Exists, Free
  <2>7. Family => Family'
    <3> SUFFICES ASSUME Family, NEW p \in Pids, Exists(p)', ~proc'[p].bds, proc'[p].parent # NoPid
                 PROVE  proc'[proc'[p].parent].birth # 0 /\ ~proc'[proc'[p].parent].bds
      BY DEF Family, Exists
    <3>1. p # pid /\ proc'[p] = proc[p]
      BY <2>4 DEF Exists, Free
    <3>2. PICK q \in Pids : q = proc[p].parent
      BY <3>1 DEF Process
    <3>3. Exists(q) /\ ~proc[q].bds
      BY <3>1, <3>2 DEF Family, Exists
    <3>4. q # pid
      BY <1>2, <3>3 DEF WrapperInv
    <3> QED
      BY <2>4, <3>1, <3>2, <3>3, <3>4 DEF Exists
  <2> QED
    BY <1>2, <2>1, <2>3, <2>5, <2>6, <2>7 DEF MachineStep, OwnInv
<1> QED
  BY <1>1, <1>2

\* Ending processes empties slots and orphans children.
LEMMA EndMachine ==
  ASSUME IInv, NEW K \in SUBSET Pids, NEW code \in {"zero", "nonzero"}, EndProcesses(K, code),
         UNCHANGED <<births, pid, returncode, managed_processes>>
  PROVE  MachineStep
<1> USE ServerProcessAssumption DEF IInv, TypeOK, MachineInv
<1>1. /\ proc' = Ended(K)
      /\ exitcode' = IF pid \in K /\ ~WrapperExited THEN code ELSE exitcode
  BY DEF EndProcesses
<1>2. \A p \in Pids :
        /\ proc'[p] \in Process
        /\ \/ proc'[p].birth = proc[p].birth /\ proc'[p].bds = proc[p].bds
           \/ proc'[p].birth = 0 /\ p \in K
        /\ proc'[p].parent = proc[p].parent \/ proc'[p].parent = NoPid
        /\ proc'[p].birth = 0 => proc'[p].parent = NoPid \/ proc[p].birth = 0
  <2> TAKE p \in Pids
  <2>1. proc[p] \in Process
    OBVIOUS
  <2>2. \/ proc'[p] = proc[p]
        \/ proc'[p] = Free /\ p \in K
        \/ proc'[p] = [proc[p] EXCEPT !.parent = NoPid]
    BY <1>1 DEF Ended
  <2>3. CASE proc'[p] = Free /\ p \in K
    <3>1. Free \in Process /\ Free.birth = 0 /\ Free.parent = NoPid
      BY DEF Free, Process
    <3> QED
      BY <2>3, <3>1
  <2>4. CASE proc'[p] = [proc[p] EXCEPT !.parent = NoPid]
    <3>1. /\ proc'[p].birth = proc[p].birth
          /\ proc'[p].bds = proc[p].bds
          /\ proc'[p].parent = NoPid
      BY <2>1, <2>4 DEF Process
    <3>2. proc'[p] \in Process
      BY <2>1, <2>4 DEF Process
    <3> QED
      BY <3>1, <3>2
  <2>5. CASE proc'[p] = proc[p]
    BY <2>1, <2>5
  <2> QED
    BY <2>2, <2>3, <2>4, <2>5
<1>3. MachineTypeOK'
  BY <1>1, <1>2 DEF MachineTypeOK, Ended
<1>4. /\ BirthInv'
      /\ \A p \in Pids : KnownAlive(p)' => KnownAlive(p)
  BY <1>2 DEF BirthInv, KnownAlive, Process
<1>5. WrapperExited => WrapperExited'
  BY <1>1 DEF WrapperExited
<1>6. WrapperInv'
  <2> SUFFICES ASSUME pid \in Pids
               PROVE  /\ returncode # "none" => WrapperExited'
                      /\ ~WrapperExited' \/ (~Windows /\ returncode = "none") => Exists(pid)'
                      /\ (Windows \/ returncode = "none") /\ Exists(pid)' => proc'[pid].bds
                      /\ ~Windows /\ returncode # "none" => ~KnownAlive(pid)'
    BY DEF WrapperInv
  <2>1. pid \in K /\ ~(~Windows /\ returncode = "none") => ~Exists(pid)' /\ WrapperExited'
    BY <1>1 DEF Ended, Free, Exists, WrapperExited
  <2>2. pid \notin K \/ (~Windows /\ returncode = "none") =>
          proc'[pid].birth = proc[pid].birth /\ proc'[pid].bds = proc[pid].bds
    BY <1>1 DEF Ended, Process
  <2>3. pid \notin K => WrapperExited' = WrapperExited
    BY <1>1 DEF WrapperExited
  <2> QED
    BY <1>4, <1>5, <2>1, <2>2, <2>3 DEF WrapperInv, Exists
<1>7. ~Windows /\ Family => Family'
  <2> SUFFICES ASSUME ~Windows, Family,
                      NEW p \in Pids, Exists(p)', ~proc'[p].bds, proc'[p].parent # NoPid
               PROVE  proc'[proc'[p].parent].birth # 0 /\ ~proc'[proc'[p].parent].bds
    BY DEF Family, Exists
  <2>1. Exists(p) /\ ~proc[p].bds /\ proc'[p].parent = proc[p].parent
    BY <1>2 DEF Exists
  <2>2. PICK q \in Pids : q = proc[p].parent
    BY <2>1 DEF Process
  <2>3. Exists(q) /\ ~proc[q].bds
    BY <2>1, <2>2 DEF Family
  <2>4. q \notin K
    <3>1. CASE p \notin K
      BY <1>1, <2>1, <2>2, <3>1 DEF Ended, Process
    <3>2. CASE p \in K
      <4>1. p = pid /\ returncode = "none"
        BY <1>1, <3>2 DEF Ended, Free, Exists
      <4> QED
        BY <2>1, <4>1 DEF WrapperInv
    <3> QED
      BY <3>1, <3>2
  <2>5. proc'[q].birth = proc[q].birth /\ proc'[q].bds = proc[q].bds
    BY <1>2, <2>4
  <2> QED
    BY <2>1, <2>2, <2>3, <2>5 DEF Exists
<1> QED
  BY <1>1, <1>3, <1>4, <1>5, <1>6, <1>7 DEF MachineStep, OwnInv

\* A new process takes an unused slot, and is not an adopted one.
LEMMA BornMachine ==
  ASSUME IInv, NEW p \in Pids, NEW b \in BOOLEAN, NEW q \in Pids \cup {NoPid}, NEW g \in Nat,
         Born(p, b, q, g), ~b => q = NoPid \/ (Exists(q) /\ ~proc[q].bds),
         UNCHANGED <<exitcode, pid, returncode, managed_processes>>
  PROVE  MachineStep
<1> USE ServerProcessAssumption DEF IInv, TypeOK, MachineInv
<1> DEFINE new == [birth |-> births + 1, bds |-> b, parent |-> q, group |-> g]
<1>1. /\ births' = births + 1
      /\ proc' = [proc EXCEPT ![p] = new]
      /\ ~Exists(p)
      /\ ~Pinned(p)
      /\ new \in Process
  BY DEF Born, Process
<1>2. MachineTypeOK'
  BY <1>1 DEF MachineTypeOK
<1>3. \A r \in Pids : proc'[r] = IF r = p THEN new ELSE proc[r]
  BY <1>1
<1>4. new.birth = births + 1 /\ new.bds = b /\ new.parent = q
  OBVIOUS
<1> HIDE DEF new
<1>5. BirthInv'
  BY <1>1, <1>3, <1>4 DEF BirthInv, Process
<1>6. \A r \in Pids : KnownAlive(r)' => KnownAlive(r)
  BY <1>1, <1>3, <1>4 DEF BirthInv, KnownAlive
<1>7. WrapperInv'
  BY <1>1, <1>3, <1>4, <1>6 DEF WrapperInv, Exists, Pinned, WrapperExited
<1>8. Family => Family'
  BY <1>1, <1>3, <1>4 DEF Family, Exists, Process
<1> QED
  BY <1>1, <1>2, <1>5, <1>6, <1>7, <1>8 DEF MachineStep, OwnInv, WrapperExited

---------------------------------------------------------------------------
(* What every step without a new record or a new adoption keeps.           *)

\* What was found dead stays dead.
LEMMA DeadKept ==
  ASSUME IInv, MachineStep, UNCHANGED <<root_identity_status, records>> PROVE DeadInv'
BY DEF IInv, SnapshotInv, DeadInv, MachineStep

\* The creation times that were read have been handed out.
LEMMA BoundKept == ASSUME IInv, MachineStep, UNCHANGED listVars PROVE ListBound'
BY DEF IInv, TypeOK, SnapshotInv, ListBound, MachineStep, MachineTypeOK, listVars

\* A reported outcome stays true.
LEMMA OutcomeKept ==
  ASSUME IInv, MachineStep, UNCHANGED cleanup_outcome PROVE CleanupOutcomeSound'
BY DEF IInv, OutcomeInv, CleanupOutcomeSound, MachineStep, KnownDead

\* A step of the machine, and a poll() between two calls, keep the invariant.
LEMMA QuietIInv ==
  ASSUME IInv, MachineStep,
         pc \in {"descendants", "children"} => returncode' = returncode,
         UNCHANGED <<forced, has_diagnostic, unverified_processes, root_identity_status,
                     process_tree_error, records, todo, listVars, stopVars, control>>
  PROVE  IInv'
<1> USE DEF listVars, stopVars, control
<1>1. TypeOK'
  BY DEF IInv, TypeOK, MachineStep, MachineTypeOK
<1>2. SnapshotInv'
  BY DeadKept, BoundKept DEF IInv, SnapshotInv, ReturnInv, DescendantsInv, CoverInv, Covered,
                            MachineStep
<1>3. OutcomeInv'
  BY OutcomeKept DEF IInv, OutcomeInv, Dead
<1>4. StopInv'
  BY DEF IInv, StopInv, GracefulSound, KnownDead, MachineStep
<1> QED
  BY <1>1, <1>2, <1>3, <1>4 DEF IInv, MachineStep

\* The environment: processes spawn, foreign programs start, processes exit.
LEMMA EnvironmentMachine == ASSUME IInv, Environment PROVE MachineStep
<1> USE ServerProcessAssumption DEF objectVars, treeVars
<1>1. ASSUME NEW p \in Pids, NEW q \in Pids, SpawnChild(q, p) PROVE MachineStep
  <2>1. proc[q].group \in Nat /\ q \in Pids \cup {NoPid} /\ TRUE \in BOOLEAN
    BY DEF IInv, TypeOK, Process
  <2> QED
    BY <1>1, <2>1, BornMachine DEF SpawnChild
<1>2. ASSUME NEW p \in Pids, SpawnForeign(p) PROVE MachineStep
  <2>1. births + 1 \in Nat /\ \A q \in Pids : proc[q].group \in Nat
    BY DEF IInv, TypeOK, Process
  <2>2. CASE Born(p, FALSE, NoPid, births + 1)
    <3>1. NoPid \in Pids \cup {NoPid} /\ FALSE \in BOOLEAN
      OBVIOUS
    <3> QED
      BY <1>2, <2>1, <2>2, <3>1, BornMachine DEF SpawnForeign
  <2>3. ASSUME NEW q \in Pids, Exists(q), ~proc[q].bds, Born(p, FALSE, q, proc[q].group)
        PROVE  MachineStep
    <3>1. q \in Pids \cup {NoPid} /\ FALSE \in BOOLEAN
      OBVIOUS
    <3> QED
      BY <1>2, <2>1, <2>3, <3>1, BornMachine DEF SpawnForeign
  <2> QED
    BY <1>2, <2>2, <2>3 DEF SpawnForeign
<1>3. ASSUME NEW p \in Pids, Exit(p) PROVE MachineStep
  <2>1. {p} \in SUBSET Pids
    OBVIOUS
  <2> QED
    BY <1>3, <2>1, EndMachine DEF Exit
<1> QED
  BY <1>1, <1>2, <1>3 DEF Environment

\* The operating system's steps keep the invariant.
LEMMA EnvironmentIInv == ASSUME IInv, Environment PROVE IInv'
<1>1. UNCHANGED <<objectVars, treeVars, stopVars, control>>
  BY DEF Environment, SpawnChild, SpawnForeign, Exit
<1> QED
  BY <1>1, EnvironmentMachine, QuietIInv DEF objectVars, treeVars

---------------------------------------------------------------------------
(* The snapshot.                                                           *)

\* The root is looked up: "verified" is said only of the process that start() created.
LEMMA RootIInv == ASSUME IInv, SnapshotRoot PROVE IInv'
<1> USE DEF stopVars, listVars
<1>1. pid \in Pids /\ pc = "root"
  BY DEF IInv, TypeOK, SnapshotRoot
<1>2. MachineStep
  BY <1>1, PollMachine, SameMachine DEF SnapshotRoot, osVars
<1>3. root_identity_status' \in {"unknown", "verified", "absent", "mismatch"}
  BY DEF SnapshotRoot, RootIdentity
<1>4. TypeOK'
  <2>1. /\ process_tree_error' \in BOOLEAN
        /\ records' \in [Pids -> {"none", "alive", "dead", "unknown"}]
        /\ todo' \in SUBSET Pids
    BY <1>1 DEF IInv, TypeOK, SnapshotRoot, KnownPids
  <2>2. pc' \in PcLabels /\ pc' # "none"
    BY DEF SnapshotRoot, PcLabels
  <2> QED
    BY <1>1, <1>2, <1>3, <2>1, <2>2
       DEF IInv, TypeOK, SnapshotRoot, MachineStep, MachineTypeOK
<1>5. root_identity_status' = "verified" =>
        KnownAlive(pid) /\ UNCHANGED <<proc, returncode>>
  BY DEF SnapshotRoot, RootIdentity, KnownAlive
<1>6. root_identity_status' = "absent" => ~KnownAlive(pid)' /\ WrapperExited'
  <2> SUFFICES ASSUME root_identity_status' = "absent"
               PROVE  ~KnownAlive(pid)' /\ WrapperExited'
    OBVIOUS
  <2>1. ~Exists(pid) /\ WrapperExited
    BY DEF SnapshotRoot, RootIdentity
  <2>2. ~KnownAlive(pid)
    BY <2>1 DEF Exists, KnownAlive
  <2> QED
    BY <1>1, <1>2, <2>1, <2>2 DEF MachineStep
<1>7. SnapshotInv'
  <2>1. ReturnInv'
    BY <1>1 DEF IInv, SnapshotInv, ReturnInv, SnapshotRoot
  <2>2. DescendantsInv'
    BY <1>1, <1>5 DEF IInv, MachineInv, WrapperInv, DescendantsInv, SnapshotRoot
  <2>3. DeadInv'
    BY <1>1, <1>2, <1>6 DEF DeadInv, SnapshotRoot, MachineStep
  <2>4. CoverInv'
    BY <1>1 DEF CoverInv, Covered, SnapshotRoot, KnownPids, Labels
  <2>5. ListBound'
    BY <1>2, BoundKept DEF SnapshotRoot
  <2> QED
    BY <2>1, <2>2, <2>3, <2>4, <2>5 DEF SnapshotInv
<1>8. OutcomeInv'
  <2>1. Dead => ~KnownAlive(pid)
    BY <1>1 DEF IInv, OutcomeInv, Dead, CleanupOutcomeSound, KnownDead
  <2> QED
    BY <1>1, <1>2, <1>5, <2>1, OutcomeKept DEF OutcomeInv, Dead, SnapshotRoot
<1>9. StopInv'
  BY <1>1, <1>2 DEF IInv, StopInv, GracefulSound, SnapshotRoot, MachineStep, Unforced, Reaped
<1> QED
  BY <1>2, <1>4, <1>7, <1>8, <1>9 DEF IInv, MachineStep

\* A step of the listing goes on looking pids up, or ends with the adoption of processes.
LEMMA ListingIInv ==
  ASSUME IInv, pid \in Pids, pc \in {"descendants", "children"},
         UNCHANGED <<osVars, objectVars, root_identity_status, records, stopVars, return_to>>,
         process_tree_error' \in BOOLEAN,
         managed_processes' \in [Pids -> Nat],
         unverified_processes' \in SUBSET Pids,
         \A p \in Pids :
           \/ managed_processes'[p] = managed_processes[p]
           \/ p # pid /\ managed_processes'[p] <= births,
         \/ ToRecords
         \/ /\ pc' = "children"
            /\ todo' \in SUBSET Pids
            /\ ppid_map' \in [Pids -> Pids \cup {NoPid}]
            /\ children' \in [Pids -> Nat]
            /\ \A p \in Pids : children'[p] <= births
            /\ listed_at' \in Nat
  PROVE  IInv'
<1> USE DEF stopVars, osVars, objectVars, listVars
<1>1. births \in Nat /\ NoParents \in [Pids -> Pids \cup {NoPid}] /\ NoChildren \in [Pids -> Nat]
  BY DEF IInv, TypeOK, NoParents, NoChildren
<1>2. TypeOK'
  <2>1. /\ todo' \in SUBSET Pids
        /\ ppid_map' \in [Pids -> Pids \cup {NoPid}]
        /\ children' \in [Pids -> Nat]
        /\ listed_at' \in Nat
        /\ pc' \in {"children", "records"}
    BY <1>1 DEF ToRecords, KnownPids
  <2>2. pc' \in PcLabels
    BY <2>1 DEF PcLabels
  <2> QED
    BY <2>1, <2>2 DEF IInv, TypeOK
<1>3. MachineInv'
  <2>1. BirthInv'
    BY <1>1 DEF IInv, MachineInv, BirthInv
  <2>2. WrapperInv'
    BY DEF IInv, MachineInv, WrapperInv, KnownAlive, Exists, WrapperExited
  <2>3. OwnInv'
    BY DEF IInv, MachineInv, OwnInv, Family, Exists
  <2> QED
    BY <2>1, <2>2, <2>3 DEF MachineInv
<1>4. SnapshotInv'
  <2>1. pc' \in {"children", "records"} /\ pc' \notin Labels
    BY DEF ToRecords, Labels
  <2>2. ReturnInv' /\ DescendantsInv'
    BY <2>1 DEF IInv, SnapshotInv, ReturnInv, DescendantsInv
  <2>3. DeadInv'
    BY <2>1 DEF IInv, SnapshotInv, DeadInv, DescendantsInv
  <2>4. CoverInv'
    BY <2>1 DEF CoverInv, Covered, ToRecords, KnownPids
  <2>5. ListBound'
    BY <1>1 DEF ListBound, ToRecords, NoChildren
  <2> QED
    BY <2>2, <2>3, <2>4, <2>5 DEF SnapshotInv
<1>5. OutcomeInv'
  <2>1. ~Dead /\ cleanup_outcome # "clean" /\ (cleanup_outcome = "graceful-exit" => ~Windows)
    BY DEF IInv, OutcomeInv, Dead
  <2> QED
    BY <2>1 DEF IInv, OutcomeInv, CleanupOutcomeSound, Dead, ToRecords
<1>6. StopInv'
  <2>1. result = "none" /\ pc' \in {"children", "records"} 
    BY DEF IInv, StopInv, ToRecords
  <2>2. pc' \notin Unforced \cup Reaped
    BY DEF ToRecords, Unforced, Reaped
  <2> QED
    BY <2>1, <2>2 DEF IInv, StopInv, GracefulSound
<1> QED
  BY <1>2, <1>3, <1>4, <1>5, <1>6 DEF IInv

\* The parents are listed.
LEMMA DescendantsIInv == ASSUME IInv, SnapshotDescendants PROVE IInv'
<1>1. pid \in Pids /\ pc = "descendants"
  BY DEF IInv, TypeOK, SnapshotDescendants
<1>2. Parents \in [Pids -> Pids \cup {NoPid}]
  BY DEF IInv, TypeOK, Process, Parents
<1>3. process_tree_error' \in BOOLEAN /\ UNCHANGED <<managed_processes, unverified_processes>>
  BY DEF IInv, TypeOK, SnapshotDescendants
<1>4. ToRecords \/ /\ pc' = "children"
                   /\ todo' \in SUBSET Pids
                   /\ ppid_map' = Parents
                   /\ children' = children
                   /\ listed_at' = births
  BY DEF SnapshotDescendants
<1>5. /\ managed_processes \in [Pids -> Nat]
      /\ unverified_processes \in SUBSET Pids
      /\ children \in [Pids -> Nat]
      /\ \A p \in Pids : children[p] <= births
      /\ births \in Nat
  BY DEF IInv, TypeOK, SnapshotInv, ListBound
<1>6. UNCHANGED <<osVars, objectVars, root_identity_status, records, stopVars, return_to>>
  BY DEF SnapshotDescendants
<1> QED
  BY <1>1, <1>2, <1>3, <1>4, <1>5, <1>6, ListingIInv

\* A creation time that is read has been handed out.
LEMMA FoundBound ==
  ASSUME IInv, NEW p \in Pids
  PROVE  Found(p) \in [Pids -> Nat] /\ \A q \in Pids : Found(p)[q] <= births
BY DEF IInv, TypeOK, Process, MachineInv, BirthInv, SnapshotInv, ListBound, Found

\* What is adopted is not the wrapper, and has the creation time that was read.
LEMMA AdoptWhat ==
  ASSUME IInv, NEW found \in [Pids -> Nat], Adopt(found)
  PROVE  /\ managed_processes' \in [Pids -> Nat]
         /\ unverified_processes' \in SUBSET Pids
         /\ \A p \in Pids :
              \/ managed_processes'[p] = managed_processes[p]
              \/ p # pid /\ found[p] # 0 /\ managed_processes'[p] = found[p]
BY DEF IInv, TypeOK, Adopt

\* A listed pid is looked up; after the last one the descendants are adopted.
LEMMA ChildIInv == ASSUME IInv, NEW p \in Pids, SnapshotChild(p) PROVE IInv'
<1>1. pid \in Pids /\ pc = "children"
  BY DEF IInv, TypeOK, SnapshotChild
<1>2. /\ process_tree_error' \in BOOLEAN
      /\ UNCHANGED <<osVars, objectVars, root_identity_status, records, stopVars, return_to>>
  BY DEF IInv, TypeOK, SnapshotChild
<1>3. /\ managed_processes \in [Pids -> Nat]
      /\ unverified_processes \in SUBSET Pids
      /\ ppid_map \in [Pids -> Pids \cup {NoPid}]
      /\ listed_at \in Nat
      /\ Left(p) \in SUBSET Pids
  BY DEF IInv, TypeOK, Left
<1>4. Found(p) \in [Pids -> Nat] /\ \A q \in Pids : Found(p)[q] <= births
  BY FoundBound
<1>5. CASE Adopt(Found(p)) /\ ToRecords
  <2>1. /\ managed_processes' \in [Pids -> Nat]
        /\ unverified_processes' \in SUBSET Pids
        /\ \A q \in Pids :
             \/ managed_processes'[q] = managed_processes[q]
             \/ q # pid /\ managed_processes'[q] = Found(p)[q]
    BY <1>4, <1>5, AdoptWhat
  <2> QED
    BY <1>1, <1>2, <1>4, <1>5, <2>1, ListingIInv
<1>6. CASE UNCHANGED <<managed_processes, unverified_processes>> /\ ToRecords
  BY <1>1, <1>2, <1>3, <1>6, ListingIInv
<1>7. CASE /\ todo' = Left(p)
           /\ children' = Found(p)
           /\ UNCHANGED <<managed_processes, unverified_processes, ppid_map, listed_at, pc>>
  BY <1>1, <1>2, <1>3, <1>4, <1>7, ListingIInv
<1> QED
  BY <1>5, <1>6, <1>7 DEF SnapshotChild

\* A record says "dead" only of an adopted process that is gone.
LEMMA RecordIInv == ASSUME IInv, NEW p \in Pids, SnapshotRecord(p) PROVE IInv'
<1> USE DEF stopVars, osVars, objectVars, listVars
<1>1. pid \in Pids /\ pc = "records" /\ return_to \in Labels
  BY DEF IInv, TypeOK, SnapshotInv, ReturnInv, SnapshotRecord
<1>2. MachineStep
  BY SameMachine DEF SnapshotRecord
<1>3. PICK r \in RecordsOf(p) : records' = [records EXCEPT ![p] = r]
  BY DEF SnapshotRecord
<1>4. /\ r \in {"alive", "dead", "unknown"}
      /\ r = "dead" => ~KnownAlive(p) /\ (p = pid => WrapperExited)
  BY <1>1 DEF RecordsOf, IInv, SnapshotInv, DeadInv, MachineInv, WrapperInv, Exists, KnownAlive
<1>5. TypeOK'
  BY <1>1, <1>3, <1>4 DEF IInv, TypeOK, SnapshotRecord, Labels
<1>6. SnapshotInv'
  <2>1. ReturnInv' /\ DescendantsInv'
    BY <1>1 DEF ReturnInv, DescendantsInv, SnapshotRecord, Labels
  <2>2. DeadInv'
    BY <1>2, <1>3, <1>4 DEF IInv, TypeOK, SnapshotInv, DeadInv, SnapshotRecord, MachineStep
  <2>3. \A q \in Pids : q \in todo' \/ Covered(q)'
    BY <1>1, <1>3, <1>4 DEF IInv, TypeOK, SnapshotInv, CoverInv, Covered, SnapshotRecord
  <2>4. CoverInv'
    BY <1>1, <2>3 DEF CoverInv, SnapshotRecord, Labels
  <2>5. ListBound'
    BY <1>2, BoundKept DEF SnapshotRecord
  <2> QED
    BY <2>1, <2>2, <2>4, <2>5 DEF SnapshotInv
<1>7. OutcomeInv'
  BY <1>1, <1>2, OutcomeKept DEF OutcomeInv, Dead, SnapshotRecord, Labels
<1>8. StopInv'
  BY <1>1 DEF IInv, StopInv, GracefulSound, SnapshotRecord, Labels
<1> QED
  BY <1>2, <1>5, <1>6, <1>7, <1>8 DEF IInv, MachineStep

---------------------------------------------------------------------------
(* The calls.                                                              *)

\* A statement of a call leaves the newest snapshot as it is, or begins another one.
LEMMA StatementSnapshot ==
  ASSUME IInv, MachineStep, pc \in Labels \cup {"idle"}, DeadInv',
         UNCHANGED <<unverified_processes, process_tree_error, records, todo, listVars>>,
         \/ pc' = "root" /\ return_to' \in Labels
         \/ pc' \in Labels /\ pc \in Labels
         \/ pc' = "idle"
  PROVE  SnapshotInv'
<1>1. ReturnInv' /\ DescendantsInv'
  BY DEF ReturnInv, DescendantsInv, Labels
<1>2. CoverInv'
  BY DEF IInv, SnapshotInv, CoverInv, Covered, MachineStep, Labels
<1> QED
  BY <1>1, <1>2, BoundKept DEF SnapshotInv

\* The outcome "clean" is reported only when every adopted process was found dead.
LEMMA CleanTree ==
  ASSUME IInv, pc \in Labels, TreeOutcome = "clean" PROVE KnownDead /\ WrapperExited
<1>1. pid \in Pids
  BY DEF IInv, TypeOK, Labels
<1>2. \A p \in Pids : records[p] \in {"none", "dead"}
  BY DEF IInv, TypeOK, TreeOutcome, AliveRecords
<1>3. \A p \in Pids : Covered(p)
  BY DEF IInv, SnapshotInv, CoverInv
<1>4. KnownDead
  BY <1>2, <1>3 DEF IInv, SnapshotInv, DeadInv, Covered, KnownDead, KnownAlive
<1>5. records[pid] = "dead"
  BY <1>1, <1>2, <1>3 DEF Covered
<1> QED
  BY <1>1, <1>4, <1>5 DEF IInv, SnapshotInv, DeadInv

\* An owner calls the supervisor.
LEMMA CallIInv == ASSUME IInv, Call PROVE IInv'
<1> USE DEF stopVars, objectVars, treeVars, listVars
<1>1. CASE GracefulStop \/ ForceKillTree \/ ManagedResidualProcesses
  <2>1. /\ pc = "idle" /\ pc' = "root" /\ result' = "none"
        /\ return_to' \in Labels
        /\ return_to' \in Unforced => ~forced'
        /\ return_to' \notin Reaped
        /\ forced' \in BOOLEAN
        /\ UNCHANGED <<osVars, pid, returncode, has_diagnostic, treeVars, target, kill_list,
                       cleanup_outcome, forced_wait_timeout>>
    <3> USE DEF Enter, Snapshot, Labels, PcLabels, Unforced, Reaped
    <3>1. CASE GracefulStop
      <4>1. return_to' \in {"stop_forced", "stop_begun"}
        BY <3>1 DEF GracefulStop
      <4> QED
        BY <3>1, <4>1 DEF IInv, TypeOK, GracefulStop
    <3>2. CASE ForceKillTree
      <4>1. return_to' \in {"kill_before", "kill_begun"}
        BY <3>2 DEF ForceKillTree
      <4> QED
        BY <3>2, <4>1 DEF ForceKillTree
    <3>3. CASE ManagedResidualProcesses
      BY <3>3 DEF IInv, TypeOK, ManagedResidualProcesses
    <3> QED
      BY <1>1, <3>1, <3>2, <3>3
  <2>2. MachineStep
    BY <2>1, SameMachine
  <2>3. SnapshotInv'
    BY <2>1, <2>2, DeadKept, StatementSnapshot
  <2>4. TypeOK'
    BY <2>1, <2>2 DEF IInv, TypeOK, MachineStep, MachineTypeOK, Labels, PcLabels
  <2>5. OutcomeInv'
    BY <2>1, <2>2, OutcomeKept DEF OutcomeInv, Dead
  <2>6. StopInv'
    BY <2>1 DEF StopInv, GracefulSound, Unforced, Reaped
  <2> QED
    BY <2>2, <2>3, <2>4, <2>5, <2>6 DEF IInv, MachineStep
<1>2. CASE IsAlive
  <2>1. pid \in Pids /\ pc = "idle"
    BY <1>2 DEF IInv, TypeOK, IsAlive
  <2>2. MachineStep
    BY <1>2, <2>1, PollMachine DEF IsAlive
  <2> QED
    BY <1>2, <2>1, <2>2, QuietIInv DEF IsAlive
<1> QED
  BY <1>1, <1>2 DEF Call

\* A new supervisor starts a wrapper in an unused slot.
LEMMA StartIInv == ASSUME IInv, Start PROVE IInv'
<1> USE ServerProcessAssumption
<1>1. PICK p \in Pids :
        /\ ~Exists(p)
        /\ births' = births + 1
        /\ proc' = [proc EXCEPT ![p] = [birth |-> births + 1, bds |-> TRUE,
                                        parent |-> NoPid, group |-> births + 1]]
        /\ pid' = p
        /\ \E created \in {0, births + 1} :
             managed_processes' = [q \in Pids |-> IF q = p THEN created ELSE 0]
  BY DEF Start
<1>2. /\ births \in Nat
      /\ \A q \in Pids : proc[q] \in Process
  BY DEF IInv, TypeOK
<1>3. /\ \A q \in Pids : q # p => proc'[q] = proc[q] /\ managed_processes'[q] = 0
      /\ proc'[p].birth = births + 1
      /\ proc'[p].bds
      /\ proc'[p].parent = NoPid
      /\ proc' \in [Pids -> Process]
      /\ managed_processes' \in [Pids -> Nat]
      /\ managed_processes'[p] \in {0, births + 1}
  BY <1>1, <1>2 DEF IInv, TypeOK, Process
<1>4. TypeOK'
  <2>1. pc' = "idle" /\ pc' \in PcLabels
    BY DEF Start, PcLabels
  <2>2. /\ records' \in [Pids -> {"none", "alive", "dead", "unknown"}]
        /\ births' \in Nat
        /\ pid' \in Pids
    BY <1>1, <1>2 DEF Start
  <2>3. return_to' \in PcLabels
    BY DEF IInv, TypeOK, Start
  <2> QED
    BY <1>3, <2>1, <2>2, <2>3 DEF IInv, TypeOK, Start, listVars
<1>5. MachineInv'
  <2>1. BirthInv'
    BY <1>1, <1>2, <1>3 DEF IInv, MachineInv, BirthInv, Process
  <2>2. WrapperInv'
    BY <1>1, <1>2, <1>3 DEF Start, WrapperInv, KnownAlive, Exists, WrapperExited
  <2>3. Family => Family'
    BY <1>1, <1>2, <1>3 DEF Family, Exists, Process
  <2> QED
    BY <2>1, <2>2, <2>3 DEF IInv, MachineInv, OwnInv
<1>6. SnapshotInv'
  <2>1. ListBound'
    BY <1>1, <1>2 DEF IInv, TypeOK, SnapshotInv, ListBound, Start, listVars
  <2> QED
    BY <2>1 DEF Start, SnapshotInv, ReturnInv, DescendantsInv, DeadInv, CoverInv, Labels
<1>7. OutcomeInv' /\ StopInv'
  BY DEF Start, OutcomeInv, CleanupOutcomeSound, Dead, StopInv, GracefulSound, Unforced, Reaped
<1> QED
  BY <1>4, <1>5, <1>6, <1>7 DEF IInv

\* The statement of the call a step goes to, through a snapshot or not.
Onward == IF pc = "root" THEN return_to ELSE pc

\* What a statement has to show for the invariant to hold after it.
LEMMA StatementIInv ==
  ASSUME IInv, MachineStep, pc \in Labels, DeadInv',
         UNCHANGED <<forced, unverified_processes, process_tree_error, records, todo, listVars>>,
         has_diagnostic' \in BOOLEAN,
         root_identity_status' \in {"unknown", "verified", "absent", "mismatch"},
         target' \in {"unknown", "verified", "absent", "mismatch"},
         kill_list' \in SUBSET Pids,
         forced_wait_timeout' \in BOOLEAN,
         cleanup_outcome' \in {"not_attempted", "forced", "verification-failed",
                               "graceful-exit", "nonzero-exit", "residual-processes", "clean"},
         result' \in {"none", "graceful", "not-graceful", "killed", "raised"},
         return_to' \in PcLabels,
         pc' \in Labels \cup {"root", "idle"},
         pc' = "root" => return_to' \in Labels,
         Onward' \in Unforced => ~forced,
         Onward' \in Reaped => returncode' # "none",
         result' # "none" => pc' = "idle",
         CleanupOutcomeSound',
         GracefulSound'
  PROVE  IInv'
<1>1. pid \in Pids
  BY DEF IInv, TypeOK, Labels
<1>2. TypeOK'
  <2>1. pc' \in PcLabels
    BY DEF Labels, PcLabels
  <2> QED
    BY <1>1, <2>1 DEF IInv, TypeOK, MachineStep, MachineTypeOK, listVars
<1>3. SnapshotInv'
  BY StatementSnapshot
<1>4. OutcomeInv'
  BY DEF OutcomeInv, Labels
<1>5. StopInv'
  <2>1. pc' \notin {"descendants", "children", "records"}
    BY DEF Labels
  <2> QED
    BY <2>1 DEF StopInv, Onward, Unforced, Reaped
<1> QED
  BY <1>2, <1>3, <1>4, <1>5 DEF IInv, MachineStep

\* graceful_stop reports "graceful" only of a wrapper it did not force and that was reaped,
\* and on Windows only after a snapshot found the whole tree dead.
LEMMA StopIInv == ASSUME IInv, StopStep PROVE IInv'
<1> USE DEF osVars, objectVars, treeVars, stopVars, listVars
<1>1. CASE StopForced \/ StopRefused \/ StopCommandFailed
  <2>1. /\ pc \in Labels /\ pc' = "idle" /\ result' = "not-graceful"
        /\ cleanup_outcome' \in {cleanup_outcome, "forced", "verification-failed"}
        /\ UNCHANGED <<osVars, objectVars, treeVars, target, kill_list, forced_wait_timeout,
                       return_to>>
    BY <1>1 DEF StopForced, StopRefused, StopCommandFailed, Return, Labels, PcLabels
  <2>2. MachineStep
    BY <2>1, SameMachine
  <2>3. CleanupOutcomeSound' /\ GracefulSound'
    BY <2>1, <2>2, OutcomeKept DEF CleanupOutcomeSound, GracefulSound
  <2>4. DeadInv' /\ Onward' \notin Unforced \cup Reaped
    BY <2>1, <2>2, DeadKept DEF Onward, Unforced, Reaped
  <2> QED
    BY <2>1, <2>2, <2>3, <2>4, StatementIInv DEF IInv, TypeOK
<1>2. CASE StopBegun \/ StopCommand \/ StopWait
  <2>1. pid \in Pids /\ pc \in Labels /\ ~forced
    BY <1>2 DEF IInv, TypeOK, StopInv, StopBegun, StopCommand, StopWait, Labels, PcLabels,
                Unforced
  <2>2. MachineStep /\ (WrapperExited => returncode' # "none")
    BY <1>2, <2>1, PollMachine DEF StopBegun, StopCommand, StopWait
  <2>3. /\ pc' \in Labels \cup {"root"}
        /\ pc' = "root" => return_to' \in Labels
        /\ Onward' \in Reaped => WrapperExited
        /\ return_to' \in PcLabels
    BY <1>2 DEF IInv, TypeOK, StopBegun, StopCommand, StopWait, Snapshot, Onward, Reaped,
                Labels, PcLabels
  <2>4. /\ result' = result
        /\ cleanup_outcome' \in {cleanup_outcome, "not_attempted"}
        /\ has_diagnostic' \in {has_diagnostic, TRUE}
        /\ forced_wait_timeout' \in BOOLEAN
        /\ UNCHANGED <<forced, treeVars, target, kill_list>>
    BY <1>2 DEF IInv, TypeOK, NewDiagnostic, StopBegun, StopCommand, StopWait
  <2>5. result = "none"
    BY <2>1 DEF IInv, StopInv, Labels
  <2>6. CleanupOutcomeSound' /\ GracefulSound'
    BY <2>2, <2>4, <2>5, OutcomeKept DEF CleanupOutcomeSound, GracefulSound
  <2>7. DeadInv'
    BY <2>2, <2>4, DeadKept
  <2>8. /\ has_diagnostic' \in BOOLEAN
        /\ root_identity_status' \in {"unknown", "verified", "absent", "mismatch"}
        /\ target' \in {"unknown", "verified", "absent", "mismatch"}
        /\ kill_list' \in SUBSET Pids
        /\ cleanup_outcome' \in {"not_attempted", "forced", "verification-failed",
                                 "graceful-exit", "nonzero-exit", "residual-processes", "clean"}
        /\ result' = "none"
        /\ Onward' \in Reaped => returncode' # "none"
    BY <2>2, <2>3, <2>4, <2>5 DEF IInv, TypeOK
  <2> QED
    BY <2>1, <2>2, <2>3, <2>4, <2>6, <2>7, <2>8, StatementIInv
<1>3. CASE StopAlreadyExited \/ StopExited
  <2>1. /\ pc \in Labels /\ pc' = "idle" /\ result' \in {"graceful", "not-graceful"}
        /\ ~forced /\ returncode # "none"
        /\ UNCHANGED <<osVars, objectVars, treeVars, target, kill_list, forced_wait_timeout,
                       return_to>>
    BY <1>3 DEF IInv, StopInv, StopAlreadyExited, StopExited, Return, Labels, PcLabels,
                Unforced, Reaped
  <2>2. MachineStep
    BY <2>1, SameMachine
  <2>3. TreeOutcome = "clean" => KnownDead
    BY <2>1, CleanTree
  <2>4. /\ result' = "graceful" /\ Windows => TreeOutcome = "clean"
        /\ cleanup_outcome' \in {cleanup_outcome, "verification-failed", "residual-processes",
                                 "graceful-exit", "nonzero-exit"}
        /\ \/ cleanup_outcome' = cleanup_outcome
           \/ cleanup_outcome' = "graceful-exit" =>
                returncode = "zero" /\ (Windows => TreeOutcome = "clean")
    BY <1>3, <2>1 DEF StopAlreadyExited, StopExited, TreeOutcome, Return
  <2>5. KnownDead' = KnownDead
    BY <2>1 DEF KnownDead, KnownAlive
  <2>6. CleanupOutcomeSound' /\ GracefulSound'
    BY <2>1, <2>2, <2>3, <2>4, <2>5, OutcomeKept DEF CleanupOutcomeSound, GracefulSound
  <2>7. DeadInv' /\ Onward' \notin Unforced \cup Reaped
    BY <2>1, <2>2, DeadKept DEF Onward, Unforced, Reaped
  <2> QED
    BY <2>1, <2>2, <2>4, <2>6, <2>7, StatementIInv DEF IInv, TypeOK
<1> QED
  BY <1>1, <1>2, <1>3 DEF StopStep

\* The end of managed_residual_processes.
LEMMA ResidualIInv == ASSUME IInv, ResidualDone PROVE IInv'
<1> USE DEF osVars, objectVars, treeVars, stopVars, listVars
<1>1. pc \in Labels /\ pc' = "idle" /\ result' \in {"residual", "no-residual"}
  BY DEF ResidualDone, Return, Labels, PcLabels
<1>2. MachineStep /\ DeadInv' /\ CleanupOutcomeSound'
  BY SameMachine, DeadKept, OutcomeKept DEF ResidualDone
<1>3. TypeOK'
  BY <1>1 DEF IInv, TypeOK, ResidualDone, PcLabels
<1>4. SnapshotInv'
  BY <1>1, <1>2, StatementSnapshot DEF ResidualDone
<1>5. OutcomeInv' /\ StopInv'
  BY <1>1, <1>2 DEF OutcomeInv, StopInv, GracefulSound, Unforced, Reaped
<1> QED
  BY <1>2, <1>3, <1>4, <1>5 DEF IInv, MachineStep

\* force_kill_tree reports "clean" only after a snapshot that found the whole tree dead;
\* none of its statements is one of graceful_stop.
LEMMA KillIInv == ASSUME IInv, KillStep PROVE IInv'
<1> USE DEF osVars, objectVars, treeVars, stopVars, listVars
<1>1. pc \in Labels /\ pid \in Pids /\ result = "none" /\ forced' = forced
  BY DEF IInv, TypeOK, StopInv, KillStep, KillBegun, KillBefore, KillRoot, KillWait, KillHandle,
         KillWaitAgain, KillCaptured, KillAfter, KillResidual, KillDone, TaskKill, Labels,
         PcLabels
<1>2. CASE KillBegun \/ KillWait \/ KillWaitAgain
  <2>1. MachineStep
    BY <1>1, <1>2, PollMachine DEF KillBegun, KillWait, KillWaitAgain
  <2>2. /\ pc' \in {"root", "kill_handle"}
        /\ pc' = "root" => return_to' \in {"kill_before", "kill_after"}
        /\ return_to' \in {return_to, "kill_before", "kill_after"}
    BY <1>2 DEF KillBegun, KillWait, KillWaitAgain, Snapshot
  <2>3. /\ result' = result
        /\ cleanup_outcome' \in {cleanup_outcome, "not_attempted"}
        /\ has_diagnostic' \in {has_diagnostic, TRUE}
        /\ forced_wait_timeout' \in BOOLEAN
        /\ UNCHANGED <<forced, treeVars, target, kill_list>>
    BY <1>2 DEF IInv, TypeOK, NewDiagnostic, KillBegun, KillWait, KillWaitAgain
  <2>4. CleanupOutcomeSound' /\ GracefulSound'
    BY <1>1, <2>1, <2>3, OutcomeKept DEF CleanupOutcomeSound, GracefulSound
  <2>5. DeadInv'
    BY <2>1, <2>3, DeadKept
  <2>6. /\ pc' \in Labels \cup {"root", "idle"}
        /\ pc' = "root" => return_to' \in Labels
        /\ return_to' \in PcLabels
        /\ Onward' \notin Unforced \cup Reaped
    BY <2>2 DEF IInv, TypeOK, Labels, PcLabels, Onward, Unforced, Reaped
  <2>7. /\ has_diagnostic' \in BOOLEAN
        /\ forced_wait_timeout' \in BOOLEAN
        /\ root_identity_status' \in {"unknown", "verified", "absent", "mismatch"}
        /\ target' \in {"unknown", "verified", "absent", "mismatch"}
        /\ kill_list' \in SUBSET Pids
        /\ cleanup_outcome' \in {"not_attempted", "forced", "verification-failed",
                                 "graceful-exit", "nonzero-exit", "residual-processes", "clean"}
        /\ result' = "none"
    BY <1>1, <2>3 DEF IInv, TypeOK
  <2> QED
    BY <1>1, <2>1, <2>3, <2>4, <2>5, <2>6, <2>7, StatementIInv
<1>3. CASE KillBefore
  <2>1. MachineStep
    BY <1>1, <1>3, PollMachine DEF KillBefore
  <2>2. /\ RootTargetStatus \in {"unknown", "verified", "absent", "mismatch"}
        /\ RootTargetStatus = "absent" =>
             root_identity_status = "absent" \/ records[pid] = "dead"
    BY DEF RootTargetStatus
  <2>3. root_identity_status' \in {root_identity_status, RootTargetStatus}
    BY <1>3 DEF KillBefore
  <2>4. DeadInv'
    <3>1. root_identity_status' = "absent" => ~KnownAlive(pid) /\ WrapperExited
      BY <1>1, <2>2, <2>3 DEF IInv, SnapshotInv, DeadInv
    <3> QED
      BY <1>1, <1>3, <2>1, <3>1 DEF IInv, SnapshotInv, DeadInv, KillBefore, MachineStep
  <2>5. CleanupOutcomeSound' /\ GracefulSound'
    BY <1>1, <1>3, <2>1, OutcomeKept DEF GracefulSound, KillBefore
  <2>6. pc' \in {"kill_root", "kill_captured"}
    BY <1>3 DEF KillBefore
  <2>7. /\ pc' \in Labels
        /\ pc' # "root"
        /\ Onward' \notin Unforced \cup Reaped
    BY <2>6 DEF Labels, PcLabels, Onward, Unforced, Reaped
  <2>8. /\ kill_list' \in SUBSET Pids
        /\ target' \in {"unknown", "verified", "absent", "mismatch"}
        /\ root_identity_status' \in {"unknown", "verified", "absent", "mismatch"}
    BY <1>3, <2>2, <2>3 DEF IInv, TypeOK, KillBefore, AliveRecords
  <2>9. /\ has_diagnostic' \in BOOLEAN
        /\ return_to' \in PcLabels
        /\ cleanup_outcome' \in {"not_attempted", "forced", "verification-failed",
                                 "graceful-exit", "nonzero-exit", "residual-processes", "clean"}
        /\ result' = "none"
        /\ forced_wait_timeout' \in BOOLEAN
        /\ UNCHANGED <<forced, unverified_processes, process_tree_error, records, todo, listVars>>
    BY <1>1, <1>3 DEF IInv, TypeOK, KillBefore
  <2> QED
    BY <1>1, <2>1, <2>4, <2>5, <2>7, <2>8, <2>9, StatementIInv
<1>4. CASE KillRoot \/ KillHandle \/ KillCaptured \/ KillAfter \/ KillResidual
  <2>1. MachineStep
    <3>1. ASSUME NEW K \in SUBSET Pids, EndProcesses(K, "nonzero"),
                 UNCHANGED <<births, pid, returncode, managed_processes>>
          PROVE  MachineStep
      BY <3>1, EndMachine
    <3>2. CASE KillRoot \/ KillHandle
      <4>1. {pid} \in SUBSET Pids /\ SUBSET Group \subseteq SUBSET Pids
        BY <1>1 DEF Group
      <4> QED
        BY <3>1, <3>2, <4>1, SameMachine DEF KillRoot, KillHandle
    <3>3. ASSUME NEW p \in Pids, TaskKill(p) PROVE MachineStep
      <4>1. {p} \cup Descendants(Parents, p) \in SUBSET Pids
        BY DEF Descendants
      <4> QED
        BY <3>1, <3>3, <4>1, SameMachine DEF TaskKill
    <3>4. CASE KillCaptured \/ KillAfter \/ KillResidual
      BY <3>3, <3>4, SameMachine DEF KillCaptured, KillAfter, KillResidual
    <3> QED
      BY <1>4, <3>2, <3>4
  <2>2. /\ UNCHANGED <<has_diagnostic, treeVars, target, cleanup_outcome, forced_wait_timeout>>
        /\ result' \in {"none", "raised"}
        /\ result' # "none" => pc' = "idle"
    BY <1>1, <1>4 DEF KillRoot, KillHandle, KillCaptured, KillAfter, KillResidual, TaskKill,
                      Return
  <2>3. kill_list' \in SUBSET Pids
    BY <1>4 DEF IInv, TypeOK, KillRoot, KillHandle, KillCaptured, KillAfter, KillResidual,
                TaskKill, AliveRecords
  <2>4. /\ pc' \in {"idle", "root", "kill_wait", "kill_wait_again", "kill_captured",
                    "kill_residual", "kill_done"}
        /\ pc' = "root" => return_to' \in {"kill_after", "kill_done"}
        /\ return_to' \in {return_to, "kill_after", "kill_done"}
    BY <1>4 DEF KillRoot, KillHandle, KillCaptured, KillAfter, KillResidual, TaskKill, Return,
                Snapshot
  <2>5. /\ pc' \in Labels \cup {"root", "idle"}
        /\ pc' = "root" => return_to' \in Labels
        /\ return_to' \in PcLabels
        /\ Onward' \notin Unforced \cup Reaped
    BY <2>4 DEF IInv, TypeOK, Labels, PcLabels, Onward, Unforced, Reaped
  <2>6. CleanupOutcomeSound' /\ GracefulSound' /\ DeadInv'
    BY <2>1, <2>2, OutcomeKept, DeadKept DEF GracefulSound
  <2>7. /\ has_diagnostic' \in BOOLEAN
        /\ forced_wait_timeout' \in BOOLEAN
        /\ root_identity_status' \in {"unknown", "verified", "absent", "mismatch"}
        /\ target' \in {"unknown", "verified", "absent", "mismatch"}
        /\ cleanup_outcome' \in {"not_attempted", "forced", "verification-failed",
                                 "graceful-exit", "nonzero-exit", "residual-processes", "clean"}
    BY <2>2 DEF IInv, TypeOK
  <2> QED
    BY <1>1, <2>1, <2>2, <2>3, <2>5, <2>6, <2>7, StatementIInv
<1>5. CASE KillDone
  <2>1. /\ pc' = "idle" /\ result' = "killed" /\ cleanup_outcome' = TreeOutcome
        /\ UNCHANGED <<osVars, objectVars, treeVars, target, kill_list, forced_wait_timeout,
                       return_to>>
    BY <1>5 DEF KillDone, Return
  <2>2. MachineStep
    BY <2>1, SameMachine
  <2>3. TreeOutcome = "clean" => KnownDead' /\ WrapperExited'
    BY <1>1, <2>1, CleanTree DEF KnownDead, KnownAlive, WrapperExited
  <2>4. TreeOutcome \in {"verification-failed", "residual-processes", "clean"}
    BY DEF TreeOutcome
  <2>5. CleanupOutcomeSound' /\ GracefulSound'
    BY <2>1, <2>3, <2>4 DEF CleanupOutcomeSound, GracefulSound
  <2>6. DeadInv' /\ Onward' \notin Unforced \cup Reaped
    BY <2>1, <2>2, DeadKept DEF Onward, Unforced, Reaped
  <2> QED
    BY <1>1, <2>1, <2>2, <2>4, <2>5, <2>6, StatementIInv DEF IInv, TypeOK
<1> QED
  BY <1>2, <1>3, <1>4, <1>5 DEF KillStep

---------------------------------------------------------------------------
(* Theorems.                                                               *)

\* The invariant holds initially.
LEMMA InitIInv == Init => IInv
<1> SUFFICES ASSUME Init PROVE IInv
  OBVIOUS
<1> USE ServerProcessAssumption DEF Init
<1>1. TypeOK
  BY DEF TypeOK, Process, Free, PcLabels, NoParents, NoChildren
<1>2. MachineInv
  BY DEF MachineInv, BirthInv, WrapperInv, OwnInv, Family, KnownAlive, Exists,
         Free
<1>3. SnapshotInv
  BY DEF SnapshotInv, ReturnInv, DescendantsInv, ListBound, DeadInv, CoverInv, Labels, NoChildren
<1>4. OutcomeInv /\ StopInv
  BY DEF OutcomeInv, CleanupOutcomeSound, Dead, StopInv, GracefulSound, Unforced, Reaped
<1> QED
  BY <1>1, <1>2, <1>3, <1>4 DEF IInv

\* Every step of the supervisor, its owner and the machine keeps it, a stuttering step too.
LEMMA NextIInv == ASSUME IInv, [Next]_vars PROVE IInv'
<1>1. CASE Supervise
  BY <1>1, RootIInv, DescendantsIInv, ChildIInv, RecordIInv, StopIInv, KillIInv, ResidualIInv
     DEF Supervise, SnapshotStep
<1>2. CASE UNCHANGED vars
  BY <1>2, SameMachine, QuietIInv DEF vars, osVars, objectVars, treeVars
<1> QED
  BY <1>1, <1>2, StartIInv, CallIInv, EnvironmentIInv DEF Next

\* The inductive invariant holds in every behaviour.
THEOREM Inductive == Spec => []IInv
<1>1. Init => IInv
  BY InitIInv
<1>2. IInv /\ [Next]_vars => IInv'
  BY NextIInv
<1> QED
  BY <1>1, <1>2, PTL DEF Spec

\* Every variable keeps its type, whatever the machine does.
THEOREM TypeCorrect == Spec => []TypeOK
<1>1. IInv => TypeOK
  BY DEF IInv
<1> QED
  BY <1>1, Inductive, PTL

\* A cleanup outcome in the evidence is true for as long as it is there
\* (_process_tree_cleanup_outcome, graceful_stop, force_kill_tree).
THEOREM CleanupOutcomeIsSound == Spec => []CleanupOutcomeSound
<1>1. IInv => CleanupOutcomeSound
  BY DEF IInv, OutcomeInv
<1> QED
  BY <1>1, Inductive, PTL

\* graceful_stop returns True only of a wrapper that was not forced and was reaped, and on
\* Windows only of a tree without a living adopted process (graceful_stop).
THEOREM GracefulIsSound == Spec => []GracefulSound
<1>1. IInv => GracefulSound
  BY DEF IInv, StopInv
<1> QED
  BY <1>1, Inductive, PTL

---------------------------------------------------------------------------
(* Other programs.                                                         *)

\* A process group holds processes of the server, or none: groups are named by creation
\* times, and only a process of the same kind joins one.
GroupInv ==
  /\ \A p \in Pids : proc[p].group <= births
  /\ \A p, q \in Pids :
       Exists(p) /\ Exists(q) /\ proc[p].group = proc[q].group => proc[p].bds = proc[q].bds

\* While the wrapper is signalled through its pid or its handle it has not been reaped.
\* Only Windows kills processes one by one.
SignalInv ==
  /\ pc \in {"kill_root", "kill_handle"} => returncode = "none"
  /\ return_to \notin {"kill_root", "kill_handle"}
  /\ ~Windows => kill_list = {}

\* Slots are emptied, and children orphaned.
Shrinks ==
  /\ births' = births
  /\ \A p \in Pids :
       \/ proc'[p] = Free
       \/ /\ proc'[p].birth = proc[p].birth
          /\ proc'[p].bds = proc[p].bds
          /\ proc'[p].group = proc[p].group

\* One unused slot is taken, by the leader of a new group or a member of an old one.
Grows ==
  /\ births' = births + 1
  /\ \E p \in Pids :
       /\ ~Exists(p)
       /\ \A q \in Pids \ {p} : proc'[q] = proc[q]
       /\ proc'[p].birth = births'
       /\ \/ proc'[p].group = births + 1
          \/ \E q \in Pids :
               /\ Exists(q)
               /\ proc'[p].group = proc[q].group
               /\ proc'[p].bds = proc[q].bds

\* Ending processes, and reaping one, empties slots.
LEMMA EndShrinks ==
  ASSUME IInv, NEW K \in SUBSET Pids, NEW code, EndProcesses(K, code), births' = births
  PROVE  Shrinks
<1> SUFFICES ASSUME NEW p \in Pids
             PROVE  \/ proc'[p] = Free
                    \/ /\ proc'[p].birth = proc[p].birth
                       /\ proc'[p].bds = proc[p].bds
                       /\ proc'[p].group = proc[p].group
  BY DEF Shrinks
<1>1. proc[p] \in Process
  BY DEF IInv, TypeOK
<1>2. \/ proc'[p] = proc[p]
      \/ proc'[p] = Free
      \/ proc'[p] = [proc[p] EXCEPT !.parent = NoPid]
  BY DEF EndProcesses, Ended
<1> QED
  BY <1>1, <1>2 DEF Process

\* Reaping the wrapper brings up no process.
LEMMA PollShrinks ==
  ASSUME IInv, Poll, births' = births PROVE Shrinks
BY DEF IInv, TypeOK, Poll, Shrinks

\* The supervisor's thread does nothing between two calls.
LEMMA IdleIsIdle == ASSUME Supervise PROVE pc \notin {"none", "idle"}
BY DEF Supervise, SnapshotStep, SnapshotRoot, SnapshotDescendants, SnapshotChild,
       SnapshotRecord, StopStep,
       StopForced, StopBegun, StopRefused, StopAlreadyExited, StopCommand, StopCommandFailed,
       StopWait, StopExited, KillStep, KillBegun, KillBefore, KillRoot, KillWait, KillHandle,
       KillWaitAgain, KillCaptured, KillAfter, KillResidual, KillDone, ResidualDone

\* Every step empties slots or takes one.
LEMMA TableStep == ASSUME IInv, [Next]_vars PROVE Shrinks \/ Grows
<1>1. ASSUME UNCHANGED <<proc, births>> PROVE Shrinks
  BY <1>1 DEF Shrinks
<1>2. CASE Supervise
  <2>1. CASE SnapshotStep
    BY <1>1, <2>1, PollShrinks
       DEF SnapshotStep, SnapshotRoot, SnapshotDescendants, SnapshotChild,
       SnapshotRecord, osVars
  <2>2. CASE StopStep
    BY <1>1, <2>2, PollShrinks
       DEF StopStep, StopForced, StopBegun, StopRefused, StopAlreadyExited, StopCommand,
           StopCommandFailed, StopWait, StopExited, osVars
  <2>3. CASE KillBegun \/ KillBefore \/ KillWait \/ KillWaitAgain
    BY <2>3, PollShrinks DEF KillBegun, KillBefore, KillWait, KillWaitAgain
  <2>4. CASE KillRoot \/ KillHandle
    <3>1. {pid} \in SUBSET Pids /\ SUBSET Group \subseteq SUBSET Pids
      BY <2>4 DEF IInv, TypeOK, KillRoot, KillHandle, Group
    <3> QED
      BY <1>1, <2>4, <3>1, EndShrinks DEF KillRoot, KillHandle
  <2>5. ASSUME NEW p \in Pids, TaskKill(p) PROVE Shrinks
    <3>1. {p} \cup Descendants(Parents, p) \in SUBSET Pids
      BY DEF Descendants
    <3> QED
      BY <1>1, <2>5, <3>1, EndShrinks DEF TaskKill
  <2>6. CASE KillCaptured \/ KillAfter \/ KillResidual \/ KillDone \/ ResidualDone
    BY <1>1, <2>5, <2>6
       DEF KillCaptured, KillAfter, KillResidual, KillDone, ResidualDone, osVars
  <2> QED
    BY <1>2, <2>1, <2>2, <2>3, <2>4, <2>6 DEF Supervise, KillStep
<1>3. CASE Call
  BY <1>1, <1>3, PollShrinks
     DEF Call, GracefulStop, ForceKillTree, ManagedResidualProcesses, IsAlive, osVars
<1>4. ASSUME NEW p \in Pids, NEW b \in BOOLEAN, NEW q \in Pids \cup {NoPid}, NEW g \in Nat,
             ~Exists(p), births' = births + 1,
             proc' = [proc EXCEPT ![p] = [birth |-> births + 1, bds |-> b, parent |-> q,
                                          group |-> g]],
             \/ g = births + 1
             \/ \E r \in Pids : Exists(r) /\ g = proc[r].group /\ b = proc[r].bds
      PROVE  Grows
  <2>1. /\ \A r \in Pids \ {p} : proc'[r] = proc[r]
        /\ proc'[p].birth = births + 1
        /\ proc'[p].group = g
        /\ proc'[p].bds = b
    BY <1>4 DEF IInv, TypeOK
  <2> QED
    BY <1>4, <2>1 DEF Grows
<1>5. /\ births + 1 \in Nat /\ NoPid \in Pids \cup {NoPid}
      /\ \A q \in Pids : proc[q].group \in Nat /\ q \in Pids \cup {NoPid}
      /\ TRUE \in BOOLEAN /\ FALSE \in BOOLEAN
  BY DEF IInv, TypeOK, Process
<1>6. CASE Start
  BY <1>4, <1>5, <1>6 DEF Start
<1>7. CASE Environment
  <2>1. ASSUME NEW p \in Pids, NEW q \in Pids, SpawnChild(q, p) PROVE Grows
    BY <1>4, <1>5, <2>1 DEF SpawnChild, Born, RunningBds, Running
  <2>2. ASSUME NEW p \in Pids, SpawnForeign(p) PROVE Grows
    <3>1. CASE Born(p, FALSE, NoPid, births + 1)
      BY <1>4, <1>5, <3>1 DEF Born
    <3>2. ASSUME NEW q \in Pids, Exists(q), ~proc[q].bds, Born(p, FALSE, q, proc[q].group)
          PROVE  Grows
      <4>1. proc[q].bds = FALSE
        BY <3>2 DEF IInv, TypeOK, Process
      <4> QED
        BY <1>4, <1>5, <3>2, <4>1 DEF Born
    <3> QED
      BY <2>2, <3>1, <3>2 DEF SpawnForeign
  <2>3. ASSUME NEW p \in Pids, Exit(p) PROVE Shrinks
    <3>1. {p} \in SUBSET Pids
      OBVIOUS
    <3> QED
      BY <2>3, <3>1, EndShrinks DEF Exit
  <2> QED
    BY <1>7, <2>1, <2>2, <2>3 DEF Environment
<1> QED
  BY <1>1, <1>2, <1>3, <1>6, <1>7 DEF Next, vars, osVars

\* No process joins a group of the other kind.
LEMMA NextGroupInv == ASSUME IInv, GroupInv, [Next]_vars PROVE GroupInv'
<1>1. /\ births \in Nat
      /\ \A p \in Pids : proc[p].group \in Nat /\ proc[p].bds \in BOOLEAN
      /\ Free.birth = 0 /\ Free.group = 0
  BY DEF IInv, TypeOK, Process, Free
<1>2. CASE Shrinks
  BY <1>1, <1>2 DEF GroupInv, Shrinks, Exists
<1>3. CASE Grows
  <2>1. PICK p \in Pids :
          /\ ~Exists(p)
          /\ \A q \in Pids \ {p} : proc'[q] = proc[q]
          /\ \/ proc'[p].group = births + 1
             \/ \E q \in Pids :
                  /\ Exists(q)
                  /\ proc'[p].group = proc[q].group
                  /\ proc'[p].bds = proc[q].bds
    BY <1>3 DEF Grows
  <2>2. births' = births + 1 /\ proc'[p].group <= births'
    BY <1>1, <1>3, <2>1 DEF Grows, GroupInv
  <2>3. ASSUME NEW q \in Pids, q # p, Exists(q), proc[q].group = proc'[p].group
        PROVE  proc[q].bds = proc'[p].bds
    BY <1>1, <2>1, <2>3 DEF GroupInv
  <2>4. ASSUME NEW q \in Pids, NEW r \in Pids,
               Exists(q)', Exists(r)', proc'[q].group = proc'[r].group
        PROVE  proc'[q].bds = proc'[r].bds
    BY <2>1, <2>3, <2>4 DEF GroupInv, Exists
  <2> QED
    BY <1>1, <2>1, <2>2, <2>4 DEF GroupInv
<1> QED
  BY <1>2, <1>3, TableStep

\* A wrapper that poll() found running is signalled before it is polled again.
LEMMA NextSignalInv == ASSUME IInv, SignalInv, [Next]_vars PROVE SignalInv'
<1> USE DEF SignalInv, osVars, objectVars, treeVars, stopVars, control, Snapshot
<1>1. CASE Start \/ UNCHANGED vars
  BY <1>1 DEF Start, vars
<1>2. CASE Environment
  BY <1>2 DEF Environment, SpawnChild, SpawnForeign, Exit
<1>3. CASE Call
  BY <1>3 DEF Call, GracefulStop, ForceKillTree, ManagedResidualProcesses, IsAlive, Enter
<1>4. CASE SnapshotStep \/ ResidualDone
  BY <1>4
     DEF ToRecords, SnapshotStep, SnapshotRoot, SnapshotDescendants, SnapshotChild,
       SnapshotRecord, ResidualDone, Return
<1>5. CASE StopStep
  BY <1>5
     DEF StopStep, StopForced, StopBegun, StopRefused, StopAlreadyExited, StopCommand,
         StopCommandFailed, StopWait, StopExited, Return
<1>6. CASE KillBefore \/ KillWait
  <2>1. pid \in Pids
    BY <1>6 DEF IInv, TypeOK, KillBefore, KillWait
  <2>2. ~WrapperExited => returncode' = "none"
    BY <1>6, <2>1 DEF IInv, TypeOK, MachineInv, WrapperInv, KillBefore, KillWait, Poll
  <2> QED
    BY <1>6, <2>2 DEF KillBefore, KillWait, KillTargetsRoot
<1>7. CASE KillBegun \/ KillRoot \/ KillHandle \/ KillWaitAgain \/ KillDone
  BY <1>7 DEF KillBegun, KillRoot, KillHandle, KillWaitAgain, KillDone, Return
<1>8. CASE KillCaptured \/ KillAfter \/ KillResidual
  BY <1>8 DEF KillCaptured, KillAfter, KillResidual, TaskKill, Return
<1> QED
  BY <1>1, <1>2, <1>3, <1>4, <1>5, <1>6, <1>7, <1>8 DEF Next, Supervise, KillStep

\* Another program's slot is left as it is when processes of the server end, and on Linux
\* its parent is none of them.
LEMMA EndSpares ==
  ASSUME IInv, NEW K \in SUBSET Pids, NEW code, EndProcesses(K, code),
         \A q \in K : Exists(q) => proc[q].bds,
         NEW p \in Pids, Exists(p), ~proc[p].bds
  PROVE  proc'[p] = proc[p]
<1> USE ServerProcessAssumption
<1>1. p \notin K
  OBVIOUS
<1>2. ~Windows => proc[p].parent \notin K
  BY DEF IInv, MachineInv, OwnInv, Family
<1> QED
  BY <1>1, <1>2 DEF EndProcesses, Ended

\* A reaped wrapper leaves every other slot as it is.
LEMMA PollSpares ==
  ASSUME IInv, pid \in Pids, Poll, NEW p \in Pids, Exists(p), ~proc[p].bds
  PROVE  proc'[p] = proc[p]
BY DEF IInv, TypeOK, MachineInv, WrapperInv, Poll

\* A step of the supervisor or its owner, other than taskkill, spares other programs.
LEMMA StepSpares ==
  ASSUME IInv, GroupInv, SignalInv, Next, pc' # pc,
         ~Windows \/ pc \in {"kill_root", "kill_handle"},
         NEW p \in Pids, Exists(p), ~proc[p].bds
  PROVE  proc'[p] = proc[p]
<1>1. ~Environment
  BY DEF Environment, SpawnChild, SpawnForeign, Exit, control
<1>2. CASE Start
  BY <1>2 DEF IInv, TypeOK, Start
<1>3. CASE Call
  BY <1>3 DEF Call, GracefulStop, ForceKillTree, ManagedResidualProcesses, IsAlive, osVars,
              control
<1>4. ASSUME Supervise PROVE pid \in Pids
  BY <1>4, IdleIsIdle DEF IInv, TypeOK
<1>5. CASE SnapshotStep \/ StopStep \/ ResidualDone
  <2>1. Poll \/ proc' = proc
    BY <1>5
       DEF SnapshotStep, SnapshotRoot, SnapshotDescendants, SnapshotChild,
       SnapshotRecord, StopStep,
           StopForced, StopBegun, StopRefused, StopAlreadyExited, StopCommand,
           StopCommandFailed, StopWait, StopExited, ResidualDone, osVars
  <2> QED
    BY <1>4, <1>5, <2>1, PollSpares DEF Supervise
<1>6. CASE KillBegun \/ KillBefore \/ KillWait \/ KillWaitAgain
  BY <1>4, <1>6, PollSpares
     DEF Supervise, KillStep, KillBegun, KillBefore, KillWait, KillWaitAgain
<1>7. CASE KillRoot \/ KillHandle
  <2>1. pid \in Pids /\ returncode = "none"
    BY <1>4, <1>7 DEF Supervise, KillStep, SignalInv, KillRoot, KillHandle
  <2>2. Exists(pid) => proc[pid].bds
    BY <2>1 DEF IInv, MachineInv, WrapperInv
  <2>3. ~Windows => Exists(pid)
    BY <2>1 DEF IInv, MachineInv, WrapperInv
  <2>4. PICK K \in SUBSET Pids :
          /\ EndProcesses(K, "nonzero") \/ proc' = proc
          /\ \A q \in K : Exists(q) => proc[q].bds
    <3>1. CASE KillHandle \/ (KillRoot /\ Windows)
      <4>1. {pid} \in SUBSET Pids /\ \A q \in {pid} : Exists(q) => proc[q].bds
        BY <2>1, <2>2
      <4> QED
        BY <3>1, <4>1 DEF KillHandle, KillRoot
    <3>2. CASE KillRoot /\ ~Windows
      <4>1. Group \in SUBSET Pids /\ \A q \in Group : Exists(q) => proc[q].bds
        BY <2>1, <2>2, <2>3, <3>2 DEF GroupInv, Group
      <4> QED
        BY <3>2, <4>1 DEF KillRoot
    <3> QED
      BY <1>7, <3>1, <3>2
  <2> QED
    BY <2>4, EndSpares
<1>8. CASE KillCaptured \/ KillAfter \/ KillResidual \/ KillDone
  <2>1. ~Windows
    BY <1>8 DEF KillCaptured, KillAfter, KillResidual, KillDone
  <2>2. \A q \in Pids : ~TaskKill(q)
    BY <2>1 DEF SignalInv, TaskKill
  <2> QED
    BY <1>8, <2>2 DEF KillCaptured, KillAfter, KillResidual, KillDone, osVars
<1> QED
  BY <1>1, <1>2, <1>3, <1>5, <1>6, <1>7, <1>8 DEF Next, Supervise, KillStep

\* Killing the server through its wrapper never ends another program, although pids are
\* reused, and on Linux nothing the supervisor does ends one (force_kill_tree).
THEOREM OthersAreSpared == Spec => SparesOtherPrograms
<1> DEFINE Inv == IInv /\ GroupInv /\ SignalInv
<1> DEFINE Spares ==
      (pc' # pc /\ (~Windows \/ pc \in {"kill_root", "kill_handle"})) =>
        \A p \in Pids : Exists(p) /\ ~proc[p].bds => proc'[p] = proc[p]
<1>1. Init => Inv
  <2>1. Init => GroupInv /\ SignalInv
    BY DEF Init, GroupInv, SignalInv, Free, Exists
  <2> QED
    BY <2>1, InitIInv
<1>2. Inv /\ [Next]_vars => Inv'
  BY NextIInv, NextGroupInv, NextSignalInv
<1>3. Inv /\ [Next]_vars => [Spares]_vars
  BY StepSpares
<1> QED
  BY <1>1, <1>2, <1>3, PTL DEF Spec, SparesOtherPrograms
---------------------------------------------------------------------------
(* Adoption on Linux.                                                      *)

\* What the parent map gives to the wrapper, and who has the pids of it: processes of the
\* server, and processes that are younger than the map.
Listed == Descendants(ppid_map, pid)

Own(p) == Exists(p) => proc[p].bds \/ proc[p].birth > listed_at

ListInv ==
  /\ pc # "children" => \A p \in Pids : children[p] = 0
  /\ ~Windows /\ pc = "children" =>
       /\ listed_at <= births
       /\ \A p \in Pids : p \in todo \/ children[p] # 0 => p \in Listed
       /\ \A p \in Listed : Own(p)

\* What the map gives to the wrapper, or to one of its descendants, is a descendant.
LEMMA ListedClosed ==
  ASSUME NEW q \in Pids \ {pid}, ppid_map[q] = pid \/ ppid_map[q] \in Listed
  PROVE  q \in Listed
BY DEF Listed, Descendants

\* A slot that is emptied or taken has no older process in it.
LEMMA OwnKept ==
  ASSUME IInv, Shrinks \/ Grows, listed_at <= births, listed_at' = listed_at,
         NEW p \in Pids, Own(p)
  PROVE  Own(p)'
<1>1. births \in Nat /\ listed_at \in Nat /\ Free.birth = 0
  BY DEF IInv, TypeOK, Free
<1>2. CASE Shrinks
  BY <1>1, <1>2 DEF Shrinks, Own, Exists
<1>3. CASE Grows
  BY <1>1, <1>3 DEF Grows, Own, Exists
<1> QED
  BY <1>2, <1>3

\* When the parents are listed, a descendant of the wrapper is a process of the server:
\* another program has its own ancestors.
LEMMA ListInvStarts ==
  ASSUME ~Windows, IInv, ListInv, SnapshotDescendants, pc' = "children" PROVE ListInv'
<1> USE ServerProcessAssumption
<1>1. /\ pid \in Pids /\ pc = "descendants" /\ returncode = "none"
      /\ ppid_map' = Parents /\ listed_at' = births
      /\ todo' = {p \in Pids \ {pid} : proc[p].parent = pid}
      /\ UNCHANGED <<children, osVars, pid>>
  BY DEF IInv, TypeOK, SnapshotInv, DescendantsInv, SnapshotDescendants, ToRecords, objectVars
<1>2. /\ births \in Nat
      /\ Listed' = Descendants(Parents, pid)
  BY <1>1 DEF IInv, TypeOK, Listed, Descendants
<1> DEFINE S == {pid} \cup {p \in Pids : Exists(p) => proc[p].bds}
<1>3. \A r \in Pids : Parents[r] \in S => r \in S
  <2> SUFFICES ASSUME NEW r \in Pids, proc[r].parent \in S, Exists(r), ~proc[r].bds
               PROVE  FALSE
    BY DEF Parents
  <2>1. proc[r].parent # NoPid
    BY <1>1
  <2>2. Exists(proc[r].parent) /\ ~proc[proc[r].parent].bds
    BY <2>1 DEF IInv, MachineInv, OwnInv, Family
  <2> QED
    BY <1>1, <2>2 DEF IInv, MachineInv, WrapperInv
<1>4. \A p \in Listed' : p \in S /\ p # pid
  BY <1>1, <1>2, <1>3 DEF Descendants
<1>5. \A p \in todo' : p \in Listed'
  BY <1>1, <1>2 DEF Descendants, Parents
<1>6. \A p \in Listed' : Own(p)'
  BY <1>1, <1>4 DEF Own, Exists, osVars
<1>7. \A p \in Pids : children'[p] = 0
  BY <1>1 DEF ListInv
<1> QED
  BY <1>1, <1>2, <1>5, <1>6, <1>7 DEF ListInv, osVars

\* A pid that is looked up next was listed too.
LEMMA ListInvGoesOn ==
  ASSUME ~Windows, IInv, ListInv, NEW p \in Pids, SnapshotChild(p), pc' = "children"
  PROVE  ListInv'
<1>1. /\ pc = "children" /\ p \in todo
      /\ todo' = Left(p) /\ children' = Found(p)
      /\ UNCHANGED <<ppid_map, listed_at, osVars, pid>>
  BY DEF SnapshotChild, ToRecords, objectVars
<1>2. Listed' = Listed /\ p \in Listed
  BY <1>1 DEF ListInv, Listed, Descendants
<1>3. \A q \in Pids : q \in todo' => q \in Listed
  BY <1>1, <1>2, ListedClosed DEF ListInv, Left
<1>4. \A q \in Pids : children'[q] # 0 => q \in Listed
  BY <1>1, <1>2 DEF IInv, TypeOK, ListInv, Found
<1>5. \A q \in Listed : Own(q)'
  BY <1>1 DEF ListInv, Own, Exists, osVars
<1> QED
  BY <1>1, <1>2, <1>3, <1>4, <1>5 DEF ListInv, osVars

\* A step that is none of a listing's begins and ends none.
LEMMA NoListing ==
  ASSUME IInv, [Next]_vars, ~SnapshotDescendants, \A p \in Pids : ~SnapshotChild(p)
  PROVE  /\ UNCHANGED listVars
         /\ pc' = "children" => pc = "children" /\ UNCHANGED <<todo, pid>>
         /\ managed_processes' = managed_processes \/ Start
<1> USE DEF treeVars, stopVars, objectVars, control, Snapshot
<1>1. CASE Start \/ UNCHANGED vars
  BY <1>1 DEF Start, vars
<1>2. CASE Environment
  BY <1>2 DEF Environment, SpawnChild, SpawnForeign, Exit
<1>3. CASE Call
  BY <1>3 DEF Call, GracefulStop, ForceKillTree, ManagedResidualProcesses, IsAlive, Enter
<1>4. CASE SnapshotStep \/ ResidualDone
  BY <1>4
     DEF IInv, SnapshotInv, ReturnInv, Labels, SnapshotStep, SnapshotRoot, SnapshotRecord,
         ResidualDone, Return
<1>5. CASE StopStep
  BY <1>5
     DEF StopStep, StopForced, StopBegun, StopRefused, StopAlreadyExited, StopCommand,
         StopCommandFailed, StopWait, StopExited, Return
<1>6. CASE KillStep
  BY <1>6
     DEF KillStep, KillBegun, KillBefore, KillRoot, KillWait, KillHandle, KillWaitAgain,
         KillCaptured, KillAfter, KillResidual, KillDone, TaskKill, Return
<1> QED
  BY <1>1, <1>2, <1>3, <1>4, <1>5, <1>6 DEF Next, Supervise

\* Only the steps of a listing end it.
LEMMA StaysListing ==
  ASSUME [Next]_vars, \A p \in Pids : ~SnapshotChild(p), pc = "children" PROVE pc' = pc
<1>1. ~StopStep /\ ~KillStep /\ ~ResidualDone
  BY DEF StopStep, StopForced, StopBegun, StopRefused, StopAlreadyExited, StopCommand,
         StopCommandFailed, StopWait, StopExited, KillStep, KillBegun, KillBefore, KillRoot,
         KillWait, KillHandle, KillWaitAgain, KillCaptured, KillAfter, KillResidual, KillDone,
         ResidualDone
<1> QED
  BY <1>1 DEF Next, vars, control, Start, Environment, SpawnChild, SpawnForeign, Exit, Call,
              GracefulStop, ForceKillTree, ManagedResidualProcesses, IsAlive, Enter, Supervise,
              SnapshotStep, SnapshotRoot, SnapshotDescendants, SnapshotRecord

\* Every step keeps it.
LEMMA NextListInv == ASSUME ~Windows, IInv, ListInv, [Next]_vars PROVE ListInv'
<1>1. CASE ~SnapshotDescendants /\ \A p \in Pids : ~SnapshotChild(p)
  <2>1. /\ UNCHANGED listVars
        /\ pc' = "children" => pc = "children" /\ UNCHANGED <<todo, pid>>
    BY <1>1, NoListing
  <2>2. pc = "children" => pc' = "children"
    BY <1>1, StaysListing
  <2>3. births <= births' /\ births \in Nat /\ births' \in Nat /\ listed_at \in Nat
    BY TableStep, NextIInv DEF IInv, TypeOK, Shrinks, Grows
  <2>4. pc' = "children" => Listed' = Listed
    BY <2>1 DEF Listed, Descendants, listVars
  <2>5. ~Windows /\ pc' = "children" => \A p \in Listed : Own(p)'
    <3>1. Listed \subseteq Pids
      BY DEF Listed, Descendants
    <3> QED
      BY <2>1, <3>1, TableStep, OwnKept DEF ListInv, listVars
  <2> QED
    BY <2>1, <2>2, <2>3, <2>4, <2>5 DEF ListInv, listVars
<1>2. CASE SnapshotDescendants
  <2>1. pc' = "children" \/ ToRecords
    BY <1>2 DEF SnapshotDescendants
  <2>2. ToRecords => ListInv'
    BY DEF ToRecords, ListInv, NoChildren
  <2> QED
    BY <1>2, <2>1, <2>2, ListInvStarts
<1>3. ASSUME NEW p \in Pids, SnapshotChild(p) PROVE ListInv'
  <2>1. pc' = "children" \/ ToRecords
    BY <1>3 DEF SnapshotChild
  <2>2. ToRecords => ListInv'
    BY DEF ToRecords, ListInv, NoChildren
  <2> QED
    BY <1>3, <2>1, <2>2, ListInvGoesOn
<1> QED
  BY <1>1, <1>2, <1>3

\* A step that adopts nobody brings no adopted process to life.
LEMMA NoAdoption ==
  ASSUME IInv, Shrinks \/ Grows, managed_processes' = managed_processes,
         NEW p \in Pids, KnownAlive(p)'
  PROVE  KnownAlive(p)
<1>1. /\ births \in Nat /\ managed_processes[p] \in Nat /\ managed_processes[p] <= births
      /\ Free.birth = 0
  BY DEF IInv, TypeOK, MachineInv, BirthInv, Free
<1> QED
  BY <1>1 DEF Shrinks, Grows, KnownAlive

\* The adoption of a living process.
LEMMA AdoptionStep ==
  ASSUME ~Windows, IInv, ListInv, [Next]_vars, NEW p \in Pids, KnownAlive(p)', ~KnownAlive(p)
  PROVE  proc'[p].bds \/ proc'[p].birth > listed_at
<1>1. CASE Start
  <2>1. p = pid' /\ proc'[p].bds
    BY <1>1 DEF IInv, TypeOK, Start, KnownAlive
  <2> QED
    BY <2>1
<1>2. ASSUME NEW q \in Pids, SnapshotChild(q)
      PROVE  proc'[p].bds \/ proc'[p].birth > listed_at
  <2>1. /\ UNCHANGED <<proc, pid>> /\ pc = "children" /\ q \in todo
        /\ managed_processes' = managed_processes \/ Adopt(Found(q))
    BY <1>2 DEF SnapshotChild, osVars, objectVars
  <2>2. Adopt(Found(q)) /\ managed_processes'[p] # managed_processes[p]
    BY <2>1 DEF KnownAlive
  <2>3. Found(q)[p] # 0
    BY <2>2, FoundBound, AdoptWhat
  <2>4. p \in Listed
    BY <2>1, <2>3 DEF IInv, TypeOK, ListInv, Found
  <2>5. Exists(p)
    BY <2>1 DEF KnownAlive, Exists
  <2> QED
    BY <2>1, <2>4, <2>5 DEF ListInv, Own
<1>3. CASE SnapshotDescendants
  BY <1>3 DEF SnapshotDescendants, osVars, KnownAlive
<1> QED
  BY <1>1, <1>2, <1>3, NoListing, NoAdoption, TableStep

\* On Linux, however pids are reused, the supervisor adopts processes of its server only, or
\* such as took over a pid while the list it belonged to was looked up
\* (process_tree_snapshot).
THEOREM OnlyOwnAdopted == ASSUME ~Windows PROVE Spec => AdoptsOnlyOwn
<1> DEFINE Inv == IInv /\ ListInv
<1> DEFINE Adopts ==
      \A p \in Pids :
        KnownAlive(p)' /\ ~KnownAlive(p) => proc'[p].bds \/ proc'[p].birth > listed_at
<1>1. Init => Inv
  <2>1. Init => ListInv
    BY DEF Init, ListInv, NoChildren
  <2> QED
    BY <2>1, InitIInv
<1>2. Inv /\ [Next]_vars => Inv'
  BY NextIInv, NextListInv
<1>3. Inv /\ [Next]_vars => [Adopts]_vars
  BY AdoptionStep
<1> QED
  BY <1>1, <1>2, <1>3, PTL DEF Spec, AdoptsOnlyOwn
---------------------------------------------------------------------------
(* A kill on Linux.                                                        *)

\* The statement of the call under way: where the thread is, or where the running snapshot
\* returns to.
Statement == IF pc \in {"root", "descendants", "children", "records"} THEN return_to ELSE pc

KillLabels == {"kill_begun", "kill_before", "kill_root", "kill_wait", "kill_handle",
               "kill_wait_again", "kill_captured", "kill_after", "kill_residual", "kill_done"}

\* What force_kill_tree does when it has waited for the wrapper, or found it ended.
Signalled == {"kill_captured", "kill_after", "kill_residual", "kill_done"}

\* After both waits the wrapper has ended, or the diagnostic says that it has not. A kill
\* has a diagnostic to say it in.
KilledInv ==
  /\ Statement \in Signalled \/ result = "killed" => WrapperExited \/ forced_wait_timeout
  /\ Statement \in KillLabels \ {"kill_begun"} \/ result = "killed" => has_diagnostic
  /\ result # "raised"

\* A step of the call leads to its next statement, or ends it.
LEMMA KillGoesOn ==
  ASSUME Supervise, Statement \in KillLabels
  PROVE  Statement' \in KillLabels \/ (pc' = "idle" /\ result' \in {"killed", "raised"})
<1> USE DEF Statement, KillLabels
<1>1. CASE SnapshotStep
  BY <1>1 DEF SnapshotStep, SnapshotRoot, SnapshotDescendants, SnapshotChild, SnapshotRecord,
              ToRecords
<1>2. ~StopStep /\ ~ResidualDone
  BY DEF StopStep, StopForced, StopBegun, StopRefused, StopAlreadyExited, StopCommand,
         StopCommandFailed, StopWait, StopExited, ResidualDone
<1>3. CASE KillStep
  BY <1>3
     DEF KillStep, KillBegun, KillBefore, KillRoot, KillWait, KillHandle, KillWaitAgain,
         KillCaptured, KillAfter, KillResidual, KillDone, TaskKill, Snapshot, Return
<1> QED
  BY <1>1, <1>2, <1>3 DEF Supervise

\* Every step keeps it.
LEMMA NextKilledInv ==
  ASSUME ~Windows, IInv, SignalInv, KilledInv, [Next]_vars PROVE KilledInv'
<1> USE DEF KilledInv, Statement, Signalled, KillLabels, osVars, objectVars, stopVars, control,
            Snapshot, WrapperExited
<1>1. CASE Start \/ UNCHANGED vars
  BY <1>1 DEF Start, vars
<1>2. CASE Environment
  <2>1. UNCHANGED <<stopVars, control, objectVars>>
    BY <1>2 DEF Environment, SpawnChild, SpawnForeign, Exit
  <2>2. WrapperExited => WrapperExited'
    BY <1>2, EnvironmentMachine DEF MachineStep
  <2> QED
    BY <2>1, <2>2
<1>3. CASE Call
  BY <1>3 DEF Call, GracefulStop, ForceKillTree, ManagedResidualProcesses, IsAlive, Enter
<1>4. CASE SnapshotStep \/ ResidualDone
  BY <1>4
     DEF ToRecords, SnapshotStep, SnapshotRoot, SnapshotDescendants, SnapshotChild,
       SnapshotRecord, ResidualDone, Return
<1>5. CASE StopStep
  BY <1>5
     DEF IInv, StopInv, StopStep, NewDiagnostic, StopForced, StopBegun, StopRefused,
         StopAlreadyExited, StopCommand,
         StopCommandFailed, StopWait, StopExited, Return
<1>6. CASE KillRoot \/ KillHandle
  BY <1>6 DEF IInv, StopInv, KillRoot, KillHandle
<1>7. CASE KillBegun \/ KillBefore \/ KillWait \/ KillWaitAgain \/ KillDone
  BY <1>7
     DEF IInv, StopInv, KillBegun, NewDiagnostic, KillBefore, KillTargetsRoot, KillWait,
         KillWaitAgain,
         KillDone, Return
<1>8. CASE KillCaptured \/ KillAfter \/ KillResidual
  <2>1. \A p \in Pids : ~TaskKill(p)
    BY DEF SignalInv, TaskKill
  <2> QED
    BY <1>8, <2>1 DEF KillCaptured, KillAfter, KillResidual
<1> QED
  BY <1>1, <1>2, <1>3, <1>4, <1>5, <1>6, <1>7, <1>8 DEF Next, Supervise, KillStep

\* The invariants of this and of the previous section.
LEMMA InitOthers == Init => GroupInv /\ SignalInv /\ KilledInv
BY DEF Init, GroupInv, SignalInv, KilledInv, Statement, Signalled, KillLabels, Free, Exists

\* What a kill leaves behind it: no exception, and no wrapper that is not written down.
KillEnds ==
  result # "raised" /\ (result = "killed" => WrapperExited \/ forced_wait_timeout)

\* On Linux force_kill_tree never raises, and returns only when the wrapper has ended or when
\* the diagnostic says that it outlived the signal to its group, kill() and both waits
\* (os.killpg, wait, forced_wait_timeout).
THEOREM KillEndsTheWrapper == ASSUME ~Windows PROVE Spec => []KillEnds
<1> DEFINE Inv == IInv /\ SignalInv /\ KilledInv
<1>1. Init => Inv
  BY InitIInv, InitOthers
<1>2. Inv /\ [Next]_vars => Inv'
  BY NextIInv, NextSignalInv, NextKilledInv
<1>3. Inv => KillEnds
  BY DEF KilledInv, KillEnds
<1> QED
  BY <1>1, <1>2, <1>3, PTL DEF Spec
=============================================================================
