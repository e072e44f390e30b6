----------------------------- MODULE RunContract -----------------------------
(***************************************************************************)
(* What every validation run promises, whatever it validates: it takes a   *)
(* server and a fleet of bots while it works, passes only when it has      *)
(* given both back, writes the verdict it has reached, and is not over     *)
(* while its fleet plays on. Modules Validation and IntegrationRun (on     *)
(* Linux) are shown to implement it.                                       *)
(***************************************************************************)

VARIABLES
  phase,    \* working, ending (there is a verdict), over, or abandoned
  open,     \* what the run has running
  verdict,  \* what the run has concluded
  recorded  \* what its result file says

vars == <<phase, open, verdict, recorded>>

Resources == {"server", "fleet"}
Verdicts == {"running", "PASS", "FAIL"}

Init == phase = "working" /\ open = {} /\ verdict = "running" /\ recorded = "running"

Acquire(x) ==
  /\ phase = "working" /\ open' = open \cup {x} /\ UNCHANGED <<phase, verdict, recorded>>

\* What the run stops, and what stops by itself, at any time.
Release == open' \in SUBSET open /\ UNCHANGED <<phase, verdict, recorded>>

Pass ==
  /\ phase = "working" /\ open = {}
  /\ phase' = "ending" /\ verdict' = "PASS" /\ UNCHANGED <<open, recorded>>

Fail ==
  /\ phase = "working"
  /\ phase' = "ending" /\ verdict' = "FAIL" /\ open' \in SUBSET open /\ UNCHANGED recorded

Record ==
  /\ phase = "ending" /\ recorded' = verdict /\ UNCHANGED <<phase, open, verdict>>

End ==
  /\ phase = "ending" /\ "fleet" \notin open
  /\ phase' = "over" /\ recorded' = verdict /\ UNCHANGED <<open, verdict>>

\* The run is killed, or fails in a place where nothing catches the exception.
Abandon ==
  /\ phase \in {"working", "ending"}
  /\ phase' = "abandoned" /\ open' \in SUBSET open /\ UNCHANGED <<verdict, recorded>>

Next ==
  \/ \E x \in Resources : Acquire(x)
  \/ Release \/ Pass \/ Fail \/ Record \/ End \/ Abandon

Spec == Init /\ [][Next]_vars
=============================================================================
