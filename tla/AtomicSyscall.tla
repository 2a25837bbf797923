--------------------------- MODULE AtomicSyscall ---------------------------
(***************************************************************************)
(* What a remote syscall promises its caller (spec 4.4): a call runs the  *)
(* syscall in the target at most once, as one step, and returns; it      *)
(* returns success only if the syscall ran.  The target may die at any   *)
(* time.  PatchLoader relies on this view of task_syscall, and           *)
(* RemoteSyscall is checked to implement it.                             *)
(***************************************************************************)
EXTENDS Naturals

VARIABLES
  phase,    \* "idle" between calls, "busy" inside one, "exit" after detach
  alive,    \* the target exists
  ran,      \* how often the syscall of the current call has run: 0 or 1
  result    \* what the last call returned: "none", "ok" or "err"

avars == <<phase, alive, ran, result>>

Init ==
  /\ phase = "idle" /\ alive = TRUE /\ ran = 0 /\ result = "none"

\* A caller enters task_syscall.
Begin ==
  /\ phase = "idle"
  /\ phase' = "busy" /\ ran' = 0 /\ result' = "none"
  /\ UNCHANGED alive

\* The syscall takes effect in the target, once.
Run ==
  /\ phase = "busy" /\ alive /\ ran = 0
  /\ ran' = 1
  /\ UNCHANGED <<phase, alive, result>>

\* The call returns: success only if its syscall ran.
Return ==
  /\ phase = "busy"
  /\ phase' = "idle"
  /\ result' \in {"err"} \cup (IF ran = 1 THEN {"ok"} ELSE {})
  /\ UNCHANGED <<alive, ran>>

\* The target is killed.
Kill ==
  /\ alive
  /\ alive' = FALSE
  /\ UNCHANGED <<phase, ran, result>>

\* The controller detaches and stops issuing calls.
Finish ==
  /\ phase = "idle"
  /\ phase' = "exit"
  /\ UNCHANGED <<alive, ran, result>>

Next == Begin \/ Run \/ Return \/ Kill \/ Finish

\* Every call returns.
Spec == Init /\ [][Next]_avars /\ WF_avars(Return)

=============================================================================
