--------------------------- MODULE RemoteSyscall ---------------------------
(***************************************************************************)
(* The ptrace-mediated remote syscall of src/src/utils/task.c: the         *)
(* controller attaches to the target (task_attach), runs syscalls in it by *)
(* overwriting a few bytes at the start of libc's text with a syscall      *)
(* instruction and pointing the registers at them (task_syscall, with the *)
(* wait loop wait_for_stop), and detaches (task_detach).                   *)
(*                                                                         *)
(* The target is a second actor.  While it runs it may execute the         *)
(* injected instruction, receive a signal from an outside sender (the     *)
(* kernel turns that into a ptrace signal-delivery stop) or be killed.     *)
(* Registers and the scratch bytes are abstracted to what the properties   *)
(* tell apart: the target's own values, the values task_syscall put there *)
(* and what the syscall left behind.                                       *)
(***************************************************************************)
EXTENDS Naturals, FiniteSets

CONSTANTS
  ExtSignals,    \* signals an outside process may send to the target
  MaxExtSignals, \* bound on the number of signals sent from outside
  MaxCalls       \* number of task_syscall calls between attach and detach

Signals == {"SIGSTOP", "SIGTRAP", "SIGUSR1", "SIGSEGV", "SIGKILL"}

ASSUME ExtSignals \subseteq Signals \ {"SIGTRAP"}
ASSUME MaxExtSignals \in Nat /\ MaxCalls \in Nat \ {0}

NoSig == "0"    \* the zero signal passed to PTRACE_CONT

VARIABLES
  \* --- the target process ---
  proc,      \* "run", "stop" (ptrace-stopped) or "dead"
  event,     \* the wait status the next waitpid(2) collects, or NoEvent
  pending,   \* signals sent to the target and not yet delivered
  regs,      \* "Orig" own registers, "Call" set up by task_syscall,
             \* "Done" after the injected syscall ran
  scratch,   \* bytes at libc_vma->start: "Orig", "Insn" or "Junk"
  traced,    \* the controller is the target's tracer
  sent,      \* signals sent from outside so far
  \* --- the controller ---
  ctl,       \* program counter
  status,    \* signal the wait loops pass to the next PTRACE_CONT
  oldRegs,   \* old_regs of task_syscall
  origCode,  \* orig_code of task_syscall
  collected, \* regs read back by the second PTRACE_GETREGS
  calls,     \* task_syscall calls made
  ret,       \* ret of task_syscall: "ok" (0) or "err" (negative)
  lastRes,   \* *res of the last successful call: "Ret" the syscall's own
             \* return value, "Stale" a register the syscall never set
  \* --- history ---
  executed   \* times the injected syscall ran during the current call

target == <<proc, event, pending, regs, scratch, traced, sent>>
control == <<ctl, status, oldRegs, origCode, collected, calls, ret, lastRes>>
vars == <<target, control, executed>>

NoEvent == [kind |-> "none", sig |-> NoSig]
Stopped(s) == [kind |-> "stopped", sig |-> s]
Signaled(s) == [kind |-> "signaled", sig |-> s]

CallPcs == {"save", "inject", "cont", "reap", "collect", "restore", "poke"}

Alive == proc # "dead"

TypeOK ==
  /\ proc \in {"run", "stop", "dead"}
  /\ event \in {NoEvent} \cup [kind : {"stopped", "signaled"}, sig : Signals]
  /\ pending \subseteq Signals
  /\ regs \in {"Orig", "Call", "Done"}
  /\ scratch \in {"Orig", "Insn", "Junk"}
  /\ traced \in BOOLEAN
  /\ sent \in 0..MaxExtSignals
  /\ ctl \in {"attach", "attachReap", "attachCont", "idle", "detach", "exit"}
               \cup CallPcs
  /\ status \in Signals \cup {NoSig}
  /\ oldRegs \in {"Orig", "Call", "Done"}
  /\ origCode \in {"Orig", "Insn", "Junk"}
  /\ collected \in {"Orig", "Call", "Done"}
  /\ calls \in 0..MaxCalls
  /\ ret \in {"none", "ok", "err"}
  /\ lastRes \in {"none", "Ret", "Stale"}
  /\ executed \in 0..2

(* The target runs its own code, traced by nobody, and nothing is pending. *)
Init ==
  /\ proc = "run" /\ event = NoEvent /\ pending = {}
  /\ regs = "Orig" /\ scratch = "Orig" /\ traced = FALSE /\ sent = 0
  /\ ctl = "attach" /\ status = NoSig
  /\ oldRegs = "Orig" /\ origCode = "Orig" /\ collected = "Orig"
  /\ calls = 0 /\ ret = "none" /\ lastRes = "none"
  /\ executed = 0

-----------------------------------------------------------------------------
(***************************************************************************)
(* The target and the outside world.                                      *)
(***************************************************************************)

\* kill(2) from another process.  SIGKILL ends the target at once, stopped
\* or not; any other signal waits until the target runs.
SendSignal(s) ==
  /\ Alive /\ sent < MaxExtSignals
  /\ sent' = sent + 1
  /\ IF s = "SIGKILL"
       THEN /\ proc' = "dead" /\ event' = Signaled("SIGKILL")
            /\ UNCHANGED pending
       ELSE /\ pending' = pending \cup {s}
            /\ UNCHANGED <<proc, event>>
  /\ UNCHANGED <<regs, scratch, traced, control, executed>>

\* A traced target that runs and has a signal pending enters a
\* signal-delivery stop, reported to the tracer's waitpid(2).
DeliverSignal(s) ==
  /\ proc = "run" /\ traced /\ s \in pending
  /\ proc' = "stop" /\ event' = Stopped(s)
  /\ pending' = pending \ {s}
  /\ UNCHANGED <<regs, scratch, traced, sent, control, executed>>

\* The target reaches the injected bytes with the prepared registers: the
\* syscall runs, its return value lands in the return register and the
\* trap that ends SYSCALL_INSTR stops the target with SIGTRAP.
ExecSyscall ==
  /\ proc = "run" /\ regs = "Call" /\ scratch = "Insn"
  /\ regs' = "Done" /\ executed' = executed + 1
  /\ proc' = "stop" /\ event' = Stopped("SIGTRAP")
  /\ UNCHANGED <<pending, scratch, traced, sent, control>>

\* The target executes its own code; nothing the model tracks changes.
RunOwnCode ==
  /\ proc = "run" /\ regs # "Call"
  /\ UNCHANGED vars

Target ==
  \/ \E s \in ExtSignals : SendSignal(s)
  \/ \E s \in Signals : DeliverSignal(s)
  \/ ExecSyscall
  \/ RunOwnCode

-----------------------------------------------------------------------------
(***************************************************************************)
(* PTRACE_CONT with a signal: the tracee resumes and the signal is        *)
(* delivered.  SIGSEGV kills it; SIGUSR1 runs a handler that returns to   *)
(* where the target was, or, with the default disposition, kills it.      *)
(***************************************************************************)
ResumeWith(sig) ==
  \/ /\ sig \in {NoSig, "SIGUSR1"}
     /\ proc' = "run" /\ event' = NoEvent
  \/ /\ sig \in {"SIGUSR1", "SIGSEGV"}
     /\ proc' = "dead" /\ event' = Signaled(sig)

\* The wait status a waitpid(2) call collects.
Reap == event # NoEvent /\ event' = NoEvent

-----------------------------------------------------------------------------
(***************************************************************************)
(* task_attach: PTRACE_ATTACH, then waitpid until the SIGSTOP of the      *)
(* attach is seen; a SIGTRAP is swallowed and every other stop or death   *)
(* is passed back with PTRACE_CONT.                                       *)
(***************************************************************************)
AttachCall ==
  /\ ctl = "attach"
  /\ IF Alive
       THEN /\ traced' = TRUE /\ pending' = pending \cup {"SIGSTOP"}
            /\ ctl' = "attachReap"
       ELSE /\ ctl' = "exit" /\ UNCHANGED <<traced, pending>>
  /\ UNCHANGED <<proc, event, regs, scratch, sent, status, oldRegs, origCode,
                 collected, calls, ret, lastRes, executed>>

AttachReap ==
  /\ ctl = "attachReap" /\ Reap
  /\ IF event = Stopped("SIGSTOP")
       THEN ctl' = "idle" /\ status' = NoSig
       ELSE /\ ctl' = "attachCont"
            /\ status' = IF event.sig = "SIGTRAP" THEN NoSig ELSE event.sig
  /\ UNCHANGED <<proc, pending, regs, scratch, traced, sent, oldRegs,
                 origCode, collected, calls, ret, lastRes, executed>>

AttachCont ==
  /\ ctl = "attachCont"
  /\ IF Alive
       THEN ResumeWith(status) /\ ctl' = "attachReap"
       ELSE ctl' = "exit" /\ UNCHANGED <<proc, event>>
  /\ UNCHANGED <<pending, regs, scratch, traced, sent, status, oldRegs,
                 origCode, collected, calls, ret, lastRes, executed>>

\* The caller makes its calls, then detaches.
StartCall ==
  /\ ctl = "idle" /\ calls < MaxCalls
  /\ ctl' = "save" /\ calls' = calls + 1 /\ executed' = 0
  /\ ret' = "none" /\ lastRes' = "none"
  /\ UNCHANGED <<target, status, oldRegs, origCode, collected>>

\* task_detach: PTRACE_DETACH lets the target go on from where it is.
Detach ==
  /\ ctl = "idle" /\ calls = MaxCalls
  /\ ctl' = "exit"
  /\ IF Alive
       THEN proc' = "run" /\ traced' = FALSE
       ELSE UNCHANGED <<proc, traced>>
  /\ UNCHANGED <<event, pending, regs, scratch, sent, status, oldRegs,
                 origCode, collected, calls, ret, lastRes, executed>>

-----------------------------------------------------------------------------
(***************************************************************************)
(* task_syscall.  Every ptrace request and every access to /proc/PID/mem  *)
(* fails once the target is dead.                                          *)
(***************************************************************************)
\* PTRACE_GETREGS into old_regs (an error returns at once), then the read
\* of the scratch bytes into orig_code, whose result is not checked: when
\* it fails orig_code keeps whatever the stack held.
SaveState ==
  /\ ctl = "save"
  /\ IF Alive
       THEN /\ oldRegs' = regs /\ origCode' = scratch /\ ctl' = "inject"
            /\ UNCHANGED ret
       ELSE /\ origCode' = "Junk" /\ ctl' = "idle" /\ ret' = "err"
            /\ UNCHANGED oldRegs
  /\ UNCHANGED <<target, status, collected, calls, lastRes, executed>>

\* Mutant: the write of SYSCALL_INSTR does not reach the target.
InjectNoInsn ==
  /\ ctl = "inject"
  /\ IF Alive
       THEN /\ regs' = "Call" /\ ctl' = "cont" /\ UNCHANGED <<scratch, ret>>
       ELSE /\ ctl' = "poke" /\ ret' = "err" /\ UNCHANGED <<scratch, regs>>
  /\ status' = NoSig
  /\ UNCHANGED <<proc, event, pending, traced, sent, oldRegs, origCode,
                 collected, calls, lastRes, executed>>

\* Write SYSCALL_INSTR over the scratch bytes (unchecked), build the
\* syscall registers from old_regs and PTRACE_SETREGS them; a failure
\* goes to poke_back.
Inject ==
  /\ ctl = "inject"
  /\ IF Alive
       THEN /\ scratch' = "Insn" /\ regs' = "Call" /\ ctl' = "cont"
            /\ UNCHANGED ret
       ELSE /\ ctl' = "poke" /\ ret' = "err" /\ UNCHANGED <<scratch, regs>>
  /\ status' = NoSig
  /\ UNCHANGED <<proc, event, pending, traced, sent, oldRegs, origCode,
                 collected, calls, lastRes, executed>>

\* wait_for_stop, top of the loop: PTRACE_CONT with the saved status.
WaitCont ==
  /\ ctl = "cont"
  /\ IF Alive
       THEN ResumeWith(status) /\ ctl' = "reap" /\ UNCHANGED ret
       ELSE ctl' = "poke" /\ ret' = "err" /\ UNCHANGED <<proc, event>>
  /\ UNCHANGED <<pending, regs, scratch, traced, sent, status, oldRegs,
                 origCode, collected, calls, lastRes, executed>>

\* Mutant: status = the whole wait status instead of WSTOPSIG(status); the
\* raw status is not a signal number.
WaitReapRawStatus ==
  /\ ctl = "reap" /\ Reap
  /\ CASE event.kind = "stopped" /\ event.sig \in {"SIGSTOP", "SIGTRAP"} ->
            ctl' = "collect" /\ UNCHANGED <<status, ret>>
       [] event.kind = "stopped" /\ event.sig = "SIGSEGV" ->
            ctl' = "poke" /\ ret' = "err" /\ UNCHANGED status
       [] OTHER ->
            ctl' = "cont" /\ status' = event.kind /\ UNCHANGED ret
  /\ UNCHANGED <<proc, pending, regs, scratch, traced, sent, oldRegs,
                 origCode, collected, calls, lastRes, executed>>

\* Mutant: every stop other than SIGSTOP and SIGTRAP fails the wait.
WaitReapFailOnSignal ==
  /\ ctl = "reap" /\ Reap
  /\ IF event.kind = "stopped" /\ event.sig \in {"SIGSTOP", "SIGTRAP"}
       THEN ctl' = "collect" /\ UNCHANGED ret
       ELSE ctl' = "poke" /\ ret' = "err"
  /\ UNCHANGED <<proc, pending, regs, scratch, traced, sent, status, oldRegs,
                 origCode, collected, calls, lastRes, executed>>

\* Mutant: any stop ends the wait.
WaitReapAnyStop ==
  /\ ctl = "reap" /\ Reap
  /\ IF event.kind = "stopped"
       THEN ctl' = "collect" /\ UNCHANGED <<status, ret>>
       ELSE ctl' = "cont" /\ status' = event.sig /\ UNCHANGED ret
  /\ UNCHANGED <<proc, pending, regs, scratch, traced, sent, oldRegs,
                 origCode, collected, calls, lastRes, executed>>

\* Mutant: a SIGSEGV stop returns at once instead of going to poke_back.
WaitReapSegvReturns ==
  /\ ctl = "reap" /\ Reap
  /\ CASE event.kind = "stopped" /\ event.sig \in {"SIGSTOP", "SIGTRAP"} ->
            ctl' = "collect" /\ UNCHANGED <<status, ret>>
       [] event.kind = "stopped" /\ event.sig = "SIGSEGV" ->
            ctl' = "idle" /\ ret' = "err" /\ UNCHANGED status
       [] OTHER ->
            ctl' = "cont" /\ status' = event.sig /\ UNCHANGED ret
  /\ UNCHANGED <<proc, pending, regs, scratch, traced, sent, oldRegs,
                 origCode, collected, calls, lastRes, executed>>

\* wait_for_stop, waitpid: a SIGSTOP or SIGTRAP stop ends the wait, a
\* SIGSEGV stop fails it, any other stop is passed back on the next
\* PTRACE_CONT, and a death passes its signal (whose PTRACE_CONT fails).
WaitReap ==
  /\ ctl = "reap" /\ Reap
  /\ CASE event.kind = "stopped" /\ event.sig \in {"SIGSTOP", "SIGTRAP"} ->
            ctl' = "collect" /\ UNCHANGED <<status, ret>>
       [] event.kind = "stopped" /\ event.sig = "SIGSEGV" ->
            ctl' = "poke" /\ ret' = "err" /\ UNCHANGED status
       [] OTHER ->
            ctl' = "cont" /\ status' = event.sig /\ UNCHANGED ret
  /\ UNCHANGED <<proc, pending, regs, scratch, traced, sent, oldRegs,
                 origCode, collected, calls, lastRes, executed>>

\* PTRACE_GETREGS of the registers the syscall left.
Collect ==
  /\ ctl = "collect"
  /\ IF Alive
       THEN collected' = regs /\ ctl' = "restore" /\ UNCHANGED ret
       ELSE ctl' = "poke" /\ ret' = "err" /\ UNCHANGED collected
  /\ UNCHANGED <<target, status, oldRegs, origCode, calls, lastRes, executed>>

\* PTRACE_SETREGS of old_regs (ret 0 on success); then *res is taken from
\* the return register of the collected set.
Restore ==
  /\ ctl = "restore"
  /\ ctl' = "poke"
  /\ IF Alive
       THEN /\ regs' = oldRegs /\ ret' = "ok"
            /\ lastRes' = IF collected = "Done" THEN "Ret" ELSE "Stale"
       ELSE /\ ret' = "err" /\ UNCHANGED <<regs, lastRes>>
  /\ UNCHANGED <<proc, event, pending, scratch, traced, sent, status, oldRegs,
                 origCode, collected, calls, executed>>

\* poke_back: write orig_code back over the scratch bytes (unchecked) and
\* return ret.
PokeBack ==
  /\ ctl = "poke"
  /\ scratch' = IF Alive THEN origCode ELSE scratch
  /\ ctl' = "idle"
  /\ UNCHANGED <<proc, event, pending, regs, traced, sent, status, oldRegs,
                 origCode, collected, calls, ret, lastRes, executed>>

Controller ==
  \/ AttachCall \/ AttachReap \/ AttachCont
  \/ StartCall \/ Detach
  \/ SaveState \/ Inject \/ WaitCont \/ WaitReap
  \/ Collect \/ Restore \/ PokeBack

\* The controller has exited; the model stops here.
Finished == ctl = "exit" /\ UNCHANGED vars

Next == Controller \/ Target \/ Finished

(***************************************************************************)
(* The controller is a single thread that never stops between its steps,  *)
(* and the kernel eventually runs a resumed tracee and delivers its       *)
(* pending signals.  The outside sender gets no fairness.                 *)
(***************************************************************************)
Fairness ==
  /\ WF_vars(Controller)
  /\ WF_vars(ExecSyscall)
  /\ \A s \in Signals : WF_vars(DeliverSignal(s))

Spec == Init /\ [][Next]_vars /\ Fairness

-----------------------------------------------------------------------------
(***************************************************************************)
(* Properties.                                                             *)
(***************************************************************************)

\* Between calls, whatever path task_syscall took (an error of any ptrace
\* request, a SIGSEGV stop, a forwarded signal), a target that is still
\* alive has its own bytes back at libc_vma->start: the poke_back label of
\* task_syscall is reached on every path that wrote SYSCALL_INSTR.
ScratchRestored ==
  ctl \in {"idle", "exit"} /\ Alive => scratch = "Orig"

\* Between calls, a target that is still alive has its own registers back
\* (spec 4.4: "after any call, the target's libc-base bytes and register
\* set must equal their pre-call values, barring a crash").
RegsRestored ==
  ctl \in {"idle", "exit"} /\ Alive => regs = "Orig"

\* A call of task_syscall that returns 0 ran the injected syscall exactly
\* once and hands the caller that syscall's own return value, never a
\* register the syscall did not set.
ResultGenuine ==
  ctl = "idle" /\ ret = "ok" => executed = 1 /\ lastRes = "Ret"

\* Every call of task_syscall returns: wait_for_stop does not wait for a
\* stop that never comes, and the attach handshake ends.
CallReturns ==
  /\ \A pc \in CallPcs : (ctl = pc) ~> (ctl = "idle")
  /\ (ctl = "attachReap") ~> (ctl \in {"idle", "exit"})


-----------------------------------------------------------------------------
(***************************************************************************)
(* Refinement: task_syscall implements AtomicSyscall.  A call is busy     *)
(* from StartCall until poke_back returns; its result is visible to the   *)
(* caller only once it has returned.                                      *)
(***************************************************************************)
AbsPhase ==
  CASE ctl \in CallPcs -> "busy"
    [] ctl = "exit"    -> "exit"
    [] OTHER           -> "idle"

Atomic == INSTANCE AtomicSyscall WITH
            phase  <- AbsPhase,
            alive  <- Alive,
            ran    <- executed,
            result <- IF ctl \in CallPcs THEN "none" ELSE ret

\* Under the refinement mapping, every behaviour of the attach handshake,
\* task_syscall and task_detach is one of AtomicSyscall: the injected
\* syscall runs at most once per call, a call that returns 0 ran it, and
\* every call returns.
AtomicRefined == Atomic!Spec

=============================================================================
