-------------------------- MODULE MCRemoteSyscall --------------------------
(* Instantiates RemoteSyscall for TLC: which signals the outside world may *)
(* send decides which paths of wait_for_stop are exercised.               *)
EXTENDS RemoteSyscall

\* Signals the code is written to handle: a signal it passes on and a kill.
HandledSignals == {"SIGUSR1", "SIGKILL"}

\* Every signal another process may send.
AnySignals == {"SIGSTOP", "SIGUSR1", "SIGSEGV", "SIGKILL"}
\* An outside SIGSEGV, e.g. kill -SEGV or a fault raised for the target.
SegvSignal == {"SIGSEGV"}

\* An outside SIGSTOP, e.g. kill -STOP or job control.
StopSignal == {"SIGSTOP"}
=============================================================================
