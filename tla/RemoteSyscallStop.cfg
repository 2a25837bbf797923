\* An outside SIGSTOP reaching the target during task_syscall.
CONSTANTS
  ExtSignals <- StopSignal
  MaxExtSignals = 1
  MaxCalls = 1

SPECIFICATION Spec

INVARIANT ResultGenuine
