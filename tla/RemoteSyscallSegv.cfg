\* An outside SIGSEGV reaching the target during task_syscall.
CONSTANTS
  ExtSignals <- SegvSignal
  MaxExtSignals = 1
  MaxCalls = 1

SPECIFICATION Spec

INVARIANT RegsRestored
