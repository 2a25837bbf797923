\* task_syscall under every signal another process may send.
CONSTANTS
  ExtSignals <- AnySignals
  MaxExtSignals = 2
  MaxCalls = 2

SPECIFICATION Spec

INVARIANT ScratchRestored

PROPERTY CallReturns
