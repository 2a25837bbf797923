\* task_syscall under the signals the wait loops are written for.
CONSTANTS
  ExtSignals <- HandledSignals
  MaxExtSignals = 2
  MaxCalls = 2

SPECIFICATION Spec

INVARIANT TypeOK
INVARIANT RegsRestored
INVARIANT ResultGenuine

PROPERTY AtomicRefined
