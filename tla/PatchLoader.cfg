\* The patch loader against a target that may die at any step and a kernel
\* that may fail any remote syscall.
CONSTANTS
  OpenFds <- AnyFd
  MaxDeaths = 1
  LibcMapped <- AnyLink

SPECIFICATION Spec

INVARIANT TypeOK
INVARIANT RemoteCallsTraced
INVARIANT ScratchReleased
