\* The patch loader, checked for SuccessMeansMapped.
CONSTANTS
  OpenFds <- PosFd
  MaxDeaths = 1
  LibcMapped <- DynamicLink

SPECIFICATION Spec

INVARIANT SuccessMeansMapped
