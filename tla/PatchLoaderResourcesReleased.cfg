\* The patch loader, checked for ResourcesReleased.
CONSTANTS
  OpenFds <- AnyFd
  MaxDeaths = 1
  LibcMapped <- DynamicLink

SPECIFICATION Spec

INVARIANT ResourcesReleased
