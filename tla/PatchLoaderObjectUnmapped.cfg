\* The patch loader, checked for ObjectUnmapped.
CONSTANTS
  OpenFds <- PosFd
  MaxDeaths = 1
  LibcMapped <- DynamicLink

SPECIFICATION Spec

INVARIANT ObjectUnmapped
