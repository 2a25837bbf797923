\* The patch loader, checked for LibcVmaValid.
CONSTANTS
  OpenFds <- PosFd
  MaxDeaths = 1
  LibcMapped <- AnyLink

SPECIFICATION Spec

INVARIANT LibcVmaValid
