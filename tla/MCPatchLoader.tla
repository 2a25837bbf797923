--------------------------- MODULE MCPatchLoader ---------------------------
(* Instantiates PatchLoader for TLC.                                       *)
EXTENDS PatchLoader

\* open(2) returns the lowest free fd: fd 0 when the target closed stdin.
AnyFd == {"zero", "pos"}

\* A target with stdin open: open(2) returns a positive fd.
PosFd == {"pos"}
\* Dynamically and statically linked targets: the maps file may lack libc.
AnyLink == BOOLEAN

\* A dynamically linked target.
DynamicLink == {TRUE}
=============================================================================
