-------------------------- MODULE MCTaskLifecycle --------------------------
(* Instantiates TaskLifecycle for TLC with the maps files of a dynamically *)
(* linked and a statically linked target.                                  *)
EXTENDS TaskLifecycle

MCSymNames == {"main", "malloc", "printf", "clock_gettime"}

Img(magic, phdrs, dynamic, syms) ==
  [magic |-> magic, phdrs |-> phdrs, dynamic |-> dynamic, syms |-> syms]

\* A PIE that interposes malloc; libc; ld.so, whose first page carries the
\* ELF magic but no program header (the case vma_peek_phdr's comment
\* describes); the vdso; and what is not an ELF header.
ExeImg  == Img(TRUE, TRUE, TRUE, {"main", "malloc"})
LibcImg == Img(TRUE, TRUE, TRUE, {"malloc", "printf"})
LdImg   == Img(TRUE, FALSE, FALSE, {})
VdsoImg == Img(TRUE, TRUE, TRUE, {"clock_gettime"})
Data    == Img(FALSE, FALSE, FALSE, {})

\* The perms column of a maps line, as read_task_vmas scans it.
RP  == <<"r", "-", "-", "p">>
RXP == <<"r", "-", "x", "p">>
RWP == <<"r", "w", "-", "p">>

Vma(name, img, perms) == [name |-> name, img |-> img, perms |-> perms]

Dynamic ==
  << Vma("exe", ExeImg, RP), Vma("exe", Data, RXP),
     Vma("libc", LibcImg, RP), Vma("libc", Data, RXP),
     Vma("ld", LdImg, RP), Vma("[stack]", Data, RWP),
     Vma("[vdso]", VdsoImg, RXP) >>

\* A statically linked executable: no libc in the maps file.
Static ==
  << Vma("exe", Img(TRUE, TRUE, FALSE, {"main", "malloc", "printf"}), RP),
     Vma("exe", Data, RXP), Vma("[stack]", Data, RWP),
     Vma("[vdso]", VdsoImg, RXP) >>

BothLayouts == {Dynamic, Static}
=============================================================================
