------------------------------ MODULE MCVmaMap ------------------------------
(* Instantiates VmaMap for TLC, and checks ElfNote's NT_FILE reader      *)
(* against the map VmaMap reads: a core dump of the same process          *)
(* describes its file mappings in an NT_FILE note.                        *)
EXTENDS Ultask, ElfNote

\* Up to three PT_LOAD segments (text, rodata and data, as in libc) over
\* four pages, loaded at page 3, just past the executable's gap.
MCMaxSegs == 3
MCMaxPage == 4
MCLibBase == 3

\* ultask: commands of up to three options, two commands in a row (a
\* --map, then an --unmap), a data file of two pages so that an address
\* can lie inside its VMA past the start, and two targets: a library of
\* one segment and one of three whose data segment sits a page above its
\* file offset.
MCMaxArgs == 3
MCMaxCalls == 1
MCDataPages == 2
MCTargetLayouts ==
  { << [v |-> 0, o |-> 0] >>,
    << [v |-> 0, o |-> 0], [v |-> 1, o |-> 1], [v |-> 3, o |-> 2] >> }

\* read_task_vmas has read the whole map and no ultask command has started:
\* the VMAs do not change after this, so the note checks below, which are
\* about the VMAs alone, are made once per map.
MapRead == Done /\ upc = "idle"

\* The page size a core's NT_FILE note records.
MCPageSize == 4096

\* The bytes of the file names in the maps file.
NameBytes == [exe |-> <<101, 120, 101>>, libc |-> <<108, 105, 98, 99>>]

\* The file-backed VMAs read_task_vmas read, in address order, as the
\* kernel's fill_files_note lists them: start and end in bytes, the file
\* offset in pages.
FileMappings ==
  LET fv == SelectSeq(vmas, LAMBDA v : v.name \in {"exe", "libc"})
  IN  [j \in 1..Len(fv) |->
         [start |-> fv[j].start * MCPageSize, end |-> fv[j].end * MCPageSize,
          pgoff |-> fv[j].off, name |-> NameBytes[fv[j].name]]]

FileNote(class) == FileNoteBytes(FileMappings, MCPageSize, class)

\* Signals a core of the process may record in NT_SIGINFO: a SIGSEGV
\* (SEGV_ACCERR) at the start of its last VMA, a SIGUSR1 sent by kill
\* (SI_USER) with the sender, and a SIGKILL from tkill (SI_TKILL, negative).
MCSiginfos ==
  { [signo |-> 11, errno |-> 0, code |-> 2, addr |-> vmas[Len(vmas)].start * MCPageSize,
     pid |-> 0, uid |-> 0],
    [signo |-> 10, errno |-> 0, code |-> 0, addr |-> 0, pid |-> 1234, uid |-> 1000],
    [signo |-> 9, errno |-> 0, code |-> -6, addr |-> 0, pid |-> 0, uid |-> 0] }

-----------------------------------------------------------------------------
\* handle_file_note, given the NT_FILE note of the process whose maps
\* read_task_vmas read, prints every file mapping with its start, end,
\* byte offset (pgoff times page_size) and name, for a 32-bit and a 64-bit
\* core, and reads nothing past the note: the names start after count
\* triples of gelf_fsize(ELF_T_ADDR) bytes each.
FileNoteDescribesMaps ==
  MapRead =>
    \A class \in {32, 64} :
      HandleFileNote(FileNote(class), class)
        = [out |-> FilePrinted(FileMappings, MCPageSize), oob |-> FALSE]

\* handle_file_note on an NT_FILE note cut short anywhere (a truncated
\* core) never reads past the descriptor, and prints a prefix of the
\* mappings followed by "Not enough data": the count is checked against
\* what the rest of the descriptor can hold before the triples are read.
FileNoteTruncationSafe ==
  MapRead =>
    \A class \in {32, 64} :
      \A l \in 0..Len(FileNote(class)) - 1 :
        LET r == HandleFileNote(SubSeq(FileNote(class), 1, l), class)
        IN  ~r.oob /\ CutShort(r.out, FilePrinted(FileMappings, MCPageSize))

\* handle_siginfo_note prints the head and the fault address or sender of
\* a whole NT_SIGINFO note, and on a note cut short anywhere prints a
\* prefix of that and "Not enough data" without reading past the
\* descriptor, also where the unchecked skip of the 64-bit padding moves
\* the pointer beyond its end.
SiginfoNoteSafe ==
  MapRead =>
    \A class \in {32, 64}, si \in MCSiginfos :
      LET d == SiginfoBytes(si, class)
      IN  \A l \in 0..Len(d) :
            LET r == HandleSiginfoNote(SubSeq(d, 1, l), class)
            IN  /\ ~r.oob
                /\ CutShort(r.out, SiginfoPrinted(si))
                /\ l = Len(d) => r.out = SiginfoPrinted(si)

\* The probes of libc's .note.stapsdt (provider "libc"): one with an
\* argument string and one without, at an address in libc's last mapping.
MCProbes ==
  LET at == FileMappings[Len(FileMappings)].start
  IN  { [pc |-> at + 16, base |-> at + 64, sem |-> 0, provider |-> << 108, 99 >>,
         name |-> << 115 >>, args |-> << 56, 64, 100 >>],
        [pc |-> at + 32, base |-> at + 64, sem |-> 0, provider |-> << 108, 99 >>,
         name |-> << 108 >>, args |-> << >>] }

\* elf_object_note decodes a stapsdt probe descriptor to its three
\* addresses and three strings, in both classes; it rejects the same
\* descriptor cut short anywhere, and with a byte after the args string:
\* the args string must end at the descriptor's last byte.
SdtNoteDecodes ==
  MapRead =>
    \A class \in {32, 64}, pr \in MCProbes :
      LET d == SdtBytes(pr, class)
      IN  /\ ObjectNoteSdt(d, class, 3) = [out |-> << SdtPrinted(pr) >>, oob |-> FALSE]
          /\ ObjectNoteSdt(d \o << 0 >>, class, 3).out = << Fail >>
          /\ \A l \in 0..Len(d) - 1 : ObjectNoteSdt(SubSeq(d, 1, l), class, 3).out = << Fail >>

\* The GNU properties of a libc built with CET: the x86 feature bits, an
\* ISA level, the stack size the stack VMA has, no-copy-on-protected and
\* an application-defined property.
MCProps ==
  << [kind |-> "feature_1_and", bits |-> << TRUE, TRUE >>],
     [kind |-> "isa_1_needed", data |-> << 1, 0, 0, 0 >>],
     [kind |-> "stack_size", v |-> (vmas[stack].end - vmas[stack].start) * MCPageSize],
     [kind |-> "no_copy"],
     [kind |-> "app", lo |-> 5, data |-> << 7 >>] >>

\* The NT_GNU_PROPERTY_TYPE_0 walk prints each property of the note, on
\* x86, aarch64 and another machine, in both classes, and reads nothing
\* past it; on the note cut short anywhere it prints a prefix of that,
\* with "BAD property datasz" if the cut falls in a property's data, and
\* still reads nothing past the end: descsz steps over the padding and
\* stops at 0.
GnuPropertyNoteSafe ==
  MapRead =>
    \A class \in {32, 64}, machine \in {"x86", "aarch64", "other"} :
      LET d    == PropNoteBytes(MCProps, class, machine)
          full == PropExpected(MCProps, class, machine)
      IN  /\ GnuPropertyNote(d, class, machine) = [out |-> full, oob |-> FALSE]
          /\ \A l \in 0..Len(d) - 1 :
               LET r == GnuPropertyNote(SubSeq(d, 1, l), class, machine)
               IN  ~r.oob /\ Truncated(r.out, full)
=============================================================================
