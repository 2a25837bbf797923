------------------------------- MODULE ElfNote -------------------------------
(***************************************************************************)
(* The core-file note readers of note.c: buf_has_data, buf_read_int and   *)
(* buf_read_ulong over a descriptor, and the two handlers built on them,  *)
(* handle_siginfo_note (NT_SIGINFO) and handle_file_note (NT_FILE).  They *)
(* have no state: each is an operator from the descriptor's bytes to what *)
(* the handler prints, with a flag for any byte it reads past the end of  *)
(* the descriptor.  The kernel's encodings of the two notes are the       *)
(* reference they are checked against.  Two parsers of elf_object_note,  *)
(* the stapsdt probe and the GNU property walk, are modelled the same way, *)
(* against the layouts <sys/sdt.h> and the linker write.                   *)
(*                                                                         *)
(* A descriptor is a sequence of bytes; a pointer is an offset into it,   *)
(* and the byte at offset k is d[k + 1].  The core is ELFDATA2LSB, of      *)
(* class 32 or 64.  What a handler prints is a sequence of records; the   *)
(* "Not enough data" line is Fail.                                         *)
(***************************************************************************)
EXTENDS Integers, Sequences

LOCAL INSTANCE SequencesExt

Fail == [k |-> "fail"]

\* gelf_fsize(core, ELF_T_ADDR, 1, EV_CURRENT).
AddrSize(class) == IF class = 64 THEN 8 ELSE 4

\* SIZE_MAX, scaled down: every size in a descriptor is far below it.
SizeMax == 2^30

\* (size_t) of a pointer difference: a negative one wraps to a huge size.
SizeT(x) == IF x >= 0 THEN x ELSE SizeMax + 1 + x

\* The byte at offset k, and whether n bytes from offset p lie in d.
Byte(d, k) == IF k \in 0..Len(d) - 1 THEN d[k + 1] ELSE 0

InBounds(d, p, n) == p >= 0 /\ p + n <= Len(d)

\* convert() with elf64_xlatetom / elf32_xlatetom of an LSB core: the
\* unsigned value of n bytes at p, and as ELF_T_WORD into an int.
RECURSIVE Unsigned(_, _, _)
Unsigned(d, p, n) == IF n = 0 THEN 0 ELSE Byte(d, p) + 256 * Unsigned(d, p + 1, n - 1)

Int32(d, p) ==
  LET top == Byte(d, p + 3)
  IN  (((IF top >= 128 THEN top - 256 ELSE top) * 256 + Byte(d, p + 2)) * 256
        + Byte(d, p + 1)) * 256 + Byte(d, p)

\* What a read gives: whether buf_has_data let it through, the value, the
\* pointer after it, and whether it read past the descriptor.
NoRead(p) == [ok |-> FALSE, v |-> 0, p |-> p, oob |-> FALSE]

\* Mutant: the ptr < end test is left out.
BufHasDataNoOrder(p, end, sz) == SizeT(end - p) >= sz

\* buf_has_data: ptr < end && (size_t) (end - ptr) >= sz.
BufHasData(p, end, sz) == p < end /\ SizeT(end - p) >= sz

\* buf_read_int: four bytes as ELF_T_WORD.
BufReadInt(d, p, end) ==
  IF ~BufHasData(p, end, 4) THEN NoRead(p)
  ELSE [ok |-> TRUE, v |-> Int32(d, p), p |-> p + 4, oob |-> ~InBounds(d, p, 4)]

\* buf_read_ulong: gelf_fsize(ELF_T_ADDR) bytes, u32 or u64 by class.
BufReadUlong(d, p, end, class) ==
  LET sz == AddrSize(class)
  IN  IF ~BufHasData(p, end, sz) THEN NoRead(p)
      ELSE [ok |-> TRUE, v |-> Unsigned(d, p, sz), p |-> p + sz,
            oob |-> ~InBounds(d, p, sz)]

\* A read chained with || : it happens only if the one before succeeded.
Then(r, Read(_)) == IF r.ok THEN Read(r.p) ELSE r

-----------------------------------------------------------------------------
(* handle_siginfo_note                                                     *)

\* CORE_SIGILL, CORE_SIGFPE, CORE_SIGSEGV, CORE_SIGBUS and CORE_SI_USER.
FaultSignals == {4, 8, 11, 7}
SI_USER == 0

\* The head (si_signo, si_errno, si_code); on ELFCLASS64 a word of padding
\* before the union, skipped without a check; then for a fault signal with
\* si_code > 0 the fault address, for SI_USER the sender's pid and uid.
HandleSiginfoNote(d, class) ==
  LET end   == Len(d)
      signo == BufReadInt(d, 0, end)
      errno == Then(signo, LAMBDA p : BufReadInt(d, p, end))
      code  == Then(errno, LAMBDA p : BufReadInt(d, p, end))
      head  == [k |-> "head", signo |-> signo.v, errno |-> errno.v, code |-> code.v]
      p     == IF class = 64 THEN code.p + 4 ELSE code.p
      addr  == BufReadUlong(d, p, end, class)
      pid   == BufReadInt(d, p, end)
      uid   == Then(pid, LAMBDA q : BufReadInt(d, q, end))
      oob0  == signo.oob \/ errno.oob \/ code.oob
  IN  CASE ~code.ok ->
             [out |-> <<Fail>>, oob |-> oob0]
        [] code.v > 0 /\ signo.v \in FaultSignals ->
             [out |-> <<head, IF addr.ok THEN [k |-> "addr", v |-> addr.v] ELSE Fail>>,
              oob |-> oob0 \/ addr.oob]
        [] code.v = SI_USER ->
             [out |-> <<head, IF uid.ok THEN [k |-> "sender", pid |-> pid.v, uid |-> uid.v]
                              ELSE Fail>>,
              oob |-> oob0 \/ pid.oob \/ uid.oob]
        [] OTHER ->
             [out |-> <<head>>, oob |-> oob0]

-----------------------------------------------------------------------------
(* handle_file_note                                                        *)

\* memchr(d + from, '\0', n): the offset of the first NUL, -1 if none; it
\* reads past the descriptor if it runs beyond it before finding one.
Memchr(d, from, n) ==
  LET hits == {k \in from..Len(d) - 1 : k <= from + n - 1 /\ d[k + 1] = 0}
      at   == IF hits = {} THEN -1 ELSE CHOOSE k \in hits : \A j \in hits : k <= j
  IN  [at |-> at, oob |-> at = -1 /\ from + n > Len(d)]

\* The loop over the count entries: three ulongs read up to fstart, and
\* the entry's file name up to the next NUL before end; each entry is
\* printed with its offset scaled by page_size.
RECURSIVE FileEntries(_, _, _, _, _, _, _, _)
FileEntries(d, class, p, fstart, fptr, end, n, pageSize) ==
  IF n = 0 THEN [out |-> << >>, oob |-> FALSE]
  ELSE
    LET mstart  == BufReadUlong(d, p, fstart, class)
        mend    == Then(mstart, LAMBDA q : BufReadUlong(d, q, fstart, class))
        moffset == Then(mend, LAMBDA q : BufReadUlong(d, q, fstart, class))
        fnext   == Memchr(d, fptr, SizeT(end - fptr))
        oob0    == mstart.oob \/ mend.oob \/ moffset.oob
        rest    == FileEntries(d, class, moffset.p, fstart, fnext.at + 1, end,
                               n - 1, pageSize)
    IN  CASE ~moffset.ok -> [out |-> <<Fail>>, oob |-> oob0]
          [] fnext.at = -1 -> [out |-> <<Fail>>, oob |-> oob0 \/ fnext.oob]
          [] OTHER ->
               [out |-> << [k |-> "file", start |-> mstart.v, end |-> mend.v,
                            off |-> moffset.v * pageSize,
                            name |-> SubSeq(d, fptr + 1, fnext.at)] >> \o rest.out,
                oob |-> oob0 \/ fnext.oob \/ rest.oob]

\* Mutant: the file names are taken to start 3 * count bytes in.
HandleFileNoteNoAddrSize(d, class) ==
  LET end      == Len(d)
      count    == BufReadUlong(d, 0, end, class)
      pageSize == Then(count, LAMBDA p : BufReadUlong(d, p, end, class))
      p        == pageSize.p
      maxcount == SizeT(end - p) \div (3 * AddrSize(class))
      fstart   == p + 3 * count.v
      entries  == FileEntries(d, class, p, fstart, fstart, end, count.v, pageSize.v)
  IN  CASE ~pageSize.ok \/ count.v > maxcount ->
             [out |-> <<Fail>>, oob |-> count.oob \/ pageSize.oob]
        [] OTHER ->
             [out |-> <<[k |-> "files", n |-> count.v]>> \o entries.out,
              oob |-> count.oob \/ pageSize.oob \/ entries.oob]

\* Mutant: count is not checked against what the descriptor can hold.
HandleFileNoteNoMaxCount(d, class) ==
  LET end      == Len(d)
      count    == BufReadUlong(d, 0, end, class)
      pageSize == Then(count, LAMBDA p : BufReadUlong(d, p, end, class))
      p        == pageSize.p
      fstart   == p + 3 * count.v * AddrSize(class)
      entries  == FileEntries(d, class, p, fstart, fstart, end, count.v, pageSize.v)
  IN  CASE ~pageSize.ok ->
             [out |-> <<Fail>>, oob |-> count.oob \/ pageSize.oob]
        [] OTHER ->
             [out |-> <<[k |-> "files", n |-> count.v]>> \o entries.out,
              oob |-> count.oob \/ pageSize.oob \/ entries.oob]

\* count and page_size; a count larger than the rest of the descriptor
\* can hold in triples fails; the names start after count triples.
HandleFileNote(d, class) ==
  LET end      == Len(d)
      count    == BufReadUlong(d, 0, end, class)
      pageSize == Then(count, LAMBDA p : BufReadUlong(d, p, end, class))
      p        == pageSize.p
      maxcount == SizeT(end - p) \div (3 * AddrSize(class))
      fstart   == p + 3 * count.v * AddrSize(class)
      entries  == FileEntries(d, class, p, fstart, fstart, end, count.v, pageSize.v)
  IN  CASE ~pageSize.ok \/ count.v > maxcount ->
             [out |-> <<Fail>>, oob |-> count.oob \/ pageSize.oob]
        [] OTHER ->
             [out |-> <<[k |-> "files", n |-> count.v]>> \o entries.out,
              oob |-> count.oob \/ pageSize.oob \/ entries.oob]

-----------------------------------------------------------------------------
(* elf_object_note: the stapsdt probe descriptor                           *)

\* Mutant: the end of the args string is not checked against descsz.
SdtArgsEnd(argsEnd, end) == argsEnd # -1

\* memchr(++args, '\0', desc + descsz - pname) must find the descriptor's
\* last byte.
SdtArgsEndAt(argsEnd, end) == argsEnd = end - 1

\* A version-3 SDT note: three addresses (pc, base, semaphore), then the
\* provider, name and args strings, each ending in a NUL, args at the end.
\* Any of the three memchr may run past the descriptor before it fails.
ObjectNoteSdt(d, class, type) ==
  LET end       == Len(d)
      addrsSize == 3 * AddrSize(class)
      pc        == Unsigned(d, 0, AddrSize(class))
      base      == Unsigned(d, AddrSize(class), AddrSize(class))
      sem       == Unsigned(d, 2 * AddrSize(class), AddrSize(class))
      provider  == addrsSize
      nameNul   == Memchr(d, provider, SizeT(end - provider))
      pname     == nameNul.at + 1
      argsNul   == Memchr(d, pname, SizeT(end - pname))
      args      == argsNul.at + 1
      argsEnd   == Memchr(d, args, SizeT(end - pname))
      probe     == [k |-> "sdt", pc |-> pc, base |-> base, sem |-> sem,
                    provider |-> SubSeq(d, provider + 1, nameNul.at),
                    name |-> SubSeq(d, pname + 1, argsNul.at),
                    args |-> SubSeq(d, args + 1, argsEnd.at)]
  IN  CASE type # 3 -> [out |-> << [k |-> "sdt_version", v |-> type] >>, oob |-> FALSE]
        [] end < addrsSize + 3 -> [out |-> <<Fail>>, oob |-> FALSE]
        [] nameNul.at = -1 -> [out |-> <<Fail>>, oob |-> nameNul.oob]
        [] argsNul.at = -1 -> [out |-> <<Fail>>, oob |-> argsNul.oob]
        [] ~SdtArgsEndAt(argsEnd.at, end) ->
             [out |-> <<Fail>>, oob |-> argsEnd.oob]
        [] OTHER -> [out |-> <<probe>>, oob |-> argsEnd.oob]

-----------------------------------------------------------------------------
(* elf_object_note: NT_GNU_PROPERTY_TYPE_0 of a "GNU" note                 *)

\* NOTE_ALIGN4 for ELFCLASS32, NOTE_ALIGN8 otherwise.
NoteAlign(n, class) ==
  IF class = 32 THEN ((n + 3) \div 4) * 4 ELSE ((n + 7) \div 8) * 8

\* pr_type, a 32-bit word, as its top byte and its low 24 bits, so that
\* the comparisons below need no value of 32 bits.
PrType(d, p) == [hi |-> Byte(d, p + 3), lo |-> Unsigned(d, p, 3)]

\* GNU_PROPERTY_STACK_SIZE, GNU_PROPERTY_NO_COPY_ON_PROTECTED,
\* GNU_PROPERTY_X86_FEATURE_1_AND (0xc0000002) and
\* GNU_PROPERTY_AARCH64_FEATURE_1_AND (0xc0000000).
StackSizeType       == [hi |-> 0, lo |-> 1]
NoCopyType          == [hi |-> 0, lo |-> 2]
FeatureType(machine) ==
  IF machine = "x86" THEN [hi |-> 192, lo |-> 2] ELSE [hi |-> 192, lo |-> 0]

\* GNU_PROPERTY_LOPROC..HIPROC and GNU_PROPERTY_LOUSER..HIUSER.
IsProcType(t) == t.hi \in 192..223
IsUserType(t) == t.hi \in 224..255

\* The line printed for one property with its data of datasz bytes at q.
\* The feature word's bits 0 and 1 are IBT and SHSTK on x86, BTI and PAC
\* on aarch64; any other bit prints UNKNOWN.
PropPrinted(d, class, machine, t, datasz, q) ==
  LET w0 == Byte(d, q)
      raw(cls) == [k |-> "raw", cls |-> cls, type |-> t, data |-> SubSeq(d, q + 1, q + datasz)]
  IN  CASE t = StackSizeType ->
             IF datasz = AddrSize(class)
               THEN [k |-> "stack_size", v |-> Unsigned(d, q, datasz)]
               ELSE [k |-> "garbage", type |-> t, sz |-> datasz]
        [] t = NoCopyType ->
             IF datasz = 0 THEN [k |-> "no_copy"]
             ELSE [k |-> "garbage", type |-> t, sz |-> datasz]
        [] IsProcType(t) /\ machine \in {"x86", "aarch64"} ->
             CASE t # FeatureType(machine) -> raw(machine)
               [] datasz = 4 ->
                    [k |-> "feature", arch |-> machine,
                     bits |-> << w0 % 2 = 1, (w0 \div 2) % 2 = 1 >>,
                     unknown |-> w0 >= 4 \/ Byte(d, q + 1) + Byte(d, q + 2) + Byte(d, q + 3) > 0]
               [] OTHER -> [k |-> "bad_datasz", arch |-> machine, sz |-> datasz]
        [] IsProcType(t) -> raw("proc")
        [] IsUserType(t) -> raw("app")
        [] OTHER -> raw("unknown")

\* Mutant: descsz is reduced by the unaligned datasz.
PropRemainingUnaligned(left, skip, datasz) == IF left > datasz THEN left - datasz ELSE 0

\* descsz after the data and its padding: never below 0.
PropRemaining(left, skip, datasz) == IF left > skip THEN left - skip ELSE 0

\* while (descsz >= 8): the 8-byte header, the datasz check against what
\* is left, the property's line, then desc and descsz past the aligned data.
RECURSIVE PropWalk(_, _, _, _, _)
PropWalk(d, class, machine, p, descsz) ==
  IF descsz < 8 THEN [out |-> << >>, oob |-> FALSE]
  ELSE
    LET t      == PrType(d, p)
        datasz == Unsigned(d, p + 4, 4)
        q      == p + 8
        left   == descsz - 8
        skip   == NoteAlign(datasz, class)
        hdrOob == ~InBounds(d, p, 8)
        rest   == PropWalk(d, class, machine, q + skip, PropRemaining(left, skip, datasz))
    IN  IF datasz > left THEN [out |-> <<Fail>>, oob |-> hdrOob]
        ELSE [out |-> << PropPrinted(d, class, machine, t, datasz, q) >> \o rest.out,
              oob |-> hdrOob \/ ~InBounds(d, q, datasz) \/ rest.oob]

\* The NT_GNU_PROPERTY_TYPE_0 case: an empty descriptor prints nothing.
GnuPropertyNote(d, class, machine) ==
  IF Len(d) = 0 THEN [out |-> << >>, oob |-> FALSE]
  ELSE PropWalk(d, class, machine, 0, Len(d))

-----------------------------------------------------------------------------
(***************************************************************************)
(* Reference: the notes as the kernel writes them into a core file         *)
(* (fill_siginfo_note, fill_files_note), and what a reader should print.  *)
(***************************************************************************)

RECURSIVE LEBytes(_, _)
LEBytes(v, n) == IF n = 0 THEN << >> ELSE << v % 256 >> \o LEBytes(v \div 256, n - 1)

\* TLA+ % and \\div round down, so a negative int comes out in two's
\* complement.
Word(v) == LEBytes(v, 4)

Ulong(v, class) == LEBytes(v, AddrSize(class))

\* A siginfo: [signo, errno, code, addr, pid, uid].  The kernel's record
\* goes on past the fields the handler reads; those bytes are left out.
SiginfoBytes(si, class) ==
  Word(si.signo) \o Word(si.errno) \o Word(si.code)
  \o (IF class = 64 THEN << 0, 0, 0, 0 >> ELSE << >>)
  \o (CASE si.code > 0 /\ si.signo \in FaultSignals -> Ulong(si.addr, class)
        [] si.code = SI_USER -> Word(si.pid) \o Word(si.uid)
        [] OTHER -> << >>)

SiginfoPrinted(si) ==
  << [k |-> "head", signo |-> si.signo, errno |-> si.errno, code |-> si.code] >>
  \o (CASE si.code > 0 /\ si.signo \in FaultSignals -> << [k |-> "addr", v |-> si.addr] >>
        [] si.code = SI_USER -> << [k |-> "sender", pid |-> si.pid, uid |-> si.uid] >>
        [] OTHER -> << >>)

\* NT_FILE for a sequence of file mappings [start, end, pgoff, name] in
\* bytes (pgoff in pages): count, page_size, the triples, then the names,
\* each ending in a NUL.
FileNoteBytes(files, pageSize, class) ==
  Ulong(Len(files), class) \o Ulong(pageSize, class)
  \o FlattenSeq([j \in 1..Len(files) |->
                   Ulong(files[j].start, class) \o Ulong(files[j].end, class)
                   \o Ulong(files[j].pgoff, class)])
  \o FlattenSeq([j \in 1..Len(files) |-> files[j].name \o << 0 >>])

FilePrinted(files, pageSize) ==
  << [k |-> "files", n |-> Len(files)] >>
  \o [j \in 1..Len(files) |->
        [k |-> "file", start |-> files[j].start, end |-> files[j].end,
         off |-> files[j].pgoff * pageSize, name |-> files[j].name]]

\* What a handler prints for a descriptor cut short: what it prints for
\* the whole one, up to a point, and then the Fail line.
CutShort(out, full) ==
  \/ out = full
  \/ /\ Len(out) > 0 /\ out[Len(out)] = Fail
     /\ IsPrefix(SubSeq(out, 1, Len(out) - 1), full)


\* What a walk prints for a descriptor cut short: a prefix of the whole
\* output, followed by Fail or not.
Truncated(out, full) == IsPrefix(out, full) \/ CutShort(out, full)

\* A stapsdt probe [pc, base, sem, provider, name, args] as a version-3
\* descriptor, as <sys/sdt.h> lays it out in .note.stapsdt.
SdtBytes(pr, class) ==
  Ulong(pr.pc, class) \o Ulong(pr.base, class) \o Ulong(pr.sem, class)
  \o pr.provider \o << 0 >> \o pr.name \o << 0 >> \o pr.args \o << 0 >>

SdtPrinted(pr) ==
  [k |-> "sdt", pc |-> pr.pc, base |-> pr.base, sem |-> pr.sem,
   provider |-> pr.provider, name |-> pr.name, args |-> pr.args]

\* A GNU property as the linker writes it: pr_type, pr_datasz and the data,
\* padded to 4 bytes in a 32-bit object and to 8 in a 64-bit one.  The
\* kinds: "stack_size" [v], "no_copy", "feature_1_and" [bits] (x86 or
\* aarch64 by machine), "isa_1_needed" [data] (0xc0008002) and "app" [lo,
\* data], a type of the user range.
PropTypeBytes(pr, machine) ==
  CASE pr.kind = "stack_size"    -> << 1, 0, 0, 0 >>
    [] pr.kind = "no_copy"       -> << 2, 0, 0, 0 >>
    [] pr.kind = "feature_1_and" -> IF machine = "x86" THEN << 2, 0, 0, 192 >>
                                    ELSE << 0, 0, 0, 192 >>
    [] pr.kind = "isa_1_needed"  -> << 2, 128, 0, 192 >>
    [] pr.kind = "app"           -> LEBytes(pr.lo, 3) \o << 224 >>

PropData(pr, class) ==
  CASE pr.kind = "stack_size"    -> Ulong(pr.v, class)
    [] pr.kind = "no_copy"       -> << >>
    [] pr.kind = "feature_1_and" -> Word((IF pr.bits[1] THEN 1 ELSE 0)
                                         + (IF pr.bits[2] THEN 2 ELSE 0))
    [] pr.kind \in {"isa_1_needed", "app"} -> pr.data

PropNoteBytes(props, class, machine) ==
  LET unit == IF class = 32 THEN 4 ELSE 8
      one(pr) == LET data == PropData(pr, class)
                 IN  PropTypeBytes(pr, machine) \o Word(Len(data)) \o data
                     \o [j \in 1..((unit - (Len(data) % unit)) % unit) |-> 0]
  IN  FlattenSeq([j \in 1..Len(props) |-> one(props[j])])

\* What a reader prints for each property: the feature bits by name, the
\* other processor types as raw data under the machine (or proc_type on
\* another machine), a user-range type as app_type.
PropExpected(props, class, machine) ==
  LET arch == IF machine \in {"x86", "aarch64"} THEN machine ELSE "proc"
      type(pr) == [hi |-> PropTypeBytes(pr, machine)[4],
                   lo |-> IF pr.kind = "app" THEN pr.lo
                          ELSE PropTypeBytes(pr, machine)[1] + 256 * PropTypeBytes(pr, machine)[2]]
      line(pr) ==
        CASE pr.kind = "stack_size" -> [k |-> "stack_size", v |-> pr.v]
          [] pr.kind = "no_copy" -> [k |-> "no_copy"]
          [] pr.kind = "feature_1_and" /\ arch # "proc" ->
               [k |-> "feature", arch |-> machine, bits |-> pr.bits, unknown |-> FALSE]
          [] pr.kind = "app" -> [k |-> "raw", cls |-> "app", type |-> type(pr), data |-> pr.data]
          [] OTHER -> [k |-> "raw", cls |-> arch, type |-> type(pr),
                       data |-> PropData(pr, class)]
  IN  [j \in 1..Len(props) |-> line(props[j])]

=============================================================================
