# Model checking elfview's live-patching engine

This directory holds TLA+ models of the parts of elfview that change the state
of another process. They are checked with TLC. Each module is translated from
the C under `src/src/`. `PROJECT.json` maps each TLA+ definition to the source
lines it models, and lists the runs, the mutants, the findings and the hazards.

## The system

elfview attaches to a running process (the *target*) with ptrace and changes it
from outside.

| Part | Source | What it does |
|---|---|---|
| Arch layer | `patch/asm.h`, `patch/patch.h` | instruction encoders and syscall register macros |
| ELF reader | `elf/note.c` | decodes and prints ELF notes of a core file: `NT_PRSTATUS`, `NT_SIGINFO`, `NT_FILE`, `NT_AUXV` |
| Target model | `utils/task.c` 56-863 | reads `/proc/PID/maps` into VMAs (a list, an rb-tree, and leader/sibling groups per mapped file) and the symbols of each VMA |
| Remote ops | `utils/task.c` 1092-1607 | `task_attach`/`task_detach`, `memcpy_{from,to}_task` through `/proc/PID/mem`, and `task_syscall`, plus its wrappers (`task_mmap`, `task_open`, ...) |
| Task lifecycle | `utils/task.c` 925-1090 | `open_task` and `free_task`: VMAs, ELF files and the work directory |
| Patch loader | `uftrace.c` 140-234 | `mmap_object`/`munmap_object`: maps a relocatable object into the target with remote open, ftruncate and mmap |
| ultask | `ultask.c` | command-line tool: print, map a file into the target, unmap a VMA, write a jump, dump or disassemble memory |

The parts interact through the `struct task`. Remote ops need `task->libc_vma`
from the target model as the place for the scratch instruction. The patch
loader drives remote ops between an attach and a detach, then re-reads the
VMAs. The difficult behaviour is the target itself. It runs concurrently with
the controller, receives signals from other processes, stops when the kernel
delivers them, and may be killed at any point. The controller sees all of this
only through `waitpid`.

## Modules

### RemoteSyscall (with MCRemoteSyscall)

This module models `task_attach`, `task_detach`, `wait_for_stop` and
`task_syscall` (task.c 1092-1143, 1286-1429) as one single-threaded
controller. Two actors share the state:

* **The target** (`proc`, `event`, `pending`, `regs`, `scratch`, `traced`).
  It runs, stops or is dead.
  * `SendSignal(s)` is `kill(2)` from another process: SIGKILL kills at once,
    and any other signal becomes pending. The number of such signals is
    bounded by `MaxExtSignals`.
  * `DeliverSignal(s)` is a traced target entering a signal-delivery stop.
  * `ExecSyscall` is the target reaching the injected instruction. It runs the
    syscall and traps with SIGTRAP.
  * `RunOwnCode` is the target running its own code.

  `regs` and `scratch` abstract the register set and the bytes at
  `libc_vma->start` to what the properties tell apart. Registers are
  `Orig`, `Call` (prepared for the syscall) or `Done` (the syscall ran). The
  scratch bytes are `Orig`, `Insn` (SYSCALL_INSTR) or `Junk`.
* **The controller** has a program counter `ctl` and one action per step of the
  code, so the target can act between any two ptrace requests:

  | Action | Code |
  |---|---|
  | `AttachCall` | `PTRACE_ATTACH` |
  | `AttachReap` | the handshake loop's `waitpid` |
  | `AttachCont` | its `PTRACE_CONT` |
  | `SaveState` | `GETREGS` and the `pread` of `orig_code` |
  | `Inject` | the `pwrite` of SYSCALL_INSTR and `SETREGS` |
  | `WaitCont` | `PTRACE_CONT(status)` |
  | `WaitReap` | `waitpid` and its four outcomes |
  | `Collect` | `GETREGS` |
  | `Restore` | `SETREGS(old_regs)` and `*res` |
  | `PokeBack` | the `poke_back` label |
  | `Detach` | `PTRACE_DETACH` |

  `StartCall` is a caller such as `task_mmap` entering `task_syscall`, up to
  `MaxCalls` times. The local `status` of the wait loops is a variable, so the
  signal forwarded by `PTRACE_CONT` is the one the code computes.
  `ret`/`lastRes` are the return value and `*res`, and `executed` is a history
  variable that counts how often the injected syscall ran in this call.

Failure model: a ptrace request or `/proc/PID/mem` access fails exactly when
the target is dead (ESRCH). Each failure takes the error branch the code has.
`wait_for_stop`'s failure sends `task_syscall` to `poke_back`.

Assumption: SYSCALL_INSTR is a syscall followed by a trap (int3 or brk). The
arch headers that define it are not in the repository, and the wait loop only
ends on a SIGTRAP stop if the instruction traps.

### AtomicSyscall (abstract)

This module states what a remote syscall promises its caller. A call is busy
from entry to return. The syscall runs in the target at most once (`Run`), and
a call returns `ok` only if it ran. The target may die at any time, and every
call returns (WF on `Return`).

RemoteSyscall instantiates it as `Atomic` under this refinement mapping:

| Abstract | Concrete |
|---|---|
| `phase` | `busy` while `ctl` is a task_syscall step, `exit` after detach, `idle` otherwise |
| `alive` | `Alive` |
| `ran` | `executed` |
| `result` | `ret` once the call has returned |

The run `remote_syscall` checks `AtomicRefined == Atomic!Spec`.

### PatchLoader (with MCPatchLoader)

This module models uftrace.c's `main` after `open_task`:

* `mmap_object`: `Attach`, `task_open` as `OpenMalloc`, `OpenCall` and
  `OpenFree`, then `Ftruncate`, `Mmap`, `UpdateVmas`, `Close` and `Detach`;
* `munmap_object`: `MunmapObject`, `UnAttach`, `Munmap` and `UnDetach`;
* `FreeTask`.

`OpenTask` stands for the whole of `open_task` (TaskLifecycle models its
steps) by its outcome for this module. The target may have died first
(`main` returns 1), or open_task reaches `free_task` with a NULL `libc_vma`
because the maps file has no libc (`LibcMapped` allows this, as for a
statically linked target), or it returns the task. `free_task`'s
`elf_file_close(task->libc_vma->name_)` only takes the address of an array
member, so it is not a read of the NULL. What `elf_file_close` does with
that address is outside the repository.

Each remote syscall is one atomic step. AtomicSyscall is what licenses this:
under the signals the wait loops handle, RemoteSyscall implements it. A step's
outcome is whatever the kernel may return (success or a `-errno`). On a dead
target the outcome is the wrapper's failure encoding:

* `task_mmap`, `task_ftruncate` and `task_close` give 0;
* `task_open` returns the uninitialised `result`, so any int.

The C values are abstracted to their sign, or to `addr`/`err`/`null` for
addresses. `Die` kills the target between any two steps, at most `MaxDeaths`
times; its fds and mappings go with it. The never-assigned global
`obj_target_tasp_map_size` is the definition `ObjTargetTaskMapSize == 0`.
`task->libc_vma` is `valid` from a dynamically linked target's `open_task`
until `update_task_vmas` runs on a dead target, which leaves it NULL.
`Close` then crashes, because `task_close`'s `task_syscall` loads
`libc_vma->start` (task.c 1344) before its first ptrace request.

### VmaMap (with MCVmaMap)

This module models the target's address space as `read_task_vmas` builds it
(task.c 56-225 and 716-794), along with the three lookups the remote ops and
symbol code use:

* `layout` is the input. It is a shared library of 1 to `MaxSegs` segments,
  each given as a page vaddr `v` and a page file offset `o`, with `o <= v` and
  both strictly increasing, as the kernel loads an ELF object. `MapsOf` turns
  it into the maps lines: the executable, the library at `LibBase + v`, an
  optional anonymous mapping, and the stack. Addresses are pages.
* `ReadLine` is one iteration of the `fgets` loop: `alloc_vma`,
  `get_vma_type`, the libc and stack picks, and `insert_vma`. A VMA whose name
  equals the previous VMA's gets the previous VMA's leader and is `list_add`ed
  right after that leader in `sib`. `Done` is the loop ending at EOF.
* `FindVma` is `find_vma`: a recursive binary search (`RbSearch`) over the
  sorted VMAs with `__find_vma_cmp`. `FindVmaSpanArea` is
  `find_vma_span_area`'s walk over the list. `TaskVmaSymbolValue` is
  `task_vma_symbol_value`'s walk over the leader's siblings.

Once the maps are read, each operator is checked against a reference
definition: the VMA that contains the address, the first free gap, and
`LibBase + st_value`, which is where the dynamic loader puts a symbol.

### ElfNote (checked in MCVmaMap)

This module models the note decoders of `elf/note.c` (lines 296-578 and 792-1034) as pure
operators:

* `Unsigned`, `Int32` are `convert` for a little-endian file: a recursive
  Horner sum over the descriptor's bytes, with a signed top byte for `int`.
* `BufHasData`, `BufReadInt`, `BufReadUlong` are the bounds-checked readers.
  A pointer is a 0-based offset into the descriptor `d`, a byte sequence.
  `end - p` goes through `SizeT`, the cast to `size_t`, which wraps a
  negative difference. `SIZE_MAX` is scaled to `SizeMax = 2^30`, still far
  above any descriptor the run builds.
* `HandleSiginfoNote` is `handle_siginfo_note`. It reads `si_signo`,
  `si_errno` and `si_code`, skips the 4 padding bytes of a 64-bit file
  without a check, and then prints the fault address for SIGILL, SIGFPE,
  SIGSEGV and SIGBUS, the sender for `SI_USER`, and nothing else.
* `HandleFileNote` and the recursive `FileEntries` are `handle_file_note`:
  the count, the page size, the `count > maxcount` check, then one
  start/end/offset triple and one NUL-terminated name (`Memchr`) per file.

* `ObjectNoteSdt` is `elf_object_note`'s `stapsdt` case: the version
  check, the `descsz < addrs_size + 3` check, the three addresses, and the
  three `memchr` calls that find the provider, name and args strings.
  The args string must end at the descriptor's last byte
  (`SdtArgsEndAt`).
* `GnuPropertyNote` and the recursive `PropWalk` are the
  `NT_GNU_PROPERTY_TYPE_0` case: the `while (descsz >= 8)` loop, the
  8-byte header (`PrType` keeps `pr_type` as its top byte and its low 24
  bits, so no value needs 32 bits), the `pr_datasz > descsz` check, the
  line for the property (`PropPrinted`: stack size, no-copy, the x86 or
  aarch64 feature bits, raw data under the machine, `proc_type`,
  `app_type`), and the step past the data aligned by class (`NoteAlign`,
  `PropRemaining`).

The result of a decoder is `[out, oob]`. `out` is the sequence of records it
prints, and a failed read prints `Fail` and stops. `oob` is TRUE if any read
went past the end of `d`. The printing itself (`printf` formats, indentation)
is left out.

The reference encoders `SiginfoBytes` and `FileNoteBytes` lay a siginfo or a
file table out as the kernel writes it for a 32-bit or a 64-bit core
(`LEBytes`, `Word`, `Ulong`). `SiginfoPrinted` and `FilePrinted` are what a
correct decoder prints. `CutShort(out, full)` accepts `full`, or a prefix of
it followed by `Fail`.

No module under `src/` calls `handle_notes`. The decoders take the note
descriptor of a core dump, and the core of the target is the natural
input. MCVmaMap therefore builds the `NT_FILE` note from the file-backed VMAs
that VmaMap has read (the executable and the library, at byte addresses
`page * 4096`), and the SIGSEGV siginfo from the fault address at the last
VMA. The object-note parsers read libc's notes: two `stapsdt` probes
(with an argument string and with none) at addresses in libc's last
mapping, and a GNU property note as a CET build of libc carries (x86
feature bits, an ISA level), with a stack-size property whose value is the
stack VMA's size, no-copy-on-protected and an application type. The five
properties are checked in the `vma_map` run, on every maps file that run
reads.

### Ultask (checked in MCVmaMap)

This module models the `ultask` command (`ultask.c` 83-706). It EXTENDS
VmaMap: a command starts once `read_task_vmas` has read the target's map,
and acts on that target.

* `tmap` is the kernel's map of the target. It starts as the maps file's
  lines, and `munmap`/`mmap` change it. `view` is `target_task->vmas`,
  read at `open_task` and again by `update_task_vmas_ulp` at the end of
  `mmap_a_file`. `munmap_an_vma` does not re-read it. `VmaOf` is
  `find_vma` over a VMA list.
* `Start` is the entry of `ultask()`: `ultask_args_reset` (`ArgsReset`),
  the address the user types (`ua`: the last page of a mapping, or a free
  page), and the common `--force` flag.
* `ParseOpt` is one iteration of `parse_config`'s `getopt_long` loop
  (`GetoptCase`). It includes the `getsubopt` loops of `--dump`
  (`DumpSub`, `DumpCase` with its four exits), `--jmp` and `--map`, and
  `cmd_exit` on a bad option. `ParseEnd` is the loop's end and the
  checks after it (`CheckConfig`): the pid, the "nothing to do" test that
  keeps `flag_print_task`, the `-o` checks, the `--map` file checks
  (EEXIST, ENOENT, EINVAL), and an existing `-o` file without `--force`.
* `OpenTask` is `open_task` with `FTO_RDWR` dropped for a read-only
  command (`urdwr`), or its failure. Its own steps are TaskLifecycle's
  subject.
* `MmapAFile` is `mmap_a_file`, with `task_attach`'s result ignored. A
  failed remote open returns at once, still attached. A failed ftruncate,
  a failed `task_syscall` (0) and a MAP_FAILED `-errno` (which `!map_v`
  misses) all map nothing. A success puts the file at any free range
  below the stack (`FreeStarts`). After the mmap, `close_ret` detaches
  and re-reads the view.
* `MunmapAnVma` is `munmap_an_vma`. The length is the file's size if a
  file of the VMA's name exists, otherwise the VMA's size. It unmaps from
  `vm_start`.
* `Jmp` checks both addresses in the view and writes the entry with
  `memcpy_to_task`. The write fails for an unmapped page or a task
  opened without `FTO_RDWR`.
* `Disasm` is the `--dump disasm` read, and `CloseTask` is `close_task`.

Files are model values: `data` (`DataPages` pages), `empty`, `dir`,
`missing`, and the VMAs' own files. The library's file ends at its last
segment's page. The printing flags (`--threads`, `--fds`, `--auxv`,
`--status`, `--symbols`) behave in the parse exactly like `--vmas`, which
stands for all of them. The `--dump` file writers and the print functions
change nothing in the target and are left out. So are the protection bits
of `--map ro,noexec`.

### TaskLifecycle (with MCTaskLifecycle)

This module models `open_task` with `FTO_ALL` (the only flags a caller under
`src/` passes) and `free_task`, step by step (task.c 31-1090, uftrace.c
114-134). `pc` is the controller's place in the code:

* `Init` is `main` right after `parse_config`, which exits unless
  `/proc/PID` exists (`ParseConfig`, `ProcPidExist`). The work directory
  `dir` is empty, or holds what a controller killed inside `open_task`'s
  `FTO_PROC` block left (`Leftovers`): `ROOT_DIR/PID`, then its `comm`
  file, then `map_files`. A controller killed while patching may also
  have left the staged object `map_files/patch-XXXXXX` (patch.h 35).
* `OpenMem` (`open_pid_mem`), `GetComm` (`__get_comm`, whose unchecked
  `fopen` makes `fscanf(NULL)` crash the controller on a dead target),
  `GetExe`, `ReadVmas` (`read_task_vmas` with `open_pid_maps` and
  `__perms2prot` on the maps line's perms), `CheckVmas` (no libc or no
  stack goes to `free_task`), `OpenLibcElf` and `OpenSelfElf` (either
  `elf_file_open` may fail).
* `PeekEhdr`/`PeekPhdrs`: `vma_peek_phdr` for each VMA. An ELF header with
  no program headers, or program headers that cannot be read, frees
  `vma->elf` and returns without clearing the pointer: `elf[i]` becomes
  `"freed"` while `isElf[i]` stays false.
* `LoadSkip`/`LoadSelf`/`LoadDynamic`/`LoadFails`/`LoadCrashes`:
  `vma_load_all_symbols` for each VMA, behind its guard
  `!vma->is_elf || !vma->elf`. A loaded VMA's names go into `tree` through
  `task_vma_link_symbol`, where the first writer wins (`Link`).
* Reads of the target: `memcpy_from_task` returns an `int`, `-errno` on
  failure. Every caller tests it with `<` against a `size_t`
  (`ReadPasses`). The `int` converts to unsigned, so only a 0 counts as a
  failure. On a dead target `pread` returns 0, and `errno` is whatever was
  left before: 0, or a value that makes the result negative and lets it
  pass (`MemcpyFromTask`). The zero-initialised `ehdr` then has no magic.
  Program headers that were never written may hold no `PT_LOAD` (cleared
  cleanly), or may be kept (`junk`), with or without a `PT_DYNAMIC`. A
  `PT_DYNAMIC` copy that was never written gives garbage table sizes. The
  assert on `malloc`, or a loop past a wrapped buffer, kills the
  controller (`LoadCrashes`). Otherwise the zeroed symbol buffer links
  nothing (`LoadFails`).
* `ProcDir`: the `FTO_PROC` block. Both `mkdirat` calls accept EEXIST. A
  missing `ROOT_DIR` goes to `free_task`. Otherwise the task is published
  and `main` later calls `free_task`. `mmap_object` and `munmap_object`,
  which run in between, are PatchLoader's subject.
* `FreeTask`: `close(proc_mem_fd)`, `vma_free_elf` (guarded by `is_elf`)
  for each VMA, `elf_file_close` of the exe and of `libc_vma->name_` (the
  address of an array member, which reads nothing even when `libc_vma` is
  NULL), `unlink(comm)`, `rmdir(map_files)`, `rmdir(ROOT_DIR/PID)`,
  `rb_destroy` and `free_task_vmas`. Each `rmdir` fails on a directory
  that is not empty. Nothing removes a staged patch file, so after it
  `map_files` and `ROOT_DIR/PID` stay (`RemoveWorkDir`).
* `Die` kills the target between any two steps.

`task_for_each_vma` walks `task->vmas`, which `insert_vma` fills with
`list_add` at the head. Both walks therefore run from the last maps line to
the first (`ListVma`). This rests on `task.h`, which is not in the
repository. `elf_file_close` of a name that was never opened is taken to
do nothing.

MCTaskLifecycle has two maps files. The dynamic one holds a PIE that
defines `malloc`, a non-executable first libc VMA, `ld.so` (ELF magic but
no program header, the case `vma_peek_phdr`'s comment describes), the stack
and the vdso. The static one has no libc.

## Runs

| Run | cfg | Expect | Checks |
|---|---|---|---|
| remote_syscall | `RemoteSyscall.cfg` | pass | `TypeOK`, `RegsRestored`, `ResultGenuine`, `AtomicRefined` under SIGUSR1 and SIGKILL, the signals the loops are written for |
| remote_syscall_any_signal | `RemoteSyscallAny.cfg` | pass | `ScratchRestored` and `CallReturns` under SIGSTOP, SIGUSR1, SIGSEGV and SIGKILL |
| remote_syscall_segv | `RemoteSyscallSegv.cfg` | violation | `RegsRestored` under an outside SIGSEGV |
| remote_syscall_stop | `RemoteSyscallStop.cfg` | violation | `ResultGenuine` under an outside SIGSTOP |
| patch_loader | `PatchLoader.cfg` | pass | `TypeOK`, `RemoteCallsTraced`, `ScratchReleased` |
| patch_loader_release | `PatchLoaderResourcesReleased.cfg` | violation | `ResourcesReleased` |
| patch_loader_success | `PatchLoaderSuccessMeansMapped.cfg` | violation | `SuccessMeansMapped` |
| patch_loader_unmap | `PatchLoaderObjectUnmapped.cfg` | violation | `ObjectUnmapped` |
| patch_loader_libc | `PatchLoaderLibcVmaValid.cfg` | violation | `LibcVmaValid` |
| vma_map | `VmaMap.cfg` | pass | `TypeOK`, `LeaderGroups`, `FindVmaCorrect`, `SpanFirstFit`, `FileNoteDescribesMaps`, `FileNoteTruncationSafe`, `SiginfoNoteSafe`, `SdtNoteDecodes`, `GnuPropertyNoteSafe`, `UTypeOK`, `MappedFileUnmapExact` |
| vma_symbol | `VmaMapSymbol.cfg` | violation | `SymbolValueCorrect` |
| task_lifecycle | `TaskLifecycle.cfg` | pass | `TypeOK`, `ElfMemorySafe` |

What the properties say:

* `ScratchRestored`: between calls, a live target has its own bytes at
  `libc_vma->start`. Every path that wrote SYSCALL_INSTR reaches `poke_back`.
* `RegsRestored`: between calls, a live target has its own registers. This is
  spec 4.4's invariant.
* `ResultGenuine`: a call that returns 0 ran the injected syscall exactly
  once and returns that syscall's own result.
* `CallReturns`: every step of `task_syscall` leads back to idle, and the
  attach handshake ends (liveness).

The two violations are findings:

* **SIGSEGV.** An outside SIGSEGV (or a fault) stops the target during
  `wait_for_stop`. `task_syscall` then jumps to `poke_back` without
  `SETREGS(old_regs)`, so the target keeps the syscall registers, with its
  instruction pointer in libc text.
* **SIGSTOP.** A SIGSTOP from job control, `kill -STOP`, or one left pending
  ends `wait_for_stop` before the injected syscall ran. `task_syscall` then
  returns 0 with a `*res` that is the untouched argument register.

PatchLoader's properties:

* `RemoteCallsTraced`: every remote syscall that reaches a live target is
  issued while it is attached.
* `ScratchReleased`: `task_open` always unmaps its path buffer.
* `ResourcesReleased`: `mmap_object` returns with the target detached and
  no fd left open.
* `SuccessMeansMapped`: a 0 from `mmap_object` means the object is mapped.
* `ObjectUnmapped`: after `munmap_object` the object is gone.
* `LibcVmaValid`: the controller never dereferences a NULL `libc_vma`.

The last four fail, and each failure is a bug in the code:

* A failed remote open returns without `task_detach`. This also holds for
  fd 0, which `map_fd <= 0` takes for a failure.
* `task_mmap`'s `-errno` is taken for an address.
* The shadowed size makes `munmap(addr, 0)` fail with EINVAL.
* A target that dies after the remote mmap leaves `libc_vma` NULL after
  `update_task_vmas`. The `task_close` at `close_ret` (uftrace.c 183) then
  reads `libc_vma->start` in `task_syscall` and the controller crashes.

VmaMap's properties:

* `LeaderGroups`: once the maps are read, each VMA's leader is the first VMA
  with its name. A leader's siblings are exactly the other VMAs of its group,
  each listed once.
* `FindVmaCorrect`: at every address up to past the stack, `find_vma` returns
  the VMA that contains it, or NULL if there is none.
* `SpanFirstFit`: for every size, `find_vma_span_area` returns the start of the
  lowest gap of that size between consecutive VMAs.
* `SymbolValueCorrect`: for every offset in the library's segments,
  `task_vma_symbol_value` returns `LibBase + st_value`.

`SymbolValueCorrect` fails, and this is a bug in the code. `insert_vma` adds
each sibling right after the leader, so the list runs from the highest segment
down. The walk then stops at the first sibling whose *file offset* exceeds
`st_value`, and computes `start + st_value - offset`. When a segment's file
offset page differs from its vaddr page, symbols below it come out shifted by
the difference. This is the case for glibc's RW segment. TLC's smallest
example is segments `(v 0, o 0)` and `(v 2, o 1)`.

ElfNote's properties (in the `vma_map` run):

* `FileNoteDescribesMaps`: for a 32-bit and a 64-bit core, the `NT_FILE`
  note of the mappings VmaMap read decodes to exactly those mappings, with
  every name and no out-of-bounds read.
* `FileNoteTruncationSafe`: every truncation of that note (each length from
  0 to one byte short) is decoded without reading past its end, and prints
  a prefix of the full table followed by a failure. The
  `count > maxcount` check is what keeps a short descriptor from being
  walked as if it held `count` triples.
* `SiginfoNoteSafe`: for a SIGSEGV with a fault address, a SIGUSR1 from
  `kill` and a SIGKILL from `tkill`, in both classes and at every
  truncation, `handle_siginfo_note` never reads past the end. The full note
  prints exactly the siginfo. The 64-bit padding skip leaves `p` past `end`
  on a note cut inside the padding. The `p < end` conjunct of
  `buf_has_data` is what stops the wrapped `end - p` from passing as a
  huge size.

* `SdtNoteDecodes`: a whole probe descriptor is decoded to its addresses
  and strings in both classes. The descriptor cut short anywhere, or with a
  byte after the args string, is rejected.
* `GnuPropertyNoteSafe`: on x86, aarch64 and another machine, in both
  classes, the property note prints each property and reads nothing past
  its end. Cut short anywhere, it prints a prefix of that (with
  `BAD property datasz` when the cut falls in a property's data) and
  still reads nothing past the end. This depends on `descsz` going down
  by the same aligned size that `desc` goes up by, clamped at 0.

All five hold. `SdtNoteDecodes` is about what the parser accepts, not
about what it reads. Its third `memchr` is given the length
`desc + descsz - pname` from `args`. On a descriptor cut inside its last
two strings, it therefore reads past the end before it rejects
(`ObjectNoteSdt` sets `oob`). `PROJECT.json` lists this overread as a
hazard.

Ultask's properties (in the `vma_map` run):

* `MappedFileUnmapExact` (an action property): `--unmap` at any page of a
  file that `--map` mapped removes exactly that mapping. It starts at
  `vm_start` even when the typed address lies inside the VMA, and the
  file size it uses is the length `mmap_a_file` mapped.

It holds. The general statement behind it, that `--unmap`
removes only the VMA it names, does not hold. For a file mapped in
segments, `munmap_an_vma` unmaps the file's size starting at the segment
it found. TLC's example is `--unmap` at libc's first page of the
three-segment target, which removes the text and rodata segments and leaves
the data segment. Other defects of `ultask.c` are listed as hazards in
`PROJECT.json`, each without a run because the 12 runs are spent:

* the attach left behind after a failed remote open;
* `!map_v`;
* `vma_addr` shared by `--unmap` and `--dump vma`;
* the `--jmp` check against a view that is stale after `--unmap`.

The first two are the same code as `mmap_object`, whose runs show them.

TaskLifecycle's properties:

* `ElfMemorySafe`: no freed `vma->elf` is read by `vma_load_all_symbols` or
  freed again by `vma_free_elf`. The early returns of `vma_peek_phdr` leave
  the freed pointer set, so both must rely on `is_elf`.
It holds. Two questions about this module are left without a property:

* Whether `free_task` leaves nothing behind. For the leftovers of a killed
  `open_task` it does, but only because of the shape of `RemoveWorkDir`.
  A staged patch file defeats both `rmdir`s: TLC finds `ROOT_DIR/PID`
  still there after `free_task` when a patching controller was killed
  before. `PROJECT.json` lists this as a hazard.
* Which VMA wins a name in the symbol tree. The walk is reversed and the
  first writer wins, so libc's `malloc` wins over the executable's own,
  while the dynamic loader binds the executable's. This is listed as a
  hazard too.

RemoteSyscall's bounds: `MaxCalls = 2`, so a second call starts from the state a first call
left, and `MaxExtSignals = 2`, so two outside signals can land in any two
steps, e.g. a forwarded SIGUSR1 and then a SIGKILL. Every action and every
branch of `WaitReap` (SIGSTOP/SIGTRAP, SIGSEGV, a forwarded signal, a killed
target) is reached by the passing runs. A third signal or call only repeats
these cases.

PatchLoader's bounds: one death (`MaxDeaths = 1`) and both fd outcomes
(`AnyFd`) put a death between every pair of steps and a kernel error at
every step. The run has no loop, so the whole state space is small (130
states).

VmaMap's bounds: up to 3 library segments on pages up to 4, with and without
an anonymous mapping, give every mix of equal and unequal offsets, single and
grouped VMAs, gaps of every size, and addresses before, inside, between and
after the VMAs (379 states). Once the maps are read, each lookup is checked at every address
and every size. The notes are built from these maps: 2 to 4 file
mappings with names of 3 and 4 bytes, in both classes, cut at every length.
The three siginfos reach the three branches of `handle_siginfo_note`. The probes
and the property note are cut at every length, in both classes; the
property note is also read as x86, aarch64 and another machine, which
reaches every branch of `PropPrinted` except the garbage, bad-size and `unknown_type`
lines.

Ultask's bounds:

* Commands have up to 3 options (`MaxArgs`). That is the fewest for a
  successful `-p`, `--dump` and `-o`, and it allows two actions in one
  command, such as `--map` followed by `--unmap`.
* One command per target (`MaxCalls = 1`). The free page the user types
  can be where the kernel puts the mapped file, so a single command reaches
  a `--map` and an `--unmap` of the same mapping. Two commands in a row
  were checked once, and both properties hold over the 7.2 million states.
  That is too slow to run beside the other invariants.
* The data file has 2 pages (`DataPages = 2`), so a typed address can
  lie inside its VMA past the start.
* There are two targets (`TargetLayouts`): a one-segment library, and a
  three-segment library whose data segment sits a page above its file
  offset.
* The run has 143,949 states in about 10 s, and every ultask action
  fires.
* The note checks are made once per map (`MapRead`), because the VMAs do
  not change after `read_task_vmas`.

TaskLifecycle's bounds: one death (`MaxDeaths = 1`) falls between any
two steps, including between the peeks of two VMAs. With both maps files,
both `ROOT_DIR` states and every leftover of the work directory, every
early return of `open_task`, `vma_peek_phdr` and `vma_load_all_symbols` is
reached (1530 states). The dynamic file holds one VMA of each kind that
takes a different branch. More VMAs of the same kind only repeat them.

Fairness:

* `WF` on the controller. It is one thread with no blocking other than
  `waitpid` on a stopped or dead target, which returns.
* `WF` on `ExecSyscall`. A resumed thread is eventually scheduled.
* `WF` on each `DeliverSignal`. The kernel delivers a pending signal when the
  thread runs.

The outside sender gets no fairness, because nothing makes another process
send a signal. PatchLoader, TaskLifecycle, VmaMap and Ultask check safety only. Each
is a finite straight-line run with no loop to starve.

Each property of a passing run has a mutant in `PROJECT.json`: a plausible bug
in the code it is about, which TLC shows breaks it.

## Not modelled

* Arch encoders (no state; headers absent).
* The rest of the ELF reader: `handle_notes` walks the notes with libelf's
  `gelf_getnote`, which is not in the repository. `handle_auxv_note`,
  the other cases of `elf_object_note` (build attributes, build ID, gold
  version, FDO metadata, ABI tag) and the `n_type` name tables only
  format. No code
  under `src/` calls `handle_notes`.
* The printing parts of `ultask` (`print_task`, `list_all_symbols`, the
  dump writers) and the task API it calls (`task_open2`,
  `update_task_vmas_ulp`, `close_task`). That API is written against a
  newer `task_struct` that this repository does not define. Ultask models
  the calls by their effect on the target.
* The arch layer (`patch/asm.h`, `patch/patch.h`) has no state. It is
  inline-assembly strings and declarations, and the arch headers it
  includes are not in the repository.
* `utils/time.c` only wraps `gettimeofday`.
* The test harness (`tests/`) drives the code through fixtures of its own,
  and its patches are assembly.
* Multi-threaded targets: only the attached thread is modelled.
* I/O errors on `/proc/PID/mem` of a live target.
* The symbol tree after `update_task_vmas`. `free_task_vmas` frees the
  VMAs that the symbols point to, but no code under `src/` reads a symbol
  after that. `rb_destroy` in `free_task` frees them without reading
  `s->vma`.
* The `PT_LOAD` walk of `vma_peek_phdr` that sets the siblings'
  `voffset`, and `is_share_lib`. VmaMap's symbol run models what
  `task_vma_symbol_value` reads of them.
