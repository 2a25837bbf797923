---------------------------- MODULE TaskLifecycle ----------------------------
(***************************************************************************)
(* open_task and free_task (task.c) as uftrace's main runs them, with     *)
(* FTO_ALL: /proc/PID/mem, comm and exe, the VMA list, the libc and self  *)
(* ELF files, vma_peek_phdr and vma_load_all_symbols for every VMA, the   *)
(* work directory ROOT_DIR/PID, and free_task, both on open_task's        *)
(* failure path and at the end of main.  The target may die between any  *)
(* two steps; the work directory may hold what an earlier, killed         *)
(* controller left.  mmap_object and munmap_object, which main runs       *)
(* between open_task and free_task, are the subject of PatchLoader.       *)
(*                                                                         *)
(* A VMA is a maps line (name, perms) with the image the target holds      *)
(* at its start; an image is what vma_peek_phdr and                     *)
(* vma_load_all_symbols read of it: the ELF magic, whether it has program *)
(* headers, whether it has PT_DYNAMIC, and the names it defines.          *)
(***************************************************************************)
EXTENDS Naturals, Sequences, FiniteSets

CONSTANTS
  Layouts,     \* the maps files the target may have: sequences of VMAs
  SymNames,    \* the symbol names the images define
  MaxDeaths    \* 0 or 1: whether the target may die during the run

ASSUME MaxDeaths \in {0, 1}

VARIABLES
  layout,      \* the target's maps file, fixed for the run
  pc,          \* the controller's position in open_task, main and free_task
  alive,       \* the target process exists
  deaths,      \* how often the target died (bounded by MaxDeaths)
  memfd,       \* task->proc_mem_fd is open
  exeKnown,    \* task->exe was resolved (not NULL)
  read,        \* task->vmas holds the VMAs of layout (else it is empty)
  libcVma,     \* task->libc_vma: an index of layout, 0 for NULL
  stack,       \* task->stack: an index of layout, 0 for NULL
  handles,     \* the ELF files open through elf_file_open: "libc", "exe"
  cur,         \* the loop cursor of task_for_each_vma
  elf,         \* elf[i]: vma->elf is "none" (NULL), "valid" or "freed"
  isElf,       \* isElf[i]: vma->is_elf
  tree,        \* task->vma_symbols: tree[n] is the owning VMA, 0 for none
  linked,      \* the VMAs whose symbols were linked into the tree
  dir,         \* what exists of ROOT_DIR/PID: "pid", "comm", "map_files"
  root,        \* ROOT_DIR exists
  published,   \* the task is on tasks_list (open_task succeeded)
  junk,        \* the VMAs whose vma->elf->phdrs were never written: a
               \* failed read that passed as a full one
  elfFault     \* a freed vma->elf was read or freed again

target  == <<layout, alive, deaths>>
vmaVars == <<read, libcVma, stack, cur, elf, isElf, junk>>
symVars == <<tree, linked, elfFault>>
resVars == <<memfd, exeKnown, handles, dir, root, published>>
vars    == <<pc, target, vmaVars, symVars, resVars>>

N == Len(layout)

\* get_vma_type, for the names the maps files hold.
GetVmaType(name) ==
  CASE name = "exe"      -> "SELF"
    [] name = "libc"     -> "LIBC"
    [] name = "ld"       -> "LD"
    [] name = "[vdso]"   -> "VDSO"
    [] name = "[vvar]"   -> "VVAR"
    [] name = "[stack]"  -> "STACK"
    [] OTHER             -> "ANON"

\* __perms2prot: the r, w and x of a maps line's perms column; the p/s
\* flag is ignored.
Perms2Prot(perms) ==
  LET flag == <<"r", "w", "x">>
      prot == <<"PROT_READ", "PROT_WRITE", "PROT_EXEC">>
  IN  {prot[k] : k \in {k \in 1..3 : perms[k] = flag[k]}}

IsExec(i) == "PROT_EXEC" \in Perms2Prot(layout[i].perms)

\* The k-th VMA task_for_each_vma visits: insert_vma list_adds each VMA at
\* the head of task->vmas, so the walk runs backwards through the maps file.
ListVma(k) == N + 1 - k

Least(S) == IF S = {} THEN 0 ELSE CHOOSE i \in S : \A j \in S : i <= j

NoSymbols == [n \in SymNames |-> 0]

\* The work directory as open_task leaves it under FTO_PROC.
WorkDir == {"pid", "comm", "map_files"}

\* What a killed controller leaves behind: in open_task's FTO_PROC block,
\* mkdirat(ROOT_DIR/PID), the comm file and mkdirat(map_files) in order;
\* while patching, the staged object map_files/patch-XXXXXX (patch.h).
Leftovers == {{}, {"pid"}, {"pid", "comm"}, WorkDir, WorkDir \cup {"patch"}}

TypeOK ==
  /\ layout \in Layouts
  /\ pc \in {"open_mem", "get_comm", "get_exe", "read_vmas", "check",
             "libc_elf", "self_elf", "peek", "peek_phdrs", "load", "proc",
             "free_task", "nomem", "failed", "done", "crashed"}
  /\ alive \in BOOLEAN /\ deaths \in 0..MaxDeaths
  /\ memfd \in BOOLEAN /\ exeKnown \in BOOLEAN /\ read \in BOOLEAN
  /\ libcVma \in 0..N /\ stack \in 0..N
  /\ handles \subseteq {"libc", "exe"}
  /\ cur \in 1..N + 1
  /\ elf \in [1..N -> {"none", "valid", "freed"}]
  /\ isElf \in [1..N -> BOOLEAN] /\ junk \subseteq 1..N
  /\ tree \in [SymNames -> 0..N] /\ linked \subseteq 1..N
  /\ dir \subseteq WorkDir \cup {"patch"} /\ root \in BOOLEAN
  /\ published \in BOOLEAN /\ elfFault \in BOOLEAN

\* proc_pid_exist: fexist(/proc/PID).
ProcPidExist(a) == a

\* parse_config exits 1 unless a pid is given and /proc/PID exists, and a
\* patch object is given and is an ELF relocatable file; only then does
\* main go on to open_task.
ParseConfig(a) == ProcPidExist(a)

\* uftrace's main calls open_task on a target parse_config found running;
\* the work directory is empty, or what a killed controller left if
\* ROOT_DIR exists.
Init ==
  /\ layout \in Layouts
  /\ pc = "open_mem" /\ alive \in BOOLEAN /\ ParseConfig(alive) /\ deaths = 0
  /\ memfd = FALSE /\ exeKnown = FALSE
  /\ read = FALSE /\ libcVma = 0 /\ stack = 0 /\ handles = {} /\ cur = 1
  /\ elf = [i \in 1..Len(layout) |-> "none"]
  /\ isElf = [i \in 1..Len(layout) |-> FALSE] /\ junk = {}
  /\ tree = NoSymbols /\ linked = {}
  /\ dir \in Leftovers /\ root \in BOOLEAN /\ (dir # {} => root)
  /\ published = FALSE /\ elfFault = FALSE

Goto(p) == pc' = p

\* open_pid_mem and open_pid_maps: open(/proc/PID/mem|maps) fails once the
\* target is gone.
OpenPidMem == alive

OpenPidMaps == alive

\* memcpy_from_task: pread of /proc/PID/mem.  A live target's bytes are
\* read in full.  Once the target is gone pread returns 0 and the function
\* returns -errno, errno being what lerror and do_backtrace left: 0, or a
\* negative int.
MemcpyFromTask == IF alive THEN {"full"} ELSE {"zero", "neg"}

\* Every caller tests "memcpy_from_task(...) < size" with a size_t size:
\* the int converts to unsigned long, so only a 0 fails, and a -errno
\* passes as a full read of bytes that were never written.
ReadPasses(r) == r # "zero"

-----------------------------------------------------------------------------
(* The target is killed: /proc/PID/* can no longer be opened or read.      *)
Die ==
  /\ alive /\ deaths < MaxDeaths
  /\ alive' = FALSE /\ deaths' = deaths + 1
  /\ UNCHANGED <<pc, layout, vmaVars, symVars, resVars>>

-----------------------------------------------------------------------------
(* open_task: /proc, the VMA list and the ELF files                        *)

\* open_pid_mem; memfd <= 0 returns NULL before anything is allocated.
OpenMem ==
  /\ pc = "open_mem"
  /\ IF OpenPidMem THEN memfd' = TRUE /\ Goto("get_comm")
              ELSE Goto("nomem") /\ UNCHANGED memfd
  /\ UNCHANGED <<target, vmaVars, symVars, exeKnown, handles, dir, root,
                 published>>

\* __get_comm: fopen(/proc/PID/comm) is not checked, and fscanf on the
\* NULL stream of a vanished target crashes the controller.
GetComm ==
  /\ pc = "get_comm"
  /\ Goto(IF alive THEN "get_exe" ELSE "crashed")
  /\ UNCHANGED <<target, vmaVars, symVars, resVars>>

\* __get_exe: a failed readlink leaves task->exe NULL; the result is ignored.
GetExe ==
  /\ pc = "get_exe"
  /\ exeKnown' = alive
  /\ Goto("read_vmas")
  /\ UNCHANGED <<target, vmaVars, symVars, memfd, handles, dir, root,
                 published>>

\* read_task_vmas(task, false): when /proc/PID/maps cannot be opened it
\* returns -1 with no VMA; otherwise libc_vma is the first executable libc
\* VMA and stack the first [stack] VMA.  Its result is ignored.
ReadVmas ==
  /\ pc = "read_vmas"
  /\ read' = OpenPidMaps
  /\ libcVma' = IF OpenPidMaps THEN Least({i \in 1..N : GetVmaType(layout[i].name) = "LIBC"
                                                  /\ IsExec(i)})
                         ELSE 0
  /\ stack' = IF OpenPidMaps THEN Least({i \in 1..N : GetVmaType(layout[i].name) = "STACK"})
                       ELSE 0
  /\ Goto("check")
  /\ UNCHANGED <<target, cur, elf, isElf, junk, symVars, resVars>>

\* No libc or no stack: goto free_task.
CheckVmas ==
  /\ pc = "check"
  /\ Goto(IF libcVma = 0 \/ stack = 0 THEN "free_task" ELSE "libc_elf")
  /\ UNCHANGED <<target, vmaVars, symVars, resVars>>

\* FTO_LIBC: elf_file_open(libc_vma->name_).  The file the target mapped
\* may since have been removed or replaced; a failure goes to free_task.
OpenLibcElf ==
  /\ pc = "libc_elf"
  /\ \/ handles' = handles \cup {"libc"} /\ Goto("self_elf")
     \/ Goto("free_task") /\ UNCHANGED handles
  /\ UNCHANGED <<target, vmaVars, symVars, memfd, exeKnown, dir, root,
                 published>>

\* FTO_SELF: elf_file_open(task->exe); a NULL exe cannot be opened.
OpenSelfElf ==
  /\ pc = "self_elf"
  /\ \/ exeKnown /\ handles' = handles \cup {"exe"} /\ Goto("peek")
     \/ Goto("free_task") /\ UNCHANGED handles
  /\ UNCHANGED <<target, vmaVars, symVars, memfd, exeKnown, dir, root,
                 published>>

-----------------------------------------------------------------------------
(* FTO_VMA_ELF: vma_peek_phdr for every VMA                                *)

\* vma_peek_phdr skips [vvar], [stack] and [vsyscall], and a VMA already
\* peeked.
Peekable(i) ==
  /\ GetVmaType(layout[i].name) \notin {"VVAR", "STACK", "VSYSCALL"}
  /\ elf[i] = "none" /\ ~isElf[i]

\* It reads the ELF header into an ehdr initialised to zeros.  A read that
\* fails the test returns -1; a header without the ELF magic (the zeros a
\* -errno leaves, too) is no ELF.  An ELF gets vma->elf; with no program
\* header the function frees it and returns, leaving the pointer set and
\* is_elf false; otherwise it reads the program headers.
PeekEhdr ==
  /\ pc = "peek" /\ cur <= N
  /\ LET i == ListVma(cur) IN
     \E r \in MemcpyFromTask :
       LET h  == IF r = "full" THEN layout[i].img ELSE [magic |-> FALSE, phdrs |-> FALSE]
           ok == Peekable(i) /\ ReadPasses(r) /\ h.magic
       IN  \/ ~ok /\ cur' = cur + 1 /\ UNCHANGED <<pc, elf>>
           \/ ok /\ ~h.phdrs
              /\ elf' = [elf EXCEPT ![i] = "freed"]
              /\ cur' = cur + 1 /\ UNCHANGED pc
           \/ ok /\ h.phdrs
              /\ elf' = [elf EXCEPT ![i] = "valid"]
              /\ Goto("peek_phdrs") /\ UNCHANGED cur
  /\ UNCHANGED <<target, read, libcVma, stack, isElf, junk, symVars, resVars>>

\* memcpy_from_task of the program headers: a failure frees phdrs and
\* vma->elf and returns -1, again leaving the pointer set.  Otherwise the
\* VMA is_elf, and the PT_LOAD walk finds load_offset (every image here
\* has a PT_LOAD).  After a -errno the malloc'ed phdrs were never
\* written and may hold no PT_LOAD: then both are freed, the pointer is
\* cleared and is_elf stays false.
PeekPhdrs ==
  /\ pc = "peek_phdrs"
  /\ LET i == ListVma(cur) IN
     \E r \in MemcpyFromTask, load \in BOOLEAN :
       \/ ~ReadPasses(r) /\ elf' = [elf EXCEPT ![i] = "freed"] /\ UNCHANGED <<isElf, junk>>
       \/ r = "full" /\ isElf' = [isElf EXCEPT ![i] = TRUE] /\ UNCHANGED <<elf, junk>>
       \/ r = "neg" /\ load
          /\ isElf' = [isElf EXCEPT ![i] = TRUE] /\ junk' = junk \cup {i}
          /\ UNCHANGED elf
       \/ r = "neg" /\ ~load
          /\ elf' = [elf EXCEPT ![i] = "none"] /\ UNCHANGED <<isElf, junk>>
  /\ cur' = cur + 1 /\ Goto("peek")
  /\ UNCHANGED <<target, read, libcVma, stack, symVars, resVars>>

\* Mutant: the second walk starts at the list head itself.
PeekEndFromHead ==
  /\ pc = "peek" /\ cur > N
  /\ cur' = 0 /\ Goto("load")
  /\ UNCHANGED <<target, read, libcVma, stack, elf, isElf, junk, symVars, resVars>>

\* The end of the walk; FTO_VMA_ELF_SYMBOLS walks the list again.
PeekEnd ==
  /\ pc = "peek" /\ cur > N
  /\ cur' = 1 /\ Goto("load")
  /\ UNCHANGED <<target, read, libcVma, stack, elf, isElf, junk, symVars, resVars>>

-----------------------------------------------------------------------------
(* FTO_VMA_ELF_SYMBOLS: vma_load_all_symbols for every VMA                 *)

\* task_vma_link_symbol: rb_insert_node finds a symbol of the same name
\* and the new one is freed, so the first writer wins.
Link(i, names) ==
  [n \in SymNames |-> IF tree[n] = 0 /\ n \in names THEN i ELSE tree[n]]

\* The guard "!vma->is_elf || !vma->elf" returns 0.
LoadsSymbols(i) == isElf[i] /\ elf[i] # "none"

\* Past the guard the function reads vma->elf.
ReadElf(i) == elfFault' = (elfFault \/ elf[i] = "freed")

LoadSkip ==
  /\ pc = "load" /\ cur <= N /\ ~LoadsSymbols(ListVma(cur))
  /\ cur' = cur + 1
  /\ UNCHANGED <<pc, target, read, libcVma, stack, elf, isElf, junk, symVars,
                 resVars>>

\* VMA_SELF: load_self_vma_symbols links every defined symbol of the
\* on-disk exe_elf; it does not read the target.
LoadSelf ==
  /\ pc = "load" /\ cur <= N
  /\ LET i == ListVma(cur) IN
       /\ LoadsSymbols(i) /\ GetVmaType(layout[i].name) = "SELF"
       /\ tree' = Link(i, layout[i].img.syms) /\ linked' = linked \cup {i}
       /\ ReadElf(i)
  /\ cur' = cur + 1
  /\ UNCHANGED <<pc, target, read, libcVma, stack, elf, isElf, junk, resVars>>

\* vma_load_all_symbols looks for PT_DYNAMIC among the program
\* headers: the image's, or anything in headers that were never written.
HasDynamic(i, dyn) == IF i \in junk THEN dyn ELSE layout[i].img.dynamic

\* Any other ELF on a live target: the PT_DYNAMIC segment and then the
\* symbol and string tables are read from the target, and each defined,
\* named symbol is linked.
LoadDynamic ==
  /\ pc = "load" /\ cur <= N
  /\ LET i == ListVma(cur) IN
       /\ LoadsSymbols(i) /\ GetVmaType(layout[i].name) # "SELF"
       /\ layout[i].img.dynamic /\ alive
       /\ tree' = Link(i, layout[i].img.syms) /\ linked' = linked \cup {i}
       /\ ReadElf(i)
  /\ cur' = cur + 1
  /\ UNCHANGED <<pc, target, read, libcVma, stack, elf, isElf, junk, resVars>>

\* No PT_DYNAMIC returns -1.  On a dead target a 0 from memcpy_from_task
\* goes to out_free or out_free_buffer; a -errno passes, and the tables
\* read are the zeroed buffer, whose symbols are all undefined (or names
\* read past it, none of which the images define).  Nothing is linked.
LoadFails ==
  /\ pc = "load" /\ cur <= N
  /\ LET i == ListVma(cur) IN
       /\ LoadsSymbols(i) /\ GetVmaType(layout[i].name) # "SELF"
       /\ \E dyn \in BOOLEAN : ~HasDynamic(i, dyn) \/ ~alive
       /\ ReadElf(i)
  /\ cur' = cur + 1
  /\ UNCHANGED <<pc, target, read, libcVma, stack, elf, isElf, junk, tree, linked,
                 resVars>>

\* On a dead target a -errno passes for the PT_DYNAMIC segment, whose
\* malloc'ed copy was never written: symtab_sz and strtab_sz are garbage,
\* and malloc(symtab_sz + strtab_sz) fails the assert, or a sum that wraps
\* gives a small buffer the symbol loop reads far past.  The controller
\* dies.
LoadCrashes ==
  /\ pc = "load" /\ cur <= N
  /\ LET i == ListVma(cur) IN
       /\ LoadsSymbols(i) /\ GetVmaType(layout[i].name) # "SELF"
       /\ \E dyn \in BOOLEAN : HasDynamic(i, dyn) /\ ~alive
       /\ ReadElf(i)
  /\ Goto("crashed")
  /\ UNCHANGED <<target, read, libcVma, stack, cur, elf, isElf, junk, tree, linked,
                 resVars>>

LoadEnd ==
  /\ pc = "load" /\ cur > N
  /\ Goto("proc")
  /\ UNCHANGED <<target, vmaVars, symVars, resVars>>

-----------------------------------------------------------------------------
(* FTO_PROC, and the end of open_task                                      *)

\* mkdirat(ROOT_DIR/PID) (EEXIST is fine), the comm file, and
\* mkdirat(map_files) (EEXIST is fine); then list_add to tasks_list and
\* return the task.  Without ROOT_DIR the first mkdirat fails: goto
\* free_task.  main then runs mmap_object and munmap_object (PatchLoader)
\* and calls free_task.
ProcDir ==
  /\ pc = "proc"
  /\ \/ root /\ dir' = dir \cup WorkDir /\ published' = TRUE
     \/ ~root /\ UNCHANGED <<dir, published>>
  /\ Goto("free_task")
  /\ UNCHANGED <<target, vmaVars, symVars, memfd, exeKnown, handles, root>>

-----------------------------------------------------------------------------
(* free_task                                                               *)

\* Mutant: vma_free_elf frees every non-NULL vma->elf.
FreesElfNonNull(i) == elf[i] # "none"

\* vma_free_elf's guard: only an is_elf VMA has its phdrs and elf freed.
FreesElf(i) == isElf[i]

\* unlink(comm), rmdir(map_files) and rmdir(ROOT_DIR/PID); each rmdir
\* succeeds only on an empty directory, and a failure is logged and
\* ignored.  Nothing removes a staged patch file.
RemoveWorkDir(d) ==
  LET a == d \ {"comm"}
      b == IF "patch" \in a THEN a ELSE a \ {"map_files"}
  IN  IF b \subseteq {"pid"} THEN {} ELSE b

\* free_task with FTO_ALL: list_del, close(proc_mem_fd), vma_free_elf
\* over task->vmas, elf_file_close(task->exe) and
\* elf_file_close(task->libc_vma->name_), which only takes the address of
\* the name_ array of a NULL libc_vma (elf_file_close is outside the
\* repository); then the work directory, rb_destroy of the symbol tree and
\* free_task_vmas.  open_task returns NULL after it, main returns 0.
FreeTask ==
  /\ pc = "free_task"
  /\ memfd' = FALSE
  /\ elf' = [i \in 1..N |-> IF read /\ FreesElf(i) THEN "freed" ELSE elf[i]]
  /\ elfFault' = (elfFault \/ \E i \in 1..N : read /\ FreesElf(i)
                                            /\ elf[i] = "freed")
  /\ handles' = handles \ {"exe", "libc"}
  /\ dir' = RemoveWorkDir(dir)
  /\ tree' = NoSymbols /\ linked' = {}
  /\ read' = FALSE /\ libcVma' = 0 /\ stack' = 0
  /\ published' = FALSE
  /\ Goto(IF published THEN "done" ELSE "failed")
  /\ UNCHANGED <<target, cur, isElf, junk, exeKnown, root>>

\* open_task returned NULL (main returns 1), main returned 0, or the
\* controller died of SIGSEGV.
Exited ==
  /\ pc \in {"nomem", "failed", "done", "crashed"}
  /\ UNCHANGED vars

Next ==
  \/ OpenMem \/ GetComm \/ GetExe \/ ReadVmas \/ CheckVmas
  \/ OpenLibcElf \/ OpenSelfElf
  \/ PeekEhdr \/ PeekPhdrs \/ PeekEnd
  \/ LoadSkip \/ LoadSelf \/ LoadDynamic \/ LoadFails \/ LoadCrashes \/ LoadEnd
  \/ ProcDir \/ FreeTask
  \/ Die \/ Exited

Spec == Init /\ [][Next]_vars

-----------------------------------------------------------------------------
(***************************************************************************)
(* Properties.                                                             *)
(***************************************************************************)

\* No vma->elf is read or freed after it was freed.  vma_peek_phdr frees
\* vma->elf on two early returns (no program header, a failed read of the
\* program headers) without clearing the pointer; vma_load_all_symbols and
\* vma_free_elf in free_task must tell those VMAs apart by is_elf.
ElfMemorySafe == ~elfFault

=============================================================================
