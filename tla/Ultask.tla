------------------------------- MODULE Ultask -------------------------------
(***************************************************************************)
(* The ultask command (ultask.c) run against the target whose map VmaMap  *)
(* reads.  One call of ultask() resets the option globals, runs           *)
(* parse_config (one step per getopt_long iteration, then the checks      *)
(* after the loop), opens the task, and performs the requested actions in *)
(* the order ultask() tests their flags: mmap_a_file, munmap_an_vma, the  *)
(* jmp kick, the disasm read, close_task.  The target's address space is  *)
(* the kernel's map tmap; task->vmas is the view read at open_task and    *)
(* again by update_task_vmas_ulp after mmap_a_file.  Up to MaxCalls       *)
(* commands run one after another against the same process.               *)
(*                                                                         *)
(* The printing actions (--vmas, --threads, --fds, --auxv, --status,      *)
(* --symbols, the dumps to -o) change nothing in the target; --vmas       *)
(* stands for all the flags that only print.  Addresses are pages, the    *)
(* address a user types (str2addr) is one page ua of the target, or 0.    *)
(***************************************************************************)
EXTENDS VmaMap

LOCAL INSTANCE SequencesExt

CONSTANTS
  MaxArgs,       \* most options on one command line
  MaxCalls,      \* most ultask commands run against the target
  DataPages,     \* the size in pages of the regular file "data"
  TargetLayouts  \* the library layouts of the targets ultask is run on

ASSUME MaxArgs \in Nat /\ MaxCalls \in Nat \ {0} /\ DataPages \in Nat \ {0}
ASSUME TargetLayouts \subseteq Layouts

VARIABLES
  upc,       \* where ultask() is
  ucalls,    \* ultask commands started
  ucfg,      \* the option globals parse_config sets
  uargc,     \* options getopt_long has returned
  ua,        \* the address the user types in this command, 0 for none
  uforce,    \* the common --force option
  uret,      \* ret of ultask()
  urdwr,     \* open_task was given FTO_RDWR
  tmap,      \* the target's mappings: [start, end, name] in pages
  view,      \* target_task->vmas as last read from /proc/PID/maps
  attached,  \* the controller ptrace-attached to the target
  created,   \* the mappings mmap_a_file created (history)
  kicked     \* the jmp entries written into the target: [from, to]

uvars == <<upc, ucalls, ucfg, uargc, ua, uforce, uret, urdwr, tmap, view,
           attached, created, kicked>>

NULL == "NULL"

-----------------------------------------------------------------------------
(* Files the command may name: a regular data file in the target's cwd,   *)
(* an empty file, a directory and a missing path; the VMAs' own files     *)
(* exist.  The library's file ends with its last segment's page.           *)

MapFiles == {"data", "empty", "dir", "missing"}

FExist(f)   == f \in {"exe", "libc", "data", "empty", "dir"}
FRegular(f) == f \in {"exe", "libc", "data", "empty"}
FSize(f)    == CASE f = "data"  -> DataPages
                 [] f = "empty" -> 0
                 [] f = "exe"   -> 1
                 [] f = "libc"  -> layout[Len(layout)].o + 1
                 [] OTHER       -> 0

\* The mappings of a maps file.
MapOf(ls) == { [start |-> ls[k].start, end |-> ls[k].end, name |-> ls[k].name]
               : k \in 1..Len(ls) }

\* find_vma's NULL.
NoVma == [start |-> 0, end |-> 0, name |-> NULL]

\* find_vma over a list of VMAs: the one holding page a, NoVma if none.
VmaOf(vs, a) == IF \E v \in vs : v.start <= a /\ a < v.end
                  THEN CHOOSE v \in vs : v.start <= a /\ a < v.end
                  ELSE NoVma

\* munmap(2) of the pages [lo, hi): each mapping keeps what lies outside.
Unmap(m, lo, hi) ==
  { v \in m : v.end <= lo \/ hi <= v.start }
  \cup { [v EXCEPT !.end = lo] : v \in { w \in m : w.start < lo /\ lo < w.end } }
  \cup { [v EXCEPT !.start = hi] : v \in { w \in m : w.start < hi /\ hi < w.end } }

\* Where mmap(2) with a NULL hint may place len pages: any free range
\* below the stack.
FreeStarts(m, len) ==
  { s \in 1..StackStart - len :
      \A v \in m : s + len <= v.start \/ v.end <= s }

-----------------------------------------------------------------------------
(* parse_config                                                            *)

\* ultask_args_reset.
ArgsReset ==
  [target_pid |-> "none", flag_print_task |-> TRUE, flag_print_vmas |-> FALSE,
   flag_dump_vma |-> FALSE, flag_dump_addr |-> FALSE, flag_unmap_vma |-> FALSE,
   map_file |-> NULL, vma_addr |-> 0, dump_addr |-> 0, dump_size |-> 0,
   jmp_addr_from |-> 0, jmp_addr_to |-> 0, flag_disasm |-> FALSE,
   disasm_addr |-> 0, disasm_size |-> 0, output_file |-> NULL,
   flag_rdonly |-> TRUE]

\* A suboption (getsubopt) or an option argument: name, file, value.
Sub(s, f, v) == [s |-> s, f |-> f, v |-> v]
Opt(o, subs) == [o |-> o, subs |-> subs]

\* The options a command line may hold, with the address a.
Options(a) ==
  { Opt("p", << Sub("target", "", 0) >>), Opt("p", << Sub("gone", "", 0) >>),
    Opt("vmas", << >>), Opt("bad", << >>),
    Opt("dump", << Sub("vma", "", 0), Sub("addr", "", a) >>),
    Opt("dump", << Sub("addr", "", a), Sub("size", "", 1) >>),
    Opt("dump", << Sub("disasm", "", 0), Sub("addr", "", a), Sub("size", "", 1) >>),
    Opt("dump", << Sub("vma", "", 0) >>), Opt("dump", << Sub("disasm", "", 0) >>),
    Opt("jmp", << Sub("from", "", a), Sub("to", "", a) >>),
    Opt("jmp", << Sub("from", "", a) >>),
    Opt("map", << Sub("ro", "", 0) >>),
    Opt("unmap", << Sub("", "", a) >>),
    Opt("o", << Sub("new", "", 0) >>), Opt("o", << Sub("existing", "", 0) >>) }
  \cup { Opt("map", << Sub("file", f, 0) >>) : f \in MapFiles }

\* The result of one getopt_long iteration: the globals, or cmd_exit(code).
Ok(c)      == [ok |-> TRUE, cfg |-> c, code |-> 0]
Exit(c, n) == [ok |-> FALSE, cfg |-> c, code |-> n]

\* The getsubopt loop of --dump; any other suboption exits at once.
DumpSub(c, s) ==
  CASE s.s = "vma"    -> [c EXCEPT !.flag_dump_vma = TRUE]
    [] s.s = "disasm" -> [c EXCEPT !.flag_disasm = TRUE]
    [] s.s = "addr"   -> [c EXCEPT !.dump_addr = s.v]
    [] s.s = "size"   -> [c EXCEPT !.dump_size = s.v]

\* --dump: the suboptions, then which dump they ask for.
DumpCase(c0, subs) ==
  LET c == FoldLeft(DumpSub, c0, subs)
  IN  CASE c.flag_dump_vma /\ c.flag_disasm -> Exit(c, 1)
        [] c.flag_dump_vma ->
             IF c.dump_addr = 0 THEN Exit(c, 1)
             ELSE Ok([c EXCEPT !.vma_addr = c.dump_addr])
        [] c.flag_disasm ->
             IF c.dump_addr = 0 \/ c.dump_size = 0 THEN Exit(c, 1)
             ELSE Ok([c EXCEPT !.disasm_addr = c.dump_addr,
                               !.disasm_size = c.dump_size])
        [] OTHER ->
             IF c.dump_addr = 0 \/ c.dump_size = 0 THEN Exit(c, 1)
             ELSE Ok([c EXCEPT !.flag_dump_addr = TRUE])

JmpSub(c, s) ==
  IF s.s = "from" THEN [c EXCEPT !.jmp_addr_from = s.v]
  ELSE [c EXCEPT !.jmp_addr_to = s.v]

MapSub(c, s) == IF s.s = "file" THEN [c EXCEPT !.map_file = s.f] ELSE c

\* One iteration of the getopt_long loop: the case of the option.
GetoptCase(c, opt) ==
  CASE opt.o = "p"     -> Ok([c EXCEPT !.target_pid = opt.subs[1].s])
    [] opt.o = "vmas"  -> Ok([c EXCEPT !.flag_print_vmas = TRUE])
    [] opt.o = "dump"  -> DumpCase(c, opt.subs)
    [] opt.o = "jmp"   ->
         LET j == [FoldLeft(JmpSub, c, opt.subs) EXCEPT !.flag_rdonly = FALSE]
         IN  IF j.jmp_addr_from = 0 \/ j.jmp_addr_to = 0 THEN Exit(j, 1)
             ELSE Ok(j)
    [] opt.o = "map"   ->
         LET m == [FoldLeft(MapSub, c, opt.subs) EXCEPT !.flag_rdonly = FALSE]
         IN  IF m.map_file = NULL THEN Exit(m, 1) ELSE Ok(m)
    [] opt.o = "unmap" -> Ok([c EXCEPT !.flag_unmap_vma = TRUE,
                                       !.flag_rdonly = FALSE,
                                       !.vma_addr = opt.subs[1].v])
    [] opt.o = "o"     -> Ok([c EXCEPT !.output_file = opt.subs[1].s])
    [] OTHER           -> Exit(c, 1)

\* No action was asked for.
NothingToDo(c) ==
  /\ ~c.flag_print_vmas /\ ~c.flag_dump_vma /\ ~c.flag_dump_addr
  /\ c.map_file = NULL /\ (c.jmp_addr_from = 0 \/ c.jmp_addr_to = 0)
  /\ ~c.flag_unmap_vma /\ ~c.flag_disasm

\* Mutant: an empty --map file is not refused.
CheckConfigNoEmpty(c0, force) ==
  LET c == IF NothingToDo(c0) THEN c0 ELSE [c0 EXCEPT !.flag_print_task = FALSE]
  IN  CASE c.target_pid = "none"                         -> Exit(c, 1)
        [] c.target_pid = "gone"                         -> Exit(c, 1)
        [] c.flag_dump_vma /\ c.output_file = NULL       -> Exit(c, 1)
        [] c.flag_dump_addr /\ c.output_file = NULL      -> Exit(c, 1)
        [] c.map_file # NULL /\ ~FExist(c.map_file)      -> Exit(c, 17)
        [] c.map_file # NULL /\ ~FRegular(c.map_file)    -> Exit(c, 2)
        [] c.output_file = "existing" /\ ~force          -> Exit(c, 1)
        [] OTHER                                         -> Ok(c)

\* The checks after the getopt loop, in their order; EEXIST, ENOENT and
\* EINVAL are the exit codes of a bad --map file.
CheckConfig(c0, force) ==
  LET c == IF NothingToDo(c0) THEN c0 ELSE [c0 EXCEPT !.flag_print_task = FALSE]
  IN  CASE c.target_pid = "none"                         -> Exit(c, 1)
        [] c.target_pid = "gone"                         -> Exit(c, 1)
        [] c.flag_dump_vma /\ c.output_file = NULL       -> Exit(c, 1)
        [] c.flag_dump_addr /\ c.output_file = NULL      -> Exit(c, 1)
        [] c.map_file # NULL /\ ~FExist(c.map_file)      -> Exit(c, 17)
        [] c.map_file # NULL /\ ~FRegular(c.map_file)    -> Exit(c, 2)
        [] c.map_file # NULL /\ FSize(c.map_file) = 0    -> Exit(c, 22)
        [] c.output_file = "existing" /\ ~force          -> Exit(c, 1)
        [] OTHER                                         -> Ok(c)

UTypeOK ==
  /\ upc \in {"idle", "parse", "open", "map", "unmap", "jmp", "disasm",
              "close", "exit"}
  /\ ucalls \in 0..MaxCalls /\ uargc \in 0..MaxArgs
  /\ ucfg \in [target_pid : {"none", "target", "gone"},
               flag_print_task : BOOLEAN, flag_print_vmas : BOOLEAN,
               flag_dump_vma : BOOLEAN, flag_dump_addr : BOOLEAN,
               flag_unmap_vma : BOOLEAN, map_file : MapFiles \cup {NULL},
               vma_addr : Nat, dump_addr : Nat, dump_size : Nat,
               jmp_addr_from : Nat, jmp_addr_to : Nat, flag_disasm : BOOLEAN,
               disasm_addr : Nat, disasm_size : Nat,
               output_file : {NULL, "new", "existing"}, flag_rdonly : BOOLEAN]
  /\ ua \in 0..StackStart /\ uforce \in BOOLEAN /\ uret \in Int
  /\ urdwr \in BOOLEAN /\ attached \in BOOLEAN
  /\ \A v \in tmap \cup view \cup created : v.start < v.end
  /\ kicked \subseteq [from : 0..StackStart, to : 0..StackStart]

UInit ==
  /\ Init
  /\ upc = "idle" /\ ucalls = 0 /\ ucfg = ArgsReset /\ uargc = 0 /\ ua = 0
  /\ uforce = FALSE /\ uret = 0 /\ urdwr = FALSE
  /\ tmap = MapOf(lines) /\ view = {} /\ attached = FALSE
  /\ created = {} /\ kicked = {}

-----------------------------------------------------------------------------
(* ultask()                                                                *)

\* A command starts once open_task can have read the map: the globals are
\* reset; the user types the last page of a mapping, or a free page.
Start ==
  /\ Done /\ layout \in TargetLayouts
  /\ upc \in {"idle", "exit"} /\ ucalls < MaxCalls
  /\ upc' = "parse" /\ ucalls' = ucalls + 1 /\ ucfg' = ArgsReset /\ uargc' = 0
  /\ \E a \in { v.end - 1 : v \in tmap }
               \cup { s \in 1..StackStart : VmaOf(tmap, s) = NoVma } :
       ua' = a
  /\ \E f \in BOOLEAN : uforce' = f
  /\ uret' = 0
  /\ UNCHANGED <<urdwr, tmap, view, attached, created, kicked>>
  /\ UNCHANGED vars

\* getopt_long returns the next option.
ParseOpt ==
  /\ upc = "parse" /\ uargc < MaxArgs
  /\ \E opt \in Options(ua) :
       LET r == GetoptCase(ucfg, opt)
       IN  /\ ucfg' = r.cfg
           /\ IF r.ok THEN upc' = "parse" /\ uret' = uret
              ELSE upc' = "exit" /\ uret' = r.code
  /\ uargc' = uargc + 1
  /\ UNCHANGED <<ucalls, ua, uforce, urdwr, tmap, view, attached, created, kicked>>
  /\ UNCHANGED vars

\* getopt_long returns -1: the checks after the loop.
ParseEnd ==
  /\ upc = "parse"
  /\ LET r == CheckConfig(ucfg, uforce)
     IN  /\ ucfg' = r.cfg
         /\ IF r.ok THEN upc' = "open" /\ uret' = uret
            ELSE upc' = "exit" /\ uret' = r.code
  /\ UNCHANGED <<ucalls, uargc, ua, uforce, urdwr, tmap, view, attached,
                 created, kicked>>
  /\ UNCHANGED vars

\* ulpatch_init, then open_task(target_pid, flags) with FTO_RDWR dropped
\* for a read-only command; open_task reads the maps file.  A failed open
\* returns 1.
OpenTask ==
  /\ upc = "open"
  /\ \/ /\ urdwr' = ~ucfg.flag_rdonly /\ view' = tmap
        /\ upc' = "map" /\ uret' = uret
     \/ /\ upc' = "exit" /\ uret' = 1 /\ UNCHANGED <<urdwr, view>>
  /\ UNCHANGED <<ucalls, ucfg, uargc, ua, uforce, tmap, attached, created,
                 kicked>>
  /\ UNCHANGED vars

\* if (map_file) mmap_a_file(), its result ignored.  task_attach's result
\* is ignored too.  A failed remote open returns -1 at once, leaving the
\* target attached whether the attach worked or not.  Otherwise
\* task_ftruncate, then task_mmap(NULL, fsize, ...): a failed ftruncate,
\* task_mmap's 0 for a failed task_syscall and a MAP_FAILED -errno (nonzero,
\* so !map_v misses it) all map nothing; then close_ret: task_close,
\* task_detach and update_task_vmas_ulp.
MmapAFile ==
  /\ upc = "map" /\ upc' = "unmap"
  /\ IF ucfg.map_file = NULL
       THEN UNCHANGED <<tmap, view, attached, created>>
       ELSE LET f   == ucfg.map_file
                len == FSize(f)
            IN  \/ /\ \E t \in BOOLEAN : attached' = (attached \/ t)
                   /\ UNCHANGED <<tmap, view, created>>
                \/ /\ attached' = FALSE /\ view' = tmap
                   /\ UNCHANGED <<tmap, created>>
                \/ \E s \in FreeStarts(tmap, len) :
                     LET v == [start |-> s, end |-> s + len, name |-> f]
                     IN  /\ tmap' = tmap \cup {v} /\ view' = tmap'
                         /\ created' = created \cup {v}
                         /\ attached' = FALSE
  /\ UNCHANGED <<ucalls, ucfg, uargc, ua, uforce, uret, urdwr, kicked>>
  /\ UNCHANGED vars

\* Mutant: munmap starts at the address the user gave.
MunmapAnVmaAtAddr ==
  /\ upc = "unmap" /\ upc' = "jmp"
  /\ LET v == VmaOf(view, ucfg.vma_addr)
     IN  IF ~ucfg.flag_unmap_vma \/ v = NoVma
           THEN UNCHANGED <<tmap, attached>>
           ELSE LET size == IF FExist(v.name) THEN FSize(v.name)
                            ELSE v.end - v.start
                IN  /\ tmap' = Unmap(tmap, ucfg.vma_addr, ucfg.vma_addr + size)
                    /\ attached' = FALSE
  /\ UNCHANGED <<ucalls, ucfg, uargc, ua, uforce, uret, urdwr, view, created,
                 kicked>>
  /\ UNCHANGED vars

\* if (flag_unmap_vma) munmap_an_vma(): find_vma(vma_addr) in the view,
\* return -1 if none; the length is the size of the VMA's file if a file
\* of that name exists, else the VMA's own size; then task_attach,
\* task_munmap(vm_start, size), task_detach.  The view is not re-read.
MunmapAnVma ==
  /\ upc = "unmap" /\ upc' = "jmp"
  /\ LET v == VmaOf(view, ucfg.vma_addr)
     IN  IF ~ucfg.flag_unmap_vma \/ v = NoVma
           THEN UNCHANGED <<tmap, attached>>
           ELSE LET size == IF FExist(v.name) THEN FSize(v.name)
                            ELSE v.end - v.start
                IN  /\ tmap' = Unmap(tmap, v.start, v.start + size)
                    /\ attached' = FALSE
  /\ UNCHANGED <<ucalls, ucfg, uargc, ua, uforce, uret, urdwr, view, created,
                 kicked>>
  /\ UNCHANGED vars

\* if (jmp_addr_from && jmp_addr_to): both addresses must be in the view,
\* else ret = -1 and goto done.  memcpy_to_task writes the jmp_table_entry
\* through /proc/PID/mem: it fails for an unmapped page, or when the task
\* was opened without FTO_RDWR; a short or failed write is ret = -1, goto
\* done.
Jmp ==
  /\ upc = "jmp"
  /\ LET from == ucfg.jmp_addr_from
         to   == ucfg.jmp_addr_to
     IN  IF from = 0 \/ to = 0
           THEN upc' = "disasm" /\ UNCHANGED <<uret, kicked>>
           ELSE IF VmaOf(view, from) = NoVma \/ VmaOf(view, to) = NoVma
                  THEN upc' = "close" /\ uret' = -1 /\ UNCHANGED kicked
                ELSE IF urdwr /\ VmaOf(tmap, from) # NoVma
                  THEN /\ kicked' = kicked \cup {[from |-> from, to |-> to]}
                       /\ upc' = "disasm" /\ UNCHANGED uret
                ELSE upc' = "close" /\ uret' = -1 /\ UNCHANGED kicked
  /\ UNCHANGED <<ucalls, ucfg, uargc, ua, uforce, urdwr, tmap, view, attached,
                 created>>
  /\ UNCHANGED vars

\* if (disasm_addr && disasm_size): ret = memcpy_from_task; a read of an
\* unmapped page gives -EIO and "Bad address"; else ret = fdisasm_arch,
\* 0 or an error.
Disasm ==
  /\ upc = "disasm" /\ upc' = "close"
  /\ IF ucfg.disasm_addr = 0 \/ ucfg.disasm_size = 0 THEN UNCHANGED uret
     ELSE IF VmaOf(tmap, ucfg.disasm_addr) = NoVma THEN uret' = -5
     ELSE \E r \in {0, 1} : uret' = r
  /\ UNCHANGED <<ucalls, ucfg, uargc, ua, uforce, urdwr, tmap, view, attached,
                 created, kicked>>
  /\ UNCHANGED vars

\* done: close_task frees the view; return ret.
CloseTask ==
  /\ upc = "close" /\ upc' = "exit" /\ view' = {}
  /\ UNCHANGED <<ucalls, ucfg, uargc, ua, uforce, uret, urdwr, tmap, attached,
                 created, kicked>>
  /\ UNCHANGED vars

\* The map is read and no more commands are run.
UFinished ==
  /\ Done /\ (layout \notin TargetLayouts \/ (upc = "exit" /\ ucalls = MaxCalls))
  /\ UNCHANGED <<vars, uvars>>

UNext ==
  \/ ReadLine /\ UNCHANGED uvars
  \/ Start \/ ParseOpt \/ ParseEnd \/ OpenTask
  \/ MmapAFile \/ MunmapAnVma \/ Jmp \/ Disasm \/ CloseTask
  \/ UFinished

USpec == UInit /\ [][UNext]_<<vars, uvars>>

-----------------------------------------------------------------------------
(***************************************************************************)
(* Properties.                                                             *)
(***************************************************************************)

\* --unmap of a file an earlier --map mapped undoes that mapping exactly:
\* munmap_an_vma removes the whole VMA, starting at vm_start even when the
\* address typed lies inside it, and nothing else, the file size it uses
\* being the length mmap_a_file mapped.
MappedFileUnmapExact ==
  [][ upc = "unmap" /\ ucfg.flag_unmap_vma
      /\ VmaOf(view, ucfg.vma_addr) \in created
      => tmap' = tmap \ {VmaOf(view, ucfg.vma_addr)} ]_<<upc, tmap>>

=============================================================================
