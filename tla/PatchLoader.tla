---------------------------- MODULE PatchLoader ----------------------------
(***************************************************************************)
(* The patch loader of uftrace.c: main maps the patch object into the     *)
(* target with mmap_object, unmaps it with munmap_object and frees the    *)
(* task.  Each remote syscall (task_open's malloc, open and free,         *)
(* task_ftruncate, task_mmap, task_close, task_munmap) is one step whose  *)
(* outcome is what the kernel may return; the target may die between any *)
(* two steps.  The remote syscall itself is the subject of RemoteSyscall; *)
(* here it is atomic, which AtomicSyscall justifies.                      *)
(***************************************************************************)
EXTENDS Naturals

CONSTANTS
  OpenFds,     \* the fds open(2) in the target may return: "zero", "pos"
  MaxDeaths,   \* 0 or 1: whether the target may die during the run
  LibcMapped   \* whether the maps file lists libc: FALSE for a static target

ASSUME OpenFds \subseteq {"zero", "pos"} /\ OpenFds # {}
ASSUME MaxDeaths \in {0, 1}
ASSUME LibcMapped \subseteq BOOLEAN /\ LibcMapped # {}

VARIABLES
  pc,          \* the controller's position in main
  alive,       \* the target process exists
  deaths,      \* how often the target died (bounded by MaxDeaths)
  traced,      \* the controller is attached to the target
  scratch,     \* task_open's path buffer is mapped in the target
  scratchAddr, \* remote_fileaddr: "addr", "err" (a -errno) or "null"
  fdOpen,      \* the patch file is open in the target
  mapFd,       \* map_fd: "neg", "zero" or "pos"
  mapped,      \* the patch object is mapped in the target
  mapAddr,     \* obj_target_task_map_addr: "addr", "err" or "null"
  ret,         \* ret of mmap_object: "zero" or "neg"
  libcVma      \* task->libc_vma: "valid" or "null"

vars == <<pc, alive, deaths, traced, scratch, scratchAddr, fdOpen, mapFd,
          mapped, mapAddr, ret, libcVma>>

\* The C int values the model tells apart.
IntVals == {"neg", "zero", "pos"}

\* obj_target_tasp_map_size, the global: nothing assigns it, because
\* mmap_object declares a local of the same name.
ObjTargetTaskMapSize == 0

\* The steps that issue a remote syscall, i.e. that need the target stopped.
RemotePcs == {"open_malloc", "open_call", "open_free", "ftruncate", "mmap",
              "close", "munmap"}

TypeOK ==
  /\ pc \in {"open_task", "attach", "open_malloc", "open_call", "open_free", "ftruncate",
             "mmap", "update_vmas", "close", "detach", "munmap_object",
             "un_attach", "munmap", "un_detach", "free_task", "done",
             "crashed"}
  /\ alive \in BOOLEAN /\ deaths \in 0..MaxDeaths /\ traced \in BOOLEAN
  /\ scratch \in BOOLEAN /\ scratchAddr \in {"addr", "err", "null"}
  /\ fdOpen \in BOOLEAN /\ mapFd \in IntVals
  /\ mapped \in BOOLEAN /\ mapAddr \in {"addr", "err", "null"}
  /\ ret \in {"zero", "neg"} /\ libcVma \in {"valid", "null"}

\* main, before open_task.
Init ==
  /\ pc = "open_task" /\ alive = TRUE /\ deaths = 0 /\ traced = FALSE
  /\ scratch = FALSE /\ scratchAddr = "null"
  /\ fdOpen = FALSE /\ mapFd = "neg"
  /\ mapped = FALSE /\ mapAddr = "null"
  /\ ret = "zero" /\ libcVma = "null"

Goto(p) == pc' = p

-----------------------------------------------------------------------------
(* The target is killed (SIGKILL, OOM, its own crash): its fds, mappings  *)
(* and tracer go with it.                                                  *)
Die ==
  /\ alive /\ deaths < MaxDeaths
  /\ alive' = FALSE /\ deaths' = deaths + 1
  /\ traced' = FALSE /\ scratch' = FALSE /\ fdOpen' = FALSE /\ mapped' = FALSE
  /\ UNCHANGED <<pc, scratchAddr, mapFd, mapAddr, ret, libcVma>>

-----------------------------------------------------------------------------
(* main: open_task(target_pid, FTO_ALL).  A target already gone has no     *)
(* /proc/PID/mem and main returns 1.  Otherwise read_task_vmas sets        *)
(* libc_vma from the maps file; without libc open_task goes to free_task   *)
(* (TaskLifecycle models open_task step by step).                          *)
OpenTask ==
  /\ pc = "open_task"
  /\ \/ ~alive /\ Goto("done") /\ UNCHANGED libcVma
     \/ alive /\ \E has \in LibcMapped :
                  /\ libcVma' = IF has THEN "valid" ELSE "null"
                  /\ Goto(IF has THEN "attach" ELSE "free_task")
  /\ UNCHANGED <<alive, deaths, traced, scratch, scratchAddr, fdOpen, mapFd,
                 mapped, mapAddr, ret>>

-----------------------------------------------------------------------------
(* mmap_object                                                             *)

\* task_attach(task->pid); a failure returns -1.
Attach ==
  /\ pc = "attach"
  /\ IF alive
       THEN traced' = TRUE /\ Goto("open_malloc") /\ UNCHANGED ret
       ELSE Goto("munmap_object") /\ ret' = "neg" /\ UNCHANGED traced
  /\ UNCHANGED <<alive, deaths, scratch, scratchAddr, fdOpen, mapFd, mapped,
                 mapAddr, libcVma>>

\* task_open: task_malloc(strlen + 1), an anonymous mmap.  task_mmap gives
\* 0 when task_syscall fails and the raw result otherwise; task_malloc
\* only turns MAP_FAILED into 0, so -ENOMEM is taken as an address.
OpenMalloc ==
  /\ pc = "open_malloc"
  /\ IF alive
       THEN \/ scratch' = TRUE /\ scratchAddr' = "addr"
            \/ scratchAddr' = "err" /\ UNCHANGED scratch
       ELSE scratchAddr' = "null" /\ UNCHANGED scratch
  /\ Goto("open_call")
  /\ UNCHANGED <<alive, deaths, traced, fdOpen, mapFd, mapped, mapAddr, ret,
                 libcVma>>

\* memcpy_to_task of the path (unchecked), then open(2) on it.  A bad
\* buffer gives -EFAULT.  When task_syscall fails, result is never set and
\* the int task_open returns is whatever the stack held.
OpenCall ==
  /\ pc = "open_call"
  /\ \/ alive /\ scratchAddr = "addr"
        /\ \/ fdOpen' = TRUE /\ \E fd \in OpenFds : mapFd' = fd
           \/ mapFd' = "neg" /\ UNCHANGED fdOpen
     \/ alive /\ scratchAddr # "addr" /\ mapFd' = "neg" /\ UNCHANGED fdOpen
     \/ ~alive /\ mapFd' \in IntVals /\ UNCHANGED fdOpen
  /\ Goto("open_free")
  /\ UNCHANGED <<alive, deaths, traced, scratch, scratchAddr, mapped, mapAddr,
                 ret, libcVma>>

\* Mutant: the path buffer is freed only when open(2) gave a usable fd.
OpenFreeOnSuccess ==
  /\ pc = "open_free"
  /\ scratch' = (scratch /\ ~(alive /\ scratchAddr = "addr" /\ mapFd = "pos"))
  /\ IF mapFd = "pos"
       THEN Goto("ftruncate") /\ UNCHANGED ret
       ELSE Goto("munmap_object") /\ ret' = "neg"
  /\ UNCHANGED <<alive, deaths, traced, scratchAddr, fdOpen, mapFd, mapped,
                 mapAddr, libcVma>>

\* task_free(remote_fileaddr), then back in mmap_object: map_fd <= 0
\* returns -1 at once.
OpenFree ==
  /\ pc = "open_free"
  /\ scratch' = (scratch /\ ~(alive /\ scratchAddr = "addr"))
  /\ IF mapFd = "pos"
       THEN Goto("ftruncate") /\ UNCHANGED ret
       ELSE Goto("munmap_object") /\ ret' = "neg"
  /\ UNCHANGED <<alive, deaths, traced, scratchAddr, fdOpen, mapFd, mapped,
                 mapAddr, libcVma>>

\* Mutant: ret takes map_fd rather than ftruncate's result.
FtruncateRetFd ==
  /\ pc = "ftruncate"
  /\ IF alive /\ fdOpen
       THEN \/ ret' = mapFd /\ Goto("mmap")
            \/ ret' = "neg" /\ Goto("close")
       ELSE ret' = "zero" /\ Goto("mmap")
  /\ UNCHANGED <<alive, deaths, traced, scratch, scratchAddr, fdOpen, mapFd,
                 mapped, mapAddr, libcVma>>

\* ret = task_ftruncate(map_fd, size); it gives 0 when task_syscall fails.
\* A nonzero ret goes to close_ret.
Ftruncate ==
  /\ pc = "ftruncate"
  /\ IF alive /\ fdOpen
       THEN \/ ret' = "zero" /\ Goto("mmap")
            \/ ret' = "neg" /\ Goto("close")
       ELSE ret' = "zero" /\ Goto("mmap")
  /\ UNCHANGED <<alive, deaths, traced, scratch, scratchAddr, fdOpen, mapFd,
                 mapped, mapAddr, libcVma>>

\* obj_target_task_map_addr = task_mmap(..., map_fd, 0); a zero address goes
\* to close_ret, anything else counts as mapped.  ret is left as it is.
Mmap ==
  /\ pc = "mmap"
  /\ IF alive
       THEN \/ mapped' = TRUE /\ mapAddr' = "addr"
            \/ mapAddr' = "err" /\ UNCHANGED mapped
       ELSE mapAddr' = "null" /\ UNCHANGED mapped
  /\ Goto(IF mapAddr' = "null" THEN "close" ELSE "update_vmas")
  /\ UNCHANGED <<alive, deaths, traced, scratch, scratchAddr, fdOpen, mapFd,
                 ret, libcVma>>

\* update_task_vmas: free_task_vmas sets task->libc_vma to NULL, and
\* read_task_vmas sets it again only if /proc/PID/maps can be read and
\* lists libc.  Its result is ignored.
UpdateVmas ==
  /\ pc = "update_vmas"
  /\ libcVma' = IF alive THEN "valid" ELSE "null"
  /\ Goto("close")
  /\ UNCHANGED <<alive, deaths, traced, scratch, scratchAddr, fdOpen, mapFd,
                 mapped, mapAddr, ret>>

\* close_ret: task_close(map_fd).  Its task_syscall loads
\* task->libc_vma->start before any ptrace request: a NULL libc_vma, left
\* by update_task_vmas on a dead target, crashes the controller.
Close ==
  /\ pc = "close"
  /\ IF libcVma = "null"
       THEN Goto("crashed") /\ UNCHANGED fdOpen
       ELSE fdOpen' = (fdOpen /\ ~alive) /\ Goto("detach")
  /\ UNCHANGED <<alive, deaths, traced, scratch, scratchAddr, mapFd, mapped,
                 mapAddr, ret, libcVma>>

\* task_detach(task->pid); return ret.
Detach ==
  /\ pc = "detach"
  /\ traced' = FALSE
  /\ Goto("munmap_object")
  /\ UNCHANGED <<alive, deaths, scratch, scratchAddr, fdOpen, mapFd, mapped,
                 mapAddr, ret, libcVma>>

-----------------------------------------------------------------------------
(* munmap_object, then free_task                                           *)

\* if (obj_target_task_map_addr)
MunmapObject ==
  /\ pc = "munmap_object"
  /\ Goto(IF mapAddr # "null" THEN "un_attach" ELSE "free_task")
  /\ UNCHANGED <<alive, deaths, traced, scratch, scratchAddr, fdOpen, mapFd,
                 mapped, mapAddr, ret, libcVma>>

\* Mutant: munmap_object calls task_munmap without attaching.
UnAttachSkipped ==
  /\ pc = "un_attach"
  /\ Goto("munmap")
  /\ UNCHANGED <<alive, deaths, traced, scratch, scratchAddr, fdOpen, mapFd,
                 mapped, mapAddr, ret, libcVma>>

\* task_attach, result ignored.
UnAttach ==
  /\ pc = "un_attach"
  /\ traced' = alive
  /\ Goto("munmap")
  /\ UNCHANGED <<alive, deaths, scratch, scratchAddr, fdOpen, mapFd, mapped,
                 mapAddr, ret, libcVma>>

\* task_munmap(addr, obj_target_tasp_map_size).  task_syscall reads
\* task->libc_vma->start first: a NULL libc_vma crashes the controller.
\* munmap(2) of length 0, or of a -errno address, is EINVAL.
Munmap ==
  /\ pc = "munmap"
  /\ IF libcVma = "null"
       THEN Goto("crashed") /\ UNCHANGED mapped
       ELSE /\ mapped' = (mapped /\ ~(alive /\ traced /\ mapAddr = "addr"
                                      /\ ObjTargetTaskMapSize > 0))
            /\ Goto("un_detach")
  /\ UNCHANGED <<alive, deaths, traced, scratch, scratchAddr, fdOpen, mapFd,
                 mapAddr, ret, libcVma>>

\* task_detach.
UnDetach ==
  /\ pc = "un_detach"
  /\ traced' = FALSE
  /\ Goto("free_task")
  /\ UNCHANGED <<alive, deaths, scratch, scratchAddr, fdOpen, mapFd, mapped,
                 mapAddr, ret, libcVma>>

\* free_task with FTO_ALL frees controller memory and the work directory.
\* elf_file_close(task->libc_vma->name_) only takes the address of the
\* name_ array, so it does not read a NULL libc_vma (what elf_file_close
\* does with that address is outside the repository).
FreeTask ==
  /\ pc = "free_task"
  /\ Goto("done")
  /\ UNCHANGED <<alive, deaths, traced, scratch, scratchAddr, fdOpen, mapFd,
                 mapped, mapAddr, ret, libcVma>>

\* main returns 0, or the controller died of SIGSEGV.
Exited == pc \in {"done", "crashed"} /\ UNCHANGED vars

Next ==
  \/ OpenTask
  \/ Attach \/ OpenMalloc \/ OpenCall \/ OpenFree \/ Ftruncate \/ Mmap
  \/ UpdateVmas \/ Close \/ Detach
  \/ MunmapObject \/ UnAttach \/ Munmap \/ UnDetach \/ FreeTask
  \/ Die \/ Exited

Spec == Init /\ [][Next]_vars

-----------------------------------------------------------------------------
(***************************************************************************)
(* Properties.                                                             *)
(***************************************************************************)

\* Every remote syscall that reaches a live target is issued while the
\* controller is attached to it (spec 5, target quiescence): munmap_object
\* attaches again after mmap_object detached, and no early return of
\* mmap_object is followed by a remote call.
RemoteCallsTraced ==
  pc \in RemotePcs /\ alive => traced

\* task_open unmaps its path buffer on every path, the failed open included,
\* so no anonymous page of the controller's is left in the target.
ScratchReleased ==
  pc \notin {"open_call", "open_free"} => ~scratch

\* When mmap_object returns to main, a live target is detached and holds no
\* fd the controller opened in it (spec 9: detach on all paths, success
\* and early return alike).
ResourcesReleased ==
  pc = "munmap_object" /\ alive => ~traced /\ ~fdOpen

\* When mmap_object returns 0 to main and the target is alive, the patch
\* object is mapped in it (spec 4.4: every syscall failure is surfaced).
SuccessMeansMapped ==
  pc = "munmap_object" /\ ret = "zero" /\ alive => mapped

\* When main ends, munmap_object has removed the patch object from a live
\* target (spec 8: task_mmap then task_munmap of the same range is a no-op).
ObjectUnmapped ==
  pc = "done" /\ alive => ~mapped

\* The controller never dereferences a NULL task->libc_vma: every
\* task_syscall (task_close in mmap_object, task_munmap in munmap_object)
\* reads libc_vma->start, and update_task_vmas rebuilds the VMA list in
\* between, after the remote mmap.
LibcVmaValid ==
  pc # "crashed"

=============================================================================
