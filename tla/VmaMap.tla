------------------------------- MODULE VmaMap -------------------------------
(***************************************************************************)
(* The target's VMA map (task.c): read_task_vmas reads /proc/PID/maps one *)
(* line per step and links each VMA into its file's leader and sibling    *)
(* list (insert_vma); find_vma, find_vma_span_area and                    *)
(* task_vma_symbol_value are operators over the result, checked against  *)
(* reference definitions for every library layout within the bounds.     *)
(*                                                                         *)
(* Addresses are in pages.  The maps file holds the executable, a shared  *)
(* library mapped the way the kernel maps an ET_DYN object (segment j of *)
(* the layout at LibBase + v with file offset o), an optional anonymous   *)
(* mapping after it, and the stack.                                       *)
(***************************************************************************)
EXTENDS Integers, Sequences, FiniteSets

CONSTANTS
  MaxSegs,   \* most PT_LOAD segments of the library
  MaxPage,   \* highest p_vaddr / p_offset page of a segment
  LibBase    \* the library's load address

ASSUME MaxSegs \in Nat \ {0} /\ MaxPage \in Nat /\ LibBase \in Nat \ {0, 1}

VARIABLES
  layout,    \* the library's PT_LOAD segments: <<[v, o], ...>>
  lines,     \* /proc/PID/maps, as records
  i,         \* next line to read
  vmas,      \* the VMAs in insertion order (the task->vmas list and rb-tree)
  sib,       \* sib[k]: the sibling list of leader k, in list order
  prev,      \* the previous VMA of the read loop, 0 for none
  libcVma,   \* task->libc_vma, 0 for NULL
  stack      \* task->stack, 0 for NULL

vars == <<layout, lines, i, vmas, sib, prev, libcVma, stack>>

-----------------------------------------------------------------------------
(* Inputs                                                                  *)

Seg == [v : 0..MaxPage, o : 0..MaxPage]

\* A loadable ET_DYN object: the first segment at vaddr and offset 0, then
\* increasing vaddrs and file offsets, and no segment mapped from a file
\* offset beyond its vaddr.
Layouts ==
  UNION { { s \in [1..k -> Seg] :
              /\ s[1].v = 0 /\ s[1].o = 0
              /\ \A j \in 1..k : s[j].o <= s[j].v
              /\ \A j \in 1..k-1 : s[j+1].v > s[j].v /\ s[j+1].o > s[j].o }
          : k \in 1..MaxSegs }

Line(start, off, name, exec) ==
  [start |-> start, end |-> start + 1, off |-> off, name |-> name, exec |-> exec]

StackStart == LibBase + MaxPage + 3

\* The maps file of a process with this library layout.
MapsOf(s, withAnon) ==
  LET last == s[Len(s)].v
      text == IF Len(s) = 1 THEN 1 ELSE 2
  IN  << Line(1, 0, "exe", TRUE) >>
      \o [j \in 1..Len(s) |-> Line(LibBase + s[j].v, s[j].o, "libc", j = text)]
      \o (IF withAnon THEN << Line(LibBase + last + 1, 0, "", FALSE) >> ELSE << >>)
      \o << Line(StackStart, 0, "[stack]", FALSE) >>

MaxAddr == StackStart + 1

\* get_vma_type, for the names the maps file holds.
VmaType(name) ==
  CASE name = "exe"     -> "SELF"
    [] name = "libc"    -> "LIBC"
    [] name = "[stack]" -> "STACK"
    [] OTHER            -> "ANON"

TypeOK ==
  /\ layout \in Layouts
  /\ i \in 1..Len(lines) + 1
  /\ vmas \in Seq([start : Nat, end : Nat, off : Nat, name : STRING,
                   exec : BOOLEAN, leader : Nat])
  /\ Len(vmas) = i - 1
  /\ sib \in [1..Len(lines) -> Seq(1..Len(lines))]
  /\ prev \in 0..Len(lines) /\ libcVma \in 0..Len(lines) /\ stack \in 0..Len(lines)

Init ==
  /\ layout \in Layouts
  /\ \E withAnon \in BOOLEAN : lines = MapsOf(layout, withAnon)
  /\ i = 1 /\ vmas = << >> /\ sib = [k \in 1..Len(lines) |-> << >>]
  /\ prev = 0 /\ libcVma = 0 /\ stack = 0

-----------------------------------------------------------------------------
(* read_task_vmas                                                          *)

\* Mutant: insert_vma takes prev itself as the leader.
ReadLinePrevLeader ==
  /\ i <= Len(lines)
  /\ LET l      == lines[i]
         linked == prev # 0 /\ vmas[prev].name = l.name
         ldr    == IF linked THEN prev ELSE i
     IN  /\ vmas' = Append(vmas, [start |-> l.start, end |-> l.end,
                                  off |-> l.off, name |-> l.name,
                                  exec |-> l.exec, leader |-> ldr])
         /\ sib' = IF linked THEN [sib EXCEPT ![ldr] = << i >> \o @] ELSE sib
         /\ libcVma' = IF libcVma = 0 /\ VmaType(l.name) = "LIBC" /\ l.exec
                         THEN i ELSE libcVma
         /\ stack' = IF stack = 0 /\ VmaType(l.name) = "STACK"
                       THEN i ELSE stack
  /\ prev' = i /\ i' = i + 1
  /\ UNCHANGED <<layout, lines>>

\* Mutant: the loop reads a second line per VMA.
ReadLineSkip ==
  /\ i <= Len(lines)
  /\ LET l      == lines[i]
         linked == prev # 0 /\ vmas[prev].name = l.name
         ldr    == IF linked THEN vmas[prev].leader ELSE i
     IN  /\ vmas' = Append(vmas, [start |-> l.start, end |-> l.end,
                                  off |-> l.off, name |-> l.name,
                                  exec |-> l.exec, leader |-> ldr])
         /\ sib' = IF linked THEN [sib EXCEPT ![ldr] = << i >> \o @] ELSE sib
         /\ libcVma' = IF libcVma = 0 /\ VmaType(l.name) = "LIBC" /\ l.exec
                         THEN i ELSE libcVma
         /\ stack' = IF stack = 0 /\ VmaType(l.name) = "STACK"
                       THEN i ELSE stack
  /\ prev' = i /\ i' = i + 2
  /\ UNCHANGED <<layout, lines>>

\* One iteration of the read loop: alloc_vma and fill it from the line,
\* note libc (the first executable libc VMA) and the stack, leader = itself,
\* then insert_vma: if prev has the same name, take prev's leader and
\* list_add after it; then the task list and the rb-tree.
ReadLine ==
  /\ i <= Len(lines)
  /\ LET l      == lines[i]
         linked == prev # 0 /\ vmas[prev].name = l.name
         ldr    == IF linked THEN vmas[prev].leader ELSE i
     IN  /\ vmas' = Append(vmas, [start |-> l.start, end |-> l.end,
                                  off |-> l.off, name |-> l.name,
                                  exec |-> l.exec, leader |-> ldr])
         /\ sib' = IF linked THEN [sib EXCEPT ![ldr] = << i >> \o @] ELSE sib
         /\ libcVma' = IF libcVma = 0 /\ VmaType(l.name) = "LIBC" /\ l.exec
                         THEN i ELSE libcVma
         /\ stack' = IF stack = 0 /\ VmaType(l.name) = "STACK"
                       THEN i ELSE stack
  /\ prev' = i /\ i' = i + 1
  /\ UNCHANGED <<layout, lines>>

\* fgets hit the end of the file: the loop breaks and the map is complete.
Done == i > Len(lines)

Finished == Done /\ UNCHANGED vars

Next == ReadLine \/ Finished

Spec == Init /\ [][Next]_vars

-----------------------------------------------------------------------------
(* Lookups over the map read                                               *)

\* Mutant: a VMA is taken to contain its end address.
FindVmaCmpInclusive(k, a) ==
  IF vmas[k].start > a THEN -1 ELSE IF vmas[k].end >= a THEN 0 ELSE 1

\* __find_vma_cmp: -1 goes left, 0 is a hit, 1 goes right.
FindVmaCmp(k, a) ==
  IF vmas[k].start > a THEN -1 ELSE IF vmas[k].end > a THEN 0 ELSE 1

\* find_vma: rb_search_node down the tree of VMAs ordered by start; the
\* tree is any binary search tree of the sorted VMAs, here the balanced one.
RECURSIVE RbSearch(_, _, _)
RbSearch(lo, hi, a) ==
  IF lo > hi THEN 0
  ELSE LET mid == (lo + hi) \div 2
           c   == FindVmaCmp(mid, a)
       IN  CASE c = 0 -> mid
             [] c < 0 -> RbSearch(lo, mid - 1, a)
             [] OTHER -> RbSearch(mid + 1, hi, a)

FindVma(a) == RbSearch(1, Len(vmas), a)

\* Mutant: the gap is measured to the end of the next VMA.
FindVmaSpanAreaNextEnd(size) ==
  LET RECURSIVE Scan(_)
      Scan(k) == IF k >= Len(vmas) THEN 0
                 ELSE IF vmas[k+1].end - vmas[k].end >= size THEN vmas[k].end
                 ELSE Scan(k + 1)
  IN  Scan(1)

\* find_vma_span_area: walk the tree in order; the end of the first VMA
\* whose successor starts at least size later, 0 at the last VMA.
FindVmaSpanArea(size) ==
  LET RECURSIVE Scan(_)
      Scan(k) == IF k >= Len(vmas) THEN 0
                 ELSE IF vmas[k+1].start - vmas[k].end >= size THEN vmas[k].end
                 ELSE Scan(k + 1)
  IN  Scan(1)

\* task_vma_symbol_value for a symbol of the library with st_value v:
\* sym->vma is the library's leader; it is a shared library (VMA_LIBC).
\* Walk the leader's sibling list and stop at the first sibling whose file
\* offset exceeds v; if none does, the cursor ends on the leader itself.
TaskVmaSymbolValue(v) ==
  LET ldr == vmas[libcVma].leader
      s   == sib[ldr]
      RECURSIVE Walk(_)
      Walk(k) == IF k > Len(s) THEN ldr
                 ELSE IF v < vmas[s[k]].off THEN s[k]
                 ELSE Walk(k + 1)
      c   == Walk(1)
  IN  IF vmas[ldr].leader # ldr THEN 0
      ELSE vmas[c].start + v - vmas[c].off

-----------------------------------------------------------------------------
(***************************************************************************)
(* Reference definitions and properties.                                   *)
(***************************************************************************)

\* The VMA that holds address a, 0 if none.
VmaContaining(a) ==
  IF \E k \in 1..Len(vmas) : vmas[k].start <= a /\ a < vmas[k].end
    THEN CHOOSE k \in 1..Len(vmas) : vmas[k].start <= a /\ a < vmas[k].end
    ELSE 0

\* [x, x + size) overlaps no VMA.
Free(x, size) ==
  \A k \in 1..Len(vmas) : x + size <= vmas[k].start \/ vmas[k].end <= x

\* The st_values of the library's symbols: one per loaded page.
SymVals == { layout[j].v : j \in 1..Len(layout) }

\* Once read_task_vmas has read the map, find_vma returns the VMA that holds
\* the address for every address of the process, and NULL for an unmapped
\* one: the rb-tree search with __find_vma_cmp agrees with a linear scan.
FindVmaCorrect ==
  Done => \A a \in 0..MaxAddr : FindVma(a) = VmaContaining(a)

\* find_vma_span_area(size) returns a free area of that size between the
\* first and the last VMA, the lowest one that starts at a VMA's end, and
\* returns 0 only if there is no free area of that size between them.
SpanFirstFit ==
  Done =>
    \A size \in 1..MaxAddr :
      LET r  == FindVmaSpanArea(size)
          lo == vmas[1].start
          hi == vmas[Len(vmas)].end
      IN  /\ r # 0 => /\ Free(r, size)
                      /\ \A x \in lo..r-1 :
                           (\E k \in 1..Len(vmas) : vmas[k].end = x)
                             => ~Free(x, size)
          /\ r = 0 => \A x \in lo..hi : x + size <= hi => ~Free(x, size)

\* task_vma_symbol_value gives every symbol of the shared library the
\* address it has in the target: the load address plus st_value (spec 3,
\* and scenario 2 of spec 8).
SymbolValueCorrect ==
  Done => \A v \in SymVals : TaskVmaSymbolValue(v) = LibBase + v


\* After read_task_vmas, the VMAs of each mapped file form one group: each
\* has the file's first VMA as leader, and the leader's sibling list holds
\* exactly the file's other VMAs, each once (spec 3).
LeaderGroups ==
  Done =>
    \A k \in 1..Len(vmas) :
      LET first == CHOOSE f \in 1..Len(vmas) :
                     /\ vmas[f].name = vmas[k].name
                     /\ \A g \in 1..f-1 : vmas[g].name # vmas[k].name
          group == { g \in 1..Len(vmas) : vmas[g].name = vmas[k].name }
      IN  /\ vmas[k].leader = first
          /\ k = first =>
               /\ { sib[k][j] : j \in 1..Len(sib[k]) } = group \ {k}
               /\ Len(sib[k]) = Cardinality(group) - 1

=============================================================================
