--------------------------- MODULE VirtualMemory ----------------------------
(***************************************************************************)
(* Page tables (src/src/virtual_memory.cpp), one caller at a time.  A page *)
(* table is a page of Entries entries.  Above level 0 a valid entry is the *)
(* number of a page; at level 0 it is a number that stands for physical    *)
(* address and flags.  0 is invalid.                                       *)
(*                                                                         *)
(* aligned_alloc hands out pages in order and fails when all are used;     *)
(* aligned_free gives nothing back (BumpAllocator::FreeImpl), so a page is *)
(* handed out once.  MapMMIO is the sequence of its MapPage calls.         *)
(***************************************************************************)
EXTENDS Naturals, FiniteSets, SequencesExt

CONSTANTS
  Levels,        \* kPageTableLevels
  Entries,       \* kEntriesPerTable
  Pages,         \* number of pages of the allocator
  MaxDirs,       \* bound on the directories in use
  VirtualPages,  \* the virtual pages in use
  Ptes           \* entries of level 0, positive numbers

VARIABLES
  vm_tab,    \* vm_tab[p]: the entries of page p
  vm_next,   \* the next page to be handed out
  vm_freed,  \* vm_freed[p]: how often aligned_free has been called for p
  vm_dirs,   \* page directories in use
  vm_ret     \* the last call and its result

vm_vars == <<vm_tab, vm_next, vm_freed, vm_dirs, vm_ret>>

Top == Levels - 1
Kernel == 1   \* kernel_page_dir_
GetVirtualPageNumber(v, level) == (v \div Entries ^ level) % Entries
ZeroPage == [i \in 0 .. Entries - 1 |-> 0]

Init ==
  /\ vm_tab = [p \in 1 .. Pages |-> ZeroPage]
  /\ vm_next = Kernel + 1
  /\ vm_freed = [p \in 1 .. Pages |-> 0]
  /\ vm_dirs = {Kernel}
  /\ vm_ret = <<"none">>

\* The state a call works on.  ok: no allocation has failed.
Current == [tab |-> vm_tab, next |-> vm_next, freed |-> vm_freed, ok |-> TRUE]
CanAlloc(s) == s.next <= Pages
Alloc(s) == [s EXCEPT !.next = @ + 1]
Free(s, p) == [s EXCEPT !.freed[p] = @ + 1]
Fail(s) == [s EXCEPT !.ok = FALSE]

Finish(s, ret) ==
  /\ vm_tab' = s.tab /\ vm_next' = s.next /\ vm_freed' = s.freed
  /\ vm_ret' = ret

-----------------------------------------------------------------------------
(* MapPage, UnmapPage, GetMapping *)

\* The table of level 0 that holds the entry of v, missing tables being created;
\* the ones created before an allocation fails stay.
RECURSIVE FindPageTableEntry(_, _, _, _)
FindPageTableEntry(s, t, v, level) ==
  LET i == GetVirtualPageNumber(v, level)
      e == s.tab[t][i]
  IN  IF level = 0 THEN <<s, t>>
      ELSE IF e # 0 THEN FindPageTableEntry(s, e, v, level - 1)
      ELSE IF ~CanAlloc(s) THEN <<Fail(s), 0>>
      ELSE FindPageTableEntry(Alloc([s EXCEPT !.tab[t][i] = s.next]), s.next, v, level - 1)

\* The same without creation; 0 when a table is missing.
RECURSIVE Leaf(_, _, _, _)
Leaf(tab, t, v, level) ==
  IF level = 0 \/ t = 0 THEN t
  ELSE Leaf(tab, tab[t][GetVirtualPageNumber(v, level)], v, level - 1)

\* 0: kVmPageNotMapped
GetMapping(d, v) ==
  LET t == Leaf(vm_tab, d, v, Top)
  IN  IF t = 0 THEN 0 ELSE vm_tab[t][GetVirtualPageNumber(v, 0)]

MapPage(d, v, x) ==
  \E r \in {FindPageTableEntry(Current, d, v, Top)} :
    /\ IF r[1].ok
         THEN Finish([r[1] EXCEPT !.tab[r[2]][GetVirtualPageNumber(v, 0)] = x],
                     <<"map", d, v, TRUE>>)
         ELSE Finish(r[1], <<"map", d, v, FALSE>>)
    /\ UNCHANGED vm_dirs

UnmapPage(d, v) ==
  LET t == Leaf(vm_tab, d, v, Top)
      mapped == GetMapping(d, v) # 0
  IN  /\ Finish([Current EXCEPT !.tab = IF mapped
                   THEN [vm_tab EXCEPT ![t][GetVirtualPageNumber(v, 0)] = 0] ELSE @],
                <<"unmap", d, v, mapped>>)
      /\ UNCHANGED vm_dirs

-----------------------------------------------------------------------------
(* DestroyPageDirectory, ClonePageDirectory *)

\* The tables that RecursiveFreePageTable visits, in the order of its calls.
RECURSIVE Visits(_, _, _)
Visits(tab, t, level) ==
  <<t>> \o IF level = 0 THEN <<>>
           ELSE FlattenSeq([i \in 1 .. Entries |->
                  IF tab[t][i - 1] = 0 THEN <<>> ELSE Visits(tab, tab[t][i - 1], level - 1)])

\* Every table below d is emptied and freed, then d.  The physical pages that
\* free_pages releases are not page tables.
FreeDirectory(s, d) ==
  LET visited == Visits(s.tab, d, Top)
      times(p) == Len(SelectSeq(visited, LAMBDA t : t = p))
  IN  [s EXCEPT !.tab = [p \in 1 .. Pages |-> IF times(p) > 0 THEN ZeroPage ELSE s.tab[p]],
                !.freed = [p \in 1 .. Pages |-> s.freed[p] + times(p)]]

DestroyPageDirectory(d) ==
  /\ Finish(FreeDirectory(Current, d), <<"destroy", d>>)
  /\ vm_dirs' = vm_dirs \ {d}

\* Mutant: the copy shares the tables of level 0.
RECURSIVE ShareLeaves(_, _, _, _, _, _)
ShareLeaves(s, src, dst, level, copy, i) ==
  LET e == s.tab[src][i]
      Rest(x) == ShareLeaves(x, src, dst, level, copy, i + 1)
  IN  IF i = Entries THEN s
      ELSE IF e = 0 THEN Rest(s)
      ELSE IF level <= 1 THEN Rest([s EXCEPT !.tab[dst][i] = e])
      ELSE IF ~CanAlloc(s) THEN Fail(s)
      ELSE LET r == ShareLeaves(Alloc(s), e, s.next, level - 1, copy, 0)
           IN  IF r.ok THEN Rest([r EXCEPT !.tab[dst][i] = s.next]) ELSE Free(r, s.next)

\* Entries i, i + 1, ... of src are copied to dst.
RECURSIVE RecursiveClonePageTable(_, _, _, _, _, _)
RecursiveClonePageTable(s, src, dst, level, copy, i) ==
  LET e == s.tab[src][i]
      Rest(x) == RecursiveClonePageTable(x, src, dst, level, copy, i + 1)
  IN  IF i = Entries THEN s
      ELSE IF e = 0 THEN Rest(s)
      ELSE IF level = 0 THEN Rest(IF copy THEN [s EXCEPT !.tab[dst][i] = e] ELSE s)
      ELSE IF ~CanAlloc(s) THEN Fail(s)
      ELSE LET r == RecursiveClonePageTable(Alloc(s), e, s.next, level - 1, copy, 0)
           IN  IF r.ok THEN Rest([r EXCEPT !.tab[dst][i] = s.next]) ELSE Free(r, s.next)

\* A failed copy is destroyed, as far as it hangs on its directory.
ClonePageDirectory(d, copy) ==
  LET n == vm_next
  IN  IF ~CanAlloc(Current)
        THEN Finish(Current, <<"clone", d, FALSE>>) /\ UNCHANGED vm_dirs
        ELSE \E r \in {RecursiveClonePageTable(Alloc(Current), d, n, Top, copy, 0)} :
               IF r.ok
                 THEN Finish(r, <<"clone", d, TRUE>>) /\ vm_dirs' = vm_dirs \union {n}
                 ELSE /\ Finish(FreeDirectory(r, n), <<"clone", d, FALSE>>)
                      /\ UNCHANGED vm_dirs

Next ==
  \E d \in vm_dirs :
    \/ \E v \in VirtualPages : UnmapPage(d, v) \/ \E x \in Ptes : MapPage(d, v, x)
    \/ d # Kernel /\ DestroyPageDirectory(d)
    \/ \E copy \in BOOLEAN : Cardinality(vm_dirs) < MaxDirs /\ ClonePageDirectory(d, copy)

Spec == Init /\ [][Next]_vm_vars

-----------------------------------------------------------------------------
Space(d) == [v \in {u \in VirtualPages : GetMapping(d, u) # 0} |-> GetMapping(d, v)]

Abstract == INSTANCE AbstractVM WITH
              Spaces <- 1 .. Pages, map <- [d \in vm_dirs |-> Space(d)], ret <- vm_ret

Reachable == UNION {ToSet(Visits(vm_tab, d, Top)) : d \in vm_dirs}

\* Every table in use belongs to one entry of one directory and has not been
\* freed, and no table is freed twice, also after failed calls.
TablesOwned ==
  /\ \A d, e \in vm_dirs :
       LET a == Visits(vm_tab, d, Top)
           b == Visits(vm_tab, e, Top)
       IN  \A i \in DOMAIN a, j \in DOMAIN b : a[i] = b[j] => d = e /\ i = j
  /\ \A p \in 1 .. Pages : vm_freed[p] <= IF p \in Reachable THEN 0 ELSE 1

Lost == (1 .. vm_next - 1) \ (Reachable \union {p \in 1 .. Pages : vm_freed[p] > 0})

\* Only a clone that fails loses tables (it frees the table it was filling without
\* the tables below it); mapping, unmapping, a clone that succeeds and destroying
\* a directory lose none.
LostByFailedCloneOnly ==
  (vm_ret'[1] = "clone" => vm_ret'[3]) => Lost' = Lost
=============================================================================
