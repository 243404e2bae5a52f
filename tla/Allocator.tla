----------------------------- MODULE Allocator ------------------------------
(***************************************************************************)
(* The kernel heap: the wrappers of src/src/memory.cpp around              *)
(* Bmalloc<BmallocLogger>, which is a BumpAllocator whose lock is LockBase *)
(* (src/3rd/bmalloc).  LockBase::Lock and Unlock are empty, so the two     *)
(* accesses of AllocImpl to current_ are two steps of the caller.          *)
(*                                                                         *)
(* free and aligned_free change nothing (FreeImpl is empty), and realloc   *)
(* of a block fails (AllocSizeImpl is 0).  al_blocks keeps every block     *)
(* ever handed out.  Sizes are such that no sum wraps around.              *)
(***************************************************************************)
EXTENDS Naturals

CONSTANTS
  Callers,     \* tasks, or a task and a timer handler, that allocate
  Start, End,  \* the memory MemoryInit manages: Start .. End - 1
  MaxAlign,    \* alignof(max_align_t)
  PtrSize,     \* sizeof(void*)
  SizeMax,     \* SIZE_MAX
  Sizes,       \* sizes and counts asked for
  Alignments   \* alignments asked for

VARIABLES
  al_current,  \* current_
  al_pc,       \* al_pc[c]: the request c is serving, between its two accesses
  al_blocks,   \* the blocks handed out
  al_ret       \* al_ret[c]: the last pointer returned to c

al_vars == <<al_current, al_pc, al_blocks, al_ret>>

Null == 0
NoRequest == [cur |-> 0, bytes |-> 0, extra |-> 0, align |-> 1]

AlignDown(v, a) == v - (v % a)
AlignUp(v, a) == AlignDown(v + (a - 1), a)
PowerOfTwo(a) == a # 0 /\ \E k \in 0 .. a : a = 2 ^ k

HeapInit ==
  /\ al_current = Start
  /\ al_pc = [c \in Callers |-> NoRequest]
  /\ al_blocks = {}
  /\ al_ret = [c \in Callers |-> Null]

HeapReturn(c, p) == al_ret' = [al_ret EXCEPT ![c] = p]
HeapFail(c) == al_pc[c] = NoRequest /\ HeapReturn(c, Null) /\ UNCHANGED <<al_current, al_pc, al_blocks>>

\* AllocImpl reads current_; the caller wants the block of size bytes that begins
\* extra bytes further on, rounded down to align.
Alloc(c, size, extra, align) ==
  LET cur == AlignUp(al_current, MaxAlign)
      bytes == size + extra
  IN  IF bytes = 0 \/ cur + bytes > End
        THEN HeapFail(c)
        ELSE /\ al_pc[c] = NoRequest
             /\ al_pc' = [al_pc EXCEPT ![c] =
                  [cur |-> cur, bytes |-> bytes, extra |-> extra, align |-> align]]
             /\ UNCHANGED <<al_current, al_blocks, al_ret>>

\* Mutant: current_ is moved to the start of the block.
AllocWriteStart(c) ==
  LET r == al_pc[c]
      user == AlignDown(r.cur + r.extra, r.align)
  IN  /\ r # NoRequest
      /\ al_current' = r.cur
      /\ al_blocks' = al_blocks \union
           {[owner |-> c, raw |-> r.cur, end |-> r.cur + r.bytes, user |-> user,
             size |-> r.bytes - r.extra, extra |-> r.extra, align |-> r.align]}
      /\ al_pc' = [al_pc EXCEPT ![c] = NoRequest]
      /\ HeapReturn(c, user)

\* AllocImpl writes current_ and returns.
AllocWrite(c) ==
  LET r == al_pc[c]
      user == AlignDown(r.cur + r.extra, r.align)
  IN  /\ r # NoRequest
      /\ al_current' = r.cur + r.bytes
      /\ al_blocks' = al_blocks \union
           {[owner |-> c, raw |-> r.cur, end |-> r.cur + r.bytes, user |-> user,
             size |-> r.bytes - r.extra, extra |-> r.extra, align |-> r.align]}
      /\ al_pc' = [al_pc EXCEPT ![c] = NoRequest]
      /\ HeapReturn(c, user)

malloc(c, size) == Alloc(c, size, 0, 1)

calloc(c, num, size) ==
  IF num = 0 \/ size = 0 \/ num > SizeMax \div size
    THEN HeapFail(c)
    ELSE Alloc(c, num * size, 0, 1)

\* Mutant: no room for the pointer that is stored in front of the block.
aligned_allocTight(c, alignment, size) ==
  IF ~PowerOfTwo(alignment) \/ size = 0
    THEN HeapFail(c)
    ELSE Alloc(c, size, alignment - 1, alignment)

aligned_alloc(c, alignment, size) ==
  IF ~PowerOfTwo(alignment) \/ size = 0
    THEN HeapFail(c)
    ELSE Alloc(c, size, alignment - 1 + PtrSize, alignment)

realloc(c, ptr, new_size) ==
  IF ptr = Null THEN Alloc(c, new_size, 0, 1) ELSE HeapFail(c)

HeapNext ==
  \E c \in Callers :
    \/ AllocWrite(c)
    \/ \E n \in Sizes :
         \/ malloc(c, n)
         \/ \E m \in Sizes : calloc(c, m, n)
         \/ \E a \in Alignments : aligned_alloc(c, a, n)
         \/ \E p \in {Null, al_ret[c]} : realloc(c, p, n)

HeapSpec == HeapInit /\ [][HeapNext]_al_vars

-----------------------------------------------------------------------------
\* Blocks of two calls never overlap, however the calls interleave, and lie inside
\* the managed memory; a freed block is not handed out again either.
BlocksDisjoint ==
  /\ \A b \in al_blocks : Start <= b.raw /\ b.raw < b.end /\ b.end <= End
  /\ \A b, d \in al_blocks : b # d => b.end <= d.raw \/ d.end <= b.raw

\* The block returned is aligned and lies, with the pointer that aligned_alloc
\* stores in front of it for aligned_free, inside the block taken from the heap.
AlignedInside ==
  \A b \in al_blocks :
    /\ b.user % b.align = 0
    /\ b.user + b.size <= b.end
    /\ b.user >= b.raw + IF b.extra = 0 THEN 0 ELSE PtrSize
=============================================================================
