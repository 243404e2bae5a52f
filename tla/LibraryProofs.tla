--------------------------- MODULE LibraryProofs ----------------------------
(***************************************************************************)
(* Proofs about the parts of Library, each for itself: the kernel heap,    *)
(* the guards of function-local statics, the completely fair scheduler,    *)
(* and the thread groups.                                                  *)
(***************************************************************************)
EXTENDS Allocator, StaticGuard, CfsScheduler, ThreadGroup, FiniteSetTheorems,
        WellFoundedInduction, TLAPS

-----------------------------------------------------------------------------
(* The kernel heap.  Alignment holds for any number of callers; that blocks  *)
(* are disjoint holds for one caller at a time, which is what the empty lock *)
(* of the allocator relies on.                                               *)

\* What MemoryInit and the types of the arguments guarantee.
Heap ==
  /\ Start \in Nat /\ End \in Nat /\ Start <= End
  /\ MaxAlign \in Nat \ {0} /\ PtrSize \in Nat \ {0} /\ SizeMax \in Nat
  /\ Sizes \subseteq Nat /\ Alignments \subseteq Nat

Requests == [cur : Nat, bytes : Nat, extra : Nat, align : Nat \ {0}]

\* A request between its two accesses to current_: its block ends inside the memory,
\* and has room for the pointer of aligned_alloc.
Placed(r) ==
  /\ Start <= r.cur /\ 0 < r.bytes /\ r.cur + r.bytes <= End
  /\ r.extra <= r.bytes
  /\ \/ r.extra = 0 /\ r.align = 1
     \/ r.extra = r.align - 1 + PtrSize

HeapInv ==
  /\ al_current \in Nat /\ Start <= al_current /\ al_current <= End
  /\ al_pc \in [Callers -> Requests]
  /\ \A c \in Callers : al_pc[c] # NoRequest => Placed(al_pc[c])
  /\ AlignedInside

\* With one caller, every block ends at or before current_, and a request begins there.
OrderInv ==
  /\ \A c \in Callers : al_pc[c] # NoRequest => al_current <= al_pc[c].cur
  /\ \A b \in al_blocks : b.raw \in Nat /\ b.end \in Nat /\ b.end <= al_current
  /\ BlocksDisjoint

\* Rounding an address down gives the last multiple of a at or below it
\* (the masks of AllocImpl and of aligned_alloc).
LEMMA AlignDownFacts ==
  ASSUME NEW v \in Nat, NEW a \in Nat \ {0}
  PROVE  /\ AlignDown(v, a) \in Nat
         /\ AlignDown(v, a) <= v
         /\ v < AlignDown(v, a) + a
         /\ AlignDown(v, a) % a = 0
  <1>1. v % a \in 0 .. a - 1
    OBVIOUS
  <1>2. v = a * (v \div a) + (v % a)
    OBVIOUS
  <1>3. (a * (v \div a)) % a = 0
    OBVIOUS
  <1> QED
    BY <1>1, <1>2, <1>3 DEF AlignDown

\* Rounding up never moves below the address.
LEMMA AlignUpFacts ==
  ASSUME NEW v \in Nat, NEW a \in Nat \ {0}
  PROVE  AlignUp(v, a) \in Nat /\ v <= AlignUp(v, a)
  <1>1. v + (a - 1) \in Nat
    OBVIOUS
  <1> QED
    BY <1>1, AlignDownFacts DEF AlignUp

\* The first access of AllocImpl, on behalf of any of the functions of the heap.
LEMMA AllocStep ==
  ASSUME Heap, HeapInv, NEW c \in Callers, NEW size \in Nat, NEW extra \in Nat,
         NEW align \in Nat \ {0},
         (extra = 0 /\ align = 1) \/ extra = align - 1 + PtrSize,
         Alloc(c, size, extra, align)
  PROVE  /\ HeapInv'
         /\ OrderInv /\ (\A d \in Callers : d = c) => OrderInv'
  <1>1. AlignUp(al_current, MaxAlign) \in Nat /\ al_current <= AlignUp(al_current, MaxAlign)
    BY AlignUpFacts DEF Heap, HeapInv
  <1>2. CASE HeapFail(c)
    BY <1>2 DEF HeapFail, HeapReturn, HeapInv, OrderInv, AlignedInside, BlocksDisjoint
  <1>3. CASE ~HeapFail(c)
    <2> DEFINE r == [cur |-> AlignUp(al_current, MaxAlign), bytes |-> size + extra,
                     extra |-> extra, align |-> align]
    <2>1. /\ al_pc' = [al_pc EXCEPT ![c] = r]
          /\ UNCHANGED <<al_current, al_blocks, al_ret>>
          /\ size + extra # 0 /\ ~(AlignUp(al_current, MaxAlign) + (size + extra) > End)
      BY <1>3 DEF Alloc
    <2>2. r \in Requests /\ Placed(r) /\ al_current <= r.cur
      BY <1>1, <2>1 DEF Heap, HeapInv, Requests, Placed
    <2> HIDE DEF r
    <2>3. HeapInv'
      BY <2>1, <2>2 DEF HeapInv, AlignedInside
    <2>4. ASSUME OrderInv PROVE OrderInv'
      BY <2>1, <2>2, <2>4 DEF HeapInv, OrderInv, BlocksDisjoint
    <2> QED
      BY <2>3, <2>4
  <1> QED
    BY <1>2, <1>3

\* The second access of AllocImpl.
LEMMA AllocWriteStep ==
  ASSUME Heap, HeapInv, NEW c \in Callers, AllocWrite(c)
  PROVE  /\ HeapInv'
         /\ OrderInv /\ (\A d \in Callers : d = c) => OrderInv'
  <1> DEFINE r == al_pc[c]
             user == AlignDown(r.cur + r.extra, r.align)
             new == [owner |-> c, raw |-> r.cur, end |-> r.cur + r.bytes, user |-> user,
                     size |-> r.bytes - r.extra, extra |-> r.extra, align |-> r.align]
  <1>1. /\ al_current' = r.cur + r.bytes
        /\ al_blocks' = al_blocks \union {new}
        /\ al_pc' = [al_pc EXCEPT ![c] = NoRequest]
    BY DEF AllocWrite
  <1>2. r \in Requests /\ Placed(r) /\ r # NoRequest
    BY DEF HeapInv, AllocWrite
  <1>3. user \in Nat /\ user <= r.cur + r.extra /\ r.cur + r.extra < user + r.align
        /\ user % r.align = 0
    <2>1. r.cur + r.extra \in Nat /\ r.align \in Nat \ {0}
      BY <1>2 DEF Requests
    <2> HIDE DEF r
    <2> QED
      BY <2>1, AlignDownFacts
  <1>4. /\ new.raw = r.cur /\ new.end = r.cur + r.bytes /\ new.user = user
        /\ new.size = r.bytes - r.extra /\ new.extra = r.extra /\ new.align = r.align
    OBVIOUS
  <1>5. NoRequest \in Requests
    BY DEF NoRequest, Requests
  <1> HIDE DEF user, new
  <1>6. AlignedInside'
    <2>1. new.user % new.align = 0 /\ new.user + new.size <= new.end
      BY <1>2, <1>3, <1>4 DEF Requests, Placed
    <2>2. new.user >= new.raw + IF new.extra = 0 THEN 0 ELSE PtrSize
      BY <1>2, <1>3, <1>4 DEF Requests, Placed, Heap
    <2> QED
      BY <1>1, <2>1, <2>2 DEF HeapInv, AlignedInside
  <1>7. HeapInv'
    BY <1>1, <1>2, <1>5, <1>6 DEF HeapInv, Requests, Placed, Heap
  <1>8. ASSUME OrderInv, \A d \in Callers : d = c PROVE OrderInv'
    <2>1. al_pc'[c] = NoRequest
      BY <1>1 DEF HeapInv
    <2>2. \A b \in al_blocks : b.end <= new.raw
      BY <1>2, <1>4, <1>8 DEF OrderInv, HeapInv, Requests
    <2>3. new.raw \in Nat /\ new.end \in Nat /\ Start <= new.raw /\ new.raw < new.end
          /\ new.end <= End /\ new.end = al_current' /\ al_current <= new.raw
      BY <1>1, <1>2, <1>4, <1>8 DEF OrderInv, Requests, Placed, Heap
    <2>4. \A b \in al_blocks : b.raw \in Nat /\ b.end \in Nat /\ b.end <= new.end
      BY <1>8, <2>2, <2>3 DEF OrderInv
    <2> QED
      BY <1>1, <1>8, <2>1, <2>2, <2>3, <2>4 DEF OrderInv, BlocksDisjoint
  <1> QED
    BY <1>7, <1>8

\* Every function of the heap keeps both invariants, the second for one caller.
LEMMA HeapStep ==
  ASSUME Heap, HeapInv, [HeapNext]_al_vars
  PROVE  /\ HeapInv'
         /\ OrderInv /\ (\A c, d \in Callers : c = d) => OrderInv'
  <1>1. CASE UNCHANGED al_vars
    BY <1>1 DEF al_vars, HeapInv, OrderInv, AlignedInside, BlocksDisjoint
  <1>2. ASSUME NEW c \in Callers, AllocWrite(c)
        PROVE  HeapInv' /\ (OrderInv /\ (\A d, e \in Callers : d = e) => OrderInv')
    BY <1>2, AllocWriteStep
  <1>3. ASSUME NEW c \in Callers, HeapFail(c)
        PROVE  HeapInv' /\ (OrderInv /\ (\A d, e \in Callers : d = e) => OrderInv')
    BY <1>3 DEF HeapFail, HeapInv, OrderInv, AlignedInside, BlocksDisjoint
  <1>4. ASSUME NEW c \in Callers, NEW size \in Nat, Alloc(c, size, 0, 1)
        PROVE  HeapInv' /\ (OrderInv /\ (\A d, e \in Callers : d = e) => OrderInv')
    BY <1>4, AllocStep
  <1>5. ASSUME NEW c \in Callers, NEW n \in Sizes, malloc(c, n)
        PROVE  HeapInv' /\ (OrderInv /\ (\A d, e \in Callers : d = e) => OrderInv')
    BY <1>4, <1>5 DEF malloc, Heap
  <1>6. ASSUME NEW c \in Callers, NEW m \in Sizes, NEW n \in Sizes, calloc(c, m, n)
        PROVE  HeapInv' /\ (OrderInv /\ (\A d, e \in Callers : d = e) => OrderInv')
    <2>1. m * n \in Nat
      BY DEF Heap
    <2> QED
      BY <1>3, <1>4, <1>6, <2>1 DEF calloc
  <1>7. ASSUME NEW c \in Callers, NEW a \in Alignments, NEW n \in Sizes, aligned_alloc(c, a, n)
        PROVE  HeapInv' /\ (OrderInv /\ (\A d, e \in Callers : d = e) => OrderInv')
    <2>1. CASE HeapFail(c)
      BY <1>3, <2>1
    <2>2. CASE ~HeapFail(c)
      <3>1. a \in Nat \ {0} /\ n \in Nat /\ Alloc(c, n, a - 1 + PtrSize, a)
        BY <1>7, <2>2 DEF aligned_alloc, PowerOfTwo, Heap
      <3>2. a - 1 + PtrSize \in Nat
        BY <3>1 DEF Heap
      <3> QED
        BY <3>1, <3>2, AllocStep
    <2> QED
      BY <2>1, <2>2
  <1>8. ASSUME NEW c \in Callers, NEW p, NEW n \in Sizes, realloc(c, p, n)
        PROVE  HeapInv' /\ (OrderInv /\ (\A d, e \in Callers : d = e) => OrderInv')
    BY <1>3, <1>4, <1>8 DEF realloc, Heap
  <1> QED
    BY <1>1, <1>2, <1>5, <1>6, <1>7, <1>8 DEF HeapNext

\* Whoever calls, and however the calls interleave, the pointer malloc, calloc and
\* aligned_alloc return is aligned and its bytes lie inside the block AllocImpl took.
THEOREM AlignedSafe == ASSUME Heap PROVE HeapSpec => []AlignedInside
  <1>1. HeapInit => HeapInv
    BY DEF HeapInit, Heap, HeapInv, NoRequest, Requests, AlignedInside
  <1>2. HeapInv /\ [HeapNext]_al_vars => HeapInv'
    BY HeapStep
  <1>3. HeapInv => AlignedInside
    BY DEF HeapInv
  <1> QED
    BY <1>1, <1>2, <1>3, PTL DEF HeapSpec

\* If a single caller uses the heap, no two blocks AllocImpl hands out overlap.
THEOREM DisjointSafe ==
  ASSUME Heap, \A c, d \in Callers : c = d
  PROVE  HeapSpec => []BlocksDisjoint
  <1> DEFINE Inv == HeapInv /\ OrderInv
  <1>1. HeapInit => Inv
    BY DEF HeapInit, Heap, HeapInv, OrderInv, NoRequest, Requests, AlignedInside, BlocksDisjoint
  <1>2. Inv /\ [HeapNext]_al_vars => Inv'
    BY HeapStep
  <1>3. Inv => BlocksDisjoint
    BY DEF OrderInv
  <1> QED
    BY <1>1, <1>2, <1>3, PTL DEF HeapSpec
-----------------------------------------------------------------------------
(* The guard of a function-local static, for any number of users and any     *)
(* number of constructors that fail.                                         *)

Holders == {"construct", "constructing", "release"}

\* The guard word tells how far the object is, and the one user that took it is the
\* only one that is constructing it.
GuardInv ==
  /\ sg_guard \in {0, kInitializedMask, kInUseMask}
  /\ sg_pc \in [GuardUsers -> {"check", "acquire", "use"} \union Holders]
  /\ sg_guard = 0 => sg_object = "raw"
  /\ sg_guard = kInitializedMask => sg_object = "ready"
  /\ \A u \in GuardUsers :
       /\ sg_pc[u] \in Holders => sg_guard = kInUseMask
       /\ sg_pc[u] = "construct" => sg_object = "raw"
       /\ sg_pc[u] = "constructing" => sg_object = "partial"
       /\ sg_pc[u] = "release" => sg_object = "ready"
       /\ sg_pc[u] = "use" => sg_guard = kInitializedMask
  /\ \A u, w \in GuardUsers : sg_pc[u] \in Holders /\ sg_pc[w] \in Holders => u = w

\* Every step of the compiler's code and of __cxa_guard_* keeps GuardInv.
LEMMA GuardStep == GuardInv /\ [GuardNext]_sg_vars => GuardInv'
  <1> SUFFICES ASSUME GuardInv, [GuardNext]_sg_vars PROVE GuardInv'
    OBVIOUS
  <1> USE DEF GuardInv, Holders, GuardGoto, kInitializedMask, kInUseMask
  <1>1. CASE UNCHANGED sg_vars
    BY <1>1 DEF sg_vars
  <1>2. ASSUME NEW u \in GuardUsers, Check(u) PROVE GuardInv'
    BY <1>2 DEF Check
  <1>3. ASSUME NEW u \in GuardUsers, guard_acquire(u) PROVE GuardInv'
    BY <1>3 DEF guard_acquire
  <1>4. ASSUME NEW u \in GuardUsers, Construct(u) PROVE GuardInv'
    BY <1>4 DEF Construct
  <1>5. ASSUME NEW u \in GuardUsers, Constructed(u) PROVE GuardInv'
    BY <1>5 DEF Constructed
  <1>6. ASSUME NEW u \in GuardUsers, guard_release(u) PROVE GuardInv'
    BY <1>6 DEF guard_release
  <1>7. ASSUME NEW u \in GuardUsers, guard_abort(u) PROVE GuardInv'
    BY <1>7 DEF guard_abort
  <1>8. ASSUME NEW u \in GuardUsers, Use(u) PROVE GuardInv'
    BY <1>8 DEF Use
  <1>9. CASE GuardNext
    <2>1. PICK u \in GuardUsers : \/ Check(u) \/ guard_acquire(u) \/ Construct(u)
                                 \/ Constructed(u) \/ guard_release(u) \/ guard_abort(u) \/ Use(u)
      BY ONLY <1>9 DEF GuardNext
    <2> QED
      BY ONLY <2>1, <1>2, <1>3, <1>4, <1>5, <1>6, <1>7, <1>8
  <1> QED
    BY <1>1, <1>9

\* GuardInv holds in every state of the protocol.
LEMMA GuardInvariance == GuardSpec => []GuardInv
  <1>1. GuardInit => GuardInv
    BY DEF GuardInit, GuardInv, Holders, kInitializedMask, kInUseMask
  <1> QED
    BY <1>1, GuardStep, PTL DEF GuardSpec

\* Nobody gets past the guard before the constructor of the static has returned, and
\* no constructor runs on an object that is constructed already.
THEOREM ReadySafe == GuardSpec => []UsedOnlyWhenReady
  <1>1. GuardInv => UsedOnlyWhenReady
    BY DEF GuardInv, UsedOnlyWhenReady, Holders, kInitializedMask, kInUseMask
  <1> QED
    BY <1>1, GuardInvariance, PTL

\* __cxa_guard_acquire never sends two users into the constructor.
THEOREM ConstructorSafe == GuardSpec => []OneConstructor
  <1>1. GuardInv => OneConstructor
    BY DEF GuardInv, OneConstructor, Holders
  <1> QED
    BY <1>1, GuardInvariance, PTL

-----------------------------------------------------------------------------
(* The completely fair scheduler. *)

CfsInv ==
  /\ cfs_weight \in [CfsTasks -> Nat] /\ cfs_vruntime \in [CfsTasks -> Nat]
  /\ cfs_min \in Nat
  /\ cfs_queue \subseteq CfsTasks /\ cfs_current \subseteq CfsTasks
  /\ cfs_queue \intersect cfs_current = {}
  /\ \A t, u \in cfs_current : t = u
  /\ \A t \in Runnable : cfs_weight[t] > 0

\* A set of numbers has a least one.
LEMMA LeastNumber ==
  ASSUME NEW S, S \subseteq Nat, S # {}
  PROVE  \E x \in S : \A y \in S : x <= y
  <1>1. PICK x \in S : \A y \in S : ~(<<y, x>> \in OpToRel(<, Nat))
    BY NatLessThanWellFounded, WFMin, ZenonT(30)
  <1>2. \A y \in S : ~(y < x)
    BY <1>1, ZenonT(30) DEF OpToRel
  <1> QED
    BY <1>2, SMTT(30)

\* The least of some numbers is a number.
LEMMA MinNat == ASSUME NEW S, S \subseteq Nat, S # {} PROVE Min(S) \in Nat
  <1>1. Min(S) \in S
    BY LeastNumber, ZenonT(30) DEF Min
  <1> QED
    BY <1>1

\* A heap that is not empty has a top.
LEMMA TopExists ==
  ASSUME NEW q, q \subseteq CfsTasks, q # {}, NEW v \in [CfsTasks -> Nat]
  PROVE  Top(q, v) # {}
  <1>1. PICK S : S = {v[t] : t \in q}
    OBVIOUS
  <1>2. S \subseteq Nat /\ S # {}
    BY <1>1, ZenonT(30)
  <1>3. PICK x \in S : \A y \in S : x <= y
    BY <1>2, LeastNumber, ZenonT(30)
  <1>4. PICK t \in q : x = v[t]
    BY <1>1, ZenonT(30)
  <1>5. t \in Top(q, v)
    BY <1>1, <1>3, <1>4, ZenonT(30) DEF Top
  <1> QED
    BY <1>5, ZenonT(30)

LEMMA DeltaNat == ASSUME NEW w \in Nat, w > 0 PROVE Delta(w) \in Nat
  <1>1. PICK n \in Nat : n = kDefaultWeight * 1000
    BY CfsAssumption, SMTT(30)
  <1>2. n \div w \in Nat
    BY SMTT(30)
  <1> QED
    BY <1>1, <1>2, ZenonT(30) DEF Delta

\* What PickNext leaves: its choice runs, the rest of the heap waits.
LEMMA PickFacts ==
  ASSUME NEW q, q \subseteq CfsTasks, NEW v \in [CfsTasks -> Nat], cfs_min \in Nat,
         PickNext(q, v)
  PROVE  /\ cfs_min' \in Nat
         /\ Runnable' = q /\ cfs_queue' \intersect cfs_current' = {}
         /\ \A t, u \in cfs_current' : t = u
         /\ \A t \in cfs_current' : \A u \in q : v[t] <= v[u]
  <1>1. CASE q = {}
    BY <1>1, ZenonT(30) DEF PickNext, Runnable
  <1>2. CASE q # {}
    <2>1. PICK next \in Top(q, v) :
            /\ cfs_current' = {next}
            /\ cfs_queue' = q \ {next}
            /\ cfs_min' = Min({v[t] : t \in IF q = {next} THEN q ELSE q \ {next}})
      BY <1>2, ZenonT(30) DEF PickNext
    <2>2. next \in q /\ \A u \in q : v[next] <= v[u]
      BY ZenonT(30) DEF Top
    <2>3. PICK S : S = {v[t] : t \in IF q = {next} THEN q ELSE q \ {next}}
      OBVIOUS
    <2>4. S \subseteq Nat /\ S # {}
      BY <2>2, <2>3, ZenonT(30)
    <2>5. cfs_min' \in Nat
      BY <2>1, <2>3, <2>4, MinNat, ZenonT(30)
    <2> QED
      BY <2>1, <2>2, <2>5, ZenonT(30) DEF Runnable
  <1> QED
    BY <1>1, <1>2

\* PickNext keeps the tasks of a heap together that are within a tick of each other.
LEMMA PickSpread ==
  ASSUME NEW q, q \subseteq CfsTasks, NEW v \in [CfsTasks -> Nat], cfs_min \in Nat,
         PickNext(q, v), cfs_vruntime' = v, cfs_weight' = cfs_weight,
         \A t \in q : Delta(cfs_weight[t]) \in Nat,
         \A t, u \in q : v[t] <= v[u] + kMinGranularity + Delta(cfs_weight[t])
  PROVE  Spread'
  <1>1. Runnable' = q /\ \A t \in cfs_current' : \A u \in q : v[t] <= v[u]
    BY PickFacts, ZenonT(30)
  <1> SUFFICES ASSUME NEW t \in q, NEW u \in q
               PROVE  v[t] <= v[u] + kMinGranularity
                                + IF t \in cfs_current' THEN 0 ELSE Delta(cfs_weight[t])
    BY <1>1, ZenonT(30) DEF Spread
  <1>2. v[t] \in Nat /\ v[u] \in Nat /\ v[t] <= v[u] + kMinGranularity + Delta(cfs_weight[t])
    BY ZenonT(30)
  <1>3. t \in cfs_current' => v[t] <= v[u]
    BY <1>1, ZenonT(30)
  <1> QED
    BY <1>2, <1>3, CfsAssumption, SMTT(30)

LEMMA RunnableFacts ==
  ASSUME CfsInv
  PROVE  /\ Runnable \subseteq CfsTasks
         /\ \A t \in Runnable : cfs_vruntime[t] \in Nat /\ Delta(cfs_weight[t]) \in Nat
  <1>1. Runnable \subseteq CfsTasks
    BY ZenonT(30) DEF CfsInv, Runnable
  <1>2. ASSUME NEW t \in Runnable PROVE cfs_vruntime[t] \in Nat /\ Delta(cfs_weight[t]) \in Nat
    <2>1. cfs_vruntime[t] \in Nat /\ cfs_weight[t] \in Nat /\ cfs_weight[t] > 0
      BY <1>1, ZenonT(30) DEF CfsInv
    <2> QED
      BY <2>1, DeltaNat, ZenonT(30)
  <1> QED
    BY <1>1, <1>2, ZenonT(30)

\* Runnable tasks are within a tick of each other if Spread holds.
LEMMA SpreadFacts ==
  ASSUME CfsInv, Spread, NEW t \in Runnable, NEW u \in Runnable
  PROVE  /\ cfs_vruntime[t] <= cfs_vruntime[u] + kMinGranularity + Delta(cfs_weight[t])
         /\ t \in cfs_current => cfs_vruntime[t] <= cfs_vruntime[u] + kMinGranularity
  <1>1. cfs_vruntime[t] <= cfs_vruntime[u] + kMinGranularity
                             + IF t \in cfs_current THEN 0 ELSE Delta(cfs_weight[t])
    BY ZenonT(30) DEF Spread
  <1>2. cfs_vruntime[t] \in Nat /\ cfs_vruntime[u] \in Nat /\ Delta(cfs_weight[t]) \in Nat
    BY RunnableFacts, ZenonT(30)
  <1> QED
    BY <1>1, <1>2, CfsAssumption, SMTT(30)

\* OnTick charges c; the switch follows when c is too far ahead of the top.
LEMMA TickStep ==
  ASSUME CfsInv, OnTick
  PROVE  CfsInv' /\ (Spread => Spread')
  <1>1. PICK c \in cfs_current :
          /\ cfs_vruntime' = [cfs_vruntime EXCEPT ![c] = @ + Delta(cfs_weight[c])]
          /\ IF \E next \in Top(cfs_queue, cfs_vruntime') :
                  cfs_vruntime'[next] + kMinGranularity < cfs_vruntime'[c]
               THEN PickNext(cfs_queue \union {c}, cfs_vruntime')
               ELSE UNCHANGED <<cfs_queue, cfs_min, cfs_current>>
    BY ZenonT(30) DEF OnTick
  <1>2. PICK v : v = cfs_vruntime'
    OBVIOUS
  <1>3. cfs_weight' = cfs_weight
    BY ZenonT(30) DEF OnTick
  <1>4. PICK d \in Nat : d = Delta(cfs_weight[c])
    BY RunnableFacts, ZenonT(30) DEF Runnable
  <1>5. c \in CfsTasks /\ c \notin cfs_queue /\ cfs_current = {c} /\ cfs_queue \subseteq CfsTasks
    BY ZenonT(30) DEF CfsInv
  <1>6. /\ v \in [CfsTasks -> Nat] /\ v[c] = cfs_vruntime[c] + d
        /\ \A t \in CfsTasks \ {c} : v[t] = cfs_vruntime[t]
    BY <1>1, <1>2, <1>4, <1>5, SMTT(30) DEF CfsInv
  <1>7. PICK q : q = cfs_queue \union {c}
    OBVIOUS
  <1>8. q = Runnable /\ q \subseteq CfsTasks /\ cfs_min \in Nat
        /\ cfs_weight \in [CfsTasks -> Nat] /\ \A t \in q : cfs_weight[t] > 0
    BY <1>5, <1>7, ZenonT(30) DEF CfsInv, Runnable
  <1>9. ASSUME Spread, NEW t \in q, NEW u \in q
        PROVE  /\ v[t] <= v[u] + kMinGranularity + Delta(cfs_weight[t])
               /\ v[t] \in Nat /\ v[u] \in Nat /\ Delta(cfs_weight[t]) \in Nat
    <2>1. /\ cfs_vruntime[t] <= cfs_vruntime[u] + kMinGranularity + Delta(cfs_weight[t])
          /\ t \in cfs_current => cfs_vruntime[t] <= cfs_vruntime[u] + kMinGranularity
      BY <1>8, <1>9, SpreadFacts, ZenonT(30)
    <2>2. cfs_vruntime[t] \in Nat /\ cfs_vruntime[u] \in Nat /\ Delta(cfs_weight[t]) \in Nat
      BY <1>8, RunnableFacts, ZenonT(30)
    <2>3. cfs_vruntime[u] <= v[u] /\ v[u] \in Nat /\ v[t] \in Nat
      <3>1. CASE u = c
        BY <3>1, <2>2, <1>6, <1>8, SMTT(30)
      <3>2. CASE u # c
        BY <3>2, <2>2, <1>6, <1>8, SMTT(30)
      <3> QED
        BY <3>1, <3>2
    <2>4. CASE t = c
      BY <2>1, <2>2, <2>3, <2>4, <1>4, <1>5, <1>6, CfsAssumption, SMTT(30)
    <2>5. CASE t # c
      <3>1. v[t] = cfs_vruntime[t]
        BY <2>5, <1>6, <1>8, ZenonT(30)
      <3> QED
        BY <3>1, <2>1, <2>2, <2>3, CfsAssumption, SMTT(30)
    <2> QED
      BY <2>4, <2>5
  <1>10. \A t \in q : Delta(cfs_weight[t]) \in Nat
    BY <1>8, RunnableFacts, ZenonT(30)
  <1>11. CASE PickNext(q, v)
    <2>1. /\ cfs_min' \in Nat
          /\ Runnable' = q /\ cfs_queue' \intersect cfs_current' = {}
          /\ \A t, u \in cfs_current' : t = u
      BY <1>6, <1>8, <1>11, PickFacts, ZenonT(30)
    <2>2. cfs_queue' \subseteq CfsTasks /\ cfs_current' \subseteq CfsTasks
      BY <2>1, <1>8, ZenonT(30) DEF Runnable
    <2>3. CfsInv'
      BY <2>1, <2>2, <1>2, <1>3, <1>6, <1>8, ZenonT(30) DEF CfsInv
    <2>4. ASSUME Spread PROVE Spread'
      <3>1. \A t, u \in q : v[t] <= v[u] + kMinGranularity + Delta(cfs_weight[t])
        BY <1>9, <2>4, ZenonT(30)
      <3> QED
        BY <3>1, <1>2, <1>3, <1>6, <1>8, <1>10, <1>11, PickSpread, ZenonT(30)
    <2> QED
      BY <2>3, <2>4
  <1>12. CASE UNCHANGED <<cfs_queue, cfs_min, cfs_current>>
                /\ ~\E next \in Top(cfs_queue, v) : v[next] + kMinGranularity < v[c]
    <2>1. cfs_queue' = cfs_queue /\ cfs_min' = cfs_min /\ cfs_current' = cfs_current
      BY <1>12, ZenonT(30)
    <2>2. CfsInv'
      BY <2>1, <1>2, <1>3, <1>6, ZenonT(30) DEF CfsInv, Runnable
    <2>3. ASSUME Spread, NEW t \in q, NEW u \in q
          PROVE  v[t] <= v[u] + kMinGranularity
                           + IF t \in cfs_current THEN 0 ELSE Delta(cfs_weight[t])
      <3>1. /\ v[t] <= v[u] + kMinGranularity + Delta(cfs_weight[t])
            /\ v[t] \in Nat /\ v[u] \in Nat /\ Delta(cfs_weight[t]) \in Nat
        BY <1>9, <2>3, ZenonT(30)
      <3>2. CASE t = c /\ u # c
        <4>1. u \in cfs_queue
          BY <3>2, <1>7, ZenonT(30)
        <4>2. PICK next : next \in Top(cfs_queue, v)
          BY <4>1, <1>5, <1>6, TopExists, ZenonT(30)
        <4>3. v[next] <= v[u] /\ next \in CfsTasks
          BY <4>1, <4>2, <1>5, ZenonT(30) DEF Top
        <4>4. ~(v[next] + kMinGranularity < v[c]) /\ v[next] \in Nat
          BY <4>2, <4>3, <1>6, <1>12, ZenonT(30)
        <4> QED
          BY <3>1, <3>2, <4>3, <4>4, <1>5, CfsAssumption, SMTT(30)
      <3>3. CASE t = c /\ u = c
        BY <3>1, <3>3, CfsAssumption, SMTT(30)
      <3>4. CASE t # c
        BY <3>1, <3>4, <1>5, CfsAssumption, SMTT(30)
      <3> QED
        BY <3>2, <3>3, <3>4
    <2>4. ASSUME Spread PROVE Spread'
      BY <2>1, <2>3, <2>4, <1>2, <1>3, <1>8, ZenonT(30) DEF Spread, Runnable
    <2> QED
      BY <2>2, <2>4
  <1> QED
    BY <1>1, <1>2, <1>7, <1>11, <1>12, ZenonT(30)

\* Unless a task that was never charged starts again, Schedule changes no vruntime.
LEMMA ScheduleStep ==
  ASSUME CfsInv, Schedule
  PROVE  CfsInv' /\ (Spread /\ (\A t \in Runnable : ~Restarted(t)) => Spread')
  <1>1. PICK v : v = cfs_vruntime'
    OBVIOUS
  <1>2. PICK q : q = cfs_queue \union cfs_current
    OBVIOUS
  <1>3. /\ v = [t \in CfsTasks |-> IF t \in cfs_current THEN EnqueuedVruntime(t) ELSE cfs_vruntime[t]]
        /\ PickNext(q, v) /\ cfs_weight' = cfs_weight
    BY <1>1, <1>2, ZenonT(30) DEF Schedule
  <1>4. /\ q = Runnable /\ q \subseteq CfsTasks /\ cfs_min \in Nat
        /\ cfs_weight \in [CfsTasks -> Nat] /\ \A t \in q : cfs_weight[t] > 0
    BY <1>2, ZenonT(30) DEF CfsInv, Runnable
  <1>5. v \in [CfsTasks -> Nat]
    BY <1>3, ZenonT(30) DEF CfsInv, EnqueuedVruntime
  <1>6. /\ cfs_min' \in Nat
        /\ Runnable' = q /\ cfs_queue' \intersect cfs_current' = {}
        /\ \A t, u \in cfs_current' : t = u
    BY <1>3, <1>4, <1>5, PickFacts, ZenonT(30)
  <1>7. cfs_queue' \subseteq CfsTasks /\ cfs_current' \subseteq CfsTasks
    BY <1>4, <1>6, ZenonT(30) DEF Runnable
  <1>8. CfsInv'
    BY <1>1, <1>3, <1>4, <1>5, <1>6, <1>7, ZenonT(30) DEF CfsInv
  <1>9. ASSUME Spread, \A t \in Runnable : ~Restarted(t) PROVE Spread'
    <2>1. ASSUME NEW t \in q PROVE v[t] = cfs_vruntime[t]
      <3>1. t \in CfsTasks /\ cfs_vruntime[t] \in Nat /\ ~Restarted(t)
        BY <1>4, <1>9, ZenonT(30) DEF CfsInv
      <3>2. v[t] = IF t \in cfs_current THEN EnqueuedVruntime(t) ELSE cfs_vruntime[t]
        BY <1>3, <3>1, ZenonT(30)
      <3> QED
        BY <3>1, <3>2, <1>1, <1>4, SMTT(30) DEF Restarted, EnqueuedVruntime
    <2>2. \A t, u \in q : v[t] <= v[u] + kMinGranularity + Delta(cfs_weight[t])
      BY <2>1, <1>4, <1>9, SpreadFacts, ZenonT(30)
    <2>3. \A t \in q : Delta(cfs_weight[t]) \in Nat
      BY <1>4, RunnableFacts, ZenonT(30)
    <2> QED
      BY <2>2, <2>3, <1>1, <1>3, <1>4, <1>5, PickSpread, ZenonT(30)
  <1> QED
    BY <1>8, <1>9

LEMMA BlockStep ==
  ASSUME CfsInv, Block
  PROVE  CfsInv' /\ (Spread => Spread')
  <1>1. PICK v : v = cfs_vruntime
    OBVIOUS
  <1>2. PICK q : q = cfs_queue
    OBVIOUS
  <1>3. PickNext(q, v) /\ cfs_vruntime' = v /\ cfs_weight' = cfs_weight
    BY <1>1, <1>2, ZenonT(30) DEF Block
  <1>4. /\ q \subseteq Runnable /\ q \subseteq CfsTasks /\ cfs_min \in Nat /\ v \in [CfsTasks -> Nat]
        /\ cfs_weight \in [CfsTasks -> Nat] /\ \A t \in q : cfs_weight[t] > 0
    BY <1>1, <1>2, ZenonT(30) DEF CfsInv, Runnable
  <1>5. /\ cfs_min' \in Nat
        /\ Runnable' = q /\ cfs_queue' \intersect cfs_current' = {}
        /\ \A t, u \in cfs_current' : t = u
    BY <1>3, <1>4, PickFacts, ZenonT(30)
  <1>6. cfs_queue' \subseteq CfsTasks /\ cfs_current' \subseteq CfsTasks
    BY <1>4, <1>5, ZenonT(30) DEF Runnable
  <1>7. CfsInv'
    BY <1>3, <1>4, <1>5, <1>6, ZenonT(30) DEF CfsInv
  <1>8. ASSUME Spread PROVE Spread'
    <2>1. \A t, u \in q : v[t] <= v[u] + kMinGranularity + Delta(cfs_weight[t])
      BY <1>1, <1>4, <1>8, SpreadFacts, ZenonT(30)
    <2>2. \A t \in q : Delta(cfs_weight[t]) \in Nat
      BY <1>4, RunnableFacts, ZenonT(30)
    <2> QED
      BY <2>1, <2>2, <1>3, <1>4, PickSpread, ZenonT(30)
  <1> QED
    BY <1>7, <1>8

\* Enqueue adds a runnable task; it has a weight from then on.
LEMMA EnqueueStep ==
  ASSUME CfsInv, NEW t \in CfsTasks, Enqueue(t)
  PROVE  CfsInv' /\ ~(Runnable' \subseteq Runnable)
  <1>1. /\ t \notin Runnable /\ Runnable' = Runnable \union {t}
        /\ cfs_current' = cfs_current /\ cfs_min' = cfs_min
    BY ZenonT(30) DEF Enqueue, Runnable
  <1>2. /\ cfs_queue' \subseteq CfsTasks /\ cfs_queue' \intersect cfs_current' = {}
        /\ cfs_vruntime' \in [CfsTasks -> Nat]
    BY ZenonT(30) DEF Enqueue, CfsInv, EnqueuedVruntime
  <1>3. EnqueuedWeight(t) \in Nat /\ EnqueuedWeight(t) > 0
    BY CfsAssumption, SMTT(30) DEF CfsInv, EnqueuedWeight
  <1>4. /\ cfs_weight' \in [CfsTasks -> Nat] /\ cfs_weight'[t] > 0
        /\ \A u \in CfsTasks \ {t} : cfs_weight'[u] = cfs_weight[u]
    BY <1>3, ZenonT(30) DEF Enqueue, CfsInv
  <1>5. \A u \in Runnable' : cfs_weight'[u] > 0
    BY <1>1, <1>4, RunnableFacts, ZenonT(30) DEF CfsInv
  <1> QED
    BY <1>1, <1>2, <1>4, <1>5, ZenonT(30) DEF CfsInv

LEMMA DequeueStep ==
  ASSUME CfsInv, NEW t \in CfsTasks, Dequeue(t)
  PROVE  CfsInv' /\ (Spread => Spread')
  BY ZenonT(30) DEF Dequeue, CfsInv, Spread, Runnable

LEMMA CfsStep ==
  ASSUME CfsInv, [CfsNext]_cfs_vars
  PROVE  /\ CfsInv'
         /\ Spread /\ Runnable' \subseteq Runnable /\ (\A t \in Runnable : ~Restarted(t)) => Spread'
  <1>1. CASE UNCHANGED cfs_vars
    BY <1>1, ZenonT(30) DEF cfs_vars, CfsInv, Spread, Runnable
  <1> QED
    BY <1>1, TickStep, ScheduleStep, BlockStep, EnqueueStep, DequeueStep, ZenonT(30) DEF CfsNext

\* Whatever the weights, the granularity and the number of tasks, a tick, a switch,
\* a task that blocks and one that is taken out of the heap keep the runnable tasks
\* together (cfs_scheduler.cpp OnTick, PickNext, Enqueue and Dequeue).
THEOREM FairnessSafe == CfsSpec => SpreadKept
  <1>1. CfsInit => CfsInv
    <2> SUFFICES ASSUME CfsInit PROVE CfsInv
      OBVIOUS
    <2>1. cfs_weight \in [CfsTasks -> Nat]
      BY CfsAssumption, ZenonT(30) DEF CfsInit
    <2> QED
      BY <2>1, SMTT(30) DEF CfsInit, CfsInv, Runnable
  <1>2. CfsInv /\ [CfsNext]_cfs_vars => CfsInv'
    BY CfsStep
  <1>3. CfsInv /\ [CfsNext]_cfs_vars
          => [Spread /\ Runnable' \subseteq Runnable /\ (\A t \in Runnable : ~Restarted(t)) => Spread']_cfs_vars
    BY CfsStep
  <1>4. CfsSpec => []CfsInv
    BY <1>1, <1>2, PTL DEF CfsSpec
  <1> QED
    BY <1>3, <1>4, PTL DEF CfsSpec, SpreadKept

-----------------------------------------------------------------------------
(* Thread groups.  The lists have no cycle because their members can be       *)
(* numbered upwards along next; a join renumbers the members behind the        *)
(* leader, and a task that leaves keeps its number.                            *)

Links == [TgTasks -> TgTasks \union {NoThread}]

\* r numbers the members of every list upwards.
Numbers(r, next) ==
  /\ r \in [TgTasks -> Nat]
  /\ \A t, u \in TgTasks : next[t] = u => r[t] < r[u]

Numbered == \E r : Numbers(r, tg_next)

Symmetric(next, prev) == \A t, u \in TgTasks : next[t] = u <=> prev[u] = t

\* Who is linked to whom: tasks of one group, that have neither left it nor not yet
\* joined it; the leader is first, and every other member has a predecessor while the
\* leader is there.
SameGroup == \A t, u \in TgTasks : tg_next[t] = u => tg_tgid[t] = tg_tgid[u]
LeaderFirst == \A t \in TgTasks : tg_tgid[t] = t => tg_prev[t] = NoThread
OthersUnlinked ==
  \A t \in TgTasks :
    tg_state[t] \in {"none", "deleted"} \/ (tg_state[t] = "exited" /\ tg_tgid[t] # t) =>
      tg_next[t] = NoThread /\ tg_prev[t] = NoThread
MembersBehind ==
  \A t \in TgTasks :
    tg_state[t] \in {"cloning", "alive"} /\ tg_tgid[t] # t
      /\ tg_state[tg_tgid[t]] \in {"cloning", "alive"} => tg_prev[t] # NoThread

\* A task that was created has a leader, which was created too and leads itself.
Led ==
  \A t \in TgTasks : tg_state[t] # "none" =>
    /\ tg_tgid[t] \in TgTasks /\ tg_tgid[tg_tgid[t]] = tg_tgid[t]
    /\ tg_state[tg_tgid[t]] # "none"

GroupTypes ==
  /\ tg_next \in Links /\ tg_prev \in Links /\ tg_tgid \in Links
  /\ tg_state \in [TgTasks -> {"none", "cloning", "alive", "exited", "deleted"}]

GroupInv ==
  /\ GroupTypes /\ Symmetric(tg_next, tg_prev) /\ Numbered /\ Led
  /\ SameGroup /\ LeaderFirst /\ OthersUnlinked /\ MembersBehind

USE ThreadAssumption

\* A new task behind the leader.
LEMMA JoinLinks ==
  ASSUME NEW n \in TgTasks, NEW g \in TgTasks, n # g, GroupTypes,
         Symmetric(tg_next, tg_prev), tg_next[n] = NoThread, tg_prev[n] = NoThread,
         JoinThreadGroup(n, g)
  PROVE  /\ tg_next' \in Links /\ tg_prev' \in Links
         /\ Symmetric(tg_next', tg_prev')
         /\ tg_next'[n] = tg_next[g] /\ tg_next'[g] = n
         /\ \A t \in TgTasks \ {n, g} : tg_next'[t] = tg_next[t]
         /\ tg_prev'[n] = g
         /\ \A t \in TgTasks \ {n} : tg_prev'[t] = IF t = tg_next[g] THEN n ELSE tg_prev[t]
  <1> PICK x : x = tg_next[g]
    OBVIOUS
  <1>1. /\ tg_next' = [tg_next EXCEPT ![n] = x, ![g] = n]
        /\ tg_prev' = [t \in TgTasks |-> IF t = n THEN g ELSE IF t = x THEN n ELSE tg_prev[t]]
    BY DEF JoinThreadGroup
  <1>2. tg_next' \in Links /\ tg_prev' \in Links
    BY <1>1, SMTT(30) DEF GroupTypes, Links
  <1>3. /\ tg_next'[n] = x /\ tg_next'[g] = n
        /\ \A t \in TgTasks \ {n, g} : tg_next'[t] = tg_next[t]
        /\ tg_prev'[n] = g
        /\ \A t \in TgTasks \ {n} : tg_prev'[t] = IF t = x THEN n ELSE tg_prev[t]
    BY <1>1, SMTT(30) DEF GroupTypes, Links
  <1>4. Symmetric(tg_next', tg_prev')
    BY <1>2, <1>3, SMTT(30) DEF Symmetric, GroupTypes, Links
  <1> QED
    BY <1>2, <1>3, <1>4

\* A task out of its list.
LEMMA LeaveLinks ==
  ASSUME NEW x \in TgTasks, GroupTypes, Symmetric(tg_next, tg_prev), LeaveThreadGroup(x)
  PROVE  /\ tg_next' \in Links /\ tg_prev' \in Links
         /\ Symmetric(tg_next', tg_prev')
         /\ tg_next'[x] = NoThread /\ tg_prev'[x] = NoThread
         /\ \A t \in TgTasks \ {x} :
              /\ tg_next'[t] = IF t = tg_prev[x] THEN tg_next[x] ELSE tg_next[t]
              /\ tg_prev'[t] = IF t = tg_next[x] THEN tg_prev[x] ELSE tg_prev[t]
  <1> PICK a, b : a = tg_prev[x] /\ b = tg_next[x]
    OBVIOUS
  <1>1. /\ tg_next' = [u \in TgTasks |-> IF u = x THEN NoThread ELSE IF u = a THEN b ELSE tg_next[u]]
        /\ tg_prev' = [u \in TgTasks |-> IF u = x THEN NoThread ELSE IF u = b THEN a ELSE tg_prev[u]]
    BY DEF LeaveThreadGroup
  <1>2. tg_next' \in Links /\ tg_prev' \in Links
    BY <1>1, SMTT(30) DEF GroupTypes, Links
  <1>3. /\ tg_next'[x] = NoThread /\ tg_prev'[x] = NoThread
        /\ \A t \in TgTasks \ {x} : /\ tg_next'[t] = IF t = a THEN b ELSE tg_next[t]
                                    /\ tg_prev'[t] = IF t = b THEN a ELSE tg_prev[t]
    BY <1>1, SMTT(30) DEF GroupTypes, Links
  <1>4. Symmetric(tg_next', tg_prev')
    BY <1>2, <1>3, SMTT(30) DEF Symmetric, GroupTypes, Links
  <1> QED
    BY <1>2, <1>3, <1>4

\* Renumbering behind the leader makes room for the new task.
Inserted(next, next2, n, g) ==
  /\ next[g] # n /\ next2[n] = next[g] /\ next2[g] = n
  /\ \A t \in TgTasks \ {n, g} : next2[t] = next[t] /\ next2[t] # n

LEMMA JoinNumbers ==
  ASSUME NEW n \in TgTasks, NEW g \in TgTasks, n # g, NEW next, NEW r, Numbers(r, next),
         NEW next2, Inserted(next, next2, n, g)
  PROVE  \E q : Numbers(q, next2)
  <1> DEFINE q == [t \in TgTasks |-> IF t = n THEN r[g] + 1
                                     ELSE IF r[t] > r[g] THEN r[t] + 1 ELSE r[t]]
  <1>1. q \in [TgTasks -> Nat]
    BY SMTT(30) DEF Numbers
  <1>2. /\ q[n] = r[g] + 1 /\ r \in [TgTasks -> Nat]
        /\ \A t \in TgTasks \ {n} : q[t] = IF r[t] > r[g] THEN r[t] + 1 ELSE r[t]
    BY SMTT(30) DEF Numbers
  <1> HIDE DEF q
  <1>3. ASSUME NEW t \in TgTasks, NEW u \in TgTasks, next2[t] = u PROVE q[t] < q[u]
    <2>1. CASE t = n
      <3>1. u # n /\ r[g] < r[u]
        BY <1>3, <2>1, ZenonT(30) DEF Numbers, Inserted
      <3> QED
        BY <3>1, <2>1, <1>2, SMTT(30)
    <2>2. CASE t = g
      <3>1. u = n
        BY <1>3, <2>2 DEF Inserted
      <3> QED
        BY <3>1, <2>2, <1>2, SMTT(30)
    <2>3. CASE t \notin {n, g}
      <3>1. u # n /\ r[t] < r[u]
        BY <1>3, <2>3, ZenonT(30) DEF Numbers, Inserted
      <3> QED
        BY <3>1, <2>3, <1>2, SMTT(30)
    <2> QED
      BY <2>1, <2>2, <2>3
  <1> QED
    BY <1>1, <1>3, ZenonT(30) DEF Numbers

Removed(next, next2, a, x) ==
  /\ a \in TgTasks => next[a] = x
  /\ next2[x] = NoThread
  /\ \A t \in TgTasks \ {x} : next2[t] = next[t] \/ (t = a /\ next2[t] = next[x])

LEMMA LeaveNumbers ==
  ASSUME NEW x \in TgTasks, NEW next, NEW r, Numbers(r, next), NEW next2, NEW a,
         Removed(next, next2, a, x)
  PROVE  Numbers(r, next2)
  <1>1. ASSUME NEW t \in TgTasks, NEW u \in TgTasks, next2[t] = u PROVE r[t] < r[u]
    <2>1. t # x
      BY <1>1, ZenonT(30) DEF Removed
    <2>2. CASE t = a /\ next2[t] = next[x]
      <3>1. r[t] < r[x] /\ r[x] < r[u]
        BY <1>1, <2>1, <2>2, ZenonT(30) DEF Numbers, Removed
      <3> QED
        BY <3>1, SMTT(30) DEF Numbers
    <2>3. CASE next2[t] = next[t]
      BY <1>1, <2>3, ZenonT(30) DEF Numbers
    <2> QED
      BY <2>1, <2>2, <2>3, ZenonT(30) DEF Removed
  <1> QED
    BY <1>1, ZenonT(30) DEF Numbers

LEMMA GroupStart == GroupInit => GroupInv
  <1> SUFFICES ASSUME GroupInit PROVE GroupInv
    OBVIOUS
  <1>1. GroupTypes /\ Symmetric(tg_next, tg_prev) /\ Led
    BY SMTT(30) DEF GroupInit, GroupTypes, Links, Symmetric, Led
  <1>3. SameGroup /\ LeaderFirst /\ OthersUnlinked /\ MembersBehind
    BY SMTT(30) DEF GroupInit, SameGroup, LeaderFirst, OthersUnlinked, MembersBehind
  <1>2. Numbers([t \in TgTasks |-> 0], tg_next)
    BY SMTT(30) DEF GroupInit, Numbers
  <1> QED
    BY <1>1, <1>2, <1>3 DEF GroupInv, Numbered

LEMMA CloneStep ==
  ASSUME GroupInv, NEW p \in TgTasks, NEW n \in TgTasks, CloneThread(p, n)
  PROVE  GroupInv'
  <1> PICK g : g = tg_tgid[p]
    OBVIOUS
  <1>1. /\ tg_state[p] = "alive" /\ tg_state[n] = "none"
        /\ tg_state' = [tg_state EXCEPT ![n] = "cloning"]
        /\ tg_tgid' = [tg_tgid EXCEPT ![n] = g]
    BY DEF CloneThread
  <1>2. g \in TgTasks /\ tg_tgid[g] = g /\ tg_state[g] # "none" /\ g # n
    BY <1>1, ZenonT(30) DEF GroupInv, Led
  <1>3. /\ tg_next[n] = NoThread /\ tg_prev[n] = NoThread /\ tg_prev[g] = NoThread
        /\ \A t \in TgTasks : tg_next[t] # n
    <2>1. tg_next[n] = NoThread /\ tg_prev[n] = NoThread /\ tg_prev[g] = NoThread
      BY <1>1, <1>2, ZenonT(30) DEF GroupInv, OthersUnlinked, LeaderFirst
    <2>2. ASSUME NEW t \in TgTasks PROVE tg_next[t] # n
      <3>1. tg_prev[n] # t
        BY <2>1, ZenonT(30)
      <3> QED
        BY <3>1, ZenonT(30) DEF GroupInv, Symmetric
    <2> QED
      BY <2>1, <2>2, ZenonT(30)
  <1>4. /\ tg_state'[n] = "cloning" /\ tg_tgid'[n] = g
        /\ \A t \in TgTasks \ {n} : tg_state'[t] = tg_state[t] /\ tg_tgid'[t] = tg_tgid[t]
        /\ tg_tgid' \in Links
        /\ tg_state' \in [TgTasks -> {"none", "cloning", "alive", "exited", "deleted"}]
    BY <1>1, <1>2, SMTT(30) DEF GroupInv, GroupTypes, Links
  <1>5. \A t \in TgTasks : tg_state[t] # "none" => tg_tgid[t] # n
    BY <1>1, ZenonT(30) DEF GroupInv, Led
  <1>6. Led'
    BY <1>1, <1>2, <1>4, <1>5, SMTT(30) DEF GroupInv, Led
  <1>7. ASSUME NEW t \in TgTasks \ {n}, tg_state'[t] \in {"cloning", "alive"}, tg_tgid'[t] # t,
               tg_state'[tg_tgid'[t]] \in {"cloning", "alive"}
        PROVE  tg_prev[t] # NoThread
    <2>1. tg_state[t] \in {"cloning", "alive"} /\ tg_tgid[t] # t /\ tg_tgid'[t] = tg_tgid[t]
      BY <1>7, <1>4, ZenonT(30)
    <2>2. tg_state[t] # "none"
      BY <2>1, SMTT(30)
    <2>3. tg_tgid[t] \in TgTasks \ {n}
      BY <2>2, <1>5, ZenonT(30) DEF GroupInv, Led
    <2>4. tg_state[tg_tgid[t]] \in {"cloning", "alive"}
      BY <2>1, <2>3, <1>7, <1>4, ZenonT(30)
    <2> QED
      BY <2>1, <2>4, ZenonT(30) DEF GroupInv, MembersBehind
  <1>8. CASE tg_state[g] = "deleted"
    <2>1. UNCHANGED <<tg_next, tg_prev>>
      BY <1>8 DEF CloneThread
    <2>2. GroupTypes' /\ Symmetric(tg_next, tg_prev)' /\ Numbered'
      BY <2>1, <1>4 DEF GroupInv, GroupTypes, Symmetric, Numbers, Numbered
    <2>3. \A t \in TgTasks : tg_next[t] # n
      BY <1>3, ZenonT(30)
    <2>4. SameGroup'
      <3>1. ASSUME NEW t \in TgTasks, NEW u \in TgTasks, tg_next[t] = u
            PROVE  tg_tgid'[t] = tg_tgid'[u]
        <4>1. u # n /\ t # n
          BY <3>1, <1>3, ZenonT(30)
        <4>2. tg_tgid'[t] = tg_tgid[t] /\ tg_tgid'[u] = tg_tgid[u]
          BY <4>1, <1>4, ZenonT(30)
        <4> QED
          BY <3>1, <4>2, ZenonT(30) DEF GroupInv, SameGroup
      <3> QED
        BY <2>1, <3>1, ZenonT(30) DEF SameGroup
    <2>5. LeaderFirst' /\ OthersUnlinked'
      BY <2>1, <1>2, <1>3, <1>4, ZenonT(30) DEF GroupInv, LeaderFirst, OthersUnlinked
    <2>6. MembersBehind'
      <3>1. ASSUME NEW t \in TgTasks, tg_state'[t] \in {"cloning", "alive"}, tg_tgid'[t] # t,
                   tg_state'[tg_tgid'[t]] \in {"cloning", "alive"}
            PROVE  tg_prev[t] # NoThread
        <4>1. tg_state'[g] = "deleted"
          BY <1>2, <1>4, <1>8, ZenonT(30)
        <4>2. t # n
          BY <3>1, <4>1, <1>4, SMTT(30)
        <4> QED
          BY <3>1, <4>2, <1>7, ZenonT(30)
      <3> QED
        BY <3>1, <2>1, ZenonT(30) DEF MembersBehind
    <2> QED
      BY <2>2, <2>4, <2>5, <2>6, <1>6 DEF GroupInv
  <1>9. CASE tg_state[g] # "deleted"
    <2>1. JoinThreadGroup(n, g)
      BY <1>9 DEF CloneThread
    <2>2. /\ tg_next' \in Links /\ tg_prev' \in Links
          /\ Symmetric(tg_next', tg_prev')
          /\ tg_next'[n] = tg_next[g] /\ tg_next'[g] = n
          /\ \A t \in TgTasks \ {n, g} : tg_next'[t] = tg_next[t]
          /\ tg_prev'[n] = g
          /\ \A t \in TgTasks \ {n} : tg_prev'[t] = IF t = tg_next[g] THEN n ELSE tg_prev[t]
      BY <2>1, <1>2, <1>3, JoinLinks, ZenonT(30) DEF GroupInv
    <2>3. GroupTypes' /\ Symmetric(tg_next, tg_prev)'
      BY <2>2, <1>4 DEF GroupTypes, Symmetric
    <2>4. \A t \in TgTasks : tg_next[t] # n
      BY <1>3, ZenonT(30)
    <2>5. Numbered'
      <3>1. PICK r : Numbers(r, tg_next)
        BY DEF GroupInv, Numbered
      <3>2. tg_next \in Links
        BY DEF GroupInv, GroupTypes
      <3>3. PICK next, next2 : next = tg_next /\ next2 = tg_next'
        OBVIOUS
      <3>4. Numbers(r, next) /\ Inserted(next, next2, n, g)
        BY <3>1, <3>2, <3>3, <2>2, <2>4, <1>2, ZenonT(30) DEF Inserted
      <3>5. \E q : Numbers(q, next2)
        BY <3>4, <1>2, JoinNumbers, ZenonT(30)
      <3> QED
        BY <3>3, <3>5 DEF Numbers, Numbered
    <2>6. SameGroup'
      <3>1. ASSUME NEW t \in TgTasks, NEW u \in TgTasks, tg_next'[t] = u
            PROVE  tg_tgid'[t] = tg_tgid'[u]
        <4>1. CASE t = g
          BY <4>1, <3>1, <2>2, <1>2, <1>4, ZenonT(30)
        <4>2. CASE t = n
          <5>1. tg_next[g] = u /\ u # n
            BY <4>2, <3>1, <2>2, <2>4, <1>2, ZenonT(30)
          <5>2. tg_tgid[u] = g
            BY <5>1, <1>2, ZenonT(30) DEF GroupInv, SameGroup
          <5> QED
            BY <4>2, <5>1, <5>2, <1>4, ZenonT(30)
        <4>3. CASE t \notin {n, g}
          <5>1. tg_next[t] = u /\ u # n
            BY <4>3, <3>1, <2>2, <2>4, ZenonT(30)
          <5>2. tg_tgid[t] = tg_tgid[u]
            BY <5>1, ZenonT(30) DEF GroupInv, SameGroup
          <5> QED
            BY <4>3, <5>1, <5>2, <1>4, ZenonT(30)
        <4> QED
          BY <4>1, <4>2, <4>3, ZenonT(30)
      <3> QED
        BY <3>1, ZenonT(30) DEF SameGroup
    <2>7. ASSUME NEW t \in TgTasks \ {n}, tg_prev[t] = NoThread PROVE tg_prev'[t] = NoThread
      <3>1. t # tg_next[g]
        <4>1. tg_next[g] = t => tg_prev[t] = g
          BY <1>2, ZenonT(30) DEF GroupInv, Symmetric
        <4> QED
          BY <4>1, <2>7, <1>2, ZenonT(30)
      <3> QED
        BY <3>1, <2>7, <2>2, ZenonT(30)
    <2>8. OthersUnlinked'
      <3>1. ASSUME NEW t \in TgTasks,
                   tg_state'[t] \in {"none", "deleted"} \/ (tg_state'[t] = "exited" /\ tg_tgid'[t] # t)
            PROVE  tg_next'[t] = NoThread /\ tg_prev'[t] = NoThread
        <4>1. t # n
          BY <3>1, <1>4, SMTT(30)
        <4>2. tg_state[t] \in {"none", "deleted"} \/ (tg_state[t] = "exited" /\ tg_tgid[t] # t)
          BY <3>1, <4>1, <1>4, ZenonT(30)
        <4>3. t # g
          BY <4>2, <1>2, <1>9, ZenonT(30)
        <4>4. tg_next[t] = NoThread /\ tg_prev[t] = NoThread
          BY <4>2, ZenonT(30) DEF GroupInv, OthersUnlinked
        <4> QED
          BY <4>1, <4>3, <4>4, <2>2, <2>7, ZenonT(30)
      <3> QED
        BY <3>1, ZenonT(30) DEF OthersUnlinked
    <2>9. LeaderFirst'
      <3>1. ASSUME NEW t \in TgTasks, tg_tgid'[t] = t PROVE tg_prev'[t] = NoThread
        <4>1. t # n /\ tg_tgid[t] = t
          BY <3>1, <1>2, <1>4, ZenonT(30)
        <4>2. tg_prev[t] = NoThread
          BY <4>1, ZenonT(30) DEF GroupInv, LeaderFirst
        <4> QED
          BY <4>1, <4>2, <2>7, ZenonT(30)
      <3> QED
        BY <3>1, ZenonT(30) DEF LeaderFirst
    <2>10. MembersBehind'
      <3>1. \A t \in TgTasks : t = n \/ tg_prev[t] # NoThread => tg_prev'[t] # NoThread
        BY <2>2, <1>2, ZenonT(30)
      <3> QED
        BY <3>1, <1>7, ZenonT(30) DEF MembersBehind
    <2> QED
      BY <2>3, <2>5, <2>6, <2>8, <2>9, <2>10, <1>6 DEF GroupInv
  <1> QED
    BY <1>8, <1>9

\* Exit and the destructor.
LEMMA LeaveStep ==
  ASSUME GroupInv, NEW x \in TgTasks, tg_state[x] # "none", NEW st \in {"exited", "deleted"},
         tg_state' = [tg_state EXCEPT ![x] = st], LeaveThreadGroup(x), UNCHANGED tg_tgid
  PROVE  GroupInv'
  <1>1. /\ tg_next' \in Links /\ tg_prev' \in Links
        /\ Symmetric(tg_next', tg_prev')
        /\ tg_next'[x] = NoThread /\ tg_prev'[x] = NoThread
        /\ \A t \in TgTasks \ {x} :
             /\ tg_next'[t] = IF t = tg_prev[x] THEN tg_next[x] ELSE tg_next[t]
             /\ tg_prev'[t] = IF t = tg_next[x] THEN tg_prev[x] ELSE tg_prev[t]
    BY LeaveLinks, ZenonT(30) DEF GroupInv
  <1>2. /\ tg_state'[x] = st
        /\ \A t \in TgTasks \ {x} : tg_state'[t] = tg_state[t]
        /\ tg_state' \in [TgTasks -> {"none", "cloning", "alive", "exited", "deleted"}]
    BY SMTT(30) DEF GroupInv, GroupTypes
  <1>3. GroupTypes' /\ Symmetric(tg_next, tg_prev)'
    BY <1>1, <1>2 DEF GroupInv, GroupTypes, Symmetric
  <1>4. Led'
    <2>1. \A t \in TgTasks : tg_state'[t] # "none" <=> tg_state[t] # "none"
      BY <1>2, SMTT(30)
    <2> QED
      BY <2>1, ZenonT(30) DEF GroupInv, Led
  <1>5. \A t \in TgTasks : tg_next[x] = t <=> tg_prev[t] = x
    BY ZenonT(30) DEF GroupInv, Symmetric
  <1>6. \A t \in TgTasks : tg_next[t] = x <=> tg_prev[x] = t
    BY ZenonT(30) DEF GroupInv, Symmetric
  <1>7. Numbered'
    <2>1. PICK r : Numbers(r, tg_next)
      BY DEF GroupInv, Numbered
    <2>2. PICK a, next, next2 : a = tg_prev[x] /\ next = tg_next /\ next2 = tg_next'
      OBVIOUS
    <2>3. Numbers(r, next) /\ Removed(next, next2, a, x)
      BY <2>1, <2>2, <1>1, <1>6, ZenonT(30) DEF Removed
    <2>4. Numbers(r, next2)
      BY <2>3, LeaveNumbers, ZenonT(30)
    <2> QED
      BY <2>2, <2>4 DEF Numbers, Numbered
  <1>8. SameGroup'
    <2>1. ASSUME NEW t \in TgTasks, NEW u \in TgTasks, tg_next'[t] = u
          PROVE  tg_tgid[t] = tg_tgid[u]
      <3>1. t # x
        BY <2>1, <1>1, ZenonT(30)
      <3>2. CASE t = tg_prev[x]
        <4>1. tg_next[t] = x /\ tg_next[x] = u
          BY <3>1, <3>2, <2>1, <1>1, <1>6, ZenonT(30)
        <4> QED
          BY <4>1, ZenonT(30) DEF GroupInv, SameGroup
      <3>3. CASE t # tg_prev[x]
        <4>1. tg_next[t] = u
          BY <3>1, <3>3, <2>1, <1>1, ZenonT(30)
        <4> QED
          BY <4>1, ZenonT(30) DEF GroupInv, SameGroup
      <3> QED
        BY <3>2, <3>3
    <2> QED
      BY <2>1, ZenonT(30) DEF SameGroup
  <1>9. ASSUME NEW t \in TgTasks, tg_prev[t] = NoThread PROVE tg_prev'[t] = NoThread
    <2>1. t # tg_next[x]
      BY <1>9, <1>5, ZenonT(30)
    <2> QED
      BY <2>1, <1>9, <1>1, ZenonT(30)
  <1>10. OthersUnlinked'
    <2>1. ASSUME NEW t \in TgTasks \ {x},
                 tg_state[t] \in {"none", "deleted"} \/ (tg_state[t] = "exited" /\ tg_tgid[t] # t)
          PROVE  tg_next'[t] = NoThread /\ tg_prev'[t] = NoThread
      <3>1. tg_next[t] = NoThread /\ tg_prev[t] = NoThread
        BY <2>1, ZenonT(30) DEF GroupInv, OthersUnlinked
      <3>2. t # tg_prev[x]
        BY <3>1, <1>6, ZenonT(30)
      <3> QED
        BY <3>1, <3>2, <1>1, <1>9, ZenonT(30)
    <2> QED
      BY <2>1, <1>1, <1>2, ZenonT(30) DEF OthersUnlinked
  <1>11. LeaderFirst'
    BY <1>9, ZenonT(30) DEF GroupInv, LeaderFirst
  <1>12. MembersBehind'
    <2>1. ASSUME NEW t \in TgTasks, tg_state'[t] \in {"cloning", "alive"}, tg_tgid[t] # t,
                 tg_state'[tg_tgid[t]] \in {"cloning", "alive"}
          PROVE  tg_prev'[t] # NoThread
      <3>1. tg_state'[x] \notin {"cloning", "alive"}
        BY <1>2, SMTT(30)
      <3>2. t # x /\ tg_tgid[t] # x
        BY <3>1, <2>1, ZenonT(30)
      <3>3. tg_state[t] \in {"cloning", "alive"}
        BY <3>2, <2>1, <1>2, ZenonT(30)
      <3>4. tg_state[t] # "none"
        BY <3>3, SMTT(30)
      <3>5. tg_tgid[t] \in TgTasks \ {x}
        BY <3>2, <3>4, ZenonT(30) DEF GroupInv, Led
      <3>6. tg_state[tg_tgid[t]] \in {"cloning", "alive"}
        BY <3>5, <2>1, <1>2, ZenonT(30)
      <3>7. tg_prev[t] # NoThread
        BY <3>3, <3>6, <2>1, ZenonT(30) DEF GroupInv, MembersBehind
      <3>8. CASE t = tg_next[x]
        <4>1. tg_tgid[x] = tg_tgid[t]
          BY <3>8, ZenonT(30) DEF GroupInv, SameGroup
        <4>2. tg_tgid[x] # x
          BY <4>1, <3>2, ZenonT(30)
        <4>3. tg_next[x] # NoThread
          BY <3>8, ZenonT(30)
        <4>4. tg_state[x] \notin {"none", "deleted"} /\ tg_state[x] # "exited"
          BY <4>2, <4>3, ZenonT(30) DEF GroupInv, OthersUnlinked
        <4>5. tg_state[x] \in {"none", "cloning", "alive", "exited", "deleted"}
          BY ZenonT(30) DEF GroupInv, GroupTypes
        <4>6. tg_state[x] \in {"cloning", "alive"}
          BY <4>4, <4>5, ZenonT(30)
        <4>7. tg_prev[x] # NoThread
          BY <4>1, <4>2, <4>6, <3>6, ZenonT(30) DEF GroupInv, MembersBehind
        <4> QED
          BY <4>7, <3>2, <3>8, <1>1, ZenonT(30)
      <3>9. CASE t # tg_next[x]
        BY <3>9, <3>7, <3>2, <1>1, ZenonT(30)
      <3> QED
        BY <3>8, <3>9
    <2> QED
      BY <2>1, ZenonT(30) DEF MembersBehind
  <1> QED
    BY <1>3, <1>4, <1>7, <1>8, <1>10, <1>11, <1>12 DEF GroupInv

LEMMA GroupStep == GroupInv /\ [GroupNext]_tg_vars => GroupInv'
  <1> SUFFICES ASSUME GroupInv, [GroupNext]_tg_vars PROVE GroupInv'
    OBVIOUS
  <1>1. ASSUME NEW t \in TgTasks, NewProcess(t) PROVE GroupInv'
    <2>1. /\ tg_state[t] = "none"
          /\ tg_state' = [tg_state EXCEPT ![t] = "cloning"]
          /\ tg_tgid' = [tg_tgid EXCEPT ![t] = t]
          /\ UNCHANGED <<tg_next, tg_prev>>
      BY <1>1 DEF NewProcess
    <2>2. /\ tg_state'[t] = "cloning" /\ tg_tgid'[t] = t
          /\ \A u \in TgTasks \ {t} : tg_state'[u] = tg_state[u] /\ tg_tgid'[u] = tg_tgid[u]
          /\ GroupTypes'
      BY <2>1, SMTT(30) DEF GroupInv, GroupTypes, Links
    <2>3. Symmetric(tg_next, tg_prev)' /\ Numbered'
      BY <2>1 DEF GroupInv, Symmetric, Numbers, Numbered
    <2>4. \A u \in TgTasks : tg_state[u] # "none" => tg_tgid[u] # t
      BY <2>1, ZenonT(30) DEF GroupInv, Led
    <2>5. Led'
      <3>1. ASSUME NEW u \in TgTasks \ {t}, tg_state[u] # "none"
            PROVE  /\ tg_tgid[u] \in TgTasks \ {t} /\ tg_tgid'[tg_tgid[u]] = tg_tgid[u]
                   /\ tg_state'[tg_tgid[u]] # "none"
        BY <3>1, <2>2, <2>4, ZenonT(30) DEF GroupInv, Led
      <3>2. tg_state'[t] # "none"
        BY <2>2, SMTT(30)
      <3> QED
        BY <3>1, <3>2, <2>2, ZenonT(30) DEF Led
    <2>6. tg_next[t] = NoThread /\ tg_prev[t] = NoThread
      BY <2>1, ZenonT(30) DEF GroupInv, OthersUnlinked
    <2>7. \A u \in TgTasks : tg_next[u] # t
      BY <2>6, ZenonT(30) DEF GroupInv, Symmetric
    <2>8. SameGroup'
      <3>1. ASSUME NEW u \in TgTasks, NEW v \in TgTasks, tg_next[u] = v
            PROVE  tg_tgid'[u] = tg_tgid'[v]
        <4>1. u # t /\ v # t
          BY <3>1, <2>6, <2>7, ZenonT(30)
        <4>2. tg_tgid'[u] = tg_tgid[u] /\ tg_tgid'[v] = tg_tgid[v]
          BY <4>1, <2>2, ZenonT(30)
        <4> QED
          BY <3>1, <4>2, ZenonT(30) DEF GroupInv, SameGroup
      <3> QED
        BY <2>1, <3>1, ZenonT(30) DEF SameGroup
    <2>9. LeaderFirst' /\ OthersUnlinked'
      BY <2>1, <2>2, <2>6, ZenonT(30) DEF GroupInv, LeaderFirst, OthersUnlinked
    <2>10. MembersBehind'
      <3>1. ASSUME NEW u \in TgTasks, tg_state'[u] \in {"cloning", "alive"}, tg_tgid'[u] # u,
                   tg_state'[tg_tgid'[u]] \in {"cloning", "alive"}
            PROVE  tg_prev[u] # NoThread
        <4>1. u # t
          BY <3>1, <2>2, ZenonT(30)
        <4>2. tg_state[u] \in {"cloning", "alive"} /\ tg_tgid[u] # u /\ tg_tgid'[u] = tg_tgid[u]
          BY <3>1, <4>1, <2>2, ZenonT(30)
        <4>3. tg_state[u] # "none"
          BY <4>2, SMTT(30)
        <4>4. tg_tgid[u] \in TgTasks \ {t}
          BY <4>3, <2>4, ZenonT(30) DEF GroupInv, Led
        <4>5. tg_state[tg_tgid[u]] \in {"cloning", "alive"}
          BY <4>2, <4>4, <3>1, <2>2, ZenonT(30)
        <4> QED
          BY <4>2, <4>5, ZenonT(30) DEF GroupInv, MembersBehind
      <3> QED
        BY <3>1, <2>1, ZenonT(30) DEF MembersBehind
    <2> QED
      BY <2>2, <2>3, <2>5, <2>8, <2>9, <2>10 DEF GroupInv
  <1>2. ASSUME NEW t \in TgTasks, Started(t) PROVE GroupInv'
    <2>1. /\ tg_state[t] = "cloning"
          /\ tg_state' = [tg_state EXCEPT ![t] = "alive"]
          /\ UNCHANGED <<tg_next, tg_prev, tg_tgid>>
      BY <1>2 DEF Started
    <2>2. GroupTypes'
      BY <2>1, SMTT(30) DEF GroupInv, GroupTypes, Links
    <2>3. Symmetric(tg_next, tg_prev)' /\ Numbered' /\ SameGroup' /\ LeaderFirst'
      BY <2>1 DEF GroupInv, Symmetric, Numbers, Numbered, SameGroup, LeaderFirst
    <2>4. ASSUME NEW u \in TgTasks
          PROVE  /\ (tg_state'[u] # "none") <=> (tg_state[u] # "none")
                 /\ (tg_state'[u] \in {"cloning", "alive"}) <=>
                      (tg_state[u] \in {"cloning", "alive"})
                 /\ (tg_state'[u] = "deleted") <=> (tg_state[u] = "deleted")
                 /\ (tg_state'[u] = "exited") <=> (tg_state[u] = "exited")
      <3>1. tg_state \in [TgTasks -> {"none", "cloning", "alive", "exited", "deleted"}]
        BY DEF GroupInv, GroupTypes
      <3> QED
        BY <2>1, <3>1, SMTT(30)
    <2>5. Led'
      BY <2>1, <2>4, ZenonT(30) DEF GroupInv, Led
    <2>6. OthersUnlinked'
      BY <2>1, <2>4, ZenonT(30) DEF GroupInv, OthersUnlinked
    <2>7. MembersBehind'
      <3>1. ASSUME NEW u \in TgTasks, tg_state'[u] \in {"cloning", "alive"}, tg_tgid[u] # u,
                   tg_state'[tg_tgid[u]] \in {"cloning", "alive"}
            PROVE  tg_prev[u] # NoThread
        <4>1. tg_state[u] \in {"cloning", "alive"}
          BY <3>1, <2>4, ZenonT(30)
        <4>2. tg_state[u] # "none"
          BY <4>1, SMTT(30)
        <4>3. tg_state[tg_tgid[u]] \in {"cloning", "alive"}
          BY <4>2, <3>1, <2>4, ZenonT(30) DEF GroupInv, Led
        <4> QED
          BY <4>1, <4>3, <3>1, ZenonT(30) DEF GroupInv, MembersBehind
      <3> QED
        BY <3>1, <2>1, ZenonT(30) DEF MembersBehind
    <2> QED
      BY <2>2, <2>3, <2>5, <2>6, <2>7 DEF GroupInv
  <1>3. ASSUME NEW t \in TgTasks, Exit(t) PROVE GroupInv'
    BY <1>3, LeaveStep, ZenonT(30) DEF Exit
  <1>4. ASSUME NEW t \in TgTasks, Delete(t) PROVE GroupInv'
    <2>1. tg_state[t] # "none"
      BY <1>4, SMTT(30) DEF Delete
    <2> QED
      BY <1>4, <2>1, LeaveStep, ZenonT(30) DEF Delete
  <1>5. CASE UNCHANGED tg_vars
    <2>1. UNCHANGED <<tg_next, tg_prev, tg_tgid, tg_state>>
      BY <1>5 DEF tg_vars
    <2>2. GroupTypes' /\ Symmetric(tg_next, tg_prev)' /\ Numbered' /\ Led'
      BY <2>1 DEF GroupInv, GroupTypes, Symmetric, Numbers, Numbered, Led
    <2>3. SameGroup' /\ LeaderFirst' /\ OthersUnlinked' /\ MembersBehind'
      BY <2>1 DEF GroupInv, SameGroup, LeaderFirst, OthersUnlinked, MembersBehind
    <2> QED
      BY <2>2, <2>3 DEF GroupInv
  <1> QED
    BY <1>1, <1>2, <1>3, <1>4, <1>5, CloneStep, ZenonT(30) DEF GroupNext

-----------------------------------------------------------------------------
\* The walk visits the link of t and of every task it visits.
LEMMA FollowClosed ==
  ASSUME NEW link \in Links, NEW t \in TgTasks
  PROVE  Closed(link, t, Follow(link, t)) /\ Follow(link, t) \subseteq TgTasks
  <1>1. ASSUME NEW u \in Follow(link, t) \union {t}, link[u] # NoThread
        PROVE  link[u] \in Follow(link, t)
    <2>1. u \in TgTasks /\ link[u] \in TgTasks
      BY <1>1, ZenonT(30) DEF Links, Follow
    <2>2. ASSUME NEW S \in SUBSET TgTasks, Closed(link, t, S) PROVE link[u] \in S
      <3>1. u \in S \union {t}
        BY <1>1, <2>2, ZenonT(30) DEF Follow
      <3> QED
        BY <3>1, <2>2, <1>1, ZenonT(30) DEF Closed
    <2> QED
      BY <2>1, <2>2, ZenonT(30) DEF Follow
  <1> QED
    BY <1>1, ZenonT(30) DEF Closed, Follow

LEMMA FollowLeast ==
  ASSUME NEW link, NEW t, NEW S \in SUBSET TgTasks, Closed(link, t, S)
  PROVE  Follow(link, t) \subseteq S
  BY ZenonT(30) DEF Follow

\* Along next the numbers grow, along prev they shrink.
LEMMA FollowNumbers ==
  ASSUME GroupInv, NEW r, Numbers(r, tg_next), NEW t \in TgTasks
  PROVE  /\ \A u \in Follow(tg_next, t) : r[t] < r[u]
         /\ \A u \in Follow(tg_prev, t) : r[u] < r[t]
  <1>1. PICK up, down : /\ up = {u \in TgTasks : r[t] < r[u]}
                        /\ down = {u \in TgTasks : r[u] < r[t]}
    OBVIOUS
  <1>2. \A u \in TgTasks : /\ tg_next[u] \in TgTasks \union {NoThread}
                            /\ tg_prev[u] \in TgTasks \union {NoThread}
    BY ZenonT(30) DEF GroupInv, GroupTypes, Links
  <1>3. \A u \in TgTasks : r[u] \in Nat
    BY ZenonT(30) DEF Numbers
  <1>4. ASSUME NEW u \in TgTasks, NEW v \in TgTasks, NEW w \in TgTasks,
               r[u] < r[v], v = w \/ r[v] < r[w]
        PROVE  r[u] < r[w]
    <2>1. r[u] \in Nat /\ r[v] \in Nat /\ r[w] \in Nat
      BY <1>3, ZenonT(30)
    <2> QED
      BY <1>4, <2>1, SMTT(30)
  <1>5. Closed(tg_next, t, up)
    <2>1. ASSUME NEW u \in up \union {t}, tg_next[u] # NoThread PROVE tg_next[u] \in up
      <3>1. u \in TgTasks /\ (t = u \/ r[t] < r[u])
        BY <1>1, ZenonT(30)
      <3>2. tg_next[u] \in TgTasks
        BY <3>1, <2>1, <1>2, ZenonT(30)
      <3>3. r[u] < r[tg_next[u]]
        BY <3>1, <3>2, ZenonT(30) DEF Numbers
      <3>4. r[t] < r[tg_next[u]]
        BY <3>1, <3>2, <3>3, <1>4, ZenonT(30)
      <3> QED
        BY <3>2, <3>4, <1>1, ZenonT(30)
    <2> QED
      BY <2>1, ZenonT(30) DEF Closed
  <1>6. Closed(tg_prev, t, down)
    <2>1. ASSUME NEW u \in down \union {t}, tg_prev[u] # NoThread PROVE tg_prev[u] \in down
      <3>1. u \in TgTasks /\ (u = t \/ r[u] < r[t])
        BY <1>1, ZenonT(30)
      <3>2. tg_prev[u] \in TgTasks
        BY <3>1, <2>1, <1>2, ZenonT(30)
      <3>3. tg_next[tg_prev[u]] = u
        BY <3>1, <3>2, ZenonT(30) DEF GroupInv, Symmetric
      <3>4. r[tg_prev[u]] < r[u]
        BY <3>1, <3>2, <3>3, ZenonT(30) DEF Numbers
      <3>5. r[tg_prev[u]] < r[t]
        BY <3>1, <3>2, <3>4, <1>4, ZenonT(30)
      <3> QED
        BY <3>2, <3>5, <1>1, ZenonT(30)
    <2> QED
      BY <2>1, ZenonT(30) DEF Closed
  <1>7. up \in SUBSET TgTasks /\ down \in SUBSET TgTasks
    BY <1>1, ZenonT(30)
  <1>8. Follow(tg_next, t) \subseteq up /\ Follow(tg_prev, t) \subseteq down
    BY <1>5, <1>6, <1>7, FollowLeast, ZenonT(30)
  <1> QED
    BY <1>1, <1>8, ZenonT(30)

\* A set of tasks that is not empty has a member with the least number.
LEMMA FirstTask ==
  ASSUME NEW r \in [TgTasks -> Nat], NEW S \in SUBSET TgTasks, S # {}
  PROVE  \E x \in S : \A y \in S : ~(r[y] < r[x])
  <1>1. PICK N : N = {r[t] : t \in S}
    OBVIOUS
  <1>2. N \subseteq Nat /\ N # {}
    BY <1>1, ZenonT(30)
  <1>3. PICK k \in N : \A j \in N : k <= j
    BY <1>2, LeastNumber, ZenonT(30)
  <1>4. PICK x \in S : k = r[x]
    BY <1>1, <1>3, ZenonT(30)
  <1>5. \A y \in S : r[x] <= r[y]
    BY <1>1, <1>3, <1>4, ZenonT(30)
  <1> QED
    BY <1>4, <1>5, SMTT(30)

\* While the leader lives, the links of a member lead to members.
LEMMA MembersClosed ==
  ASSUME GroupInv, NEW g \in TgTasks, tg_state[g] = "alive", tg_tgid[g] = g,
         NEW u \in Members(g)
  PROVE  /\ tg_next[u] \in Members(g) \union {NoThread}
         /\ tg_prev[u] \in Members(g) \union {NoThread}
         /\ u # g => tg_prev[u] # NoThread
  <1>1. u \in TgTasks /\ tg_tgid[u] = g /\ tg_state[u] \in {"cloning", "alive"}
    BY ZenonT(30) DEF Members
  <1>2. ASSUME NEW v \in TgTasks, tg_next[u] = v \/ tg_prev[u] = v PROVE v \in Members(g)
    <2>1. tg_next[u] = v \/ tg_next[v] = u
      BY <1>1, <1>2, ZenonT(30) DEF GroupInv, Symmetric
    <2>2. tg_tgid[v] = g
      BY <2>1, <1>1, ZenonT(30) DEF GroupInv, SameGroup
    <2>3. tg_next[v] # NoThread \/ tg_prev[v] # NoThread
      <3>1. tg_prev[v] = u \/ tg_next[v] = u
        BY <2>1, <1>1, ZenonT(30) DEF GroupInv, Symmetric
      <3>2. u # NoThread
        BY <1>1, ZenonT(30)
      <3> QED
        BY <3>1, <3>2, ZenonT(30)
    <2>4. /\ tg_state[v] \notin {"none", "deleted"}
          /\ ~(tg_state[v] = "exited" /\ tg_tgid[v] # v)
      BY <2>3, ZenonT(30) DEF GroupInv, OthersUnlinked
    <2>5. tg_state[v] \in {"none", "cloning", "alive", "exited", "deleted"}
      BY ZenonT(30) DEF GroupInv, GroupTypes
    <2>6. v = g \/ tg_state[v] \in {"cloning", "alive"}
      BY <2>2, <2>4, <2>5, ZenonT(30)
    <2> QED
      BY <2>2, <2>6, ZenonT(30) DEF Members
  <1>3. tg_next[u] \in TgTasks \union {NoThread} /\ tg_prev[u] \in TgTasks \union {NoThread}
    BY <1>1, ZenonT(30) DEF GroupInv, GroupTypes, Links
  <1>4. u # g => tg_prev[u] # NoThread
    BY <1>1, ZenonT(30) DEF GroupInv, MembersBehind
  <1> QED
    BY <1>2, <1>3, <1>4, ZenonT(30)

\* Backwards from t, t and the leader are the ends of the walk.
LEMMA BackToLeader ==
  ASSUME GroupInv, NEW g \in TgTasks, tg_state[g] = "alive", tg_tgid[g] = g,
         NEW t \in Members(g), NEW P, P = Follow(tg_prev, t)
  PROVE  /\ P \subseteq Members(g) /\ g \in P \union {t}
         /\ \A x \in P : tg_next[x] \in P \union {t}
  <1>1. t \in TgTasks /\ Members(g) \in SUBSET TgTasks
    BY ZenonT(30) DEF Members
  <1>2. tg_prev \in Links
    BY DEF GroupInv, GroupTypes
  <1>3. P \in SUBSET TgTasks /\ \A x \in P \union {t} : tg_prev[x] \in P \union {NoThread}
    BY <1>1, <1>2, FollowClosed, ZenonT(30) DEF Closed
  <1>4. Closed(tg_prev, t, Members(g))
    BY MembersClosed, ZenonT(30) DEF Closed
  <1>5. P \subseteq Members(g)
    BY <1>1, <1>4, FollowLeast, ZenonT(30)
  <1>6. g \in P \union {t}
    <2>1. PICK r : Numbers(r, tg_next)
      BY DEF GroupInv, Numbered
    <2>2. r \in [TgTasks -> Nat] /\ P \union {t} \in SUBSET TgTasks /\ P \union {t} # {}
      BY <2>1, <1>1, <1>3, ZenonT(30) DEF Numbers
    <2>3. PICK x \in P \union {t} : \A y \in P \union {t} : ~(r[y] < r[x])
      BY <2>2, FirstTask, ZenonT(30)
    <2>4. CASE x # g
      <3>1. x \in TgTasks /\ tg_prev[x] # NoThread
        BY <2>4, <1>1, <1>5, MembersClosed, ZenonT(30)
      <3>2. tg_prev[x] \in P
        BY <3>1, <1>3, ZenonT(30)
      <3>3. tg_next[tg_prev[x]] = x
        BY <3>1, <3>2, <1>3, ZenonT(30) DEF GroupInv, Symmetric
      <3>4. r[tg_prev[x]] < r[x]
        BY <3>1, <3>2, <3>3, <1>3, <2>1, ZenonT(30) DEF Numbers
      <3> QED
        BY <3>2, <3>4, <2>3, ZenonT(30)
    <2> QED
      BY <2>4, ZenonT(30)
  <1>7. PICK S : S = {x \in P : tg_next[x] \in P \union {t}}
    OBVIOUS
  <1>8. Closed(tg_prev, t, S) /\ S \in SUBSET TgTasks
    <2>1. ASSUME NEW y \in S \union {t}, tg_prev[y] # NoThread PROVE tg_prev[y] \in S
      <3>1. y \in P \union {t} /\ y \in TgTasks
        BY <1>1, <1>3, <1>7, ZenonT(30)
      <3>2. tg_prev[y] \in P
        BY <3>1, <2>1, <1>3, ZenonT(30)
      <3>3. tg_next[tg_prev[y]] = y
        BY <3>1, <3>2, <1>3, ZenonT(30) DEF GroupInv, Symmetric
      <3> QED
        BY <3>1, <3>2, <3>3, <1>7, ZenonT(30)
    <2> QED
      BY <2>1, <1>3, <1>7, ZenonT(30) DEF Closed
  <1>9. P \subseteq S
    BY <1>8, FollowLeast, ZenonT(30)
  <1> QED
    BY <1>5, <1>6, <1>7, <1>9, ZenonT(30)

\* P and Q are the other members of the group of g, each in one of the two.
Halves(g, t, P, Q) ==
  Members(g) = {t} \union P \union Q /\ t \notin P /\ t \notin Q /\ P \cap Q = {}

\* The two walks from a member visit all others, each once.
LEMMA WalksCover ==
  ASSUME GroupInv, NEW g \in TgTasks, tg_state[g] = "alive", tg_tgid[g] = g,
         NEW t \in Members(g), NEW P, P = Follow(tg_prev, t), NEW Q, Q = Follow(tg_next, t)
  PROVE  Halves(g, t, P, Q)
  <1>1. t \in TgTasks /\ Members(g) \in SUBSET TgTasks
    BY ZenonT(30) DEF Members
  <1>2. PICK r : Numbers(r, tg_next)
    BY DEF GroupInv, Numbered
  <1>3. (\A u \in Q : r[t] < r[u]) /\ (\A u \in P : r[u] < r[t])
    BY <1>1, <1>2, FollowNumbers, ZenonT(30)
  <1>4. tg_next \in Links
    BY DEF GroupInv, GroupTypes
  <1>5. Q \in SUBSET TgTasks /\ \A x \in Q \union {t} : tg_next[x] \in Q \union {NoThread}
    BY <1>1, <1>4, FollowClosed, ZenonT(30) DEF Closed
  <1>6. /\ P \subseteq Members(g) /\ g \in P \union {t}
        /\ \A x \in P : tg_next[x] \in P \union {t}
    BY BackToLeader, ZenonT(30)
  <1>7. Q \subseteq Members(g)
    <2>1. Closed(tg_next, t, Members(g))
      BY MembersClosed, ZenonT(30) DEF Closed
    <2> QED
      BY <2>1, <1>1, FollowLeast, ZenonT(30)
  <1>8. t \notin P /\ t \notin Q /\ P \cap Q = {}
    <2>1. r \in [TgTasks -> Nat]
      BY <1>2 DEF Numbers
    <2>2. \A u, v \in TgTasks : r[u] < r[v] => u # v /\ ~(r[v] < r[u])
      <3>1. ASSUME NEW u \in TgTasks, NEW v \in TgTasks, r[u] < r[v]
            PROVE  u # v /\ ~(r[v] < r[u])
        <4>1. r[u] \in Nat /\ r[v] \in Nat
          BY <2>1, ZenonT(30)
        <4> QED
          BY <3>1, <4>1, SMTT(30)
      <3> QED
        BY <3>1, ZenonT(30)
    <2> QED
      BY <2>2, <1>1, <1>3, <1>5, ZenonT(30)
  <1>9. Members(g) \subseteq {t} \union P \union Q
    <2>1. PICK A : A = Members(g) \ ({t} \union P \union Q)
      OBVIOUS
    <2>2. CASE A # {}
      <3>1. r \in [TgTasks -> Nat] /\ A \in SUBSET TgTasks
        BY <1>1, <1>2, <2>1, ZenonT(30) DEF Numbers
      <3>2. PICK w \in A : \A y \in A : ~(r[y] < r[w])
        BY <3>1, <2>2, FirstTask, ZenonT(30)
      <3>3. w \in Members(g) /\ w \notin P /\ w \notin Q /\ w # t /\ w # g /\ w \in TgTasks
        BY <3>2, <2>1, <1>1, <1>6, ZenonT(30)
      <3>4. PICK x : x = tg_prev[w]
        OBVIOUS
      <3>5. x \in Members(g) /\ x \in TgTasks
        BY <3>3, <3>4, <1>1, MembersClosed, ZenonT(30)
      <3>6. tg_next[x] = w
        BY <3>3, <3>4, <3>5, ZenonT(30) DEF GroupInv, Symmetric
      <3>7. r[x] < r[w]
        BY <3>3, <3>5, <3>6, <1>2, ZenonT(30) DEF Numbers
      <3>8. x = t \/ x \in P \/ x \in Q
        BY <3>2, <3>5, <3>7, <2>1, ZenonT(30)
      <3>9. w # NoThread
        BY <3>3, ZenonT(30)
      <3> QED
        BY <3>3, <3>6, <3>8, <3>9, <1>5, <1>6, ZenonT(30)
    <2> QED
      BY <2>1, <2>2, ZenonT(30)
  <1> QED
    BY <1>6, <1>7, <1>8, <1>9, ZenonT(30) DEF Halves

LEMMA ThreeParts ==
  ASSUME NEW g, NEW t, NEW P, NEW Q, Halves(g, t, P, Q)
  PROVE  1 + Cardinality(P) + Cardinality(Q) = Cardinality(Members(g))
  <1> PICK M : M = Members(g)
    OBVIOUS
  <1>1. /\ M = {t} \union P \union Q /\ t \notin P /\ t \notin Q /\ P \cap Q = {}
        /\ P \in SUBSET TgTasks /\ Q \in SUBSET TgTasks
    <2>1. M = {t} \union P \union Q /\ t \notin P /\ t \notin Q /\ P \cap Q = {}
      BY DEF Halves
    <2>2. M \in SUBSET TgTasks
      BY ZenonT(30) DEF Members
    <2> QED
      BY <2>1, <2>2, ZenonT(30)
  <1>2. IsFiniteSet(P) /\ IsFiniteSet(Q)
    BY <1>1, FS_Subset, ZenonT(30)
  <1>3. Cardinality(P) \in Nat /\ Cardinality(Q) \in Nat
    BY <1>2, FS_CardinalityType, ZenonT(30)
  <1>4. /\ IsFiniteSet(P \union Q)
        /\ Cardinality(P \union Q) = Cardinality(P) + Cardinality(Q) - Cardinality({})
    BY <1>1, <1>2, FS_Union, ZenonT(30)
  <1>5. Cardinality(P \union Q) = Cardinality(P) + Cardinality(Q)
    BY <1>3, <1>4, FS_EmptySet, SMTT(30)
  <1>6. Cardinality((P \union Q) \union {t}) = Cardinality(P \union Q) + 1
    BY <1>1, <1>4, FS_AddElement, ZenonT(30)
  <1>7. M = (P \union Q) \union {t}
    BY <1>1, ZenonT(30)
  <1>8. Cardinality(M) = Cardinality(P) + Cardinality(Q) + 1
    BY <1>5, <1>6, <1>7, ZenonT(30)
  <1>9. PICK p, q, m : p = Cardinality(P) /\ q = Cardinality(Q) /\ m = Cardinality(M)
    OBVIOUS
  <1>10. p \in Nat /\ q \in Nat /\ m = p + q + 1
    BY <1>3, <1>8, <1>9, ZenonT(30)
  <1>11. 1 + p + q = m
    BY <1>10, SMTT(30)
  <1> QED
    BY <1>9, <1>11, ZenonT(30)

LEMMA GroupFacts == GroupInv => GroupsConsistent
  <1> SUFFICES ASSUME GroupInv PROVE GroupsConsistent
    OBVIOUS
  <1>1. PICK r : Numbers(r, tg_next)
    BY DEF GroupInv, Numbered
  <1>2. ASSUME NEW t \in TgTasks
        PROVE  t \notin Follow(tg_next, t) /\ t \notin Follow(tg_prev, t)
    <2>1. /\ \A u \in Follow(tg_next, t) : r[t] < r[u]
          /\ \A u \in Follow(tg_prev, t) : r[u] < r[t]
      BY <1>1, FollowNumbers, ZenonT(30)
    <2>2. r[t] \in Nat
      BY <1>1, ZenonT(30) DEF Numbers
    <2>3. ~(r[t] < r[t])
      BY <2>2, SMTT(30)
    <2> QED
      BY <2>1, <2>3, ZenonT(30)
  <1>3. ASSUME NEW t \in TgTasks, NEW u \in TgTasks
        PROVE  /\ tg_next[t] = u <=> tg_prev[u] = t
               /\ tg_next[t] = u => tg_tgid[t] = tg_tgid[u] /\ "deleted" \notin {tg_state[t], tg_state[u]}
    <2>1. tg_next[t] = u <=> tg_prev[u] = t
      BY ZenonT(30) DEF GroupInv, Symmetric
    <2>2. tg_next[t] = u => tg_tgid[t] = tg_tgid[u]
      BY ZenonT(30) DEF GroupInv, SameGroup
    <2>3. tg_next[t] = u => tg_next[t] # NoThread /\ tg_prev[u] # NoThread
      BY <2>1, ZenonT(30)
    <2>4. /\ tg_state[t] = "deleted" => tg_next[t] = NoThread
          /\ tg_state[u] = "deleted" => tg_prev[u] = NoThread
      BY ZenonT(30) DEF GroupInv, OthersUnlinked
    <2> QED
      BY <2>1, <2>2, <2>3, <2>4, ZenonT(30)
  <1>4. LinksConsistent
    BY <1>2, <1>3, ZenonT(30) DEF LinksConsistent
  <1>5. ASSUME NEW g \in TgTasks, tg_state[g] = "alive", tg_tgid[g] = g, NEW t \in Members(g)
        PROVE  GetThreadGroupSize(t) = Cardinality(Members(g))
    <2>1. PICK P, Q : P = Follow(tg_prev, t) /\ Q = Follow(tg_next, t)
      OBVIOUS
    <2>2. Halves(g, t, P, Q)
      BY <2>1, <1>5, WalksCover, ZenonT(30)
    <2>3. Members(g) \in SUBSET TgTasks /\ tg_tgid[t] # NoThread
      <3>1. tg_tgid[t] = g /\ g # NoThread
        BY ZenonT(30) DEF Members
      <3> QED
        BY <3>1, ZenonT(30) DEF Members
    <2>4. 1 + Cardinality(P) + Cardinality(Q) = Cardinality(Members(g))
      BY <2>2, ThreeParts, SMTT(30)
    <2> QED
      BY <2>1, <2>3, <2>4, ZenonT(30) DEF GetThreadGroupSize
  <1> QED
    BY <1>4, <1>5, ZenonT(30) DEF GroupsConsistent, GroupSizeExact

\* JoinThreadGroup, LeaveThreadGroup and the destructor keep the lists of all groups
\* well formed, and GetThreadGroupSize is exact while the leader lives, for any finite
\* set of tasks.
THEOREM GroupsSafe == GroupSpec => []GroupsConsistent
  <1>1. GroupInv => GroupsConsistent
    BY GroupFacts
  <1> QED
    BY <1>1, GroupStart, GroupStep, PTL DEF GroupSpec
=============================================================================
