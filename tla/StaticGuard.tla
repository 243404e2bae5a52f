---------------------------- MODULE StaticGuard -----------------------------
(***************************************************************************)
(* Function-local statics (Singleton<T>::GetInstance and others): the      *)
(* guard protocol of src/src/libcxx/nk_libcxx.cpp with the code the        *)
(* compiler puts around it, as its comment gives it: a fast check of the   *)
(* first byte, __cxa_guard_acquire, the initialiser, release.  The names   *)
(* guard_acquire, ... below stand for __cxa_guard_acquire, ...             *)
(***************************************************************************)
EXTENDS Naturals

CONSTANT GuardUsers   \* tasks and cores that reach the declaration

VARIABLES
  sg_guard,  \* GuardType::guard
  sg_pc,     \* sg_pc[u]
  sg_object  \* "raw", "partial" (being constructed) or "ready"

sg_vars == <<sg_guard, sg_pc, sg_object>>

kInitializedMask == 1
kInUseMask == 256

GuardInit ==
  /\ sg_guard = 0
  /\ sg_pc = [u \in GuardUsers |-> "check"]
  /\ sg_object = "raw"

GuardGoto(u, from, to) == sg_pc[u] = from /\ sg_pc' = [sg_pc EXCEPT ![u] = to]

\* The first byte of the guard.
Check(u) ==
  /\ GuardGoto(u, "check", IF sg_guard % 256 = 0 THEN "acquire" ELSE "use")
  /\ UNCHANGED <<sg_guard, sg_object>>

\* Mutant: any set bit is taken for "initialised".
acquireEager(u) ==
  \/ /\ sg_guard = 0 /\ sg_guard' = kInUseMask
     /\ GuardGoto(u, "acquire", "construct") /\ UNCHANGED sg_object
  \/ /\ sg_guard # 0
     /\ GuardGoto(u, "acquire", "use") /\ UNCHANGED <<sg_guard, sg_object>>

\* Mutant: the exchange is a load and a store.
acquireBlind(u) ==
  \/ /\ sg_guard % 256 # kInitializedMask /\ sg_guard' = kInUseMask
     /\ GuardGoto(u, "acquire", "construct") /\ UNCHANGED sg_object
  \/ /\ sg_guard % 256 = kInitializedMask
     /\ GuardGoto(u, "acquire", "use") /\ UNCHANGED <<sg_guard, sg_object>>

\* One round of __cxa_guard_acquire.  A failed exchange that saw 0 or kInUseMask
\* leads to another round.
guard_acquire(u) ==
  \/ /\ sg_guard = 0 /\ sg_guard' = kInUseMask
     /\ GuardGoto(u, "acquire", "construct") /\ UNCHANGED sg_object
  \/ /\ sg_guard % 2 = kInitializedMask
     /\ GuardGoto(u, "acquire", "use") /\ UNCHANGED <<sg_guard, sg_object>>

\* The constructor begins, and ends.
Construct(u) ==
  /\ GuardGoto(u, "construct", "constructing")
  /\ sg_object' = "partial" /\ UNCHANGED sg_guard

Constructed(u) ==
  /\ GuardGoto(u, "constructing", "release")
  /\ sg_object' = "ready" /\ UNCHANGED sg_guard

guard_release(u) ==
  /\ GuardGoto(u, "release", "use")
  /\ sg_guard' = kInitializedMask /\ UNCHANGED sg_object

\* The constructor fails: the object is raw again and somebody else may try.
guard_abort(u) ==
  /\ GuardGoto(u, "constructing", "check")
  /\ sg_guard' = 0 /\ sg_object' = "raw"

Use(u) == GuardGoto(u, "use", "check") /\ UNCHANGED <<sg_guard, sg_object>>

GuardNext ==
  \E u \in GuardUsers :
    \/ Check(u) \/ guard_acquire(u) \/ Construct(u) \/ Constructed(u)
    \/ guard_release(u) \/ guard_abort(u) \/ Use(u)

GuardSpec == GuardInit /\ [][GuardNext]_sg_vars

-----------------------------------------------------------------------------
\* Nobody uses an object that is not fully constructed, and a constructed object is
\* not constructed again.
UsedOnlyWhenReady ==
  /\ \A u \in GuardUsers : sg_pc[u] = "use" => sg_object = "ready"
  /\ sg_object = "ready" => \A u \in GuardUsers : sg_pc[u] \notin {"construct", "constructing"}

\* At most one user constructs the object at a time.
OneConstructor ==
  \A u, w \in GuardUsers :
    {sg_pc[u], sg_pc[w]} \subseteq {"construct", "constructing", "release"} => u = w
=============================================================================
