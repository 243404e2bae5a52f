------------------------------- MODULE Vector --------------------------------
(***************************************************************************)
(* nk_std::vector (src/src/libcxx/include/nk_vector), the container of the *)
(* sleeping_tasks heap and of GetThreadGroup's result.  The elements are   *)
(* objects with a lifetime: a cell of the storage is raw until an object   *)
(* is constructed in it and raw again once it is destroyed, and a moved    *)
(* object leaves an empty one behind.  Allocation does not fail, and the   *)
(* arguments are not references into the vector.                           *)
(***************************************************************************)
EXTENDS Naturals, Sequences

CONSTANTS
  Elements,  \* values
  Raw, Moved,
  MaxSize    \* bound on capacity_

ASSUME VectorAssumption ==
  Raw \notin Elements /\ Moved \notin Elements /\ Raw # Moved /\ MaxSize \in Nat

VARIABLES
  ve,      \* [data |-> cells 0 .. capacity_ - 1, cap |-> capacity_, size |-> size_,
           \*  misuse |-> an object was made, destroyed or read where it may not be]
  ve_ret   \* the last call and its result

ve_vars == <<ve, ve_ret>>

Storage(cap) == [i \in 0 .. cap - 1 |-> Raw]
Vec(data, cap, size, misuse) == [data |-> data, cap |-> cap, size |-> size, misuse |-> misuse]
Sized(d, size) == Vec(d.data, d.cap, size, d.misuse)

VectorInit == ve = Vec(Storage(0), 0, 0, FALSE) /\ ve_ret = <<"none">>

\* new (data_ + k) T(f[k]) for k from i to j - 1
ConstructRange(d, i, j, f) ==
  Vec([k \in DOMAIN d.data |-> IF k \in i .. j - 1 THEN f[k] ELSE d.data[k]], d.cap, d.size,
      d.misuse \/ \E k \in i .. j - 1 :
                    k \notin DOMAIN d.data \/ d.data[k] # Raw \/ f[k] \notin Elements)

\* data_[k].~T() for k from i to j - 1
DestroyRange(d, i, j) ==
  Vec([k \in DOMAIN d.data |-> IF k \in i .. j - 1 THEN Raw ELSE d.data[k]], d.cap, d.size,
      d.misuse \/ \E k \in i .. j - 1 : k \notin DOMAIN d.data \/ d.data[k] = Raw)

\* The object in data_[j] is moved from.
Emptied(d, j) == Vec([d.data EXCEPT ![j] = Moved], d.cap, d.size, d.misuse)

\* new (data_ + i) T(std::move(data_[j])) and data_[j].~T()
Move(d, i, j) ==
  DestroyRange(ConstructRange(Emptied(d, j), i, i + 1, [k \in {i} |-> d.data[j]]), j, j + 1)

\* data_[i] = std::move(data_[j])
Assign(d, i, j) ==
  Vec([d.data EXCEPT ![i] = d.data[j], ![j] = Moved], d.cap, d.size,
      d.misuse \/ d.data[i] = Raw \/ d.data[j] \notin Elements)

\* An object is lost when the storage is given back.
Leaks(d) == \E k \in DOMAIN d.data : d.data[k] # Raw

reserve(d, new_cap) ==
  LET old == DestroyRange(d, 0, d.size)
  IN  IF new_cap <= d.cap THEN d
      ELSE ConstructRange(Vec(Storage(new_cap), new_cap, d.size, old.misuse \/ Leaks(old)),
                          0, d.size, d.data)

push_back(v) ==
  LET d == IF ve.size = ve.cap THEN reserve(ve, IF ve.cap = 0 THEN 1 ELSE ve.cap * 2) ELSE ve
  IN  /\ d.cap <= MaxSize
      /\ ve' = Sized(ConstructRange(d, d.size, d.size + 1, [k \in {d.size} |-> v]), d.size + 1)
      /\ ve_ret' = <<"insert", ve.size, v, ve.size>>

pop_back ==
  /\ ve.size > 0
  /\ ve' = DestroyRange(Sized(ve, ve.size - 1), ve.size - 1, ve.size)
  /\ ve_ret' = <<"erase", ve.size - 1, ve.size, ve.size - 1>>

clear(d) == Sized(DestroyRange(d, 0, d.size), 0)

Reserve(n) == ve' = reserve(ve, n) /\ ve_ret' = <<"reorganise">>

\* resize(count, value), and resize(count) with a default value.
resize(n, v) ==
  LET more == ConstructRange(reserve(ve, n), ve.size, n, [k \in ve.size .. n - 1 |-> v])
  IN  /\ ve' = Sized(IF n < ve.size THEN DestroyRange(ve, n, ve.size) ELSE more, n)
      /\ ve_ret' = <<"resize", n, v>>

\* erase(pos): the elements behind it move down by one; nothing happens at end().
\* erase(first, last): they move down by count; an empty range returns end().
erase(first, last) ==
  LET count == last - first
      loop[i \in last .. ve.size] ==
        IF i = last THEN DestroyRange(ve, first, last) ELSE Move(loop[i - 1], i - 1 - count, i - 1)
  IN  /\ ve' = IF first = last THEN ve ELSE Sized(loop[ve.size], ve.size - count)
      /\ ve_ret' = <<"erase", first, last, IF first = last THEN ve.size ELSE first>>

\* Mutant: the write position moves with the read position.
ShiftAll(e, i, v) ==
  IF e.vec.data[i] = v THEN [e EXCEPT !.write = @ + 1]
  ELSE [vec |-> IF e.write = i THEN e.vec ELSE Assign(e.vec, e.write, i), write |-> e.write + 1]

\* One round of the removal loop with read_pos = i: an element that stays is moved to
\* write_pos.
Shift(e, i, v) ==
  IF e.vec.data[i] = v THEN e
  ELSE [vec |-> IF e.write = i THEN e.vec ELSE Assign(e.vec, e.write, i), write |-> e.write + 1]

\* remove(value) and remove_if; what is left behind write_pos is destroyed.
remove(v) ==
  LET loop[i \in 0 .. ve.size] ==
        IF i = 0 THEN [vec |-> ve, write |-> 0] ELSE Shift(loop[i - 1], i - 1, v)
      end == loop[ve.size]
  IN  /\ ve' = Sized(DestroyRange(end.vec, end.write, ve.size), end.write)
      /\ ve_ret' = <<"remove", v>>

\* Copy assignment; the copy constructor is the same on a new vector.
Copy(t) ==
  LET d == reserve(clear(ve), Len(t))
  IN  /\ ve' = Sized(ConstructRange(d, 0, Len(t), [k \in 0 .. Len(t) - 1 |-> t[k + 1]]), Len(t))
      /\ ve_ret' = <<"assign", t>>

\* Move assignment and constructor: the storage of the other vector is taken over, and
\* the vector's own is given back.
Take(t) ==
  LET d == clear(ve)
  IN  /\ ve' = Vec([k \in 0 .. Len(t) - 1 |-> t[k + 1]], Len(t), Len(t), d.misuse \/ Leaks(d))
      /\ ve_ret' = <<"assign", t>>

\* Contents of other vectors.
OtherVectors == UNION {[1 .. n -> Elements] : n \in 0 .. MaxSize}

VectorNext ==
  \/ pop_back
  \/ \E v \in Elements : \/ push_back(v) \/ remove(v)
                         \/ \E n \in 0 .. MaxSize : resize(n, v)
  \/ \E n \in 0 .. MaxSize : Reserve(n)
  \/ \E i \in 0 .. ve.size : \E j \in i .. ve.size : erase(i, j)
  \/ \E t \in OtherVectors : Copy(t) \/ Take(t)

VectorSpec == VectorInit /\ [][VectorNext]_ve_vars

-----------------------------------------------------------------------------
\* What the vector holds.
Contents == [k \in 1 .. ve.size |-> ve.data[k - 1]]

Sequence == INSTANCE AbstractSequence WITH s <- Contents, ret <- ve_ret, Others <- OtherVectors

\* Objects live in exactly the first size_ cells, no call has constructed over a live
\* object, destroyed or read a dead one, or given back storage with objects in it.
LifetimesExact ==
  /\ ~ve.misuse
  /\ \A i \in DOMAIN ve.data : ve.data[i] # Raw <=> i < ve.size

\* vector: push_back, pop_back, resize, erase, remove and assignment do to the vector
\* what they would do to a sequence, whatever storage they move it to
\* (AbstractSequence!Spec); every object is constructed and destroyed once, and those
\* within size() live.
VectorImplementsSequence == Sequence!Spec /\ []LifetimesExact
=============================================================================
