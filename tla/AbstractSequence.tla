------------------------- MODULE AbstractSequence ---------------------------
(* What a sequence container promises: the sequence, the last call, and the    *)
(* offset of the iterator it returned.  Vector and List implement it.          *)
EXTENDS Naturals, Sequences

CONSTANTS
  Elements,
  Others     \* sequences held by other containers

VARIABLES s, ret

Init == s = <<>> /\ ret = <<"none">>

Insert(i, v) ==
  /\ ret' = <<"insert", i, v, i>>
  /\ s' = SubSeq(s, 1, i) \o <<v>> \o SubSeq(s, i + 1, Len(s))

\* The elements i + 1 .. j go; pop is an Erase.  For an empty range a container may
\* return end().
Erase(i, j) ==
  /\ ret' = <<"erase", i, j, i>> \/ (i = j /\ ret' = <<"erase", i, j, Len(s)>>)
  /\ s' = SubSeq(s, 1, i) \o SubSeq(s, j + 1, Len(s))

\* The elements of q other than v, in their order.
Rest(q, v) ==
  LET rest[k \in 0 .. Len(q)] ==
        IF k = 0 THEN <<>> ELSE IF q[k] = v THEN rest[k - 1] ELSE Append(rest[k - 1], q[k])
  IN  rest[Len(q)]

Remove(v) == ret' = <<"remove", v>> /\ s' = Rest(s, v)

Resize(n, v) ==
  /\ ret' = <<"resize", n, v>>
  /\ s' = [k \in 1 .. n |-> IF k <= Len(s) THEN s[k] ELSE v]

\* A copy of another container.
Assign(t) == ret' = <<"assign", t>> /\ s' = t

\* A reorganisation changes nothing the caller can see.
Reorganise == ret' = <<"reorganise">> /\ s' = s

Next ==
  \/ Reorganise
  \/ \E i \in 0 .. Len(s) : \/ \E v \in Elements : Insert(i, v)
                            \/ \E j \in i .. Len(s) : Erase(i, j)
  \/ \E v \in Elements : Remove(v) \/ \E n \in 0 .. Len(s') : Resize(n, v)
  \/ \E t \in Others : Assign(t)

vars == <<s, ret>>
Spec == Init /\ [][Next]_vars
=============================================================================
