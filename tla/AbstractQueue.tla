--------------------------- MODULE AbstractQueue ----------------------------
(* What MPMCQueue promises: a bounded first-in first-out queue.  out is the    *)
(* sequence of the items taken from it.                                        *)
EXTENDS Naturals, Sequences

CONSTANTS Items, Capacity

VARIABLES q, out

Init == q = <<>> /\ out = <<>>

push(x) == Len(q) < Capacity /\ q' = Append(q, x) /\ UNCHANGED out

pop == q # <<>> /\ q' = Tail(q) /\ out' = Append(out, Head(q))

Next == pop \/ \E x \in Items : push(x)

vars == <<q, out>>
Spec == Init /\ [][Next]_vars
=============================================================================
