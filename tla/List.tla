-------------------------------- MODULE List ---------------------------------
(***************************************************************************)
(* nk_std::list (src/src/libcxx/include/nk_list), the type of the ready    *)
(* queues and of the lists of blocked tasks: a ring of nodes through a     *)
(* sentinel.  Allocation does not fail.                                    *)
(***************************************************************************)
EXTENDS Naturals, FiniteSets, Sequences, SequencesExt

CONSTANTS
  Elements,
  Others,     \* contents of other lists
  MaxNodes    \* bound on the nodes in use

Sentinel == 0
Nodes == 1 .. MaxNodes

VARIABLES
  ls,      \* [next, prev |-> the links, data |-> the values, live |-> nodes in use,
           \*  size |-> _size]
  ls_ret   \* the last call and its result

ls_vars == <<ls, ls_ret>>

Init ==
  /\ ls = [next |-> [n \in {Sentinel} |-> n], prev |-> [n \in {Sentinel} |-> n],
           data |-> <<>>, live |-> {}, size |-> 0]
  /\ ls_ret = <<"none">>

Fresh(l) == CHOOSE n \in Nodes \ l.live : \A m \in Nodes \ l.live : n <= m

\* The iterator begin() + i, and the offset of an iterator.
Iterator(l, i) ==
  LET at[k \in 0 .. i] == IF k = 0 THEN l.next[Sentinel]
                          ELSE IF at[k - 1] \in DOMAIN l.next THEN l.next[at[k - 1]]
                          ELSE at[k - 1]
  IN  at[i]
Offset(l, n) == CHOOSE i \in 0 .. l.size : Iterator(l, i) = n

\* Mutant: the node behind the new one keeps its prev.
insertHalf(l, p, v) ==
  LET n == Fresh(l)
      q == l.prev[p]
  IN  [next |-> (n :> p) @@ (q :> n) @@ l.next,
       prev |-> (n :> q) @@ l.prev,
       data |-> (n :> v) @@ l.data, live |-> l.live \union {n}, size |-> l.size + 1]

\* insert(pos, val) with pos.node = p.
insert(l, p, v) ==
  LET n == Fresh(l)
      q == l.prev[p]
  IN  [next |-> (n :> p) @@ (q :> n) @@ l.next,
       prev |-> (n :> q) @@ (p :> n) @@ l.prev,
       data |-> (n :> v) @@ l.data, live |-> l.live \union {n}, size |-> l.size + 1]

Without(f, n) == [x \in DOMAIN f \ {n} |-> f[x]]

\* erase(pos) with pos.node = p: nothing at end(), else p is unlinked and deleted.
erase(l, p) ==
  IF p = Sentinel THEN l
  ELSE [next |-> Without((l.prev[p] :> l.next[p]) @@ l.next, p),
        prev |-> Without((l.next[p] :> l.prev[p]) @@ l.prev, p),
        data |-> Without(l.data, p), live |-> l.live \ {p}, size |-> l.size - 1]

\* push_front, push_back, and insert in between.
Insert(i, v) ==
  /\ ls.live # Nodes
  /\ ls' = insert(ls, Iterator(ls, i), v)
  /\ ls_ret' = <<"insert", i, v, Offset(ls', Fresh(ls))>>

\* erase(first, last): every step goes on with the node behind the erased one.
\* pop_front and pop_back erase one node, erase(end()) none.
Erase(i, j) ==
  LET last == Iterator(ls, j)
      Step(s, k) == IF s.it = last THEN s
                    ELSE [l |-> erase(s.l, s.it), it |-> s.l.next[s.it]]
      end == FoldLeft(Step, [l |-> ls, it |-> Iterator(ls, i)], [k \in 1 .. MaxNodes |-> k])
  IN  /\ ls' = end.l
      /\ ls_ret' = <<"erase", i, j, Offset(end.l, end.it)>>

\* remove(value) and remove_if: the iterator is moved on before its node is deleted.
remove(v) ==
  LET Step(s, k) ==
        IF s.it = Sentinel THEN s
        ELSE [l |-> IF s.l.data[s.it] = v THEN erase(s.l, s.it) ELSE s.l, it |-> s.l.next[s.it]]
      end == FoldLeft(Step, [l |-> ls, it |-> ls.next[Sentinel]], [k \in 1 .. MaxNodes |-> k])
  IN  ls' = end.l /\ ls_ret' = <<"remove", v>>

\* pop_front until empty().
clear(l) == FoldLeft(LAMBDA s, k : IF s.size = 0 THEN s ELSE erase(s, s.next[Sentinel]),
                     l, [k \in 1 .. MaxNodes |-> k])

\* Copy assignment: clear and push_back; the copy constructor starts from an empty
\* list.
Copy(t) ==
  /\ ls' = FoldLeft(LAMBDA l, v : insert(l, Sentinel, v), clear(ls), t)
  /\ ls_ret' = <<"assign", t>>

Next ==
  \/ \E i \in 0 .. ls.size : \/ \E v \in Elements : Insert(i, v)
                             \/ \E j \in i .. ls.size : Erase(i, j)
  \/ \E v \in Elements : remove(v)
  \/ \E t \in Others : Copy(t)

Spec == Init /\ [][Next]_ls_vars

-----------------------------------------------------------------------------
Forward(l) == [k \in 1 .. l.size |-> l.data[Iterator(l, k - 1)]]

Sequence == INSTANCE AbstractSequence WITH s <- Forward(ls), ret <- ls_ret

\* The links of neighbours agree, size() nodes and no deleted one lie between begin()
\* and end(), and no node is lost.
RingIntact ==
  /\ DOMAIN ls.next = ls.live \union {Sentinel} /\ DOMAIN ls.prev = DOMAIN ls.next
  /\ \A n \in DOMAIN ls.next : /\ ls.next[n] \in DOMAIN ls.prev /\ ls.prev[ls.next[n]] = n
                               /\ ls.prev[n] \in DOMAIN ls.next /\ ls.next[ls.prev[n]] = n
  /\ {Iterator(ls, k) : k \in 0 .. ls.size} = DOMAIN ls.next
  /\ Cardinality(ls.live) = ls.size
=============================================================================
