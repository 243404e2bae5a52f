------------------------------ MODULE HashMap -------------------------------
(***************************************************************************)
(* nk_std::unordered_map (src/src/libcxx/include/nk_unordered_map), the    *)
(* type of task_table_.  A chain is a sequence of <<key, value>>; std::hash*)
(* of an integer is the integer.  Allocation does not fail.                *)
(***************************************************************************)
EXTENDS Naturals, FiniteSets, Sequences, SequencesExt

CONSTANTS
  MapKeys,             \* small naturals
  MapValues,
  DefaultBucketCount,  \* kDefaultBucketCount
  MaxBuckets           \* bound on the argument of rehash and reserve

VARIABLES
  hm,      \* [buckets |-> chains indexed from 0, size |-> size_]
  hm_ret   \* the last call and its result

hm_vars == <<hm, hm_ret>>

Empty(n) == [i \in 0 .. n - 1 |-> <<>>]
bucket_count(h) == Cardinality(DOMAIN h.buckets)
Chain(h, k) == h.buckets[k % bucket_count(h)]

\* The order of begin() .. end().
Iteration(h) == FlattenSeq([i \in 1 .. bucket_count(h) |-> h.buckets[i - 1]])

Found(h, k) == \E i \in DOMAIN Chain(h, k) : Chain(h, k)[i][1] = k
ValueAt(h, k) == Chain(h, k)[SelectInSeq(Chain(h, k), LAMBDA e : e[1] = k)][2]

\* Mutant: every node stays in the bucket it had.
rehashInPlace(h, count) ==
  LET n == IF count = 0 THEN DefaultBucketCount ELSE count
  IN  [h EXCEPT !.buckets = [j \in 0 .. n - 1 |->
         IF j < bucket_count(h) THEN Reverse(h.buckets[j]) ELSE <<>>]]

\* Every node is pushed to the front of its new chain, in iteration order.
rehash(h, count) ==
  LET n == IF count = 0 THEN DefaultBucketCount ELSE count
  IN  [h EXCEPT !.buckets = [j \in 0 .. n - 1 |->
         Reverse(SelectSeq(Iteration(h), LAMBDA e : e[1] % n = j))]]

Init ==
  /\ hm = [buckets |-> Empty(DefaultBucketCount), size |-> 0]
  /\ hm_ret = <<"none">>

\* The node goes to the front of its chain; more nodes than buckets: rehash.
AddNode(h, k, v) ==
  LET g == [buckets |-> [h.buckets EXCEPT ![k % bucket_count(h)] = <<<<k, v>>>> \o @],
            size    |-> h.size + 1]
  IN  IF g.size > bucket_count(g) THEN rehash(g, bucket_count(g) * 2) ELSE g

insert(k, v) ==
  /\ hm' = IF Found(hm, k) THEN hm ELSE AddNode(hm, k, v)
  /\ hm_ret' = <<"insert", k, ~Found(hm, k)>>

\* map[k] = v: operator[] returns a reference into the node.
assign(k, v) ==
  LET h == IF Found(hm, k) THEN hm ELSE AddNode(hm, k, v)
      i == SelectInSeq(Chain(h, k), LAMBDA e : e[1] = k)
  IN  /\ hm' = [h EXCEPT !.buckets[k % bucket_count(h)][i] = <<k, v>>]
      /\ hm_ret' = <<"assign", k>>

erase(k) ==
  /\ hm' = IF Found(hm, k)
             THEN [buckets |-> [hm.buckets EXCEPT ![k % bucket_count(hm)] =
                                  RemoveFirstMatch(@, LAMBDA e : e[1] = k)],
                   size    |-> hm.size - 1]
             ELSE hm
  /\ hm_ret' = <<"erase", k, Found(hm, k)>>

clear ==
  /\ hm' = [buckets |-> Empty(bucket_count(hm)), size |-> 0]
  /\ hm_ret' = <<"clear">>

Rehash(count) == hm' = rehash(hm, count) /\ hm_ret' = <<"reorganise">>

reserve(count) ==
  /\ hm' = IF count + 1 > bucket_count(hm) THEN rehash(hm, count + 1) ELSE hm
  /\ hm_ret' = <<"reorganise">>

Next ==
  \/ \E k \in MapKeys : erase(k) \/ \E v \in MapValues : insert(k, v) \/ assign(k, v)
  \/ clear
  \/ \E n \in 0 .. MaxBuckets : Rehash(n) \/ reserve(n)

Spec == Init /\ [][Next]_hm_vars

-----------------------------------------------------------------------------
Map == INSTANCE AbstractMap WITH
         Keys <- MapKeys, Values <- MapValues, ret <- hm_ret,
         m <- [k \in {x \in MapKeys : Found(hm, x)} |-> ValueAt(hm, k)]

\* Iteration, by which Wait, ReparentChildren and GetThreadGroup walk over
\* task_table_, meets every entry exactly once, and size() counts them.
IterationComplete ==
  /\ Len(Iteration(hm)) = hm.size
  /\ {e[1] : e \in ToSet(Iteration(hm))} = {k \in MapKeys : Found(hm, k)}
  /\ \A i, j \in DOMAIN Iteration(hm) :
       Iteration(hm)[i][1] = Iteration(hm)[j][1] => i = j
=============================================================================
