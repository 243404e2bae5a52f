---------------------------- MODULE VectorProofs ----------------------------
(***************************************************************************)
(* Proof that vector implements a sequence, for any set of elements and    *)
(* any bound on the capacity.  Every call leaves the vector in the form    *)
(* Holding(q, c): the elements of a sequence q in the first cells of a     *)
(* storage of c cells, the rest raw (HoldsSequence).  What the loops of    *)
(* erase and remove have done after any number of rounds is shown by       *)
(* induction over that number.                                             *)
(***************************************************************************)
EXTENDS Vector, SequenceTheorems, WellFoundedInduction, TLAPS

-----------------------------------------------------------------------------
(* Induction and recursion over the natural numbers *)

\* A set of numbers has a least one.
LEMMA LeastNumber ==
  ASSUME NEW S, S \subseteq Nat, S # {}
  PROVE  \E x \in S : \A y \in S : x <= y
  <1>1. PICK x \in S : \A y \in S : ~(<<y, x>> \in OpToRel(<, Nat))
    BY NatLessThanWellFounded, WFMin, ZenonT(30)
  <1>2. \A y \in S : ~(y < x)
    BY <1>1, ZenonT(30) DEF OpToRel
  <1> QED
    BY <1>2, SMTT(30)

\* Induction over the numbers, for a set in place of a predicate.
LEMMA Induction ==
  ASSUME NEW S, 0 \in S, \A n \in Nat : n \in S => n + 1 \in S
  PROVE  \A n \in Nat : n \in S
  <1>1. SUFFICES ASSUME NEW T, T = {n \in Nat : n \notin S}, T # {} PROVE FALSE
    OBVIOUS
  <1>2. PICK x \in T : \A y \in T : x <= y
    BY <1>1, LeastNumber, ZenonT(30)
  <1>3. x \in Nat /\ x # 0 /\ x \notin S
    BY <1>1
  <1>4. x - 1 \in Nat /\ ~(x <= x - 1) /\ x = (x - 1) + 1
    BY <1>3
  <1>5. x - 1 \in S
    BY <1>1, <1>2, <1>4
  <1> QED
    BY <1>3, <1>4, <1>5

\* g[n] is the value after n rounds of a loop that starts with d0 and whose round n
\* turns d into F[n][d].
IsLoop(g, D, d0, F) ==
  g \in [Nat -> D] /\ g[0] = d0 /\ \A n \in Nat : g[n + 1] = F[n][g[n]]

\* A function on the numbers may be defined by recursion.
LEMMA Recursion ==
  ASSUME NEW D, NEW d0 \in D, NEW F \in [Nat -> [D -> D]]
  PROVE  \E g : IsLoop(g, D, d0, F)
  <1> DEFINE Upto(h, m) == /\ h \in [0 .. m -> D] /\ h[0] = d0
                           /\ \A k \in 0 .. m - 1 : h[k + 1] = F[k][h[k]]
  <1>1. \A m \in Nat : \E h : Upto(h, m)
    <2> DEFINE S == {m \in Nat : \E h : Upto(h, m)}
    <2>1. 0 \in S
      <3>1. Upto([k \in 0 .. 0 |-> d0], 0)
        OBVIOUS
      <3> QED
        BY <3>1
    <2>2. ASSUME NEW n \in Nat, n \in S PROVE n + 1 \in S
      <3>1. PICK h : Upto(h, n)
        BY <2>2
      <3> DEFINE g == [k \in 0 .. n + 1 |-> IF k <= n THEN h[k] ELSE F[n][h[n]]]
      <3>2. h[n] \in D /\ F[n][h[n]] \in D
        BY <3>1
      <3>3. g \in [0 .. n + 1 -> D] /\ g[0] = d0
        BY <3>1, <3>2
      <3>4. ASSUME NEW k \in 0 .. n PROVE g[k + 1] = F[k][g[k]]
        <4>1. CASE k < n
          <5>1. k \in 0 .. n - 1 /\ k + 1 \in 0 .. n /\ k \in 0 .. n
            BY <4>1
          <5>2. g[k + 1] = h[k + 1] /\ g[k] = h[k]
            BY <5>1
          <5> QED
            BY <3>1, <5>1, <5>2
        <4>2. CASE k = n
          <5>1. g[n + 1] = F[n][h[n]] /\ g[n] = h[n]
            BY SMT
          <5> QED
            BY <4>2, <5>1, Zenon
        <4> QED
          BY <4>1, <4>2
      <3>5. Upto(g, n + 1)
        <4> HIDE DEF g
        <4>1. (n + 1) - 1 = n
          OBVIOUS
        <4> QED
          BY <3>3, <3>4, <4>1
      <3> HIDE DEF Upto, g
      <3> QED
        BY <3>5
    <2> HIDE DEF S
    <2>3. \A n \in Nat : n \in S
      BY <2>1, <2>2, Induction, ZenonT(30)
    <2> QED
      BY <2>3 DEF S
  <1> DEFINE Same(m, n, g, h) == \A k \in Nat : k <= m /\ k <= n => g[k] = h[k]
  <1>2. ASSUME NEW m \in Nat, NEW n \in Nat, NEW g, NEW h, Upto(g, m), Upto(h, n)
        PROVE  Same(m, n, g, h)
    <2> DEFINE S == {k \in Nat : k <= m /\ k <= n => g[k] = h[k]}
    <2>1. 0 \in S
      BY <1>2
    <2>2. ASSUME NEW k \in Nat, k \in S PROVE k + 1 \in S
      <3>1. SUFFICES ASSUME k + 1 <= m, k + 1 <= n PROVE g[k + 1] = h[k + 1]
        OBVIOUS
      <3>2. k \in 0 .. m - 1 /\ k \in 0 .. n - 1 /\ k <= m /\ k <= n
        BY <3>1
      <3>3. g[k] = h[k]
        BY <2>2, <3>2
      <3> QED
        BY <1>2, <3>2, <3>3
    <2> HIDE DEF S
    <2>3. \A n_1 \in Nat : n_1 \in S
      BY <2>1, <2>2, Induction, ZenonT(30)
    <2> QED
      BY <2>3 DEF S
  <1> DEFINE p == [m \in Nat |-> CHOOSE h : Upto(h, m)]
             g == [m \in Nat |-> p[m][m]]
  <1>3. \A m \in Nat : Upto(p[m], m)
    <2> HIDE DEF Upto
    <2> QED
      BY <1>1
  <1> HIDE DEF p
  <1>4. g \in [Nat -> D] /\ g[0] = d0
    BY <1>3
  <1>5. ASSUME NEW n \in Nat PROVE g[n + 1] = F[n][g[n]]
    <2>1. p[n + 1][n] = p[n][n]
      <3>1. Upto(p[n + 1], n + 1) /\ Upto(p[n], n)
        BY <1>3
      <3>2. n + 1 \in Nat /\ n <= n + 1 /\ n <= n
        OBVIOUS
      <3> HIDE DEF Upto
      <3>3. Same(n + 1, n, p[n + 1], p[n])
        <4> HIDE DEF Same
        <4> QED
          BY ONLY <1>2, <3>1, <3>2, n \in Nat, ZenonT(30)
      <3> QED
        BY <3>2, <3>3, ZenonT(30)
    <2>2. Upto(p[n + 1], n + 1)
      BY <1>3
    <2> QED
      BY <2>1, <2>2
  <1>6. IsLoop(g, D, d0, F)
    <2> HIDE DEF g, Upto
    <2> QED
      BY <1>4, <1>5 DEF IsLoop
  <1> QED
    BY <1>6

-----------------------------------------------------------------------------
(* vector *)

\* A vector that nothing has gone wrong with.
Cells(f, c, n) == Vec(f, c, n, FALSE)

\* The cells that hold the sequence q.
Held(q, c) == [i \in 0 .. c - 1 |-> IF i < Len(q) THEN q[i + 1] ELSE Raw]

\* A vector with c cells that holds the sequence q.
Holding(q, c) == Cells(Held(q, c), c, Len(q))

\* The fields of a vector.
Fields(d, f, c, n) ==
  /\ d = Cells(f, c, n)
  /\ d.data = f /\ d.cap = c /\ d.size = n /\ d.misuse = FALSE
  /\ \A m : Sized(d, m) = Cells(f, c, m)

LEMMA CellsFields ==
  ASSUME NEW f, NEW c, NEW n
  PROVE  Fields(Cells(f, c, n), f, c, n)
  <1>1. PICK d : d = Cells(f, c, n)
    OBVIOUS
  <1>2. d.data = f /\ d.cap = c /\ d.size = n
    BY <1>1 DEF Cells, Vec
  <1>3. d.misuse = FALSE
    BY <1>1 DEF Cells, Vec
  <1>4. Fields(d, f, c, n)
    BY <1>1, <1>2, <1>3, Zenon DEF Sized, Cells, Fields
  <1> QED
    BY <1>1, <1>4, Zenon

\* The cells after g after f has been constructed, or objects destroyed, in i .. j - 1.
Constructed(g, c, i, j, f) == [k \in 0 .. c - 1 |-> IF k \in i .. j - 1 THEN f[k] ELSE g[k]]
ObjectMoved(g, c, i, j, rest) ==
  [k \in 0 .. c - 1 |-> IF k = i THEN g[j] ELSE IF k = j THEN rest ELSE g[k]]
Destroyed(g, c, i, j) == [k \in 0 .. c - 1 |-> IF k \in i .. j - 1 THEN Raw ELSE g[k]]

\* The cells i .. j - 1 are raw and f is to be constructed in them, or they hold objects.
Free(g, c, i, j, f) == \A k \in i .. j - 1 : k < c /\ g[k] = Raw /\ f[k] \in Elements
Live(g, c, i, j) == \A k \in i .. j - 1 : k < c /\ g[k] # Raw

\* Objects are constructed in raw cells.
LEMMA ConstructCells ==
  ASSUME NEW c \in Nat, NEW g, DOMAIN g = 0 .. c - 1, NEW n, NEW i \in Nat, NEW j \in Nat, NEW f,
         Free(g, c, i, j, f)
  PROVE  ConstructRange(Cells(g, c, n), i, j, f) = Cells(Constructed(g, c, i, j, f), c, n)
  <1>1. PICK d : Fields(d, g, c, n)
    BY ONLY CellsFields, Zenon
  <1> USE DEF Fields
  <1>2. [k \in DOMAIN d.data |-> IF k \in i .. j - 1 THEN f[k] ELSE d.data[k]]
          = Constructed(g, c, i, j, f)
    BY <1>1 DEF Constructed
  <1>3. (d.misuse \/ \E k \in i .. j - 1 : k \notin DOMAIN d.data \/ d.data[k] # Raw
                                            \/ f[k] \notin Elements) = FALSE
    BY <1>1 DEF Free
  <1>4. ConstructRange(d, i, j, f) = Vec(Constructed(g, c, i, j, f), c, n, FALSE)
    BY ONLY <1>1, <1>2, <1>3, Zenon DEF ConstructRange
  <1> QED
    BY <1>1, <1>4, Zenon DEF Cells

\* Live objects are destroyed.
LEMMA DestroyCells ==
  ASSUME NEW c \in Nat, NEW g, DOMAIN g = 0 .. c - 1, NEW n, NEW i \in Nat, NEW j \in Nat,
         Live(g, c, i, j)
  PROVE  DestroyRange(Cells(g, c, n), i, j) = Cells(Destroyed(g, c, i, j), c, n)
  <1>1. PICK d : Fields(d, g, c, n)
    BY ONLY CellsFields, Zenon
  <1> USE DEF Fields
  <1>2. [k \in DOMAIN d.data |-> IF k \in i .. j - 1 THEN Raw ELSE d.data[k]]
          = Destroyed(g, c, i, j)
    BY <1>1 DEF Destroyed
  <1>3. (d.misuse \/ \E k \in i .. j - 1 : k \notin DOMAIN d.data \/ d.data[k] = Raw) = FALSE
    BY <1>1 DEF Live
  <1>4. DestroyRange(d, i, j) = Vec(Destroyed(g, c, i, j), c, n, FALSE)
    BY ONLY <1>1, <1>2, <1>3, Zenon DEF DestroyRange
  <1> QED
    BY <1>1, <1>4, Zenon DEF Cells

\* Storage without objects is given back.
LEMMA ReleaseCells ==
  ASSUME NEW c \in Nat, NEW g, DOMAIN g = 0 .. c - 1, NEW n, \A k \in 0 .. c - 1 : g[k] = Raw
  PROVE  (Cells(g, c, n).misuse \/ Leaks(Cells(g, c, n))) = FALSE
  <1>1. PICK d : Fields(d, g, c, n)
    BY ONLY CellsFields, Zenon
  <1> USE DEF Fields
  <1>2. (d.misuse \/ \E k \in DOMAIN d.data : d.data[k] # Raw) = FALSE
    BY <1>1
  <1> QED
    BY ONLY <1>1, <1>2, Zenon DEF Leaks

\* The object in cell j may be moved to another cell i.
Movable(g, c, i, j) ==
  /\ c \in Nat /\ DOMAIN g = 0 .. c - 1 /\ i \in 0 .. c - 1 /\ j \in 0 .. c - 1 /\ i # j
  /\ g[j] \in Elements

\* An object is moved to a raw cell.
LEMMA MoveCells ==
  ASSUME NEW c, NEW g, NEW n, NEW i, NEW j, Movable(g, c, i, j), g[i] = Raw
  PROVE  Move(Cells(g, c, n), i, j)
           = Cells(ObjectMoved(g, c, i, j, Raw), c, n)
  <1>0. /\ c \in Nat /\ DOMAIN g = 0 .. c - 1 /\ i \in 0 .. c - 1 /\ j \in 0 .. c - 1 /\ i # j
        /\ g[j] \in Elements /\ g[i] = Raw
    BY Zenon DEF Movable
  <1> DEFINE h == [g EXCEPT ![j] = Moved]
             f == [k \in {i} |-> g[j]]
             e == Constructed(h, c, i, i + 1, f)
  <1>1. Emptied(Cells(g, c, n), j) = Cells(h, c, n)
    <2>1. PICK d : Fields(d, g, c, n)
      BY ONLY CellsFields, Zenon
    <2>2. Emptied(d, j) = Vec(h, c, n, FALSE)
      BY <2>1, Zenon DEF Emptied, Fields
    <2> QED
      BY <2>1, <2>2, Zenon DEF Cells, Fields
  <1>2. Cells(g, c, n).data = g
    <2>1. Fields(Cells(g, c, n), g, c, n)
      BY ONLY CellsFields, Zenon
    <2> QED
      BY <2>1, Zenon DEF Fields
  <1>3. DOMAIN h = 0 .. c - 1 /\ h[i] = Raw /\ h[j] = Moved /\ \A k \in 0 .. c - 1 : k # j => h[k] = g[k]
    BY <1>0
  <1>4. i \in Nat /\ i + 1 \in Nat /\ j \in Nat /\ j + 1 \in Nat /\ i .. (i + 1) - 1 = {i} /\ j .. (j + 1) - 1 = {j}
    BY <1>0
  <1>5. f[i] = g[j]
    OBVIOUS
  <1> HIDE DEF h, f
  <1>6. ConstructRange(Cells(h, c, n), i, i + 1, f) = Cells(e, c, n)
    <2>1. Free(h, c, i, i + 1, f)
      BY <1>0, <1>3, <1>4, <1>5 DEF Free
    <2> QED
      BY ONLY <1>0, <1>3, <1>4, <2>1, ConstructCells
  <1>7. DOMAIN e = 0 .. c - 1 /\ \A k \in 0 .. c - 1 : e[k] = IF k = i THEN g[j] ELSE h[k]
    BY <1>0, <1>4, <1>5 DEF Constructed
  <1> HIDE DEF e
  <1>8. DestroyRange(Cells(e, c, n), j, j + 1) = Cells(Destroyed(e, c, j, j + 1), c, n)
    <2>1. Live(e, c, j, j + 1)
      BY <1>0, <1>3, <1>4, <1>7, VectorAssumption DEF Live
    <2> QED
      BY ONLY <1>0, <1>4, <1>7, <2>1, DestroyCells
  <1>9. Destroyed(e, c, j, j + 1) = ObjectMoved(g, c, i, j, Raw)
    BY <1>0, <1>3, <1>4, <1>7 DEF Destroyed, ObjectMoved
  <1>10. Move(Cells(g, c, n), i, j) = DestroyRange(ConstructRange(Cells(h, c, n), i, i + 1, f), j, j + 1)
    BY <1>1, <1>2, Zenon DEF Move, f
  <1> QED
    BY <1>6, <1>8, <1>9, <1>10, Zenon

\* An object is moved onto a live one.
LEMMA AssignCells ==
  ASSUME NEW c, NEW g, NEW n, NEW i, NEW j, Movable(g, c, i, j), g[i] # Raw
  PROVE  Assign(Cells(g, c, n), i, j)
           = Cells(ObjectMoved(g, c, i, j, Moved), c, n)
  <1> DEFINE f == ObjectMoved(g, c, i, j, Moved)
  <1>0. /\ c \in Nat /\ DOMAIN g = 0 .. c - 1 /\ i \in 0 .. c - 1 /\ j \in 0 .. c - 1 /\ i # j
        /\ g[j] \in Elements /\ g[i] # Raw
    BY Zenon DEF Movable
  <1>1. PICK d : Fields(d, g, c, n)
    BY ONLY CellsFields, Zenon
  <1> USE DEF Fields
  <1>2. [g EXCEPT ![i] = g[j], ![j] = Moved] = f
    BY <1>0 DEF ObjectMoved
  <1>3. (d.misuse \/ d.data[i] = Raw \/ d.data[j] \notin Elements) = FALSE
    BY <1>0, <1>1
  <1>4. Assign(d, i, j) = Vec(f, c, n, FALSE)
    BY ONLY <1>1, <1>2, <1>3, Zenon DEF Assign
  <1> QED
    BY <1>1, <1>4, Zenon DEF Cells

\* r is q without the elements first + 1 .. last.
CutOut(q, first, last, r) ==
  /\ r \in Seq(Elements) /\ Len(r) = Len(q) - (last - first)
  /\ \A k \in 0 .. (Len(q) - (last - first)) - 1 :
       r[k + 1] = IF k < first THEN q[k + 1] ELSE q[k + (last - first) + 1]

LEMMA CutFacts ==
  ASSUME NEW q \in Seq(Elements), NEW first \in Nat, NEW last \in Nat, first <= last,
         last <= Len(q)
  PROVE  CutOut(q, first, last, SubSeq(q, 1, first) \o SubSeq(q, last + 1, Len(q)))
  <1>1. PICK L \in Nat : L = Len(q) /\ \A k \in 1 .. L : q[k] \in Elements
    OBVIOUS
  <1>2. PICK a : a = SubSeq(q, 1, first)
    OBVIOUS
  <1>3. PICK b : b = SubSeq(q, last + 1, L)
    OBVIOUS
  <1>4. a \in Seq(Elements) /\ Len(a) = first /\ \A k \in 1 .. first : a[k] = q[k]
    <2>1. SubSeq(q, 1, first) \in Seq(Elements)
      BY <1>1, SMT
    <2>2. Len(SubSeq(q, 1, first)) = first
      BY <1>1, SMT
    <2>3. \A k \in 1 .. first : SubSeq(q, 1, first)[k] = q[k]
      BY <1>1, SMT
    <2> QED
      BY <1>2, <2>1, <2>2, <2>3, Zenon
  <1>5. b \in Seq(Elements) /\ Len(b) = L - last /\ \A k \in 1 .. L - last : b[k] = q[last + k]
    <2>1. SubSeq(q, last + 1, L) \in Seq(Elements)
      BY <1>1, SMT
    <2>2. Len(SubSeq(q, last + 1, L)) = L - last
      BY <1>1, SMT
    <2>3. \A k \in 1 .. L - last : SubSeq(q, last + 1, L)[k] = q[last + k]
      BY <1>1, SMT
    <2> QED
      BY <1>3, <2>1, <2>2, <2>3, Zenon
  <1>6. PICK r : r = a \o b
    OBVIOUS
  <1>7. r \in Seq(Elements) /\ Len(r) = first + (L - last)
    <2>1. a \o b \in Seq(Elements)
      BY <1>4, <1>5, SMT
    <2>2. Len(a \o b) = Len(a) + Len(b)
      BY <1>4, <1>5, ConcatProperties, Zenon
    <2> QED
      BY <1>4, <1>5, <1>6, <2>1, <2>2, Zenon
  <1>8. ASSUME NEW k \in 0 .. (L - (last - first)) - 1
        PROVE  r[k + 1] = IF k < first THEN q[k + 1] ELSE q[k + (last - first) + 1]
    <2>1. CASE k < first
      <3>1. k + 1 \in 1 .. first
        BY <2>1
      <3>2. r[k + 1] = a[k + 1]
        BY <1>4, <1>5, <1>6, <3>1
      <3> QED
        BY <1>4, <2>1, <3>1, <3>2
    <2>2. CASE ~(k < first)
      <3>1. PICK m \in 1 .. L - last : m = k + 1 - first /\ last + m = k + (last - first) + 1
        BY <1>1, <2>2
      <3>2. r[k + 1] = b[m]
        BY <1>1, <1>4, <1>5, <1>6, <2>2, <3>1
      <3> QED
        BY <1>5, <2>2, <3>1, <3>2
    <2> QED
      BY <2>1, <2>2
  <1>9. L - (last - first) = first + (L - last)
    BY <1>1
  <1>10. CutOut(q, first, last, r)
    BY <1>1, <1>7, <1>8, <1>9 DEF CutOut
  <1> QED
    BY <1>1, <1>2, <1>3, <1>6, <1>10, Zenon

\* The cells of a sequence.
LEMMA HeldFacts ==
  ASSUME NEW q \in Seq(Elements), NEW c \in Nat
  PROVE  /\ Len(q) \in Nat /\ DOMAIN Held(q, c) = 0 .. c - 1
         /\ \A k \in 0 .. c - 1 : k < Len(q) => /\ Held(q, c)[k] = q[k + 1]
                                               /\ Held(q, c)[k] \in Elements
                                               /\ Held(q, c)[k] # Raw
         /\ \A k \in 0 .. c - 1 : ~(k < Len(q)) => Held(q, c)[k] = Raw
  BY VectorAssumption DEF Held

\* q extended to m elements by those in f.
Extended(q, m, f) == [k \in 1 .. m |-> IF k <= Len(q) THEN q[k] ELSE f[k - 1]]
Extends(q, m, c, f) ==
  Len(q) <= m /\ m <= c /\ \A k \in Len(q) .. m - 1 : f[k] \in Elements

\* Objects are constructed behind the last one.
LEMMA AppendHolding ==
  ASSUME NEW q \in Seq(Elements), NEW c \in Nat, NEW m \in Nat, NEW f, Extends(q, m, c, f)
  PROVE  Sized(ConstructRange(Holding(q, c), Len(q), m, f), m) = Holding(Extended(q, m, f), c)
  <1>1. PICK g : /\ g = Held(q, c) /\ DOMAIN g = 0 .. c - 1
                 /\ \A k \in 0 .. c - 1 : k < Len(q) => g[k] = q[k + 1] /\ g[k] \in Elements /\ g[k] # Raw
                 /\ \A k \in 0 .. c - 1 : ~(k < Len(q)) => g[k] = Raw
    BY HeldFacts
  <1> DEFINE n == Len(q)
             r == Extended(q, m, f)
             h == Constructed(g, c, n, m, f)
  <1>2. n \in Nat /\ Free(g, c, n, m, f)
    BY <1>1 DEF Free, Extends
  <1>3. ConstructRange(Cells(g, c, n), n, m, f) = Cells(h, c, n)
    <2> HIDE DEF n, h
    <2>1. DOMAIN g = 0 .. c - 1
      BY <1>1
    <2> QED
      BY ONLY <1>2, <2>1, c \in Nat, m \in Nat, ConstructCells DEF h
  <1>4. r \in Seq(Elements) /\ Len(r) = m
    <2>1. \A k \in 1 .. m : (IF k <= Len(q) THEN q[k] ELSE f[k - 1]) \in Elements
      BY DEF Extends
    <2> QED
      BY <2>1 DEF Extended
  <1>5. h = Held(r, c)
    <2>1. ASSUME NEW k \in 0 .. c - 1
          PROVE  h[k] = IF k < Len(r) THEN r[k + 1] ELSE Raw
      <3>1. CASE k < n
        BY <1>1, <1>2, <1>4, <3>1 DEF Constructed, Extended, Extends
      <3>2. CASE ~(k < n) /\ k < m
        <4>1. k + 1 \in 1 .. m /\ ~(k + 1 <= n) /\ (k + 1) - 1 = k /\ k \in n .. m - 1
          BY <1>2, <3>2 DEF Extends
        <4>2. r[k + 1] = f[k] /\ h[k] = f[k]
          BY <4>1 DEF Constructed, Extended
        <4> HIDE DEF h, r
        <4> QED
          BY <1>4, <3>2, <4>2
      <3>3. CASE ~(k < m)
        BY <1>1, <1>2, <1>4, <3>3 DEF Constructed, Extends
      <3> QED
        BY <3>1, <3>2, <3>3
    <2>2. h = [k \in 0 .. c - 1 |-> h[k]]
      BY DEF Constructed
    <2> HIDE DEF h, r
    <2> QED
      BY <2>1, <2>2 DEF Held
  <1>6. Sized(Cells(h, c, n), m) = Cells(h, c, m)
    <2>1. Fields(Cells(h, c, n), h, c, n)
      BY ONLY CellsFields, Zenon
    <2> QED
      BY ONLY <2>1, Zenon DEF Fields
  <1> HIDE DEF h, r, n
  <1>7. Sized(ConstructRange(Holding(q, c), n, m, f), m) = Holding(r, c)
    BY <1>1, <1>3, <1>4, <1>5, <1>6, Zenon DEF Holding, n
  <1> QED
    BY <1>7 DEF n, r

\* The objects from m on are destroyed.
LEMMA TruncateHolding ==
  ASSUME NEW q \in Seq(Elements), NEW c \in Nat, Len(q) <= c, NEW m \in Nat, m <= Len(q), NEW n
  PROVE  Sized(DestroyRange(Cells(Held(q, c), c, n), m, Len(q)), m)
           = Holding([k \in 1 .. m |-> q[k]], c)
  <1>1. PICK g : /\ g = Held(q, c) /\ DOMAIN g = 0 .. c - 1
                 /\ \A k \in 0 .. c - 1 : k < Len(q) => g[k] = q[k + 1] /\ g[k] \in Elements /\ g[k] # Raw
                 /\ \A k \in 0 .. c - 1 : ~(k < Len(q)) => g[k] = Raw
    BY HeldFacts
  <1> DEFINE L == Len(q)
             r == [k \in 1 .. m |-> q[k]]
             h == Destroyed(g, c, m, L)
  <1>2. L \in Nat /\ Live(g, c, m, L)
    <2>1. L \in Nat /\ \A k \in m .. L - 1 : k \in 0 .. c - 1 /\ k < L
      OBVIOUS
    <2> QED
      BY <1>1, <2>1 DEF Live
  <1>3. DestroyRange(Cells(g, c, n), m, L) = Cells(h, c, n)
    <2> HIDE DEF L, h
    <2>1. DOMAIN g = 0 .. c - 1
      BY <1>1
    <2> QED
      BY ONLY <1>2, <2>1, c \in Nat, m \in Nat, DestroyCells DEF h
  <1>4. r \in Seq(Elements) /\ Len(r) = m
    OBVIOUS
  <1>5. h = Held(r, c)
    <2>1. ASSUME NEW k \in 0 .. c - 1
          PROVE  h[k] = IF k < Len(r) THEN r[k + 1] ELSE Raw
      <3>1. CASE k < m
        BY <1>1, <1>2, <1>4, <3>1 DEF Destroyed
      <3>2. CASE ~(k < m)
        BY <1>1, <1>2, <1>4, <3>2 DEF Destroyed
      <3> QED
        BY <3>1, <3>2
    <2>2. h = [k \in 0 .. c - 1 |-> h[k]]
      BY DEF Destroyed
    <2> HIDE DEF h, r
    <2> QED
      BY <2>1, <2>2 DEF Held
  <1>6. Sized(Cells(h, c, n), m) = Cells(h, c, m)
    <2>1. Fields(Cells(h, c, n), h, c, n)
      BY ONLY CellsFields, Zenon
    <2> QED
      BY ONLY <2>1, Zenon DEF Fields
  <1> HIDE DEF h, r, L
  <1>7. Sized(DestroyRange(Cells(g, c, n), m, L), m) = Holding(r, c)
    BY <1>3, <1>4, <1>5, <1>6, Zenon DEF Holding
  <1> QED
    BY <1>1, <1>7 DEF L, r

\* All objects are destroyed.
LEMMA ClearHolding ==
  ASSUME NEW q \in Seq(Elements), NEW c \in Nat, Len(q) <= c
  PROVE  clear(Holding(q, c)) = Holding(<<>>, c)
  <1>1. PICK d : Fields(d, Held(q, c), c, Len(q))
    BY ONLY CellsFields, Zenon
  <1>2. d = Holding(q, c) /\ d = Cells(Held(q, c), c, Len(q)) /\ d.size = Len(q)
    BY <1>1, Zenon DEF Fields, Holding
  <1>3. 0 \in Nat /\ 0 <= Len(q)
    OBVIOUS
  <1>4. Sized(DestroyRange(d, 0, Len(q)), 0) = Holding([k \in 1 .. 0 |-> q[k]], c)
    <2>1. Sized(DestroyRange(Cells(Held(q, c), c, Len(q)), 0, Len(q)), 0)
            = Holding([k \in 1 .. 0 |-> q[k]], c)
      BY ONLY <1>3, q \in Seq(Elements), c \in Nat, Len(q) <= c, TruncateHolding, ZenonT(30)
    <2> QED
      BY <1>2, <2>1, Zenon
  <1>5. [k \in 1 .. 0 |-> q[k]] = <<>>
    OBVIOUS
  <1> QED
    BY <1>2, <1>4, <1>5, Zenon DEF clear

\* The storage is replaced if it is too small.
LEMMA ReserveHolding ==
  ASSUME NEW q \in Seq(Elements), NEW c \in Nat, Len(q) <= c, NEW m \in Nat
  PROVE  reserve(Holding(q, c), m) = Holding(q, IF m <= c THEN c ELSE m)
  <1>1. PICK d : Fields(d, Held(q, c), c, Len(q))
    BY ONLY CellsFields, Zenon
  <1>2. /\ d = Holding(q, c) /\ d = Cells(Held(q, c), c, Len(q))
        /\ d.size = Len(q) /\ d.data = Held(q, c) /\ d.cap = c
    BY <1>1, Zenon DEF Fields, Holding
  <1>3. CASE m <= c
    BY <1>2, <1>3, Zenon DEF reserve
  <1>4. CASE ~(m <= c)
    <2>1. PICK g : /\ g = Held(q, c) /\ DOMAIN g = 0 .. c - 1
                   /\ \A k \in 0 .. c - 1 : k < Len(q) => g[k] = q[k + 1] /\ g[k] \in Elements /\ g[k] # Raw
                   /\ \A k \in 0 .. c - 1 : ~(k < Len(q)) => g[k] = Raw
      BY HeldFacts
    <2> DEFINE n == Len(q)
               e == Destroyed(g, c, 0, n)
               h == Constructed(Storage(m), m, 0, n, g)
    <2>2. n \in Nat /\ 0 \in Nat /\ Live(g, c, 0, n)
      BY <2>1 DEF Live
    <2>3. DestroyRange(Cells(g, c, n), 0, n) = Cells(e, c, n)
      <3> HIDE DEF n, e
      <3>1. DOMAIN g = 0 .. c - 1
        BY <2>1
      <3> QED
        BY ONLY <2>2, <3>1, c \in Nat, DestroyCells DEF e
    <2>4. DOMAIN e = 0 .. c - 1 /\ \A k \in 0 .. c - 1 : e[k] = Raw
      BY <2>1, <2>2 DEF Destroyed
    <2>5. (Cells(e, c, n).misuse \/ Leaks(Cells(e, c, n))) = FALSE
      <3> HIDE DEF n, e
      <3> QED
        BY <2>4, ReleaseCells, Zenon
    <2>6. DOMAIN Storage(m) = 0 .. m - 1 /\ \A k \in 0 .. m - 1 : Storage(m)[k] = Raw
      BY DEF Storage
    <2>7. Free(Storage(m), m, 0, n, g)
      <3>1. \A k \in 0 .. n - 1 : k \in 0 .. c - 1 /\ k \in 0 .. m - 1 /\ k < n /\ k < m
        BY <1>4, <2>2
      <3> QED
        BY <2>1, <2>6, <3>1 DEF Free
    <2>8. ConstructRange(Cells(Storage(m), m, n), 0, n, g) = Cells(h, m, n)
      <3> HIDE DEF n, h
      <3> QED
        BY ONLY <2>2, <2>6, <2>7, m \in Nat, ConstructCells DEF h
    <2>9. h = Held(q, m)
      <3>1. ASSUME NEW k \in 0 .. m - 1
            PROVE  h[k] = IF k < Len(q) THEN q[k + 1] ELSE Raw
        <4>1. CASE k < n
          BY <1>4, <2>1, <2>2, <4>1 DEF Constructed
        <4>2. CASE ~(k < n)
          BY <2>1, <2>2, <2>6, <4>2 DEF Constructed
        <4> QED
          BY <4>1, <4>2
      <3>2. h = [k \in 0 .. m - 1 |-> h[k]]
        BY DEF Constructed
      <3> HIDE DEF h
      <3> QED
        BY <3>1, <3>2 DEF Held
    <2> HIDE DEF n, e, h
    <2>10. DestroyRange(d, 0, d.size) = Cells(e, c, n)
      BY <1>2, <2>1, <2>3, Zenon DEF n
    <2>11. reserve(d, m) = ConstructRange(Vec(Storage(m), m, n, FALSE), 0, n, g)
      BY <1>2, <1>4, <2>1, <2>5, <2>10, Zenon DEF reserve, n
    <2>12. reserve(d, m) = Holding(q, m)
      BY <2>8, <2>9, <2>11, Zenon DEF Cells, Holding, n
    <2> QED
      BY <1>2, <1>4, <2>12, Zenon
  <1> QED
    BY <1>3, <1>4

\* The cells of q while objects move down from the cells last .. n - 1 by last - first:
\* those before i have moved.
Shifted(q, c, first, last, i) ==
  [k \in 0 .. c - 1 |-> IF k < first THEN q[k + 1]
                        ELSE IF k < i - (last - first) THEN q[k + (last - first) + 1]
                        ELSE IF k < i THEN Raw
                        ELSE IF k < Len(q) THEN q[k + 1] ELSE Raw]

\* One object moves.
LEMMA ShiftedMove ==
  ASSUME NEW q \in Seq(Elements), NEW c \in Nat, Len(q) <= c, NEW first \in Nat,
         NEW last \in Nat, first < last, NEW i \in Nat, last <= i, i < Len(q), NEW n
  PROVE  Move(Cells(Shifted(q, c, first, last, i), c, n), i - (last - first), i)
           = Cells(Shifted(q, c, first, last, i + 1), c, n)
  <1>1. PICK L \in Nat : L = Len(q) /\ \A k \in 1 .. L : q[k] \in Elements
    OBVIOUS
  <1> DEFINE g == Shifted(q, c, first, last, i)
             j == i - (last - first)
             h == Shifted(q, c, first, last, i + 1)
             e == ObjectMoved(g, c, j, i, Raw)
  <1>2. j \in 0 .. c - 1 /\ i \in 0 .. c - 1 /\ j # i /\ ~(j < first) /\ j < i
    BY <1>1
  <1>3. DOMAIN g = 0 .. c - 1 /\ g[j] = Raw /\ g[i] = q[i + 1] /\ g[i] \in Elements
    BY <1>1, <1>2 DEF Shifted
  <1>4. e = h
    <2>1. ASSUME NEW k \in 0 .. c - 1 PROVE e[k] = h[k]
      <3>1. CASE k = j
        <4>1. k + (last - first) + 1 = i + 1 /\ k < (i + 1) - (last - first) /\ ~(k < first)
          BY <1>2, <3>1
        <4>2. h[k] = q[i + 1]
          BY <4>1 DEF Shifted
        <4> QED
          BY <1>3, <3>1, <4>2 DEF ObjectMoved
      <3>2. CASE k = i
        <4>1. ~(k < first) /\ ~(k < (i + 1) - (last - first)) /\ k < i + 1 /\ k # j
          BY <1>2, <3>2
        <4> QED
          BY <3>2, <4>1 DEF Shifted, ObjectMoved
      <3>3. CASE k # i /\ k # j
        <4>1. (k < (i + 1) - (last - first) <=> k < i - (last - first)) /\ (k < i + 1 <=> k < i)
          BY <1>2, <3>3
        <4> QED
          BY <3>3, <4>1 DEF Shifted, ObjectMoved
      <3> QED
        BY <3>1, <3>2, <3>3
    <2>2. e = [k \in 0 .. c - 1 |-> e[k]] /\ h = [k \in 0 .. c - 1 |-> h[k]]
      BY DEF Shifted, ObjectMoved
    <2> HIDE DEF e, h
    <2> QED
      BY <2>1, <2>2
  <1>5. Move(Cells(g, c, n), j, i) = Cells(e, c, n)
    <2> HIDE DEF g, j
    <2>1. Movable(g, c, j, i) /\ g[j] = Raw
      BY <1>2, <1>3 DEF Movable
    <2> QED
      BY ONLY <2>1, MoveCells
  <1> QED
    BY <1>4, <1>5, Zenon

\* The objects in first .. last - 1 are destroyed and those behind them move down.
LEMMA EraseHolding ==
  ASSUME NEW q \in Seq(Elements), NEW c \in Nat, Len(q) <= c, ve = Holding(q, c),
         NEW first \in Nat, NEW last \in Nat, first < last, last <= Len(q), erase(first, last)
  PROVE  ve' = Holding(SubSeq(q, 1, first) \o SubSeq(q, last + 1, Len(q)), c)
  <1>1. PICK L \in Nat : L = Len(q) /\ \A k \in 1 .. L : q[k] \in Elements
    OBVIOUS
  <1>2. ve = Cells(Held(q, c), c, L) /\ ve.size = L
    <2>1. Fields(Cells(Held(q, c), c, Len(q)), Held(q, c), c, Len(q))
      BY ONLY CellsFields, Zenon
    <2> QED
      BY <1>1, <2>1, Zenon DEF Fields, Holding
  <1> DEFINE count == last - first
             V(i) == Cells(Shifted(q, c, first, last, i), c, L)
             W(f) == f = [i \in last .. ve.size |-> IF i = last THEN DestroyRange(ve, first, last)
                                                   ELSE Move(f[i - 1], i - 1 - count, i - 1)]
             loop == CHOOSE f : W(f)
             f0 == [i \in last .. L |-> V(i)]
  <1>3. ve' = Sized(loop[ve.size], ve.size - count)
    <2>1. first # last
      OBVIOUS
    <2> QED
      BY <2>1, Zenon DEF erase
  <1>4. DestroyRange(ve, first, last) = V(last)
    <2>1. PICK g : /\ g = Held(q, c) /\ DOMAIN g = 0 .. c - 1
                   /\ \A k \in 0 .. c - 1 : k < L => g[k] = q[k + 1] /\ g[k] # Raw
                   /\ \A k \in 0 .. c - 1 : ~(k < L) => g[k] = Raw
      <3>1. PICK g : /\ g = Held(q, c) /\ DOMAIN g = 0 .. c - 1
                     /\ \A k \in 0 .. c - 1 : k < Len(q) => g[k] = q[k + 1] /\ g[k] # Raw
                     /\ \A k \in 0 .. c - 1 : ~(k < Len(q)) => g[k] = Raw
        BY HeldFacts
      <3> QED
        BY <1>1, <3>1
    <2>2. Live(g, c, first, last)
      <3>1. \A k \in first .. last - 1 : k \in 0 .. c - 1 /\ k < L /\ k < c
        BY <1>1
      <3> QED
        BY <2>1, <3>1 DEF Live
    <2>3. DestroyRange(Cells(g, c, L), first, last) = Cells(Destroyed(g, c, first, last), c, L)
      <3>1. DOMAIN g = 0 .. c - 1
        BY <2>1
      <3> QED
        BY ONLY <2>2, <3>1, c \in Nat, first \in Nat, last \in Nat, DestroyCells
    <2>4. Destroyed(g, c, first, last) = Shifted(q, c, first, last, last)
      <3>1. last - (last - first) = first
        OBVIOUS
      <3>2. ASSUME NEW k \in 0 .. c - 1
            PROVE  Destroyed(g, c, first, last)[k] = Shifted(q, c, first, last, last)[k]
        <4>1. CASE k < first
          BY <1>1, <2>1, <4>1 DEF Destroyed, Shifted
        <4>2. CASE ~(k < first) /\ k < last
          BY <1>1, <2>1, <3>1, <4>2 DEF Destroyed, Shifted
        <4>3. CASE ~(k < last)
          BY <1>1, <2>1, <3>1, <4>3 DEF Destroyed, Shifted
        <4> QED
          BY <4>1, <4>2, <4>3
      <3> QED
        BY <3>2 DEF Destroyed, Shifted
    <2> QED
      BY <1>2, <2>1, <2>3, <2>4, Zenon
  <1>5. ASSUME NEW i \in last .. L, i # last PROVE Move(V(i - 1), i - 1 - count, i - 1) = V(i)
    <2>1. PICK j \in Nat : j = i - 1
      OBVIOUS
    <2>2. last <= j /\ j < Len(q) /\ j + 1 = i
      BY <1>1, <1>5, <2>1
    <2>3. Move(Cells(Shifted(q, c, first, last, j), c, L), j - (last - first), j)
            = Cells(Shifted(q, c, first, last, j + 1), c, L)
      BY ONLY <2>2, q \in Seq(Elements), c \in Nat, Len(q) <= c, first \in Nat, last \in Nat,
              first < last, j \in Nat, ShiftedMove
    <2> QED
      BY <2>1, <2>2, <2>3, Zenon
  <1> HIDE DEF V
  <1>6. W(f0)
    <2>1. ASSUME NEW i \in last .. L
          PROVE  f0[i] = IF i = last THEN DestroyRange(ve, first, last)
                         ELSE Move(f0[i - 1], i - 1 - count, i - 1)
      <3>1. CASE i = last
        BY <1>4, <3>1
      <3>2. CASE i # last
        <4>1. i - 1 \in last .. L
          BY <3>2
        <4>2. f0[i] = V(i) /\ f0[i - 1] = V(i - 1)
          BY <4>1
        <4> HIDE DEF f0
        <4> QED
          BY <1>5, <3>2, <4>2, Zenon
      <3> QED
        BY <3>1, <3>2
    <2>2. f0 = [i \in last .. L |-> f0[i]]
      OBVIOUS
    <2> HIDE DEF f0, count
    <2> QED
      BY <1>2, <2>1, <2>2
  <1>7. W(loop)
    <2> HIDE DEF W
    <2> QED
      BY <1>6
  <1> HIDE DEF loop, f0
  <1>8. loop[last] = V(last)
    BY <1>1, <1>2, <1>4, <1>7
  <1>9. ASSUME NEW i \in last .. L, i # last
        PROVE  loop[i] = Move(loop[i - 1], i - 1 - count, i - 1)
    BY <1>2, <1>7, <1>9
  <1> HIDE DEF W, count
  <1>10. \A k \in Nat : last + k <= L => loop[last + k] = V(last + k)
    <2> DEFINE S == {k \in Nat : last + k <= L => loop[last + k] = V(last + k)}
    <2>1. 0 \in S
      <3>1. last + 0 = last
        OBVIOUS
      <3> QED
        BY <1>8, <3>1, Zenon
    <2>2. ASSUME NEW k \in Nat, k \in S PROVE k + 1 \in S
      <3>1. SUFFICES ASSUME last + (k + 1) <= L PROVE loop[last + (k + 1)] = V(last + (k + 1))
        OBVIOUS
      <3>2. PICK i \in last .. L : i = last + (k + 1) /\ i # last /\ i - 1 = last + k /\ last + k <= L
        BY <1>1, <3>1
      <3>3. loop[i - 1] = V(i - 1)
        BY <2>2, <3>2, Zenon
      <3> QED
        BY <1>5, <1>9, <3>2, <3>3, Zenon
    <2> HIDE DEF S
    <2>3. \A k \in Nat : k \in S
      BY <2>1, <2>2, Induction, ZenonT(30)
    <2> QED
      BY <2>3 DEF S
  <1>11. loop[L] = V(L)
    <2>1. L - last \in Nat /\ last + (L - last) = L
      BY <1>1
    <2> QED
      BY <1>10, <2>1
  <1> DEFINE r == SubSeq(q, 1, first) \o SubSeq(q, last + 1, Len(q))
             h == Shifted(q, c, first, last, L)
  <1>12. /\ r \in Seq(Elements) /\ Len(r) = L - count
         /\ \A k \in 0 .. (L - count) - 1 : r[k + 1] = IF k < first THEN q[k + 1] ELSE q[k + count + 1]
    <2>1. first <= last /\ last <= Len(q)
      OBVIOUS
    <2>2. CutOut(q, first, last, r)
      BY ONLY <2>1, q \in Seq(Elements), first \in Nat, last \in Nat, CutFacts
    <2> HIDE DEF r
    <2> QED
      BY <1>1, <2>2 DEF CutOut, count
  <1>13. h = Held(r, c)
    <2>1. ASSUME NEW k \in 0 .. c - 1
          PROVE  h[k] = IF k < Len(r) THEN r[k + 1] ELSE Raw
      <3>1. CASE k < L - count
        <4>1. k \in 0 .. (L - count) - 1
          BY <1>1, <3>1 DEF count
        <4> HIDE DEF r
        <4> QED
          BY <1>12, <3>1, <4>1 DEF Shifted, count
      <3>2. CASE ~(k < L - count)
        <4>1. ~(k < first)
          BY <1>1, <3>2 DEF count
        <4> HIDE DEF r
        <4> QED
          BY <1>1, <1>12, <3>2, <4>1 DEF Shifted, count
      <3> QED
        BY <3>1, <3>2
    <2>2. h = [k \in 0 .. c - 1 |-> h[k]]
      BY DEF Shifted
    <2> HIDE DEF h, r
    <2> QED
      BY <2>1, <2>2 DEF Held
  <1>14. Sized(V(L), L - count) = Cells(h, c, L - count)
    <2>1. Fields(Cells(h, c, L), h, c, L)
      BY ONLY CellsFields, Zenon
    <2> QED
      BY ONLY <2>1, Zenon DEF Fields, V
  <1> HIDE DEF h, r
  <1>15. ve' = Holding(r, c)
    BY <1>2, <1>3, <1>11, <1>12, <1>13, <1>14, Zenon DEF Holding
  <1> QED
    BY <1>15 DEF r

\* x with the element e behind it unless that is v.
Filtered(x, e, v) == IF e = v THEN x ELSE Append(x, e)

\* rest[k] holds the elements other than v among the first k of q.
IsRest(rest, q, v) ==
  /\ rest \in [Nat -> Seq(Elements)] /\ rest[0] = <<>>
  /\ \A k \in 0 .. Len(q) - 1 : rest[k + 1] = Filtered(rest[k], q[k + 1], v)
  /\ \A k \in 0 .. Len(q) : Len(rest[k]) <= k
  /\ Sequence!Rest(q, v) = rest[Len(q)]

\* Rest is a recursion over the elements.
LEMMA RestUnfold ==
  ASSUME NEW q \in Seq(Elements), NEW v
  PROVE  \E rest : IsRest(rest, q, v)
  <1>1. PICK L \in Nat : L = Len(q) /\ \A k \in 1 .. L : q[k] \in Elements
    OBVIOUS
  <1> DEFINE D == Seq(Elements)
             B(x, e) == Filtered(x, e, v)
             G(n, x) == IF n < L THEN B(x, q[n + 1]) ELSE x
             F == [n \in Nat |-> [x \in D |-> G(n, x)]]
  <1>2. ASSUME NEW x \in D, NEW e \in Elements
        PROVE  B(x, e) \in D /\ Len(B(x, e)) <= Len(x) + 1
    <2>1. Append(x, e) \in D /\ Len(Append(x, e)) = Len(x) + 1
      OBVIOUS
    <2> QED
      BY <2>1 DEF Filtered
  <1>3. ASSUME NEW n \in Nat, NEW x \in D PROVE G(n, x) \in D
    <2>1. CASE n < L
      <3>1. q[n + 1] \in Elements
        BY <1>1, <2>1
      <3> HIDE DEF B, D
      <3> QED
        BY <1>2, <2>1, <3>1
    <2>2. CASE ~(n < L)
      BY <2>2
    <2> QED
      BY <2>1, <2>2
  <1> HIDE DEF B, G, D
  <1>4. F \in [Nat -> [D -> D]] /\ <<>> \in D
    BY <1>3 DEF D
  <1>5. PICK g : IsLoop(g, D, <<>>, F)
    <2> HIDE DEF F
    <2> QED
      BY <1>4, Recursion, ZenonT(30)
  <1>6. g \in [Nat -> D] /\ g[0] = <<>> /\ \A n \in Nat : g[n + 1] = F[n][g[n]]
    BY <1>5, Zenon DEF IsLoop
  <1>7. ASSUME NEW k \in 0 .. L - 1
        PROVE  k \in Nat /\ g[k] \in D /\ q[k + 1] \in Elements /\ g[k + 1] = B(g[k], q[k + 1])
    <2>1. k \in Nat /\ k < L /\ k + 1 \in 1 .. L
      BY <1>1
    <2>2. g[k + 1] = F[k][g[k]] /\ g[k] \in D
      BY <1>6, <2>1
    <2>3. F[k][g[k]] = G(k, g[k])
      BY <2>1, <2>2, Zenon
    <2> QED
      BY <1>1, <2>1, <2>2, <2>3, Zenon DEF G
  <1> HIDE DEF F
  <1>8. \A k \in Nat : k <= L => Len(g[k]) <= k
    <2> DEFINE S == {k \in Nat : k <= L => Len(g[k]) <= k}
    <2>1. 0 \in S
      BY <1>6
    <2>2. ASSUME NEW k \in Nat, k \in S PROVE k + 1 \in S
      <3>1. SUFFICES ASSUME k + 1 <= L PROVE Len(g[k + 1]) <= k + 1
        OBVIOUS
      <3>2. k \in 0 .. L - 1 /\ k <= L
        BY <3>1
      <3>3. Len(g[k]) <= k /\ g[k] \in D /\ q[k + 1] \in Elements /\ g[k + 1] = B(g[k], q[k + 1])
        BY <1>7, <2>2, <3>2
      <3>4. Len(g[k + 1]) <= Len(g[k]) + 1
        BY <1>2, <3>3, Zenon
      <3>5. Len(g[k]) \in Nat
        BY <3>3 DEF D
      <3>6. Len(g[k + 1]) \in Nat
        <4>1. g[k + 1] \in D
          BY <1>2, <3>3, Zenon
        <4> QED
          BY <4>1 DEF D
      <3> QED
        BY <3>3, <3>4, <3>5, <3>6
    <2> HIDE DEF S
    <2>3. \A k \in Nat : k \in S
      BY <2>1, <2>2, Induction, ZenonT(30)
    <2> QED
      BY <2>3 DEF S
  <1> DEFINE W(f) == f = [k \in 0 .. Len(q) |-> IF k = 0 THEN <<>> ELSE IF q[k] = v THEN f[k - 1]
                                                ELSE Append(f[k - 1], q[k])]
             rest == CHOOSE f : W(f)
             f0 == [k \in 0 .. L |-> g[k]]
  <1>9. Sequence!Rest(q, v) = rest[Len(q)]
    BY Zenon DEF Sequence!Rest
  <1>10. W(f0)
    <2>1. ASSUME NEW k \in 0 .. L
          PROVE  f0[k] = IF k = 0 THEN <<>> ELSE IF q[k] = v THEN f0[k - 1] ELSE Append(f0[k - 1], q[k])
      <3>1. CASE k = 0
        BY <1>6, <3>1
      <3>2. CASE k # 0
        <4>1. PICK j \in 0 .. L - 1 : j = k - 1 /\ j + 1 = k /\ j \in 0 .. L
          BY <3>2
        <4>2. g[j + 1] = B(g[j], q[j + 1])
          BY <1>7
        <4>3. f0[k] = g[k] /\ f0[j] = g[j]
          BY <4>1
        <4> HIDE DEF f0
        <4> QED
          BY <3>2, <4>1, <4>2, <4>3, Zenon DEF B, Filtered
      <3> QED
        BY <3>1, <3>2
    <2>2. f0 = [k \in 0 .. L |-> f0[k]]
      OBVIOUS
    <2> HIDE DEF f0
    <2> QED
      BY <1>1, <2>1, <2>2
  <1>11. W(rest)
    <2> HIDE DEF W
    <2> QED
      BY <1>10
  <1> HIDE DEF rest, f0
  <1>12. rest[0] = <<>>
    BY <1>1, <1>11
  <1>13. ASSUME NEW k \in 0 .. L - 1 PROVE rest[k + 1] = B(rest[k], q[k + 1])
    <2>1. k + 1 \in 0 .. L /\ k + 1 # 0 /\ (k + 1) - 1 = k
      OBVIOUS
    <2> QED
      BY <1>1, <1>11, <2>1 DEF B, Filtered
  <1> HIDE DEF W
  <1>14. \A k \in Nat : k <= L => rest[k] = g[k]
    <2> DEFINE S == {k \in Nat : k <= L => rest[k] = g[k]}
    <2>1. 0 \in S
      BY <1>6, <1>12, Zenon
    <2>2. ASSUME NEW k \in Nat, k \in S PROVE k + 1 \in S
      <3>1. SUFFICES ASSUME k + 1 <= L PROVE rest[k + 1] = g[k + 1]
        OBVIOUS
      <3>2. k \in 0 .. L - 1 /\ k <= L
        BY <3>1
      <3> QED
        BY <1>7, <1>13, <2>2, <3>2, Zenon
    <2> HIDE DEF S
    <2>3. \A k \in Nat : k \in S
      BY <2>1, <2>2, Induction, ZenonT(30)
    <2> QED
      BY <2>3 DEF S
  <1>15. Sequence!Rest(q, v) = g[Len(q)]
    BY <1>1, <1>9, <1>14
  <1>16. \A k \in 0 .. L : Len(g[k]) <= k
    BY <1>8
  <1>17. IsRest(g, q, v)
    BY <1>1, <1>6, <1>7, <1>15, <1>16, Zenon DEF IsRest, B, D
  <1> QED
    BY <1>17

\* The cells of q when the removal loop has read i elements and kept those in p.
Sifted(q, c, v, i, p) ==
  [k \in 0 .. c - 1 |-> IF k < Len(p) THEN p[k + 1]
                        ELSE IF k < i THEN IF q[k + 1] = v THEN v ELSE Moved
                        ELSE IF k < Len(q) THEN q[k + 1] ELSE Raw]

SiftState(q, c, v, i, p) == [vec |-> Cells(Sifted(q, c, v, i, p), c, Len(q)), write |-> Len(p)]

\* One round of the loop.
LEMMA SiftedShift ==
  ASSUME NEW q \in Seq(Elements), NEW c \in Nat, Len(q) <= c, NEW v \in Elements, NEW i \in Nat,
         i < Len(q), NEW p \in Seq(Elements), Len(p) <= i
  PROVE  Shift(SiftState(q, c, v, i, p), i, v)
           = SiftState(q, c, v, i + 1, Filtered(p, q[i + 1], v))
  <1>1. PICK L \in Nat : L = Len(q) /\ \A k \in 1 .. L : q[k] \in Elements
    OBVIOUS
  <1>2. PICK w \in Nat : w = Len(p) /\ \A k \in 1 .. w : p[k] \in Elements
    OBVIOUS
  <1>3. PICK g : g = Sifted(q, c, v, i, p)
    OBVIOUS
  <1>4. /\ DOMAIN g = 0 .. c - 1
        /\ \A k \in 0 .. c - 1 : /\ k < w => g[k] = p[k + 1]
                                 /\ ~(k < w) /\ k < i => g[k] = IF q[k + 1] = v THEN v ELSE Moved
                                 /\ ~(k < i) /\ k < L => g[k] = q[k + 1]
                                 /\ ~(k < L) => g[k] = Raw
    <2>1. DOMAIN g = 0 .. c - 1
      BY <1>3 DEF Sifted
    <2>2. ASSUME NEW k \in 0 .. c - 1
          PROVE  /\ k < w => g[k] = p[k + 1]
                 /\ ~(k < w) /\ k < i => g[k] = IF q[k + 1] = v THEN v ELSE Moved
                 /\ ~(k < i) /\ k < L => g[k] = q[k + 1]
                 /\ ~(k < L) => g[k] = Raw
      BY <1>1, <1>2, <1>3 DEF Sifted
    <2> QED
      BY <2>1, <2>2
  <1>5. w <= i /\ i < L /\ L <= c /\ i \in 0 .. c - 1 /\ i + 1 \in 1 .. L /\ g[i] = q[i + 1]
    BY <1>1, <1>2, <1>4
  <1>6. PICK d : d = Cells(g, c, L) /\ d.data = g
    <2>1. Fields(Cells(g, c, L), g, c, L)
      BY ONLY CellsFields, Zenon
    <2> QED
      BY <2>1, Zenon DEF Fields
  <1>7. PICK s : s = SiftState(q, c, v, i, p)
    OBVIOUS
  <1>8. s.vec = d /\ s.write = w /\ s = [vec |-> d, write |-> w]
    BY <1>1, <1>2, <1>3, <1>6, <1>7 DEF SiftState
  <1>9. CASE q[i + 1] = v
    <2>1. Shift(s, i, v) = s
      BY <1>5, <1>6, <1>8, <1>9, Zenon DEF Shift
    <2>2. Sifted(q, c, v, i + 1, p) = g
      <3>1. ASSUME NEW k \in 0 .. c - 1 PROVE Sifted(q, c, v, i + 1, p)[k] = g[k]
        <4>1. CASE k < w
          BY <1>2, <1>4, <4>1 DEF Sifted
        <4>2. CASE ~(k < w) /\ k < i
          BY <1>2, <1>4, <4>2 DEF Sifted
        <4>3. CASE k = i
          BY <1>2, <1>5, <1>9, <4>3 DEF Sifted
        <4>4. CASE k > i
          BY <1>1, <1>2, <1>4, <1>5, <4>4 DEF Sifted
        <4> QED
          BY <1>5, <4>1, <4>2, <4>3, <4>4
      <3> QED
        BY <1>3, <3>1 DEF Sifted
    <2>3. SiftState(q, c, v, i + 1, p) = s
      BY <1>3, <1>7, <2>2, Zenon DEF SiftState
    <2> QED
      BY <1>7, <1>9, <2>1, <2>3, Zenon DEF Filtered
  <1>10. CASE q[i + 1] # v
    <2>1. PICK e \in Elements : e = q[i + 1]
      BY <1>1, <1>5
    <2>2. PICK r : /\ r = Append(p, e) /\ r \in Seq(Elements) /\ Len(r) = w + 1
                   /\ \A k \in 1 .. w : r[k] = p[k]
                   /\ r[w + 1] = e
      <3>1. Append(p, e) \in Seq(Elements) /\ Len(Append(p, e)) = Len(p) + 1
        BY SMT
      <3>2. \A k \in 1 .. Len(p) : Append(p, e)[k] = p[k]
        BY SMT
      <3>3. Append(p, e)[Len(p) + 1] = e
        BY SMT
      <3> QED
        BY <1>2, <3>1, <3>2, <3>3, Zenon
    <2>3. PICK h : h = Sifted(q, c, v, i + 1, r)
      OBVIOUS
    <2>4. DOMAIN h = 0 .. c - 1
      BY <2>3 DEF Sifted
    <2>5. ASSUME NEW k \in 0 .. c - 1
          PROVE  /\ k < w => h[k] = g[k]
                 /\ k = w => h[k] = e
                 /\ k = i /\ w # i => h[k] = Moved
                 /\ k > w /\ k # i => h[k] = g[k]
      <3>1. CASE k < w
        <4>1. h[k] = r[k + 1]
          BY <2>2, <2>3, <3>1 DEF Sifted
        <4>2. k + 1 \in 1 .. w
          BY <3>1
        <4> QED
          BY <1>4, <1>5, <2>2, <3>1, <4>1, <4>2
      <3>2. CASE k = w
        <4>1. h[k] = r[k + 1]
          BY <2>2, <2>3, <3>2 DEF Sifted
        <4> QED
          BY <2>2, <3>2, <4>1
      <3>3. CASE k > w
        <4>1. h[k] = IF k < i + 1 THEN IF q[k + 1] = v THEN v ELSE Moved
                     ELSE IF k < L THEN q[k + 1] ELSE Raw
          BY <1>1, <2>2, <2>3, <3>3 DEF Sifted
        <4>2. CASE k = i
          BY <1>10, <3>3, <4>1, <4>2
        <4>3. CASE k # i
          BY <1>4, <1>5, <3>3, <4>1, <4>3
        <4> QED
          BY <4>2, <4>3
      <3> QED
        BY <3>1, <3>2, <3>3
    <2>6. h = [k \in 0 .. c - 1 |-> h[k]] /\ g = [k \in 0 .. c - 1 |-> g[k]]
      BY <1>3, <2>3 DEF Sifted
    <2>7. SiftState(q, c, v, i + 1, r) = [vec |-> Cells(h, c, L), write |-> w + 1]
      BY <1>1, <2>2, <2>3, Zenon DEF SiftState
    <2>8. CASE w = i
      <3>1. h = g
        <4>1. \A k \in 0 .. c - 1 : h[k] = g[k]
          BY <1>5, <2>1, <2>5, <2>8
        <4> QED
          BY <2>6, <4>1
      <3>2. Shift(s, i, v) = [vec |-> d, write |-> w + 1]
        BY <1>5, <1>6, <1>8, <1>10, <2>8, Zenon DEF Shift
      <3> QED
        BY <1>6, <1>7, <1>10, <2>1, <2>2, <2>7, <3>1, <3>2, Zenon DEF Filtered
    <2>9. CASE w # i
      <3>1. Movable(g, c, w, i) /\ g[w] # Raw
        <4>1. w \in 0 .. c - 1 /\ ~(w < w) /\ w < i
          BY <1>5, <2>9
        <4>2. g[w] # Raw
          BY <1>4, <4>1, VectorAssumption
        <4> QED
          BY <1>4, <1>5, <2>1, <2>9, <4>1, <4>2 DEF Movable
      <3>2. Assign(Cells(g, c, L), w, i) = Cells(ObjectMoved(g, c, w, i, Moved), c, L)
        BY ONLY <3>1, AssignCells
      <3>3. ObjectMoved(g, c, w, i, Moved) = h
        <4>1. ASSUME NEW k \in 0 .. c - 1 PROVE ObjectMoved(g, c, w, i, Moved)[k] = h[k]
          <5>1. k < w \/ k = w \/ k > w
            OBVIOUS
          <5> QED
            BY <1>5, <2>1, <2>5, <2>9, <5>1 DEF ObjectMoved
        <4> QED
          BY <2>6, <4>1 DEF ObjectMoved
      <3>4. Shift(s, i, v) = [vec |-> Assign(d, w, i), write |-> w + 1]
        BY <1>5, <1>6, <1>8, <1>10, <2>9, Zenon DEF Shift
      <3> QED
        BY <1>6, <1>7, <1>10, <2>1, <2>2, <2>7, <3>2, <3>3, <3>4, Zenon DEF Filtered
    <2> QED
      BY <2>8, <2>9
  <1> QED
    BY <1>9, <1>10

\* The elements other than v are kept.
LEMMA RemoveHolding ==
  ASSUME NEW q \in Seq(Elements), NEW c \in Nat, Len(q) <= c, ve = Holding(q, c),
         NEW v \in Elements, remove(v)
  PROVE  ve' = Holding(Sequence!Rest(q, v), c) /\ Sequence!Rest(q, v) \in Seq(Elements)
         /\ Len(Sequence!Rest(q, v)) <= c
  <1>1. PICK L \in Nat : L = Len(q) /\ \A k \in 1 .. L : q[k] \in Elements
    OBVIOUS
  <1>2. ve = Cells(Held(q, c), c, L) /\ ve.size = L
    <2>1. Fields(Cells(Held(q, c), c, Len(q)), Held(q, c), c, Len(q))
      BY ONLY CellsFields, Zenon
    <2> QED
      BY <1>1, <2>1, Zenon DEF Fields, Holding
  <1>3. PICK rest : IsRest(rest, q, v)
    BY ONLY q \in Seq(Elements), RestUnfold, ZenonT(30)
  <1>4. /\ rest \in [Nat -> Seq(Elements)] /\ rest[0] = <<>>
        /\ \A k \in 0 .. L - 1 : rest[k + 1] = Filtered(rest[k], q[k + 1], v)
        /\ \A k \in 0 .. L : Len(rest[k]) <= k
        /\ Sequence!Rest(q, v) = rest[L]
    BY <1>1, <1>3, Zenon DEF IsRest
  <1> DEFINE V(i) == SiftState(q, c, v, i, rest[i])
             W(f) == f = [i \in 0 .. ve.size |-> IF i = 0 THEN [vec |-> ve, write |-> 0]
                                                ELSE Shift(f[i - 1], i - 1, v)]
             loop == CHOOSE f : W(f)
             f0 == [i \in 0 .. L |-> V(i)]
             end == loop[ve.size]
  <1>5. ve' = Sized(DestroyRange(end.vec, end.write, ve.size), end.write)
    BY Zenon DEF remove
  <1>6. [vec |-> ve, write |-> 0] = V(0)
    <2>1. Sifted(q, c, v, 0, <<>>) = Held(q, c)
      <3>1. ASSUME NEW k \in 0 .. c - 1
            PROVE  Sifted(q, c, v, 0, <<>>)[k] = Held(q, c)[k]
        BY DEF Sifted, Held
      <3> QED
        BY <3>1 DEF Sifted, Held
    <2>2. Len(<<>>) = 0
      OBVIOUS
    <2> QED
      BY <1>1, <1>2, <1>4, <2>1, <2>2, Zenon DEF SiftState
  <1>7. ASSUME NEW i \in 0 .. L - 1 PROVE Shift(V(i), i, v) = V(i + 1)
    <2>1. i \in Nat /\ i < Len(q) /\ rest[i] \in Seq(Elements) /\ Len(rest[i]) <= i
      <3>1. i \in Nat /\ i < Len(q) /\ i \in 0 .. L
        BY <1>1
      <3>2. rest[i] \in Seq(Elements)
        BY <1>4, <3>1, Zenon
      <3>3. Len(rest[i]) <= i
        BY <1>4, <3>1, Zenon
      <3> QED
        BY <3>1, <3>2, <3>3
    <2>2. Shift(SiftState(q, c, v, i, rest[i]), i, v)
            = SiftState(q, c, v, i + 1, Filtered(rest[i], q[i + 1], v))
      BY ONLY <2>1, q \in Seq(Elements), c \in Nat, Len(q) <= c, v \in Elements, SiftedShift,
              ZenonT(30)
    <2> QED
      BY <1>4, <2>2, Zenon
  <1> HIDE DEF V
  <1>8. W(f0)
    <2>1. ASSUME NEW i \in 0 .. L
          PROVE  f0[i] = IF i = 0 THEN [vec |-> ve, write |-> 0] ELSE Shift(f0[i - 1], i - 1, v)
      <3>1. CASE i = 0
        BY <1>6, <3>1
      <3>2. CASE i # 0
        <4>1. PICK j \in 0 .. L - 1 : j = i - 1 /\ j + 1 = i /\ j \in 0 .. L
          BY <3>2
        <4>2. f0[i] = V(i) /\ f0[j] = V(j)
          BY <4>1
        <4> HIDE DEF f0
        <4> QED
          BY <1>7, <3>2, <4>1, <4>2, Zenon
      <3> QED
        BY <3>1, <3>2
    <2>2. f0 = [i \in 0 .. L |-> f0[i]]
      OBVIOUS
    <2> HIDE DEF f0
    <2> QED
      BY <1>2, <2>1, <2>2
  <1>9. W(loop)
    <2> HIDE DEF W
    <2> QED
      BY <1>8
  <1> HIDE DEF loop, f0
  <1>10. loop[0] = V(0)
    BY <1>1, <1>2, <1>6, <1>9
  <1>11. ASSUME NEW i \in 0 .. L - 1 PROVE loop[i + 1] = Shift(loop[i], i, v)
    <2>1. i + 1 \in 0 .. L /\ i + 1 # 0 /\ (i + 1) - 1 = i
      OBVIOUS
    <2> QED
      BY <1>2, <1>9, <2>1
  <1> HIDE DEF W
  <1>12. \A k \in Nat : k <= L => loop[k] = V(k)
    <2> DEFINE S == {k \in Nat : k <= L => loop[k] = V(k)}
    <2>1. 0 \in S
      BY <1>10, Zenon
    <2>2. ASSUME NEW k \in Nat, k \in S PROVE k + 1 \in S
      <3>1. SUFFICES ASSUME k + 1 <= L PROVE loop[k + 1] = V(k + 1)
        OBVIOUS
      <3>2. k \in 0 .. L - 1 /\ k <= L
        BY <3>1
      <3> QED
        BY <1>7, <1>11, <2>2, <3>2, Zenon
    <2> HIDE DEF S
    <2>3. \A k \in Nat : k \in S
      BY <2>1, <2>2, Induction, ZenonT(30)
    <2> QED
      BY <2>3 DEF S
  <1>13. PICK p : p = rest[L] /\ p \in Seq(Elements) /\ Len(p) <= L /\ Len(p) \in Nat
    BY <1>4
  <1>14. PICK g : g = Sifted(q, c, v, L, p)
    OBVIOUS
  <1>15. end.vec = Cells(g, c, L) /\ end.write = Len(p)
    <2>1. end = [vec |-> Cells(g, c, L), write |-> Len(p)]
      <3>1. loop[L] = V(L)
        BY <1>12
      <3> QED
        BY <1>1, <1>2, <1>13, <1>14, <3>1, Zenon DEF V, SiftState
    <2> HIDE DEF end
    <2> QED
      BY ONLY <2>1
  <1> HIDE DEF end
  <1> DEFINE w == Len(p)
             h == Destroyed(g, c, w, L)
  <1>16. /\ DOMAIN g = 0 .. c - 1
         /\ \A k \in 0 .. c - 1 : /\ k < w => g[k] = p[k + 1]
                                  /\ ~(k < w) /\ k < L => g[k] # Raw
                                  /\ ~(k < L) => g[k] = Raw
    <2>1. DOMAIN g = 0 .. c - 1
      BY <1>14 DEF Sifted
    <2>2. ASSUME NEW k \in 0 .. c - 1
          PROVE  /\ k < w => g[k] = p[k + 1]
                 /\ ~(k < w) /\ k < L => g[k] # Raw
                 /\ ~(k < L) => g[k] = Raw
      BY <1>1, <1>13, <1>14, VectorAssumption DEF Sifted
    <2> QED
      BY <2>1, <2>2
  <1>17. DestroyRange(Cells(g, c, L), w, L) = Cells(h, c, L)
    <2>1. Live(g, c, w, L)
      <3>1. \A k \in w .. L - 1 : k \in 0 .. c - 1 /\ ~(k < w) /\ k < L /\ k < c
        BY <1>1, <1>13
      <3> QED
        BY <1>16, <3>1 DEF Live
    <2>2. DOMAIN g = 0 .. c - 1 /\ w \in Nat /\ L \in Nat
      BY <1>13, <1>16
    <2> HIDE DEF w
    <2> QED
      BY ONLY <2>1, <2>2, c \in Nat, DestroyCells
  <1>18. h = Held(p, c)
    <2>1. ASSUME NEW k \in 0 .. c - 1
          PROVE  h[k] = IF k < Len(p) THEN p[k + 1] ELSE Raw
      <3>1. CASE k < w
        BY <1>13, <1>16, <3>1 DEF Destroyed
      <3>2. CASE ~(k < w) /\ k < L
        BY <1>13, <3>2 DEF Destroyed
      <3>3. CASE ~(k < L)
        BY <1>13, <1>16, <3>3 DEF Destroyed
      <3> QED
        BY <3>1, <3>2, <3>3
    <2>2. h = [k \in 0 .. c - 1 |-> h[k]]
      BY DEF Destroyed
    <2> HIDE DEF h
    <2> QED
      BY <2>1, <2>2 DEF Held
  <1>19. Sized(Cells(h, c, L), w) = Cells(h, c, w)
    <2>1. Fields(Cells(h, c, L), h, c, L)
      BY ONLY CellsFields, Zenon
    <2> QED
      BY ONLY <2>1, Zenon DEF Fields
  <1> HIDE DEF h
  <1>20. ve' = Holding(p, c)
    BY <1>2, <1>5, <1>15, <1>17, <1>18, <1>19, Zenon DEF Holding
  <1>21. Len(p) <= c
    BY <1>1, <1>13
  <1> QED
    BY <1>4, <1>13, <1>20, <1>21, Zenon

\* What is seen of a vector that holds q.
Seen(d, q, c) ==
  /\ d.size = Len(q) /\ d.cap = c /\ d.data = Held(q, c) /\ ~d.misuse
  /\ [k \in 1 .. d.size |-> d.data[k - 1]] = q

LEMMA HoldingSeen ==
  ASSUME NEW q \in Seq(Elements), NEW c \in Nat, Len(q) <= c
  PROVE  Seen(Holding(q, c), q, c)
  <1>1. PICK d : Fields(d, Held(q, c), c, Len(q))
    BY ONLY CellsFields, Zenon
  <1>2. d = Holding(q, c) /\ d.size = Len(q) /\ d.cap = c /\ d.data = Held(q, c) /\ ~d.misuse
    BY <1>1, Zenon DEF Fields, Holding
  <1>3. PICK g : /\ g = Held(q, c) /\ \A k \in 0 .. c - 1 : k < Len(q) => g[k] = q[k + 1]
    BY HeldFacts
  <1>4. [k \in 1 .. Len(q) |-> g[k - 1]] = q
    <2>1. \A k \in 1 .. Len(q) : g[k - 1] = q[k]
      <3> SUFFICES ASSUME NEW k \in 1 .. Len(q) PROVE g[k - 1] = q[k]
        OBVIOUS
      <3>1. k - 1 \in 0 .. c - 1 /\ k - 1 < Len(q) /\ (k - 1) + 1 = k
        OBVIOUS
      <3> QED
        BY <1>3, <3>1
    <2> QED
      BY <2>1
  <1>5. Seen(d, q, c)
    BY <1>2, <1>3, <1>4 DEF Seen
  <1> QED
    BY <1>2, <1>5, Zenon

\* A vector holds a sequence.
HoldsSequence == \E q \in Seq(Elements), c \in Nat : Len(q) <= c /\ ve = Holding(q, c)

\* The next step leaves q in c cells.
Leaves(q, c) == q \in Seq(Elements) /\ c \in Nat /\ Len(q) <= c /\ ve' = Holding(q, c)

LEMMA LeavesFacts ==
  ASSUME NEW q, NEW c, Leaves(q, c)
  PROVE  HoldsSequence' /\ Contents' = q
  <1>1. q \in Seq(Elements) /\ c \in Nat /\ Len(q) <= c /\ ve' = Holding(q, c)
    BY Zenon DEF Leaves
  <1>2. HoldsSequence'
    BY <1>1, Zenon DEF HoldsSequence
  <1>3. Seen(Holding(q, c), q, c)
    BY ONLY <1>1, HoldingSeen, ZenonT(30)
  <1>4. Contents' = q
    BY <1>1, <1>3, Zenon DEF Seen, Contents
  <1> QED
    BY <1>2, <1>4

\* A step of push_back.
LEMMA PushBack ==
  ASSUME NEW q \in Seq(Elements), NEW c \in Nat, Len(q) <= c, ve = Holding(q, c),
         NEW v \in Elements, push_back(v)
  PROVE  HoldsSequence' /\ Sequence!Next
  <1>1. Seen(ve, q, c)
    <2>1. Seen(Holding(q, c), q, c)
      BY ONLY q \in Seq(Elements), c \in Nat, Len(q) <= c, HoldingSeen, ZenonT(30)
    <2> QED
      BY <2>1, Zenon
  <1>2. PICK L \in Nat : L = Len(q) /\ \A k \in 1 .. L : q[k] \in Elements
    OBVIOUS
  <1>3. ve.size = L /\ ve.cap = c /\ Contents = q
    BY <1>1, <1>2, Zenon DEF Seen, Contents
  <1> DEFINE d == IF ve.size = ve.cap THEN reserve(ve, IF ve.cap = 0 THEN 1 ELSE ve.cap * 2) ELSE ve
             f == [k \in {L} |-> v]
             r == Extended(q, L + 1, f)
  <1>4. PICK e \in Nat : d = Holding(q, e) /\ L + 1 <= e
    <2>1. CASE L = c
      <3>1. PICK m \in Nat : m = (IF c = 0 THEN 1 ELSE c * 2) /\ ~(m <= c) /\ L + 1 <= m
        BY <2>1
      <3>2. reserve(Holding(q, c), m) = Holding(q, IF m <= c THEN c ELSE m)
        BY ONLY q \in Seq(Elements), c \in Nat, Len(q) <= c, m \in Nat, ReserveHolding, ZenonT(30)
      <3>3. d = Holding(q, m)
        BY <1>3, <2>1, <3>1, <3>2, Zenon
      <3> QED
        BY <3>1, <3>3
    <2>2. CASE L # c
      <3>1. d = Holding(q, c)
        BY <1>3, <2>2, Zenon
      <3>2. L + 1 <= c
        BY <1>2, <2>2
      <3> QED
        BY <3>1, <3>2
    <2> QED
      BY <2>1, <2>2
  <1>5. d.size = L
    <2>1. Len(q) <= e
      BY <1>2, <1>4
    <2>2. Seen(Holding(q, e), q, e)
      BY ONLY q \in Seq(Elements), e \in Nat, <2>1, HoldingSeen, ZenonT(30)
    <2> HIDE DEF d
    <2> QED
      BY <1>2, <1>4, <2>2, Zenon DEF Seen
  <1>6. ve' = Sized(ConstructRange(d, L, L + 1, f), L + 1) /\ ve_ret' = <<"insert", L, v, L>>
    <2>1. /\ ve' = Sized(ConstructRange(d, d.size, d.size + 1, [k \in {d.size} |-> v]), d.size + 1)
          /\ ve_ret' = <<"insert", ve.size, v, ve.size>>
      BY Zenon DEF push_back
    <2> HIDE DEF d
    <2> QED
      BY <1>3, <1>5, <2>1, Zenon
  <1> HIDE DEF d
  <1>7. ve' = Holding(r, e)
    <2>1. Extends(q, L + 1, e, f)
      BY <1>2, <1>4 DEF Extends
    <2>2. L + 1 \in Nat
      OBVIOUS
    <2> HIDE DEF f
    <2>3. Sized(ConstructRange(Holding(q, e), Len(q), L + 1, f), L + 1)
            = Holding(Extended(q, L + 1, f), e)
      BY ONLY <2>1, <2>2, q \in Seq(Elements), e \in Nat, AppendHolding, ZenonT(30)
    <2> QED
      BY <1>2, <1>4, <1>6, <2>3, Zenon
  <1>8. r \in Seq(Elements) /\ Len(r) = L + 1
    BY <1>2 DEF Extended
  <1>9. r = SubSeq(q, 1, L) \o <<v>> \o SubSeq(q, L + 1, Len(q))
    <2>1. SubSeq(q, 1, L) = q
      BY <1>2, SubSeqFull, Zenon
    <2>2. SubSeq(q, L + 1, Len(q)) = <<>>
      BY <1>2
    <2>3. (q \o <<v>>) \o <<>> = q \o <<v>>
      OBVIOUS
    <2>4. r = q \o <<v>>
      <3>1. q \o <<v>> \in Seq(Elements) /\ Len(q \o <<v>>) = L + 1
        BY <1>2
      <3>2. \A k \in 1 .. L + 1 : r[k] = (q \o <<v>>)[k]
        BY <1>2 DEF Extended
      <3> HIDE DEF r
      <3> QED
        BY <1>8, <3>1, <3>2
    <2> HIDE DEF r
    <2> QED
      BY <2>1, <2>2, <2>3, <2>4, Zenon
  <1> HIDE DEF r
  <1>10. Leaves(r, e)
    BY <1>4, <1>7, <1>8, Zenon DEF Leaves
  <1>11. HoldsSequence' /\ Contents' = r
    BY ONLY <1>10, LeavesFacts
  <1>12. L \in 0 .. Len(Contents) /\ Sequence!Insert(L, v)
    <2>1. L \in 0 .. Len(Contents)
      BY <1>2, <1>3
    <2> QED
      BY <1>3, <1>6, <1>9, <1>11, <2>1, Zenon DEF Sequence!Insert
  <1> QED
    BY <1>11, <1>12, Zenon DEF Sequence!Next

\* What is seen of the vector now.
LEMMA SeenNow ==
  ASSUME NEW q \in Seq(Elements), NEW c \in Nat, Len(q) <= c, ve = Holding(q, c)
  PROVE  /\ Seen(ve, q, c) /\ ve.size = Len(q) /\ ve.cap = c /\ Contents = q
         /\ ve = Cells(Held(q, c), c, Len(q))
  <1>1. Seen(Holding(q, c), q, c)
    BY ONLY q \in Seq(Elements), c \in Nat, Len(q) <= c, HoldingSeen, ZenonT(30)
  <1> QED
    BY <1>1, Zenon DEF Seen, Contents, Holding

\* A step of pop_back.
LEMMA PopBack ==
  ASSUME NEW q \in Seq(Elements), NEW c \in Nat, Len(q) <= c, ve = Holding(q, c), pop_back
  PROVE  HoldsSequence' /\ Sequence!Next
  <1>1. PICK L \in Nat : L = Len(q) /\ \A k \in 1 .. L : q[k] \in Elements
    OBVIOUS
  <1>2. ve.size = L /\ Contents = q /\ ve = Cells(Held(q, c), c, L)
    BY <1>1, SeenNow
  <1>3. L > 0 /\ ve' = DestroyRange(Sized(ve, L - 1), L - 1, L) /\ ve_ret' = <<"erase", L - 1, L, L - 1>>
    BY <1>2, Zenon DEF pop_back
  <1>4. PICK m \in Nat : m = L - 1 /\ m <= Len(q)
    BY <1>1, <1>3
  <1>5. PICK g : g = Held(q, c) /\ DOMAIN g = 0 .. c - 1 /\ Live(g, c, m, L)
    <2>1. PICK g : /\ g = Held(q, c) /\ DOMAIN g = 0 .. c - 1
                   /\ \A k \in 0 .. c - 1 : k < Len(q) => g[k] # Raw
      BY HeldFacts
    <2>2. \A k \in m .. L - 1 : k \in 0 .. c - 1 /\ k < Len(q) /\ k < c
      BY <1>1, <1>4
    <2> QED
      BY <2>1, <2>2 DEF Live
  <1> DEFINE h == Destroyed(g, c, m, L)
             r == [k \in 1 .. m |-> q[k]]
  <1>6. Sized(ve, m) = Cells(g, c, m)
    <2>1. Fields(Cells(g, c, L), g, c, L)
      BY ONLY CellsFields, Zenon
    <2> QED
      BY <1>2, <1>5, <2>1, Zenon DEF Fields
  <1>7. DestroyRange(Cells(g, c, m), m, L) = Cells(h, c, m)
    <2>1. DOMAIN g = 0 .. c - 1 /\ Live(g, c, m, L)
      BY <1>5
    <2> QED
      BY ONLY <2>1, c \in Nat, m \in Nat, L \in Nat, DestroyCells
  <1>8. Sized(Cells(h, c, m), m) = Cells(h, c, m)
    <2>1. Fields(Cells(h, c, m), h, c, m)
      BY ONLY CellsFields, Zenon
    <2> QED
      BY ONLY <2>1, Zenon DEF Fields
  <1>9. Sized(DestroyRange(Cells(Held(q, c), c, m), m, Len(q)), m) = Holding(r, c)
    BY ONLY <1>4, q \in Seq(Elements), c \in Nat, Len(q) <= c, m \in Nat, TruncateHolding, ZenonT(30)
  <1> HIDE DEF h
  <1>10. ve' = Holding(r, c)
    BY <1>1, <1>3, <1>4, <1>5, <1>6, <1>7, <1>8, <1>9, Zenon
  <1>11. r \in Seq(Elements) /\ Len(r) = m /\ m <= c
    BY <1>1, <1>4
  <1>12. r = SubSeq(q, 1, m) \o SubSeq(q, L + 1, Len(q))
    <2>1. PICK x : x = SubSeq(q, 1, m) \o SubSeq(q, L + 1, Len(q)) /\ CutOut(q, m, L, x)
      <3>1. m <= L /\ L <= Len(q)
        BY <1>1, <1>4
      <3>2. CutOut(q, m, L, SubSeq(q, 1, m) \o SubSeq(q, L + 1, Len(q)))
        BY ONLY <3>1, q \in Seq(Elements), m \in Nat, L \in Nat, CutFacts
      <3> QED
        BY <3>2
    <2>2. x \in Seq(Elements) /\ Len(x) = m /\ \A k \in 1 .. m : x[k] = q[k]
      <3>1. Len(q) - (L - m) = m /\ L - m = 1
        BY <1>1, <1>4
      <3>2. /\ x \in Seq(Elements) /\ Len(x) = m
            /\ \A k \in 0 .. m - 1 : x[k + 1] = IF k < m THEN q[k + 1] ELSE q[k + (L - m) + 1]
        BY <2>1, <3>1, Zenon DEF CutOut
      <3>3. ASSUME NEW k \in 1 .. m PROVE x[k] = q[k]
        <4>1. PICK j \in 0 .. m - 1 : j + 1 = k /\ j < m
          OBVIOUS
        <4> QED
          BY <3>2, <4>1
      <3> QED
        BY <3>2, <3>3
    <2> QED
      BY <1>11, <2>1, <2>2
  <1> HIDE DEF r
  <1>13. Leaves(r, c)
    BY <1>10, <1>11, Zenon DEF Leaves
  <1>14. HoldsSequence' /\ Contents' = r
    BY ONLY <1>13, LeavesFacts
  <1>15. m \in 0 .. Len(Contents) /\ L \in m .. Len(Contents)
    BY <1>1, <1>2, <1>4
  <1>16. Sequence!Erase(m, L)
    BY <1>2, <1>3, <1>4, <1>12, <1>14, Zenon DEF Sequence!Erase
  <1> QED
    BY <1>14, <1>15, <1>16, Zenon DEF Sequence!Next

\* A step of reserve.
LEMMA ReserveStep ==
  ASSUME NEW q \in Seq(Elements), NEW c \in Nat, Len(q) <= c, ve = Holding(q, c),
         NEW n \in Nat, Reserve(n)
  PROVE  HoldsSequence' /\ Sequence!Next
  <1>1. Contents = q
    BY SeenNow
  <1>2. PICK e \in Nat : e = (IF n <= c THEN c ELSE n) /\ Len(q) <= e
    OBVIOUS
  <1>3. reserve(Holding(q, c), n) = Holding(q, IF n <= c THEN c ELSE n)
    BY ONLY q \in Seq(Elements), c \in Nat, Len(q) <= c, n \in Nat, ReserveHolding, ZenonT(30)
  <1>4. Leaves(q, e)
    BY <1>2, <1>3, Zenon DEF Leaves, Reserve
  <1>5. HoldsSequence' /\ Contents' = q
    BY ONLY <1>4, LeavesFacts
  <1>6. Sequence!Reorganise
    BY <1>1, <1>5, Zenon DEF Sequence!Reorganise, Reserve
  <1> QED
    BY <1>5, <1>6, Zenon DEF Sequence!Next

\* A step of erase.
LEMMA EraseStep ==
  ASSUME NEW q \in Seq(Elements), NEW c \in Nat, Len(q) <= c, ve = Holding(q, c),
         NEW i \in 0 .. ve.size, NEW j \in i .. ve.size, erase(i, j)
  PROVE  HoldsSequence' /\ Sequence!Next
  <1>1. PICK L \in Nat : L = Len(q) /\ \A k \in 1 .. L : q[k] \in Elements
    OBVIOUS
  <1>2. ve.size = L /\ Contents = q
    BY <1>1, SeenNow
  <1>3. i \in Nat /\ j \in Nat /\ i <= j /\ j <= L /\ i \in 0 .. L /\ j \in i .. L
    BY <1>2
  <1> DEFINE r == SubSeq(q, 1, i) \o SubSeq(q, j + 1, Len(q))
  <1>4. CutOut(q, i, j, r)
    BY ONLY <1>1, <1>3, q \in Seq(Elements), CutFacts
  <1>5. ve' = Holding(r, c)
    <2>1. CASE i = j
      <3>1. r = q
        <4> HIDE DEF r
        <4>1. r \in Seq(Elements) /\ Len(r) = L /\ \A k \in 0 .. L - 1 : r[k + 1] = q[k + 1]
          <5>1. L - (j - i) = L /\ j - i = 0
            BY <1>1, <1>3, <2>1
          <5>2. r \in Seq(Elements) /\ Len(r) = L
            BY <1>1, <1>4, <5>1, Zenon DEF CutOut
          <5>3. ASSUME NEW k \in 0 .. L - 1 PROVE r[k + 1] = q[k + 1]
            <6>1. k + (j - i) + 1 = k + 1
              BY <5>1
            <6>2. r[k + 1] = IF k < i THEN q[k + 1] ELSE q[k + (j - i) + 1]
              BY <1>1, <1>4, <5>1, Zenon DEF CutOut
            <6> QED
              BY ONLY <6>1, <6>2, Zenon
          <5> QED
            BY ONLY <5>2, <5>3, Zenon
        <4>2. ASSUME NEW k \in 1 .. L PROVE r[k] = q[k]
          <5>1. PICK m \in 0 .. L - 1 : m + 1 = k
            OBVIOUS
          <5> QED
            BY <4>1, <5>1
        <4> QED
          BY <1>1, <4>1, <4>2
      <3> HIDE DEF r
      <3> QED
        BY <2>1, <3>1, Zenon DEF erase
    <2>2. CASE i # j
      <3>1. i < j /\ j <= Len(q)
        BY <1>1, <1>3, <2>2
      <3> QED
        BY ONLY <1>3, <3>1, q \in Seq(Elements), c \in Nat, Len(q) <= c, ve = Holding(q, c),
                erase(i, j), EraseHolding, ZenonT(30)
    <2> QED
      BY <2>1, <2>2
  <1> HIDE DEF r
  <1>6. r \in Seq(Elements) /\ Len(r) <= c
    BY <1>1, <1>3, <1>4 DEF CutOut
  <1>7. Leaves(r, c)
    BY <1>5, <1>6, Zenon DEF Leaves
  <1>8. HoldsSequence' /\ Contents' = r
    BY ONLY <1>7, LeavesFacts
  <1>9. Sequence!Erase(i, j)
    <2>1. ve_ret' = <<"erase", i, j, IF i = j THEN ve.size ELSE i>>
      BY Zenon DEF erase
    <2>2. ve_ret' = <<"erase", i, j, i>> \/ (i = j /\ ve_ret' = <<"erase", i, j, Len(Contents)>>)
      BY <1>1, <1>2, <2>1, Zenon
    <2> QED
      BY <1>2, <1>8, <2>2, Zenon DEF Sequence!Erase, r
  <1> QED
    BY <1>1, <1>2, <1>3, <1>8, <1>9, Zenon DEF Sequence!Next

\* A step of remove.
LEMMA RemoveStep ==
  ASSUME NEW q \in Seq(Elements), NEW c \in Nat, Len(q) <= c, ve = Holding(q, c),
         NEW v \in Elements, remove(v)
  PROVE  HoldsSequence' /\ Sequence!Next
  <1>1. Contents = q
    BY SeenNow
  <1>2. Leaves(Sequence!Rest(q, v), c)
    BY RemoveHolding, Zenon DEF Leaves
  <1>3. HoldsSequence' /\ Contents' = Sequence!Rest(q, v)
    BY ONLY <1>2, LeavesFacts
  <1>4. ve_ret' = <<"remove", v>>
    BY Zenon DEF remove
  <1>5. Sequence!Remove(v)
    BY <1>1, <1>3, <1>4, Zenon DEF Sequence!Remove
  <1> QED
    BY <1>3, <1>5, Zenon DEF Sequence!Next

\* A step of resize.
LEMMA ResizeStep ==
  ASSUME NEW q \in Seq(Elements), NEW c \in Nat, Len(q) <= c, ve = Holding(q, c),
         NEW n \in Nat, NEW v \in Elements, resize(n, v)
  PROVE  HoldsSequence' /\ Sequence!Next
  <1>1. PICK L \in Nat : L = Len(q) /\ \A k \in 1 .. L : q[k] \in Elements
    OBVIOUS
  <1>2. ve.size = L /\ Contents = q /\ ve = Cells(Held(q, c), c, L)
    BY <1>1, SeenNow
  <1> DEFINE f == [k \in L .. n - 1 |-> v]
             r == [k \in 1 .. n |-> IF k <= Len(q) THEN q[k] ELSE v]
  <1>3. /\ ve' = Sized(IF n < L THEN DestroyRange(ve, n, L)
                       ELSE ConstructRange(reserve(ve, n), L, n, f), n)
        /\ ve_ret' = <<"resize", n, v>>
    BY <1>2, Zenon DEF resize
  <1>4. r \in Seq(Elements) /\ Len(r) = n
    BY <1>1
  <1>5. PICK e \in Nat : ve' = Holding(r, e) /\ n <= e
    <2>1. CASE n < L
      <3>1. n <= Len(q) /\ n <= c
        BY <1>1, <2>1
      <3>2. Sized(DestroyRange(Cells(Held(q, c), c, L), n, Len(q)), n) = Holding([k \in 1 .. n |-> q[k]], c)
        BY ONLY <3>1, q \in Seq(Elements), c \in Nat, Len(q) <= c, n \in Nat, TruncateHolding, ZenonT(30)
      <3>3. [k \in 1 .. n |-> q[k]] = r
        BY <1>1, <2>1
      <3> HIDE DEF r
      <3>4. ve' = Holding(r, c)
        BY <1>1, <1>2, <1>3, <2>1, <3>2, <3>3, Zenon
      <3> QED
        BY <3>1, <3>4
    <2>2. CASE ~(n < L)
      <3>1. PICK e \in Nat : e = (IF n <= c THEN c ELSE n) /\ n <= e /\ Len(q) <= e
        BY <1>1
      <3>2. reserve(Holding(q, c), n) = Holding(q, e)
        <4>1. reserve(Holding(q, c), n) = Holding(q, IF n <= c THEN c ELSE n)
          BY ONLY q \in Seq(Elements), c \in Nat, Len(q) <= c, n \in Nat, ReserveHolding, ZenonT(30)
        <4> QED
          BY <3>1, <4>1, Zenon
      <3>3. Extends(q, n, e, f)
        BY <1>1, <2>2, <3>1 DEF Extends
      <3>4. Extended(q, n, f) = r
        <4>1. \A k \in 1 .. n : ~(k <= Len(q)) => f[k - 1] = v
          BY <1>1
        <4> QED
          BY <4>1 DEF Extended
      <3> HIDE DEF f, r
      <3>5. Sized(ConstructRange(Holding(q, e), Len(q), n, f), n) = Holding(Extended(q, n, f), e)
        BY ONLY <3>3, q \in Seq(Elements), n \in Nat, e \in Nat, AppendHolding, ZenonT(30)
      <3>6. ve' = Holding(r, e)
        BY <1>1, <1>3, <2>2, <3>2, <3>4, <3>5, Zenon
      <3> QED
        BY <3>1, <3>6
    <2> QED
      BY <2>1, <2>2
  <1> HIDE DEF r
  <1>6. Leaves(r, e)
    BY <1>4, <1>5, Zenon DEF Leaves
  <1>7. HoldsSequence' /\ Contents' = r
    BY ONLY <1>6, LeavesFacts
  <1>8. n \in 0 .. Len(Contents')
    BY <1>4, <1>7
  <1>9. Sequence!Resize(n, v)
    BY <1>2, <1>3, <1>7, Zenon DEF Sequence!Resize, r
  <1> QED
    BY <1>7, <1>8, <1>9, Zenon DEF Sequence!Next

\* The contents of another vector.
LEMMA OtherFacts ==
  ASSUME NEW t \in OtherVectors
  PROVE  t \in Seq(Elements) /\ Len(t) \in Nat /\ \A k \in 1 .. Len(t) : t[k] \in Elements
  <1>1. PICK n \in 0 .. MaxSize : t \in [1 .. n -> Elements]
    BY DEF OtherVectors
  <1>2. n \in Nat
    BY <1>1, VectorAssumption
  <1> QED
    BY <1>1, <1>2

\* A vector that is left with the contents of another has been assigned it.
LEMMA AssignStep ==
  ASSUME NEW t \in OtherVectors, NEW e, Leaves(t, e), ve_ret' = <<"assign", t>>
  PROVE  HoldsSequence' /\ Sequence!Next
  <1>1. HoldsSequence' /\ Contents' = t
    BY ONLY Leaves(t, e), LeavesFacts
  <1>2. Sequence!Assign(t)
    BY <1>1, Zenon DEF Sequence!Assign
  <1> QED
    BY <1>1, <1>2, Zenon DEF Sequence!Next

\* A step of copy assignment.
LEMMA CopyStep ==
  ASSUME NEW q \in Seq(Elements), NEW c \in Nat, Len(q) <= c, ve = Holding(q, c),
         NEW t \in OtherVectors, Copy(t)
  PROVE  HoldsSequence' /\ Sequence!Next
  <1>1. PICK n \in Nat : n = Len(t) /\ t \in Seq(Elements) /\ \A k \in 1 .. n : t[k] \in Elements
    BY OtherFacts
  <1> DEFINE d == reserve(clear(ve), Len(t))
             f == [k \in 0 .. Len(t) - 1 |-> t[k + 1]]
  <1>2. ve' = Sized(ConstructRange(d, 0, Len(t), f), Len(t)) /\ ve_ret' = <<"assign", t>>
    BY Zenon DEF Copy
  <1>3. PICK z : z = <<>> /\ z \in Seq(Elements) /\ Len(z) = 0
    <2>1. <<>> \in Seq(Elements) /\ Len(<<>>) = 0
      OBVIOUS
    <2> QED
      BY <2>1, Zenon
  <1>4. clear(ve) = Holding(z, c)
    <2>1. clear(Holding(q, c)) = Holding(<<>>, c)
      BY ONLY q \in Seq(Elements), c \in Nat, Len(q) <= c, ClearHolding, ZenonT(30)
    <2> QED
      BY <1>3, <2>1, Zenon
  <1>5. PICK e \in Nat : e = (IF n <= c THEN c ELSE n) /\ n <= e /\ Len(z) <= e /\ Len(z) <= c
    BY <1>3
  <1>6. d = Holding(z, e)
    <2>1. reserve(Holding(z, c), n) = Holding(z, IF n <= c THEN c ELSE n)
      BY ONLY <1>3, <1>5, c \in Nat, n \in Nat, ReserveHolding, ZenonT(30)
    <2> QED
      BY <1>1, <1>4, <1>5, <2>1, Zenon
  <1> HIDE DEF d
  <1>7. Extends(z, n, e, f)
    BY <1>1, <1>3, <1>5 DEF Extends
  <1>8. Extended(z, n, f) = t
    <2>1. \A k \in 1 .. n : ~(k <= Len(z)) /\ f[k - 1] = t[k]
      BY <1>1, <1>3
    <2> HIDE DEF f
    <2> QED
      BY <1>1, <2>1 DEF Extended
  <1> HIDE DEF f
  <1>9. Sized(ConstructRange(Holding(z, e), Len(z), n, f), n) = Holding(Extended(z, n, f), e)
    BY ONLY <1>3, <1>7, n \in Nat, e \in Nat, AppendHolding, ZenonT(30)
  <1>10. Leaves(t, e)
    BY <1>1, <1>2, <1>3, <1>5, <1>6, <1>8, <1>9, Zenon DEF Leaves
  <1> QED
    BY ONLY <1>2, <1>10, t \in OtherVectors, AssignStep, ZenonT(30)

\* A step of move assignment.
LEMMA TakeStep ==
  ASSUME NEW q \in Seq(Elements), NEW c \in Nat, Len(q) <= c, ve = Holding(q, c),
         NEW t \in OtherVectors, Take(t)
  PROVE  HoldsSequence' /\ Sequence!Next
  <1>1. PICK n \in Nat : n = Len(t) /\ t \in Seq(Elements) /\ \A k \in 1 .. n : t[k] \in Elements
    BY OtherFacts
  <1> DEFINE f == [k \in 0 .. Len(t) - 1 |-> t[k + 1]]
  <1>2. /\ ve' = Vec(f, Len(t), Len(t), clear(ve).misuse \/ Leaks(clear(ve)))
        /\ ve_ret' = <<"assign", t>>
    BY Zenon DEF Take
  <1>3. PICK g : /\ clear(ve) = Cells(g, c, 0) /\ DOMAIN g = 0 .. c - 1
                 /\ \A k \in 0 .. c - 1 : g[k] = Raw
    <2>1. clear(Holding(q, c)) = Holding(<<>>, c)
      BY ONLY q \in Seq(Elements), c \in Nat, Len(q) <= c, ClearHolding, ZenonT(30)
    <2>2. Len(<<>>) = 0
      OBVIOUS
    <2>3. DOMAIN Held(<<>>, c) = 0 .. c - 1 /\ \A k \in 0 .. c - 1 : Held(<<>>, c)[k] = Raw
      BY DEF Held
    <2> QED
      BY <2>1, <2>2, <2>3, Zenon DEF Holding
  <1>4. (Cells(g, c, 0).misuse \/ Leaks(Cells(g, c, 0))) = FALSE
    BY ONLY <1>3, c \in Nat, ReleaseCells, ZenonT(30)
  <1>5. f = Held(t, n)
    <2>1. \A k \in 0 .. n - 1 : f[k] = IF k < Len(t) THEN t[k + 1] ELSE Raw
      BY <1>1
    <2> QED
      BY <1>1, <2>1 DEF Held
  <1> HIDE DEF f
  <1>6. ve' = Holding(t, n)
    BY <1>1, <1>2, <1>3, <1>4, <1>5, Zenon DEF Holding, Cells
  <1>7. Leaves(t, n)
    <2>1. Len(t) <= n
      BY <1>1
    <2> QED
      BY <1>1, <1>6, <2>1, Zenon DEF Leaves
  <1> QED
    BY ONLY <1>2, <1>7, t \in OtherVectors, AssignStep, ZenonT(30)

\* Every step of the vector is a step of the sequence.
LEMMA VectorStepRefines ==
  ASSUME HoldsSequence, [VectorNext]_ve_vars
  PROVE  HoldsSequence' /\ [Sequence!Next]_(Sequence!vars)
  <1>1. PICK q \in Seq(Elements), c \in Nat : Len(q) <= c /\ ve = Holding(q, c)
    BY DEF HoldsSequence
  <1>2. CASE UNCHANGED ve_vars
    BY <1>2, Zenon DEF ve_vars, HoldsSequence, Sequence!vars, Contents
  <1>3. CASE pop_back
    BY <1>1, <1>3, PopBack, Zenon
  <1>4. ASSUME NEW v \in Elements, push_back(v) PROVE HoldsSequence' /\ Sequence!Next
    BY <1>1, <1>4, PushBack, Zenon
  <1>5. ASSUME NEW v \in Elements, remove(v) PROVE HoldsSequence' /\ Sequence!Next
    BY <1>1, <1>5, RemoveStep, Zenon
  <1>6. ASSUME NEW v \in Elements, NEW n \in 0 .. MaxSize, resize(n, v)
        PROVE  HoldsSequence' /\ Sequence!Next
    <2>1. n \in Nat
      BY VectorAssumption
    <2> QED
      BY <1>1, <1>6, <2>1, ResizeStep, Zenon
  <1>7. ASSUME NEW n \in 0 .. MaxSize, Reserve(n) PROVE HoldsSequence' /\ Sequence!Next
    <2>1. n \in Nat
      BY VectorAssumption
    <2> QED
      BY <1>1, <1>7, <2>1, ReserveStep, Zenon
  <1>8. ASSUME NEW i \in 0 .. ve.size, NEW j \in i .. ve.size, erase(i, j)
        PROVE  HoldsSequence' /\ Sequence!Next
    BY <1>1, <1>8, EraseStep, Zenon
  <1>9. ASSUME NEW t \in OtherVectors, Copy(t) PROVE HoldsSequence' /\ Sequence!Next
    BY <1>1, <1>9, CopyStep, Zenon
  <1>10. ASSUME NEW t \in OtherVectors, Take(t) PROVE HoldsSequence' /\ Sequence!Next
    BY <1>1, <1>10, TakeStep, Zenon
  <1> QED
    BY <1>2, <1>3, <1>4, <1>5, <1>6, <1>7, <1>8, <1>9, <1>10, Zenon DEF VectorNext

\* A vector that holds a sequence has its objects in the first cells.
LEMMA VectorLifetimes == HoldsSequence => LifetimesExact
  <1> SUFFICES ASSUME HoldsSequence PROVE LifetimesExact
    OBVIOUS
  <1>1. PICK q \in Seq(Elements), c \in Nat : Len(q) <= c /\ ve = Holding(q, c)
    BY DEF HoldsSequence
  <1>2. ve.size = Len(q) /\ ve.data = Held(q, c) /\ ~ve.misuse
    BY <1>1, SeenNow DEF Seen
  <1>3. DOMAIN ve.data = 0 .. c - 1
    BY <1>2, HeldFacts
  <1>4. ASSUME NEW i \in 0 .. c - 1 PROVE ve.data[i] # Raw <=> i < ve.size
    BY <1>2, HeldFacts
  <1> QED
    BY <1>2, <1>3, <1>4 DEF LifetimesExact

\* A new vector is empty.
LEMMA VectorInitRefines == VectorInit => HoldsSequence /\ Sequence!Init
  <1> SUFFICES ASSUME VectorInit PROVE HoldsSequence /\ Sequence!Init
    OBVIOUS
  <1>1. PICK q : q = <<>> /\ q \in Seq(Elements) /\ Len(q) = 0 /\ Len(q) <= 0
    <2>1. <<>> \in Seq(Elements) /\ Len(<<>>) = 0 /\ Len(<<>>) <= 0
      OBVIOUS
    <2> QED
      BY <2>1, Zenon
  <1>2. Storage(0) = Held(q, 0)
    BY DEF Storage, Held
  <1>3. 0 \in Nat
    OBVIOUS
  <1>4. ve = Holding(q, 0)
    BY <1>1, <1>2, Zenon DEF VectorInit, Holding, Cells
  <1>5. HoldsSequence
    BY <1>1, <1>3, <1>4, Zenon DEF HoldsSequence
  <1>6. Contents = q
    BY <1>1, <1>3, <1>4, SeenNow, Zenon
  <1> QED
    BY <1>1, <1>5, <1>6, Zenon DEF VectorInit, Sequence!Init

\* vector behaves like a sequence, for every set of elements: push_back, pop_back,
\* resize, erase, remove and assignment, with the storage they allocate, move and give
\* back, do to it what they do to a sequence, and every object is constructed and
\* destroyed once.
THEOREM VectorRefinesSequence == VectorSpec => VectorImplementsSequence
  <1>1. VectorInit => HoldsSequence /\ Sequence!Init
    BY VectorInitRefines
  <1>2. HoldsSequence /\ [VectorNext]_ve_vars => HoldsSequence' /\ [Sequence!Next]_(Sequence!vars)
    BY VectorStepRefines
  <1>3. HoldsSequence => LifetimesExact
    BY VectorLifetimes
  <1> QED
    BY <1>1, <1>2, <1>3, PTL DEF VectorSpec, VectorImplementsSequence, Sequence!Spec
=============================================================================
