------------------------------- MODULE RbTree -------------------------------
(***************************************************************************)
(* nk_std::RbTree (src/src/libcxx/include/nk_rb_tree), on which set is     *)
(* built, pointer by pointer.  A node is named by its key; Header is       *)
(* header_, whose parent, left and right are the root, the smallest and the*)
(* greatest node.  Where the code has two mirrored branches, d is the side *)
(* of the branch.                                                          *)
(***************************************************************************)
EXTENDS Integers, FiniteSets, Sequences

CONSTANT TreeKeys   \* small positive integers

Header == 0
Null == -1

VARIABLES
  rb,        \* the nodes: [color, parent, left, right]
  rb_count,  \* node_count_
  rb_fix,    \* where a rebalancing loop stands: <<>>, <<x>> or <<x, x_parent>>
  rb_ret     \* the last call and its result

rb_vars == <<rb, rb_count, rb_fix, rb_ret>>

Fresh == [color |-> "red", parent |-> Null, left |-> Null, right |-> Null]
EmptyTree == [n \in TreeKeys \union {Header} |->
                IF n = Header THEN [Fresh EXCEPT !.left = Header, !.right = Header] ELSE Fresh]

Root(t) == t[Header].parent
Other(d) == IF d = "left" THEN "right" ELSE "left"
Black(t, n) == n = Null \/ t[n].color = "black"
Paint(t, n, c) == IF n = Null THEN t ELSE [t EXCEPT ![n].color = c]
SetParent(t, n, p) == IF n = Null THEN t ELSE [t EXCEPT ![n].parent = p]

\* n takes the place of x below the parent of x.
Replace(t, x, n) ==
  LET p == t[x].parent
  IN  IF x = Root(t) THEN [t EXCEPT ![Header].parent = n]
      ELSE IF x = t[p].left THEN [t EXCEPT ![p].left = n]
      ELSE [t EXCEPT ![p].right = n]

RECURSIVE Outermost(_, _, _)
Outermost(t, n, d) == IF t[n][d] = Null THEN n ELSE Outermost(t, t[n][d], d)

-----------------------------------------------------------------------------
(* Iterators *)

\* Up from n until the step is not one from side d.
RECURSIVE Climb(_, _, _)
Climb(t, n, d) ==
  LET y == t[n].parent IN IF n = t[y][d] THEN Climb(t, y, d) ELSE <<n, y>>

increment(t, n) ==
  IF t[n].right # Null THEN Outermost(t, t[n].right, "left")
  ELSE LET c == Climb(t, n, "right")
       IN  IF t[c[1]].right # c[2] THEN c[2] ELSE c[1]

decrement(t, n) ==
  IF t[n].color = "red" /\ t[t[n].parent].parent = n THEN t[n].right
  ELSE IF t[n].left # Null THEN Outermost(t, t[n].left, "right")
  ELSE Climb(t, n, "left")[2]

-----------------------------------------------------------------------------
(* Rebalancing *)

\* RbTreeRotateLeft for d = "left", RbTreeRotateRight for d = "right".
Rotate(t, x, d) ==
  LET y == t[x][Other(d)]
      a == SetParent([t EXCEPT ![x][Other(d)] = t[y][d]], t[y][d], x)
      b == Replace([a EXCEPT ![y].parent = t[x].parent], x, y)
  IN  [b EXCEPT ![y][d] = x, ![x].parent = y]

\* One iteration of RbTreeRebalance, or its end.
RbTreeRebalance ==
  LET x == rb_fix[1]
      p == rb[x].parent
      g == rb[p].parent
      d == IF p = rb[g].left THEN "left" ELSE "right"
      y == rb[g][Other(d)]
      inner == x = rb[p][Other(d)]
      a == IF inner THEN Rotate(rb, p, d) ELSE rb
      z == IF inner THEN p ELSE x
  IN  /\ Len(rb_fix) = 1
      /\ IF x = Root(rb) \/ rb[p].color # "red"
           THEN rb' = Paint(rb, Root(rb), "black") /\ rb_fix' = <<>>
         ELSE IF ~Black(rb, y)
           THEN /\ rb' = Paint(Paint(Paint(rb, p, "black"), y, "black"), g, "red")
                /\ rb_fix' = <<g>>
           ELSE /\ rb' = Rotate(Paint(Paint(a, a[z].parent, "black"), g, "red"), g, Other(d))
                /\ rb_fix' = <<z>>
      /\ UNCHANGED <<rb_count, rb_ret>>

\* Takes z out.  x takes the place of the node taken from the tree, xp is its
\* parent, color the color that is missing there.
Unlink(t, z) ==
  LET two == t[z].left # Null /\ t[z].right # Null
      y == IF two THEN Outermost(t, t[z].right, "left") ELSE z
      x == IF t[y].left = Null THEN t[y].right ELSE t[y].left
      direct == y = t[z].right
      \* z has two children: its successor y replaces it
      a == [t EXCEPT ![t[z].left].parent = y, ![y].left = t[z].left]
      b == [SetParent(a, x, t[y].parent) EXCEPT ![t[y].parent].left = x,
              ![y].right = t[z].right, ![t[z].right].parent = y]
      c == Replace(IF direct THEN a ELSE b, z, y)
      \* z has at most one child, x
      e == Replace(SetParent(t, x, t[z].parent), z, x)
      edge(d) == IF t[z][Other(d)] = Null THEN t[z].parent ELSE Outermost(e, x, d)
      f == IF t[Header].left = z THEN [e EXCEPT ![Header].left = edge("left")] ELSE e
      g == IF t[Header].right = z THEN [f EXCEPT ![Header].right = edge("right")] ELSE f
  IN  IF two
        THEN [tree |-> [c EXCEPT ![y].parent = t[z].parent, ![y].color = t[z].color],
              x |-> x, xp |-> IF direct THEN y ELSE t[y].parent, color |-> t[y].color]
        ELSE [tree |-> g, x |-> x, xp |-> t[z].parent, color |-> t[z].color]

\* One iteration of the loop of RbTreeRebalanceForErase, which makes up for a
\* missing black node above x, or its end.  s and w are the code's w, the brother
\* of x, before and after the first rotation.
RbTreeRebalanceForErase ==
  LET x == rb_fix[1]
      xp == rb_fix[2]
      d == IF x = rb[xp].left THEN "left" ELSE "right"
      o == Other(d)
      s == rb[xp][o]
      a == IF rb[s].color = "red"
             THEN Rotate(Paint(Paint(rb, s, "black"), xp, "red"), xp, d) ELSE rb
      w == a[xp][o]
      b == IF Black(a, a[w][o])
             THEN Rotate(Paint(Paint(a, a[w][d], "black"), w, "red"), w, o) ELSE a
      v == b[xp][o]
      c == Paint(Paint(Paint(b, v, b[xp].color), xp, "black"), b[v][o], "black")
  IN  /\ Len(rb_fix) = 2
      /\ IF x = Root(rb) \/ ~Black(rb, x)
           THEN rb' = Paint(rb, x, "black") /\ rb_fix' = <<>>
         ELSE IF Black(a, a[w].left) /\ Black(a, a[w].right)
           THEN rb' = Paint(a, w, "red") /\ rb_fix' = <<xp, a[xp].parent>>
           ELSE rb' = Paint(Rotate(c, xp, d), x, "black") /\ rb_fix' = <<>>
      /\ UNCHANGED <<rb_count, rb_ret>>

-----------------------------------------------------------------------------
(* Lookup *)

\* Down from x; y is the last node at which the walk went to the left.
RECURSIVE Descend(_, _, _, _, _)
Descend(t, x, y, k, strict) ==
  IF x = Null THEN y
  ELSE IF (IF strict THEN k < x ELSE ~(x < k)) THEN Descend(t, t[x].left, x, k, strict)
  ELSE Descend(t, t[x].right, y, k, strict)

lower_bound(t, k) == Descend(t, Root(t), Header, k, FALSE)
upper_bound(t, k) == Descend(t, Root(t), Header, k, TRUE)
find(t, k) == LET j == lower_bound(t, k) IN IF j = Header \/ k < j THEN Header ELSE j

-----------------------------------------------------------------------------
(* Operations *)

Init == rb = EmptyTree /\ rb_count = 0 /\ rb_fix = <<>> /\ rb_ret = <<"none">>

\* The leaf below which k belongs.
RECURSIVE InsertPoint(_, _, _, _)
InsertPoint(t, x, y, k) ==
  IF x = Null THEN y ELSE InsertPoint(t, IF k < x THEN t[x].left ELSE t[x].right, x, k)

\* The red node z below y.
insert_aux(t, y, z) ==
  LET a == IF y = Header
             THEN [t EXCEPT ![Header] = [@ EXCEPT !.left = z, !.parent = z, !.right = z]]
           ELSE IF z < y
             THEN [t EXCEPT ![y].left = z, ![Header].left = IF y = @ THEN z ELSE @]
             ELSE [t EXCEPT ![y].right = z, ![Header].right = IF y = @ THEN z ELSE @]
  IN  [a EXCEPT ![z] = [Fresh EXCEPT !.parent = y]]

insert_unique(k) ==
  \E y \in {InsertPoint(rb, Root(rb), Header, k)} :
  LET comp == y = Header \/ k < y
      j == IF comp /\ y # rb[Header].left THEN decrement(rb, y) ELSE y
      new == (comp /\ y = rb[Header].left) \/ j < k
  IN  /\ rb_fix = <<>>
      /\ rb' = IF new THEN insert_aux(rb, y, k) ELSE rb
      /\ rb_count' = IF new THEN rb_count + 1 ELSE rb_count
      /\ rb_fix' = IF new THEN <<k>> ELSE <<>>
      /\ rb_ret' = <<"insert", k, new>>

\* Mutant: a red node that has gone is made up for.
eraseWrongColor(k) ==
  LET z == lower_bound(rb, k)
      u == Unlink(rb, z)
      hit == z # upper_bound(rb, k)
  IN  /\ rb_fix = <<>>
      /\ rb' = IF hit THEN [u.tree EXCEPT ![z] = Fresh] ELSE rb
      /\ rb_count' = IF hit THEN rb_count - 1 ELSE rb_count
      /\ rb_fix' = IF hit /\ u.color = "red" THEN <<u.x, u.xp>> ELSE <<>>
      /\ rb_ret' = <<"erase", k, hit>>

\* erase(key): keys are unique, so equal_range has one node or none.
erase(k) ==
  LET z == lower_bound(rb, k)
      u == Unlink(rb, z)
      hit == z # upper_bound(rb, k)
  IN  /\ rb_fix = <<>>
      /\ rb' = IF hit THEN [u.tree EXCEPT ![z] = Fresh] ELSE rb
      /\ rb_count' = IF hit THEN rb_count - 1 ELSE rb_count
      /\ rb_fix' = IF hit /\ u.color # "red" THEN <<u.x, u.xp>> ELSE <<>>
      /\ rb_ret' = <<"erase", k, hit>>

clear ==
  /\ rb_fix = <<>>
  /\ rb' = EmptyTree /\ rb_count' = 0 /\ rb_fix' = <<>> /\ rb_ret' = <<"clear">>

Next ==
  \/ \E k \in TreeKeys : insert_unique(k) \/ erase(k)
  \/ clear \/ RbTreeRebalance \/ RbTreeRebalanceForErase

Spec == Init /\ [][Next]_rb_vars

-----------------------------------------------------------------------------
\* The keys met by an iterator from n to end() or, backwards, to begin().
RECURSIVE Walk(_, _, _)
Walk(t, n, stop) ==
  IF n = stop THEN <<>>
  ELSE <<n>> \o Walk(t, increment(t, n), stop)
RECURSIVE WalkBack(_, _)
WalkBack(t, n) ==
  IF n = t[Header].left THEN <<>> ELSE LET j == decrement(t, n) IN WalkBack(t, j) \o <<j>>

\* A node outside the tree is Fresh.
TreeElements == {n \in TreeKeys : rb[n].parent # Null}

Set == INSTANCE AbstractMap WITH
         Keys <- TreeKeys, Values <- TreeKeys, ret <- rb_ret,
         m <- [k \in TreeElements |-> k]

\* At every step, iteration is sorted and as long as size() says, and find,
\* lower_bound and upper_bound agree with it.  Between the calls it is the same
\* backwards (operator-- takes a red root for the header).
Ordered ==
  LET w == Walk(rb, rb[Header].left, Header)
      least(S) == IF S = {} THEN Header ELSE CHOOSE x \in S : \A y \in S : x <= y
  IN  /\ \A i, j \in DOMAIN w : i < j => w[i] < w[j]
      /\ {w[i] : i \in DOMAIN w} = TreeElements
      /\ rb_fix = <<>> => WalkBack(rb, Header) = w
      /\ Cardinality(TreeElements) = rb_count
      /\ \A k \in TreeKeys :
           /\ find(rb, k) = IF k \in TreeElements THEN k ELSE Header
           /\ lower_bound(rb, k) = least({x \in TreeElements : x >= k})
           /\ upper_bound(rb, k) = least({x \in TreeElements : x > k})

RECURSIVE BlackHeights(_, _)
BlackHeights(t, n) ==
  IF n = Null THEN {0}
  ELSE {h + (IF t[n].color = "black" THEN 1 ELSE 0) :
          h \in BlackHeights(t, t[n].left) \union BlackHeights(t, t[n].right)}

\* The two rules that bound the height: no red node has a red child, and every path
\* from the root down has the same number of black nodes.  The root is black.
\* All this holds whenever no rebalancing is under way.
Balanced ==
  rb_fix = <<>> =>
  /\ Black(rb, Root(rb))
  /\ Cardinality(BlackHeights(rb, Root(rb))) = 1
  /\ \A n \in TreeElements :
       rb[n].color = "red" => Black(rb, rb[n].left) /\ Black(rb, rb[n].right)
=============================================================================
