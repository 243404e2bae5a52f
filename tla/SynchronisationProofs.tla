----------------------- MODULE SynchronisationProofs ------------------------
(***************************************************************************)
(* Proofs about the two pieces of code that synchronise processors with    *)
(* nothing but atomic accesses.  The queue of interrupt work, for any      *)
(* number of threads and any capacity above 1: it is a bounded first-in    *)
(* first-out queue, and it refuses a push or a pop only for a reason.  The *)
(* spin lock, for any set of cores: the safety properties and the          *)
(* refinement follow from one inductive invariant, IInv.                   *)
(***************************************************************************)
EXTENDS SpinLock, MPMCQueue, SequenceTheorems, TLAPS

-----------------------------------------------------------------------------
(* The queue of interrupt work *)

USE ZenonT(30)

Pushing == {"pushWrite", "pushPublish"}
Popping == {"popRead", "popPublish"}
Labels == {"idle", "pushSeq", "pushLoad", "pushCas", "popSeq", "popLoad", "popCas"}
            \union Pushing \union Popping
Slots == QueueItems \union {NoItem}

QueueTypes ==
  /\ mq_head \in Nat /\ mq_tail \in Nat
  /\ mq_tail <= mq_head /\ mq_head <= mq_tail + QueueCapacity /\ mq_head <= MaxPos
  /\ mq_seq \in [Cells -> Nat] /\ mq_data \in [Cells -> Slots]
  /\ mq_pc \in [Threads -> Labels]
  /\ mq_pos \in [Threads -> Nat]
  /\ mq_item \in [Threads -> Slots]
  /\ mq_got \in [0 .. MaxPos - 1 -> Slots]

\* What a thread relies on at its next step.  Between its load of sequence and its
\* compare-exchange the cell may change, but not while head_ (tail_) stays at pos.
ThreadInv(t) ==
  LET p == mq_pos[t]
      seq == mq_seq[Cell(p)]
  IN  /\ mq_pc[t] \in {"pushSeq", "pushLoad", "pushCas"} => p <= mq_head /\ mq_item[t] \in QueueItems
      /\ mq_pc[t] = "pushCas" /\ p = mq_head => seq = p
      /\ mq_pc[t] \in Pushing => mq_tail <= p /\ p < mq_head /\ seq = p /\ mq_item[t] \in QueueItems
      /\ mq_pc[t] = "pushPublish" => mq_data[Cell(p)] = mq_item[t]
      /\ mq_pc[t] \in {"popSeq", "popLoad", "popCas"} => p <= mq_tail
      /\ mq_pc[t] = "popCas" /\ p = mq_tail => seq = p + 1
      /\ mq_pc[t] \in Popping => p < mq_tail /\ mq_head <= p + QueueCapacity /\ seq = p + 1
      /\ mq_pc[t] = "popRead" => mq_got[p] = NoItem /\ mq_data[Cell(p)] \in QueueItems
      /\ mq_pc[t] = "popPublish" => mq_got[p] \in QueueItems

\* No position has two producers or two consumers.
OwnersUnique ==
  \A t, u \in Threads :
    /\ mq_pc[t] \in Pushing /\ mq_pc[u] \in Pushing /\ mq_pos[t] = mq_pos[u] => t = u
    /\ mq_pc[t] \in Popping /\ mq_pc[u] \in Popping /\ mq_pos[t] = mq_pos[u] => t = u

\* What the cell of position p says: p has been taken; p is being written or is in the
\* queue; p is free, or its cell is still being emptied.
CellInv(p) ==
  LET seq == mq_seq[Cell(p)]
  IN  /\ p < mq_tail => seq > p
      /\ mq_tail <= p /\ p < mq_head =>
           \/ seq = p /\ \E t \in Threads : mq_pc[t] \in Pushing /\ mq_pos[t] = p
           \/ seq = p + 1 /\ mq_data[Cell(p)] \in QueueItems
      /\ mq_head <= p =>
           \/ seq = p
           \/ \E t \in Threads :
                mq_pc[t] \in Popping /\ mq_pos[t] + QueueCapacity = p /\ seq = mq_pos[t] + 1

\* Which items consumers have moved out.
GotInv ==
  \A p \in 0 .. MaxPos - 1 :
    /\ mq_tail <= p => mq_got[p] = NoItem
    /\ p < mq_tail => \/ mq_got[p] \in QueueItems
                      \/ \E t \in Threads : mq_pc[t] = "popRead" /\ mq_pos[t] = p

QueueInv ==
  /\ QueueTypes
  /\ \A t \in Threads : ThreadInv(t)
  /\ OwnersUnique
  /\ \A p \in 0 .. mq_tail + QueueCapacity - 1 : CellInv(p)
  /\ GotInv

-----------------------------------------------------------------------------
(* Which positions share a cell. *)

\* Every position has a cell.
LEMMA CellIn == ASSUME NEW p \in Nat PROVE Cell(p) \in Cells
  BY QueueAssumption, SMTT(30) DEF Cell, Cells

\* The only multiple of C strictly between -C and C is 0.
LEMMA SmallMultiple ==
  ASSUME NEW C \in Nat \ {0}, NEW d \in Int, -C < C * d, C * d < C
  PROVE  d = 0
  <1>1. d >= 1 => C * d >= C
    BY SMTT(30)
  <1>2. d <= -1 => C * d <= -C
    BY SMTT(30)
  <1> QED
    BY <1>1, <1>2, SMTT(30)

\* A position is a multiple of C and a remainder.
LEMMA Quotient ==
  ASSUME NEW p \in Nat, NEW C \in Nat \ {0}
  PROVE  \E j \in Int : p = C * j + (p % C) /\ p % C \in 0 .. C - 1
  <1>1. PICK j \in Int : j = p \div C
    BY SMTT(30)
  <1>2. p = C * (p \div C) + (p % C) /\ p % C \in 0 .. C - 1
    BY SMTT(30)
  <1>3. p = C * j + (p % C)
    BY <1>1, <1>2
  <1> QED
    BY <1>2, <1>3

\* Positions that are less than Capacity apart have different cells.
LEMMA CellApart ==
  ASSUME NEW p \in Nat, NEW q \in Nat, p < q, q < p + QueueCapacity
  PROVE  Cell(p) # Cell(q)
  <1>1. PICK C \in Nat \ {0} : C = QueueCapacity
    BY QueueAssumption, SMTT(30)
  <1>2. SUFFICES ASSUME p % C = q % C PROVE FALSE
    BY <1>1 DEF Cell
  <1>3. PICK j \in Int : p = C * j + (p % C) /\ p % C \in 0 .. C - 1
    BY Quotient
  <1>4. PICK k \in Int : q = C * k + (q % C) /\ q % C \in 0 .. C - 1
    BY Quotient
  <1>5. k - j \in Int /\ C * (k - j) = C * k - C * j
    BY SMTT(30)
  <1>6. q - p = C * (k - j)
    BY <1>2, <1>3, <1>4, <1>5, SMTT(30)
  <1>7. -C < C * (k - j) /\ C * (k - j) < C /\ C * (k - j) # 0
    BY <1>1, <1>6, SMTT(30)
  <1>8. k - j = 0
    BY <1>5, <1>7, SmallMultiple
  <1>9. C * 0 = 0
    BY SMTT(30)
  <1> QED
    BY <1>7, <1>8, <1>9

\* A cell is used again Capacity positions later.
LEMMA CellAgain == ASSUME NEW p \in Nat PROVE Cell(p + QueueCapacity) = Cell(p)
  <1>1. PICK C \in Nat \ {0} : C = QueueCapacity
    BY QueueAssumption, SMTT(30)
  <1>2. PICK q \in Nat : q = p + C
    BY SMTT(30)
  <1>3. PICK j \in Int : p = C * j + (p % C) /\ p % C \in 0 .. C - 1
    BY Quotient
  <1>4. PICK k \in Int : q = C * k + (q % C) /\ q % C \in 0 .. C - 1
    BY Quotient
  <1>5. k - j - 1 \in Int /\ C * (k - j - 1) = C * k - C * j - C
    BY SMTT(30)
  <1>6. (p % C) - (q % C) = C * (k - j - 1)
    BY <1>2, <1>3, <1>4, <1>5, SMTT(30)
  <1>7. -C < C * (k - j - 1) /\ C * (k - j - 1) < C
    BY <1>3, <1>4, <1>6, SMTT(30)
  <1>8. k - j - 1 = 0
    BY <1>5, <1>7, SmallMultiple
  <1>9. C * 0 = 0
    BY SMTT(30)
  <1>10. p % C = q % C
    BY <1>3, <1>4, <1>6, <1>8, <1>9, SMTT(30)
  <1> QED
    BY <1>1, <1>2, <1>10 DEF Cell

\* Two positions of one cell are the same or at least Capacity apart.
LEMMA SameCell ==
  \A p, q \in Nat : Cell(p) = Cell(q) => \/ p = q
                                         \/ p + QueueCapacity <= q
                                         \/ q + QueueCapacity <= p
  <1> SUFFICES ASSUME NEW p \in Nat, NEW q \in Nat, Cell(p) = Cell(q),
                      p # q, ~(p + QueueCapacity <= q), ~(q + QueueCapacity <= p)
               PROVE  FALSE
    OBVIOUS
  <1>1. CASE p < q
    <2>1. q < p + QueueCapacity
      BY QueueAssumption, SMTT(30)
    <2> QED
      BY <1>1, <2>1, CellApart
  <1>2. CASE q < p
    <2>1. p < q + QueueCapacity
      BY QueueAssumption, SMTT(30)
    <2> QED
      BY <1>2, <2>1, CellApart
  <1> QED
    BY <1>1, <1>2, SMTT(30)

-----------------------------------------------------------------------------
(* Every step keeps QueueInv. *)

\* t has made a step; the other threads have not.
OnlyMoved(t) ==
  \A u \in Threads \ {t} :
    mq_pc'[u] = mq_pc[u] /\ mq_pos'[u] = mq_pos[u] /\ mq_item'[u] = mq_item[u]

\* The items of the positions handed out so far have not changed.
ItemsKept == \A p \in 0 .. mq_head - 1 : ItemAt(p)' = ItemAt(p)

\* The item of p stays if nobody begins or ends to write it, unless its cell changes
\* before it has been moved out or a consumer moves it out.
LEMMA KeepItem ==
  ASSUME NEW t \in Threads, OnlyMoved(t), NEW p,
         mq_pc[t] = "pushWrite" => mq_pos[t] # p, mq_pc'[t] = "pushWrite" => mq_pos'[t] # p,
         mq_data'[Cell(p)] = mq_data[Cell(p)] \/ mq_got[p] # NoItem,
         mq_got'[p] = mq_got[p]
  PROVE  ItemAt(p)' = ItemAt(p)
  <1> DEFINE W == {u \in Threads : mq_pos[u] = p /\ mq_pc[u] = "pushWrite"}
  <1>1. W' = W
    BY DEF OnlyMoved
  <1>2. CASE W = {}
    BY <1>1, <1>2 DEF ItemAt
  <1>3. CASE W # {}
    <2>1. PICK w : w = CHOOSE u \in W : TRUE
      OBVIOUS
    <2>2. w \in W
      BY <1>3, <2>1
    <2>3. w \in Threads \ {t}
      BY <2>2
    <2>4. mq_item'[w] = mq_item[w]
      BY <2>3 DEF OnlyMoved
    <2> QED
      BY <1>1, <1>3, <2>1, <2>4 DEF ItemAt
  <1> QED
    BY <1>2, <1>3

\* A step on the way to a compare-exchange, or back: t holds no position.
LEMMA LocalStep ==
  ASSUME QueueInv, NEW t \in Threads, OnlyMoved(t),
         UNCHANGED <<mq_head, mq_tail, mq_seq, mq_data, mq_got>>,
         mq_pc' \in [Threads -> Labels], mq_pos' \in [Threads -> Nat], mq_item' \in [Threads -> Slots],
         mq_pc[t] \notin Pushing \union Popping, mq_pc'[t] \notin Pushing \union Popping,
         ThreadInv(t)'
  PROVE  QueueInv' /\ ItemsKept
  <1>1. QueueTypes'
    BY DEF QueueInv, QueueTypes
  <1>2. \A u \in Threads \ {t} : ThreadInv(u)'
    BY SMTT(60) DEF QueueInv, ThreadInv, OnlyMoved
  <1>3. OwnersUnique'
    BY DEF QueueInv, OwnersUnique, OnlyMoved
  <1>4. ASSUME NEW p \in 0 .. mq_tail + QueueCapacity - 1 PROVE CellInv(p)'
    <2>1. CellInv(p)
      BY DEF QueueInv
    <2> QED
      BY <2>1 DEF CellInv, OnlyMoved
  <1>5. GotInv'
    BY SMTT(60) DEF QueueInv, GotInv, OnlyMoved, Popping
  <1>6. ItemsKept
    BY KeepItem DEF Pushing, ItemsKept
  <1>7. (\A p \in 0 .. mq_tail + QueueCapacity - 1 : CellInv(p))'
    BY <1>4
  <1> QED
    BY <1>1, <1>2, <1>3, <1>5, <1>6, <1>7 DEF QueueInv

\* The types of a thread's state.
LEMMA ThreadTypes ==
  ASSUME QueueInv, NEW t \in Threads
  PROVE  /\ mq_pos[t] \in Nat /\ Cell(mq_pos[t]) \in Cells
         /\ mq_pc[t] \in Labels /\ mq_item[t] \in Slots
         /\ ThreadInv(t)
  BY CellIn DEF QueueInv, QueueTypes

\* The types of the counters, and what is known of a position in the window.
LEMMA PositionFacts ==
  ASSUME QueueInv, NEW q \in 0 .. mq_tail + QueueCapacity - 1
  PROVE  /\ q \in Nat /\ Cell(q) \in Cells /\ CellInv(q) /\ q < mq_tail + QueueCapacity
         /\ mq_head \in Nat /\ mq_tail \in Nat
         /\ mq_tail <= mq_head /\ mq_head <= mq_tail + QueueCapacity /\ mq_head <= MaxPos
         /\ mq_seq[Cell(q)] \in Nat
  <1>1. /\ CellInv(q) /\ mq_head \in Nat /\ mq_tail \in Nat
        /\ mq_tail <= mq_head /\ mq_head <= mq_tail + QueueCapacity /\ mq_head <= MaxPos
    BY DEF QueueInv, QueueTypes
  <1>2. q \in Nat /\ q < mq_tail + QueueCapacity
    BY <1>1, QueueAssumption, SMTT(30)
  <1> QED
    BY <1>1, <1>2, CellIn DEF QueueInv, QueueTypes

LEMMA PushPublishKeeps ==
  ASSUME QueueInv, NEW t \in Threads, PushPublish(t)
  PROVE  QueueInv' /\ ItemsKept
  <1>1. PICK p \in Nat : p = mq_pos[t]
    BY ThreadTypes
  <1>2. /\ mq_tail <= p /\ p < mq_head /\ mq_seq[Cell(p)] = p /\ Cell(p) \in Cells
        /\ mq_data[Cell(p)] = mq_item[t] /\ mq_item[t] \in QueueItems
    BY <1>1, ThreadTypes DEF ThreadInv, PushPublish, QueueAt, Pushing
  <1>3. /\ OnlyMoved(t) /\ mq_pc'[t] = "idle" /\ mq_pc[t] = "pushPublish"
        /\ mq_pc' \in [Threads -> Labels] /\ mq_pos' \in [Threads -> Nat]
        /\ mq_item' \in [Threads -> Slots]
    BY SMTT(30) DEF PushPublish, QueueReturn, QueueGoto, QueueAt, OnlyMoved, QueueInv, QueueTypes, Labels, Slots
  <1>4. mq_seq' \in [Cells -> Nat] /\ \A i \in Cells : mq_seq'[i] = IF i = Cell(p) THEN p + 1 ELSE mq_seq[i]
    BY <1>1, <1>2, SMTT(30) DEF PushPublish, QueueInv, QueueTypes
  <1>5. UNCHANGED <<mq_head, mq_tail, mq_data, mq_got>>
    BY DEF PushPublish
  <1>6. QueueTypes'
    BY <1>3, <1>4, <1>5 DEF QueueInv, QueueTypes
  <1>7. ASSUME NEW u \in Threads \ {t} PROVE ThreadInv(u)'
    <2>1. /\ mq_pos[u] \in Nat /\ Cell(mq_pos[u]) \in Cells /\ ThreadInv(u)
          /\ mq_pc'[u] = mq_pc[u] /\ mq_pos'[u] = mq_pos[u] /\ mq_item'[u] = mq_item[u]
      BY ThreadTypes, <1>3 DEF OnlyMoved
    <2>2. mq_head \in Nat /\ mq_tail \in Nat
      BY DEF QueueInv, QueueTypes
    <2>3. Cell(mq_pos[u]) = Cell(p) 
             => mq_pos[u] = p \/ p + QueueCapacity <= mq_pos[u] \/ mq_pos[u] + QueueCapacity <= p
      BY <2>1, SameCell
    <2>4. mq_pc[u] \in Pushing => mq_pos[u] # p
      BY <1>1, <1>3 DEF QueueInv, OwnersUnique, Pushing
    <2>5. CASE Cell(mq_pos[u]) # Cell(p)
      BY <2>1, <2>5, <1>4, <1>5 DEF ThreadInv
    <2>6. CASE Cell(mq_pos[u]) = Cell(p)
      BY <2>1, <2>2, <2>3, <2>4, <2>6, <1>2, <1>4, <1>5, QueueAssumption, SMTT(30) DEF ThreadInv, Pushing, Popping
    <2> QED
      BY <2>5, <2>6
  <1>8. ThreadInv(t)'
    BY <1>3 DEF ThreadInv, Pushing, Popping
  <1>9. OwnersUnique'
    BY <1>3 DEF OwnersUnique, OnlyMoved, QueueInv, Pushing, Popping
  <1>10. ASSUME NEW q \in 0 .. mq_tail + QueueCapacity - 1 PROVE CellInv(q)'
    <2>1. /\ q \in Nat /\ Cell(q) \in Cells /\ CellInv(q) /\ q < mq_tail + QueueCapacity
          /\ mq_head \in Nat /\ mq_tail \in Nat /\ mq_head <= mq_tail + QueueCapacity
          /\ mq_seq[Cell(q)] \in Nat
      BY PositionFacts
    <2>2. Cell(q) = Cell(p) => q = p \/ p + QueueCapacity <= q \/ q + QueueCapacity <= p
      BY <2>1, SameCell
    <2>3. CASE Cell(q) # Cell(p)
      <3>1. mq_seq'[Cell(q)] = mq_seq[Cell(q)]
        BY <2>1, <2>3, <1>4
      <3>2. \A u \in Threads : mq_pc[u] \in Pushing /\ mq_pos[u] = q => mq_pc'[u] \in Pushing /\ mq_pos'[u] = q
        BY <1>1, <1>3, <2>3 DEF OnlyMoved
      <3>3. \A u \in Threads : mq_pc[u] \in Popping => mq_pc'[u] \in Popping /\ mq_pos'[u] = mq_pos[u]
        BY <1>3 DEF OnlyMoved, Popping
      <3> QED
        BY <2>1, <3>1, <3>2, <3>3, <1>5 DEF CellInv
    <2>4. CASE Cell(q) = Cell(p)
      BY <2>1, <2>2, <2>4, <1>2, <1>4, <1>5, QueueAssumption, SMTT(30) DEF CellInv
    <2> QED
      BY <2>3, <2>4
  <1>11. GotInv'
    BY <1>3, <1>5, SMTT(60) DEF QueueInv, GotInv, OnlyMoved
  <1>12. ItemsKept
    BY <1>3, <1>5, KeepItem DEF ItemsKept
  <1>13. (\A q \in 0 .. mq_tail + QueueCapacity - 1 : CellInv(q))'
    BY <1>5, <1>10
  <1> QED
    BY <1>6, <1>7, <1>8, <1>9, <1>11, <1>12, <1>13 DEF QueueInv

LEMMA PopPublishKeeps ==
  ASSUME QueueInv, NEW t \in Threads, PopPublish(t)
  PROVE  QueueInv' /\ ItemsKept
  <1>1. PICK p \in Nat : p = mq_pos[t]
    BY ThreadTypes
  <1>2. /\ p < mq_tail /\ mq_head <= p + QueueCapacity /\ mq_seq[Cell(p)] = p + 1
        /\ Cell(p) \in Cells
    BY <1>1, ThreadTypes DEF ThreadInv, PopPublish, QueueAt, Popping
  <1>3. /\ OnlyMoved(t) /\ mq_pc'[t] = "idle" /\ mq_pc[t] = "popPublish"
        /\ mq_pc' \in [Threads -> Labels] /\ mq_pos' \in [Threads -> Nat]
        /\ mq_item' \in [Threads -> Slots]
    BY SMTT(30) DEF PopPublish, QueueReturn, QueueGoto, QueueAt, OnlyMoved, QueueInv, QueueTypes, Labels, Slots
  <1>4. /\ mq_seq' \in [Cells -> Nat]
        /\ \A i \in Cells : mq_seq'[i] = IF i = Cell(p) THEN p + QueueCapacity ELSE mq_seq[i]
    BY <1>1, <1>2, QueueAssumption, SMTT(30) DEF PopPublish, QueueInv, QueueTypes
  <1>5. UNCHANGED <<mq_head, mq_tail, mq_data, mq_got>>
    BY DEF PopPublish
  <1>6. QueueTypes'
    BY <1>3, <1>4, <1>5 DEF QueueInv, QueueTypes
  <1>7. ASSUME NEW u \in Threads \ {t} PROVE ThreadInv(u)'
    <2>1. /\ mq_pos[u] \in Nat /\ Cell(mq_pos[u]) \in Cells /\ ThreadInv(u)
          /\ mq_pc'[u] = mq_pc[u] /\ mq_pos'[u] = mq_pos[u] /\ mq_item'[u] = mq_item[u]
      BY ThreadTypes, <1>3 DEF OnlyMoved
    <2>2. mq_head \in Nat /\ mq_tail \in Nat
      BY DEF QueueInv, QueueTypes
    <2>3. Cell(mq_pos[u]) = Cell(p)
             => mq_pos[u] = p \/ p + QueueCapacity <= mq_pos[u] \/ mq_pos[u] + QueueCapacity <= p
      BY <2>1, SameCell
    <2>4. mq_pc[u] \in Popping => mq_pos[u] # p
      BY <1>1, <1>3 DEF QueueInv, OwnersUnique, Popping
    <2>5. CASE Cell(mq_pos[u]) # Cell(p)
      BY <2>1, <2>5, <1>4, <1>5 DEF ThreadInv
    <2>6. CASE Cell(mq_pos[u]) = Cell(p)
      BY <2>1, <2>2, <2>3, <2>4, <2>6, <1>2, <1>4, <1>5, QueueAssumption, SMTT(30) DEF ThreadInv, Pushing, Popping
    <2> QED
      BY <2>5, <2>6
  <1>8. ThreadInv(t)'
    BY <1>3 DEF ThreadInv, Pushing, Popping
  <1>9. OwnersUnique'
    BY <1>3 DEF OwnersUnique, OnlyMoved, QueueInv, Pushing, Popping
  <1>10. ASSUME NEW q \in 0 .. mq_tail + QueueCapacity - 1 PROVE CellInv(q)'
    <2>1. /\ q \in Nat /\ Cell(q) \in Cells /\ CellInv(q) /\ q < mq_tail + QueueCapacity
          /\ mq_head \in Nat /\ mq_tail \in Nat /\ mq_head <= mq_tail + QueueCapacity
          /\ mq_seq[Cell(q)] \in Nat
      BY PositionFacts
    <2>2. Cell(q) = Cell(p) => q = p \/ p + QueueCapacity <= q \/ q + QueueCapacity <= p
      BY <2>1, SameCell
    <2>3. CASE Cell(q) # Cell(p)
      <3>1. mq_seq'[Cell(q)] = mq_seq[Cell(q)]
        BY <2>1, <2>3, <1>4
      <3>2. \A u \in Threads : mq_pc[u] \in Pushing => mq_pc'[u] \in Pushing /\ mq_pos'[u] = mq_pos[u]
        BY <1>3 DEF OnlyMoved, Pushing
      <3>3. \A u \in Threads : mq_pc[u] \in Popping /\ mq_pos[u] + QueueCapacity = q
                                 => mq_pc'[u] \in Popping /\ mq_pos'[u] = mq_pos[u]
        BY <1>1, <1>3, <2>3, CellAgain DEF OnlyMoved
      <3> QED
        BY <2>1, <3>1, <3>2, <3>3, <1>5 DEF CellInv
    <2>4. CASE Cell(q) = Cell(p)
      <3>1. mq_seq'[Cell(q)] = p + QueueCapacity /\ mq_seq[Cell(q)] = p + 1
        BY <2>1, <2>4, <1>2, <1>4
      <3>2. ~(mq_tail <= q /\ q < mq_head)
        BY <2>1, <2>2, <2>4, <1>2, QueueAssumption, SMTT(30)
      <3>3. mq_head <= q => q = p + QueueCapacity
        <4>1. \A u \in Threads : mq_pos[u] \in Nat
          BY ThreadTypes
        <4> QED
          BY <2>1, <2>2, <2>4, <3>1, <4>1, <1>2, QueueAssumption, SMTT(30) DEF CellInv
      <3>4. q < mq_tail => p + QueueCapacity > q
        BY <2>1, <3>1, QueueAssumption, SMTT(30) DEF CellInv
      <3> QED
        BY <3>1, <3>2, <3>3, <3>4, <1>5 DEF CellInv
    <2> QED
      BY <2>3, <2>4
  <1>11. GotInv'
    BY <1>3, <1>5, SMTT(60) DEF QueueInv, GotInv, OnlyMoved
  <1>12. ItemsKept
    BY <1>3, <1>5, KeepItem DEF ItemsKept
  <1>13. (\A q \in 0 .. mq_tail + QueueCapacity - 1 : CellInv(q))'
    BY <1>5, <1>10
  <1> QED
    BY <1>6, <1>7, <1>8, <1>9, <1>11, <1>12, <1>13 DEF QueueInv

LEMMA PushWriteKeeps ==
  ASSUME QueueInv, NEW t \in Threads, PushWrite(t)
  PROVE  QueueInv' /\ ItemsKept
  <1>1. PICK p \in Nat : p = mq_pos[t]
    BY ThreadTypes
  <1>2. /\ mq_tail <= p /\ p < mq_head /\ mq_seq[Cell(p)] = p /\ Cell(p) \in Cells
        /\ mq_item[t] \in QueueItems
    BY <1>1, ThreadTypes DEF ThreadInv, PushWrite, QueueAt, Pushing
  <1>3. /\ OnlyMoved(t) /\ mq_pc'[t] = "pushPublish" /\ mq_pc[t] = "pushWrite"
        /\ mq_pc' \in [Threads -> Labels]
    BY SMTT(30) DEF PushWrite, QueueGoto, QueueAt, OnlyMoved, QueueInv, QueueTypes, Labels, Pushing
  <1>4. /\ mq_data' \in [Cells -> Slots]
        /\ \A i \in Cells : mq_data'[i] = IF i = Cell(p) THEN mq_item[t] ELSE mq_data[i]
    BY <1>1, <1>2, SMTT(30) DEF PushWrite, QueueInv, QueueTypes, Slots
  <1>5. UNCHANGED <<mq_head, mq_tail, mq_seq, mq_pos, mq_item, mq_got>>
    BY DEF PushWrite
  <1>6. QueueTypes'
    BY <1>3, <1>4, <1>5 DEF QueueInv, QueueTypes
  <1>7. ASSUME NEW u \in Threads \ {t} PROVE ThreadInv(u)'
    <2>1. /\ mq_pos[u] \in Nat /\ Cell(mq_pos[u]) \in Cells /\ ThreadInv(u)
          /\ mq_pc'[u] = mq_pc[u] /\ mq_pos'[u] = mq_pos[u] /\ mq_item'[u] = mq_item[u]
      BY ThreadTypes, <1>3 DEF OnlyMoved
    <2>3. Cell(mq_pos[u]) = Cell(p)
             => mq_pos[u] = p \/ p + QueueCapacity <= mq_pos[u] \/ mq_pos[u] + QueueCapacity <= p
      BY <2>1, SameCell
    <2>4. mq_pc[u] \in Pushing => mq_pos[u] # p
      BY <1>1, <1>3 DEF QueueInv, OwnersUnique, Pushing
    <2>5. CASE Cell(mq_pos[u]) # Cell(p)
      BY <2>1, <2>5, <1>4, <1>5 DEF ThreadInv
    <2>6. CASE Cell(mq_pos[u]) = Cell(p)
      <3>1. mq_pc[u] \notin Pushing
        BY <2>1, <2>4, <2>6, <1>2 DEF ThreadInv
      <3>2. mq_pc[u] \notin Popping
        BY <2>1, <2>3, <2>6, <1>2, QueueAssumption, SMTT(30) DEF ThreadInv
      <3> QED
        BY <2>1, <3>1, <3>2, <1>5 DEF ThreadInv, Pushing, Popping
    <2> QED
      BY <2>5, <2>6
  <1>8. ThreadInv(t)'
    BY <1>1, <1>2, <1>3, <1>4, <1>5 DEF ThreadInv, Pushing, Popping
  <1>9. OwnersUnique'
    BY <1>3, <1>5 DEF OwnersUnique, OnlyMoved, QueueInv, Pushing, Popping
  <1>10. ASSUME NEW q \in 0 .. mq_tail + QueueCapacity - 1 PROVE CellInv(q)'
    <2>1. /\ q \in Nat /\ Cell(q) \in Cells /\ CellInv(q) /\ q < mq_tail + QueueCapacity
          /\ mq_head \in Nat /\ mq_tail \in Nat /\ mq_head <= mq_tail + QueueCapacity
      BY PositionFacts
    <2>2. Cell(q) = Cell(p) => q = p \/ p + QueueCapacity <= q \/ q + QueueCapacity <= p
      BY <2>1, SameCell
    <2>3. \A u \in Threads : mq_pc[u] \in Pushing => mq_pc'[u] \in Pushing /\ mq_pos'[u] = mq_pos[u]
      BY <1>3, <1>5 DEF OnlyMoved, Pushing
    <2>4. \A u \in Threads : mq_pc[u] \in Popping => mq_pc'[u] \in Popping /\ mq_pos'[u] = mq_pos[u]
      BY <1>3, <1>5 DEF OnlyMoved, Popping
    <2>5. CASE Cell(q) # Cell(p)
      BY <2>1, <2>3, <2>4, <2>5, <1>4, <1>5 DEF CellInv
    <2>6. CASE Cell(q) = Cell(p)
      <3>1. mq_tail <= q /\ q < mq_head => q = p
        BY <2>1, <2>2, <2>6, <1>2, QueueAssumption, SMTT(30)
      <3>2. mq_pc'[t] \in Pushing /\ mq_pos'[t] = p
        BY <1>1, <1>3, <1>5 DEF Pushing
      <3> QED
        BY <2>1, <2>4, <2>6, <3>1, <3>2, <1>2, <1>5 DEF CellInv
    <2> QED
      BY <2>5, <2>6
  <1>11. GotInv'
    BY <1>3, <1>5, SMTT(60) DEF QueueInv, GotInv, OnlyMoved
  <1>12. ASSUME NEW q \in 0 .. mq_head - 1 PROVE ItemAt(q)' = ItemAt(q)
    <2>1. /\ q \in Nat /\ Cell(q) \in Cells /\ q \in 0 .. MaxPos - 1 /\ q < mq_head
          /\ mq_head \in Nat /\ mq_tail \in Nat /\ mq_head <= mq_tail + QueueCapacity
      <3>1. mq_head \in Nat /\ mq_tail \in Nat /\ mq_head <= mq_tail + QueueCapacity /\ mq_head <= MaxPos
        BY DEF QueueInv, QueueTypes
      <3>2. q \in Nat /\ q \in 0 .. MaxPos - 1 /\ q < mq_head
        BY <3>1, QueueAssumption, SMTT(30)
      <3> QED
        BY <3>1, <3>2, CellIn
    <2>2. Cell(q) = Cell(p) => q = p \/ p + QueueCapacity <= q \/ q + QueueCapacity <= p
      BY <2>1, SameCell
    <2>3. CASE q = p
      <3>1. {u \in Threads : mq_pos[u] = q /\ mq_pc[u] = "pushWrite"} = {t}
        BY <1>1, <1>3, <2>3 DEF QueueInv, OwnersUnique, Pushing
      <3>2. {u \in Threads : mq_pos'[u] = q /\ mq_pc'[u] = "pushWrite"} = {}
        BY <1>3, <1>5, <3>1 DEF OnlyMoved
      <3>3. mq_got'[q] = NoItem
        BY <1>2, <1>5, <2>1, <2>3 DEF QueueInv, GotInv
      <3>4. ItemAt(q)' = mq_item[t]
        BY <3>2, <3>3, <1>4, <2>1, <2>3 DEF ItemAt
      <3>5. (CHOOSE u \in {t} : TRUE) = t
        OBVIOUS
      <3>6. ItemAt(q) = mq_item[t]
        BY <3>1, <3>5 DEF ItemAt
      <3> QED
        BY <3>4, <3>6
    <2>4. CASE q # p /\ Cell(q) = Cell(p)
      <3>1. q < mq_tail
        BY <2>1, <2>2, <2>4, <1>2, QueueAssumption, SMTT(30)
      <3>2. \A u \in Threads : mq_pc[u] = "popRead" => mq_pos[u] # q
        <4> SUFFICES ASSUME NEW u \in Threads, mq_pc[u] = "popRead", mq_pos[u] = q PROVE FALSE
          OBVIOUS
        <4>1. mq_seq[Cell(q)] = q + 1
          BY ThreadTypes DEF ThreadInv, Popping
        <4> QED
          BY <4>1, <2>1, <2>2, <2>4, <1>2, QueueAssumption, SMTT(30)
      <3>3. mq_got[q] # NoItem
        BY <2>1, <3>1, <3>2, QueueAssumption DEF QueueInv, GotInv
      <3> QED
        BY <3>3, <1>1, <1>3, <1>5, <2>4, KeepItem
    <2>5. CASE Cell(q) # Cell(p)
      BY <2>1, <2>5, <1>1, <1>3, <1>4, <1>5, KeepItem
    <2> QED
      BY <2>3, <2>4, <2>5
  <1>13. (\A q \in 0 .. mq_tail + QueueCapacity - 1 : CellInv(q))'
    BY <1>5, <1>10
  <1> QED
    BY <1>6, <1>7, <1>8, <1>9, <1>11, <1>12, <1>13 DEF QueueInv, ItemsKept

LEMMA PopReadKeeps ==
  ASSUME QueueInv, NEW t \in Threads, PopRead(t)
  PROVE  QueueInv' /\ ItemsKept
  <1>1. PICK p \in Nat : p = mq_pos[t]
    BY ThreadTypes
  <1>2. /\ p < mq_tail /\ mq_head <= p + QueueCapacity /\ mq_seq[Cell(p)] = p + 1
        /\ mq_got[p] = NoItem /\ mq_data[Cell(p)] \in QueueItems
    BY <1>1, ThreadTypes DEF ThreadInv, PopRead, QueueAt, Popping
  <1>3. /\ OnlyMoved(t) /\ mq_pc'[t] = "popPublish" /\ mq_pc[t] = "popRead"
        /\ mq_pc' \in [Threads -> Labels]
    BY SMTT(30) DEF PopRead, QueueGoto, QueueAt, OnlyMoved, QueueInv, QueueTypes, Labels, Popping
  <1>4. p \in 0 .. MaxPos - 1
    BY <1>2, QueueAssumption, SMTT(30) DEF QueueInv, QueueTypes
  <1>5. /\ mq_got' \in [0 .. MaxPos - 1 -> Slots] /\ mq_got'[p] = mq_data[Cell(p)]
        /\ \A q \in 0 .. MaxPos - 1 : q # p => mq_got'[q] = mq_got[q]
    BY <1>1, <1>2, <1>4 DEF PopRead, QueueInv, QueueTypes, Slots
  <1>6. UNCHANGED <<mq_head, mq_tail, mq_seq, mq_data, mq_pos, mq_item>>
    BY DEF PopRead
  <1>7. QueueTypes'
    BY <1>3, <1>5, <1>6 DEF QueueInv, QueueTypes
  <1>8. ASSUME NEW u \in Threads \ {t} PROVE ThreadInv(u)'
    <2>1. /\ ThreadInv(u) /\ mq_pos[u] \in Nat
          /\ mq_pc'[u] = mq_pc[u] /\ mq_pos'[u] = mq_pos[u] /\ mq_item'[u] = mq_item[u]
      BY ThreadTypes, <1>3 DEF OnlyMoved
    <2>2. mq_pc[u] \in Popping => mq_pos[u] # p
      BY <1>1, <1>3 DEF QueueInv, OwnersUnique, Popping
    <2>3. mq_pc[u] \in Popping => mq_pos[u] \in 0 .. MaxPos - 1
      BY <2>1, QueueAssumption, SMTT(30) DEF ThreadInv, QueueInv, QueueTypes
    <2>4. mq_pc[u] \in Popping => mq_got'[mq_pos[u]] = mq_got[mq_pos[u]]
      BY <2>2, <2>3, <1>5
    <2> QED
      BY <2>1, <2>4, <1>6 DEF ThreadInv, Popping
  <1>9. ThreadInv(t)'
    BY <1>1, <1>2, <1>3, <1>5, <1>6 DEF ThreadInv, Pushing, Popping
  <1>10. OwnersUnique'
    BY <1>3, <1>6 DEF OwnersUnique, OnlyMoved, QueueInv, Pushing, Popping
  <1>11. ASSUME NEW q \in 0 .. mq_tail + QueueCapacity - 1 PROVE CellInv(q)'
    <2>1. CellInv(q)
      BY PositionFacts
    <2>2. \A u \in Threads : mq_pc[u] \in Pushing => mq_pc'[u] \in Pushing /\ mq_pos'[u] = mq_pos[u]
      BY <1>3, <1>6 DEF OnlyMoved, Pushing
    <2>3. \A u \in Threads : mq_pc[u] \in Popping => mq_pc'[u] \in Popping /\ mq_pos'[u] = mq_pos[u]
      BY <1>3, <1>6 DEF OnlyMoved, Popping
    <2> QED
      BY <2>1, <2>2, <2>3, <1>6 DEF CellInv
  <1>12. ASSUME NEW q \in 0 .. MaxPos - 1
         PROVE  /\ mq_tail <= q => mq_got'[q] = NoItem
                /\ q < mq_tail => \/ mq_got'[q] \in QueueItems
                                  \/ \E u \in Threads : mq_pc'[u] = "popRead" /\ mq_pos'[u] = q
    <2>1. CASE q = p
      <3>1. ~(mq_tail <= p)
        BY <1>2, SMTT(30) DEF QueueInv, QueueTypes
      <3> QED
        BY <2>1, <3>1, <1>2, <1>5
    <2>2. CASE q # p
      <3>1. \A u \in Threads : mq_pc[u] = "popRead" /\ mq_pos[u] = q
                                 => mq_pc'[u] = "popRead" /\ mq_pos'[u] = q
        BY <2>2, <1>1, <1>3 DEF OnlyMoved
      <3> QED
        BY <2>2, <3>1, <1>5 DEF QueueInv, GotInv
    <2> QED
      BY <2>1, <2>2
  <1>13. GotInv'
    BY <1>6, <1>12 DEF GotInv
  <1>14. ASSUME NEW q \in 0 .. mq_head - 1 PROVE ItemAt(q)' = ItemAt(q)
    <2>1. q \in 0 .. MaxPos - 1
      BY QueueAssumption, SMTT(30) DEF QueueInv, QueueTypes
    <2>2. CASE q = p
      <3>1. \A u \in Threads : mq_pos[u] = p => mq_pc[u] # "pushWrite"
        <4> SUFFICES ASSUME NEW u \in Threads, mq_pos[u] = p, mq_pc[u] = "pushWrite" PROVE FALSE
          OBVIOUS
        <4>1. mq_tail <= p
          BY ThreadTypes DEF ThreadInv, Pushing
        <4> QED
          BY <4>1, <1>2, SMTT(30) DEF QueueInv, QueueTypes
      <3>2. /\ {u \in Threads : mq_pos[u] = q /\ mq_pc[u] = "pushWrite"} = {}
            /\ {u \in Threads : mq_pos'[u] = q /\ mq_pc'[u] = "pushWrite"} = {}
        BY <2>2, <3>1, <1>3, <1>6 DEF OnlyMoved
      <3>3. ItemAt(q) = mq_data[Cell(p)]
        BY <2>2, <3>2, <1>2 DEF ItemAt
      <3>4. ItemAt(q)' = mq_data[Cell(p)]
        BY <2>2, <3>2, <1>2, <1>5, QueueAssumption DEF ItemAt
      <3> QED
        BY <3>3, <3>4
    <2>3. CASE q # p
      BY <2>1, <2>3, <1>3, <1>5, <1>6, KeepItem
    <2> QED
      BY <2>2, <2>3
  <1>15. (\A q \in 0 .. mq_tail + QueueCapacity - 1 : CellInv(q))'
    BY <1>6, <1>11
  <1> QED
    BY <1>7, <1>8, <1>9, <1>10, <1>13, <1>14, <1>15 DEF QueueInv, ItemsKept

\* The compare-exchange of push succeeds: head_ is handed out.
Reserve(t) ==
  /\ mq_pc[t] = "pushCas" /\ mq_pos[t] = mq_head /\ mq_head < MaxPos
  /\ mq_head' = mq_head + 1
  /\ mq_pc' = [mq_pc EXCEPT ![t] = "pushWrite"]
  /\ UNCHANGED <<mq_tail, mq_seq, mq_data, mq_pos, mq_item, mq_got>>

LEMMA ReserveKeeps ==
  ASSUME QueueInv, NEW t \in Threads, Reserve(t)
  PROVE  /\ QueueInv' /\ ItemsKept
         /\ \A h : h = mq_head => ItemAt(h)' = mq_item[t]
         /\ mq_item[t] \in QueueItems
         /\ mq_head < mq_tail + QueueCapacity
  <1>1. /\ mq_head \in Nat /\ mq_tail \in Nat /\ mq_tail <= mq_head
        /\ mq_head <= mq_tail + QueueCapacity /\ mq_head < MaxPos
    BY DEF QueueInv, QueueTypes, Reserve
  <1>2. mq_pos[t] = mq_head /\ mq_seq[Cell(mq_head)] = mq_head /\ mq_item[t] \in QueueItems
    BY ThreadTypes DEF ThreadInv, Reserve
  <1>3. /\ OnlyMoved(t) /\ mq_pc'[t] = "pushWrite" /\ mq_pc[t] = "pushCas"
        /\ mq_pc' \in [Threads -> Labels]
    BY SMTT(30) DEF Reserve, OnlyMoved, QueueInv, QueueTypes, Labels, Pushing
  <1>4. /\ mq_head' = mq_head + 1
        /\ UNCHANGED <<mq_tail, mq_seq, mq_data, mq_pos, mq_item, mq_got>>
    BY DEF Reserve
  <1>5. mq_head < mq_tail + QueueCapacity
    <2> SUFFICES ASSUME mq_head = mq_tail + QueueCapacity PROVE FALSE
      BY <1>1, QueueAssumption, SMTT(30)
    <2>1. Cell(mq_head) = Cell(mq_tail)
      BY <1>1, CellAgain
    <2>2. mq_tail \in 0 .. mq_tail + QueueCapacity - 1
      BY <1>1, QueueAssumption, SMTT(30)
    <2>3. CellInv(mq_tail)
      BY <2>2, PositionFacts
    <2> QED
      BY <2>1, <2>3, <1>1, <1>2, QueueAssumption, SMTT(30) DEF CellInv
  <1>6. QueueTypes'
    BY <1>1, <1>3, <1>4, <1>5, QueueAssumption, SMTT(30) DEF QueueInv, QueueTypes
  <1>7. ASSUME NEW u \in Threads \ {t} PROVE ThreadInv(u)'
    <2>1. /\ mq_pos[u] \in Nat /\ ThreadInv(u)
          /\ mq_pc'[u] = mq_pc[u] /\ mq_pos'[u] = mq_pos[u] /\ mq_item'[u] = mq_item[u]
      BY ThreadTypes, <1>3 DEF OnlyMoved
    <2>2. mq_pc[u] \in Popping => mq_head # mq_pos[u] + QueueCapacity
      <3> SUFFICES ASSUME mq_pc[u] \in Popping, mq_head = mq_pos[u] + QueueCapacity PROVE FALSE
        OBVIOUS
      <3>1. Cell(mq_head) = Cell(mq_pos[u])
        BY <2>1, CellAgain
      <3> QED
        BY <3>1, <2>1, <1>1, <1>2, QueueAssumption, SMTT(30) DEF ThreadInv
    <2> QED
      BY <2>1, <2>2, <1>1, <1>4, QueueAssumption, SMTT(30) DEF ThreadInv, Pushing, Popping
  <1>8. ThreadInv(t)'
    BY <1>1, <1>2, <1>3, <1>4, SMTT(30) DEF ThreadInv, Pushing, Popping
  <1>9. \A u \in Threads : mq_pc[u] \in Pushing => mq_pos[u] # mq_head
    BY <1>1, ThreadTypes, SMTT(30) DEF ThreadInv
  <1>10. OwnersUnique'
    <2>1. \A u \in Threads : mq_pc'[u] \in Pushing => mq_pc[u] \in Pushing \/ u = t
      BY <1>3 DEF OnlyMoved
    <2>2. \A u \in Threads : mq_pc'[u] \in Popping => mq_pc[u] \in Popping
      BY <1>3 DEF OnlyMoved, Popping
    <2> QED
      BY <2>1, <2>2, <1>2, <1>4, <1>9 DEF OwnersUnique, QueueInv
  <1>11. ASSUME NEW q \in 0 .. mq_tail + QueueCapacity - 1 PROVE CellInv(q)'
    <2>1. q \in Nat /\ CellInv(q)
      BY PositionFacts
    <2>2. \A u \in Threads : mq_pc[u] \in Pushing => mq_pc'[u] \in Pushing /\ mq_pos'[u] = mq_pos[u]
      BY <1>3, <1>4 DEF OnlyMoved, Pushing
    <2>3. \A u \in Threads : mq_pc[u] \in Popping => mq_pc'[u] \in Popping /\ mq_pos'[u] = mq_pos[u]
      BY <1>3, <1>4 DEF OnlyMoved, Popping
    <2>4. CASE q = mq_head
      <3>1. mq_pc'[t] \in Pushing /\ mq_pos'[t] = q /\ mq_seq'[Cell(q)] = q
        BY <2>4, <1>2, <1>3, <1>4 DEF Pushing
      <3>2. ~(q < mq_tail') /\ ~(mq_head' <= q)
        BY <2>4, <1>1, <1>4, SMTT(30)
      <3> QED
        BY <3>1, <3>2 DEF CellInv
    <2>5. CASE q # mq_head
      <3>1. (q < mq_head' <=> q < mq_head) /\ (mq_head' <= q <=> mq_head <= q)
        BY <2>1, <2>5, <1>1, <1>4, SMTT(30)
      <3> QED
        BY <3>1, <2>1, <2>2, <2>3, <1>4 DEF CellInv
    <2> QED
      BY <2>4, <2>5
  <1>12. GotInv'
    BY <1>3, <1>4, SMTT(60) DEF QueueInv, GotInv, OnlyMoved
  <1>13. ASSUME NEW q \in 0 .. mq_head - 1 PROVE ItemAt(q)' = ItemAt(q)
    <2>1. q # mq_head
      BY <1>1, SMTT(30)
    <2> QED
      BY <2>1, <1>2, <1>3, <1>4, KeepItem
  <1>14. ASSUME NEW h, h = mq_head PROVE ItemAt(h)' = mq_item[t]
    <2>1. {u \in Threads : mq_pos'[u] = h /\ mq_pc'[u] = "pushWrite"} = {t}
      BY <1>2, <1>3, <1>4, <1>9, <1>14 DEF OnlyMoved, Pushing
    <2>2. (CHOOSE u \in {t} : TRUE) = t
      OBVIOUS
    <2>3. ItemAt(h)' = mq_item'[t]
      BY <2>1, <2>2 DEF ItemAt
    <2> QED
      BY <2>3, <1>4
  <1>15. (\A q \in 0 .. mq_tail + QueueCapacity - 1 : CellInv(q))'
    BY <1>4, <1>11
  <1> QED
    BY <1>2, <1>5, <1>6, <1>7, <1>8, <1>10, <1>12, <1>13, <1>14, <1>15 DEF QueueInv, ItemsKept

\* The compare-exchange of pop succeeds: the item at tail_ is the consumer's.
Claim(t) ==
  /\ mq_pc[t] = "popCas" /\ mq_pos[t] = mq_tail
  /\ mq_tail' = mq_tail + 1
  /\ mq_pc' = [mq_pc EXCEPT ![t] = "popRead"]
  /\ UNCHANGED <<mq_head, mq_seq, mq_data, mq_pos, mq_item, mq_got>>

LEMMA ClaimKeeps ==
  ASSUME QueueInv, NEW t \in Threads, Claim(t)
  PROVE  QueueInv' /\ ItemsKept /\ mq_tail < mq_head
  <1>1. /\ mq_head \in Nat /\ mq_tail \in Nat /\ mq_tail <= mq_head
        /\ mq_head <= mq_tail + QueueCapacity /\ mq_head <= MaxPos
    BY DEF QueueInv, QueueTypes
  <1>2. mq_pos[t] = mq_tail /\ mq_seq[Cell(mq_tail)] = mq_tail + 1
    BY ThreadTypes DEF ThreadInv, Claim
  <1>3. /\ OnlyMoved(t) /\ mq_pc'[t] = "popRead" /\ mq_pc[t] = "popCas"
        /\ mq_pc' \in [Threads -> Labels]
    BY SMTT(30) DEF Claim, OnlyMoved, QueueInv, QueueTypes, Labels, Popping
  <1>4. /\ mq_tail' = mq_tail + 1
        /\ UNCHANGED <<mq_head, mq_seq, mq_data, mq_pos, mq_item, mq_got>>
    BY DEF Claim
  <1>5. mq_tail \in 0 .. mq_tail + QueueCapacity - 1
    BY <1>1, QueueAssumption, SMTT(30)
  <1>6. CellInv(mq_tail)
    BY <1>5, PositionFacts
  <1>7. \A u \in Threads : mq_pc[u] \in Popping => mq_pos[u] \in Nat /\ mq_pos[u] < mq_tail
    BY ThreadTypes DEF ThreadInv
  <1>8. mq_tail < mq_head /\ mq_data[Cell(mq_tail)] \in QueueItems
    BY <1>1, <1>2, <1>6, <1>7, SMTT(30) DEF CellInv
  <1>9. QueueTypes'
    BY <1>1, <1>3, <1>4, <1>8, QueueAssumption, SMTT(30) DEF QueueInv, QueueTypes
  <1>10. ASSUME NEW u \in Threads \ {t} PROVE ThreadInv(u)'
    <2>1. /\ mq_pos[u] \in Nat /\ ThreadInv(u)
          /\ mq_pc'[u] = mq_pc[u] /\ mq_pos'[u] = mq_pos[u] /\ mq_item'[u] = mq_item[u]
      BY ThreadTypes, <1>3 DEF OnlyMoved
    <2> QED
      BY <2>1, <1>1, <1>2, <1>4, QueueAssumption, SMTT(30) DEF ThreadInv, Pushing, Popping
  <1>11. ThreadInv(t)'
    <2>1. mq_tail \in 0 .. MaxPos - 1
      BY <1>1, <1>8, QueueAssumption, SMTT(30)
    <2>2. mq_got[mq_tail] = NoItem
      BY <2>1, <1>1, SMTT(30) DEF QueueInv, GotInv
    <2>3. mq_tail < mq_tail'
      BY <1>1, <1>4, SMTT(30)
    <2> QED
      BY <2>2, <2>3, <1>1, <1>2, <1>3, <1>4, <1>8 DEF ThreadInv, Pushing, Popping
  <1>12. \A u \in Threads : mq_pc[u] \in Popping => mq_pos[u] # mq_tail
    BY <1>1, <1>7, SMTT(30)
  <1>13. OwnersUnique'
    <2>1. \A u \in Threads : mq_pc'[u] \in Pushing => mq_pc[u] \in Pushing
      BY <1>3 DEF OnlyMoved, Pushing
    <2>2. \A u \in Threads : mq_pc'[u] \in Popping => mq_pc[u] \in Popping \/ u = t
      BY <1>3 DEF OnlyMoved
    <2> QED
      BY <2>1, <2>2, <1>2, <1>4, <1>12 DEF OwnersUnique, QueueInv
  <1>14. ASSUME NEW q \in 0 .. mq_tail + 1 + QueueCapacity - 1 PROVE CellInv(q)'
    <2>1. \A u \in Threads : mq_pc[u] \in Pushing => mq_pc'[u] \in Pushing /\ mq_pos'[u] = mq_pos[u]
      BY <1>3, <1>4 DEF OnlyMoved, Pushing
    <2>2. \A u \in Threads : mq_pc[u] \in Popping => mq_pc'[u] \in Popping /\ mq_pos'[u] = mq_pos[u]
      BY <1>3, <1>4 DEF OnlyMoved, Popping
    <2>3. CASE q = mq_tail
      <3>1. mq_seq'[Cell(q)] > q /\ ~(mq_tail' <= q) /\ ~(mq_head' <= q)
        BY <2>3, <1>1, <1>2, <1>4, <1>8, SMTT(30)
      <3> QED
        BY <3>1 DEF CellInv
    <2>4. CASE q = mq_tail + QueueCapacity
      <3>1. Cell(q) = Cell(mq_tail)
        BY <2>4, <1>1, CellAgain
      <3>2. ~(q < mq_tail') /\ ~(q < mq_head')
        BY <2>4, <1>1, <1>4, QueueAssumption, SMTT(30)
      <3>3. mq_pc'[t] \in Popping /\ mq_pos'[t] + QueueCapacity = q /\ mq_seq'[Cell(q)] = mq_pos'[t] + 1
        BY <2>4, <3>1, <1>2, <1>3, <1>4 DEF Popping
      <3> QED
        BY <3>2, <3>3 DEF CellInv
    <2>5. CASE q # mq_tail /\ q # mq_tail + QueueCapacity
      <3>1. /\ q \in 0 .. mq_tail + QueueCapacity - 1
            /\ (q < mq_tail' <=> q < mq_tail) /\ (mq_tail' <= q <=> mq_tail <= q)
        BY <2>5, <1>1, <1>4, QueueAssumption, SMTT(30)
      <3>2. CellInv(q)
        BY <3>1, PositionFacts
      <3> QED
        BY <3>1, <3>2, <2>1, <2>2, <1>4 DEF CellInv
    <2> QED
      BY <2>3, <2>4, <2>5
  <1>15. ASSUME NEW q \in 0 .. MaxPos - 1
         PROVE  /\ mq_tail' <= q => mq_got'[q] = NoItem
                /\ q < mq_tail' => \/ mq_got'[q] \in QueueItems
                                   \/ \E u \in Threads : mq_pc'[u] = "popRead" /\ mq_pos'[u] = q
    <2>1. CASE q = mq_tail
      <3>1. ~(mq_tail' <= q)
        BY <2>1, <1>1, <1>4, SMTT(30)
      <3> QED
        BY <2>1, <3>1, <1>2, <1>3, <1>4
    <2>2. CASE q # mq_tail
      <3>1. (q < mq_tail' <=> q < mq_tail) /\ (mq_tail' <= q <=> mq_tail <= q)
        BY <2>2, <1>1, <1>4, QueueAssumption, SMTT(30)
      <3>2. \A u \in Threads : mq_pc[u] = "popRead" => mq_pc'[u] = "popRead" /\ mq_pos'[u] = mq_pos[u]
        BY <1>3, <1>4 DEF OnlyMoved
      <3> QED
        BY <3>1, <3>2, <1>4 DEF QueueInv, GotInv
    <2> QED
      BY <2>1, <2>2
  <1>16. GotInv'
    BY <1>15 DEF GotInv
  <1>17. ItemsKept
    BY <1>3, <1>4, KeepItem DEF ItemsKept
  <1>18. (\A q \in 0 .. mq_tail + QueueCapacity - 1 : CellInv(q))'
    BY <1>4, <1>14
  <1> QED
    BY <1>8, <1>9, <1>10, <1>11, <1>13, <1>16, <1>17, <1>18 DEF QueueInv

\* The compare-exchange fails, and leaves the counter's value in pos.
PushMissed(t) ==
  /\ mq_pc[t] = "pushCas"
  /\ mq_pos' = [mq_pos EXCEPT ![t] = mq_head]
  /\ mq_pc' = [mq_pc EXCEPT ![t] = "pushSeq"]
  /\ UNCHANGED <<mq_head, mq_tail, mq_seq, mq_data, mq_item, mq_got>>
PopMissed(t) ==
  /\ mq_pc[t] = "popCas"
  /\ mq_pos' = [mq_pos EXCEPT ![t] = mq_tail]
  /\ mq_pc' = [mq_pc EXCEPT ![t] = "popSeq"]
  /\ UNCHANGED <<mq_head, mq_tail, mq_seq, mq_data, mq_item, mq_got>>

\* The steps that hold no position.
LEMMA LocalKeeps ==
  ASSUME QueueInv, NEW t \in Threads,
         \/ \E x \in QueueItems : Push(t, x)
         \/ PushSeq(t) \/ PushLoad(t) \/ PushMissed(t)
         \/ Pop(t) \/ PopSeq(t) \/ PopLoad(t) \/ PopMissed(t)
  PROVE  /\ QueueInv' /\ ItemsKept
         /\ UNCHANGED <<mq_head, mq_tail>>
  <1>1. QueueTypes /\ ThreadInv(t) /\ mq_pos[t] \in Nat /\ mq_item[t] \in Slots
    BY ThreadTypes DEF QueueInv
  <1> SUFFICES /\ OnlyMoved(t) /\ UNCHANGED <<mq_head, mq_tail, mq_seq, mq_data, mq_got>>
               /\ mq_pc' \in [Threads -> Labels] /\ mq_pos' \in [Threads -> Nat]
               /\ mq_item' \in [Threads -> Slots]
               /\ mq_pc[t] \notin Pushing \union Popping /\ mq_pc'[t] \notin Pushing \union Popping
               /\ ThreadInv(t)'
    BY LocalStep
  <1> USE DEF OnlyMoved, ThreadInv, QueueAt, QueueGoto, QueueTypes, Labels, Slots, Pushing, Popping
  <1>2. CASE \E x \in QueueItems : Push(t, x)
    BY <1>1, <1>2, SMTT(30) DEF Push
  <1>3. CASE PushSeq(t)
    <2>1. mq_pc[t] = "pushSeq" /\ UNCHANGED <<mq_head, mq_tail, mq_seq, mq_data, mq_got>>
      BY <1>3 DEF PushSeq
    <2>2. CASE mq_seq[Cell(mq_pos[t])] = mq_pos[t] /\ QueueGoto(t, "pushCas") /\ UNCHANGED <<mq_pos, mq_item>>
      BY <1>1, <2>1, <2>2, SMTT(30)
    <2>3. CASE QueueReturn(t)
      BY <1>1, <2>1, <2>3, SMTT(30) DEF QueueReturn
    <2>4. CASE QueueGoto(t, "pushLoad") /\ UNCHANGED <<mq_pos, mq_item>>
      BY <1>1, <2>1, <2>4, SMTT(30)
    <2> QED
      BY <1>3, <2>2, <2>3, <2>4 DEF PushSeq
  <1>4. CASE PushLoad(t)
    BY <1>1, <1>4, SMTT(30) DEF PushLoad
  <1>5. CASE PushMissed(t)
    BY <1>1, <1>5, SMTT(30) DEF PushMissed
  <1>6. CASE Pop(t)
    BY <1>1, <1>6, SMTT(30) DEF Pop
  <1>7. CASE PopSeq(t)
    <2>1. mq_pc[t] = "popSeq" /\ UNCHANGED <<mq_head, mq_tail, mq_seq, mq_data, mq_got>>
      BY <1>7 DEF PopSeq
    <2>2. CASE mq_seq[Cell(mq_pos[t])] = mq_pos[t] + 1 /\ QueueGoto(t, "popCas") /\ UNCHANGED <<mq_pos, mq_item>>
      BY <1>1, <2>1, <2>2, SMTT(30)
    <2>3. CASE QueueReturn(t)
      BY <1>1, <2>1, <2>3, SMTT(30) DEF QueueReturn
    <2>4. CASE QueueGoto(t, "popLoad") /\ UNCHANGED <<mq_pos, mq_item>>
      BY <1>1, <2>1, <2>4, SMTT(30)
    <2> QED
      BY <1>7, <2>2, <2>3, <2>4 DEF PopSeq
  <1>8. CASE PopLoad(t)
    BY <1>1, <1>8, SMTT(30) DEF PopLoad
  <1>9. CASE PopMissed(t)
    BY <1>1, <1>9, SMTT(30) DEF PopMissed
  <1> QED
    BY <1>2, <1>3, <1>4, <1>5, <1>6, <1>7, <1>8, <1>9

-----------------------------------------------------------------------------
LEMMA QueueStart == QueueInit => QueueInv
  <1> SUFFICES ASSUME QueueInit PROVE QueueInv
    OBVIOUS
  <1>1. QueueTypes
    BY QueueAssumption, SMTT(30) DEF QueueInit, QueueTypes, Cells, Slots, Labels
  <1>2. \A t \in Threads : ThreadInv(t)
    BY DEF QueueInit, ThreadInv, Pushing, Popping
  <1>3. OwnersUnique
    BY DEF QueueInit, OwnersUnique, Pushing, Popping
  <1>4. ASSUME NEW p \in 0 .. mq_tail + QueueCapacity - 1 PROVE CellInv(p)
    <2>1. p \in Nat /\ p \in Cells /\ Cell(p) = p
      BY QueueAssumption, SMTT(60) DEF QueueInit, Cell, Cells
    <2>2. mq_seq[Cell(p)] = p /\ mq_head = 0 /\ mq_tail = 0
      BY <2>1 DEF QueueInit
    <2> QED
      BY <2>1, <2>2, SMTT(30) DEF CellInv
  <1>5. GotInv
    BY QueueAssumption, SMTT(30) DEF QueueInit, GotInv
  <1> QED
    BY <1>1, <1>2, <1>3, <1>4, <1>5 DEF QueueInv

\* A step hands out a position, claims one, or leaves the counters and all items.
LEMMA QueueStep ==
  ASSUME QueueInv, [QueueNext]_mq_vars
  PROVE  /\ QueueInv'
         /\ ItemsKept
         /\ \/ UNCHANGED <<mq_head, mq_tail>>
            \/ /\ mq_head' = mq_head + 1 /\ mq_tail' = mq_tail
               /\ mq_head < mq_tail + QueueCapacity
               /\ \E x \in QueueItems : \A h : h = mq_head => ItemAt(h)' = x
            \/ /\ mq_tail' = mq_tail + 1 /\ mq_head' = mq_head
               /\ mq_tail < mq_head
  <1>1. CASE UNCHANGED mq_vars
    <2>1. /\ mq_head' = mq_head /\ mq_tail' = mq_tail /\ mq_seq' = mq_seq /\ mq_data' = mq_data
          /\ mq_pc' = mq_pc /\ mq_pos' = mq_pos /\ mq_item' = mq_item /\ mq_got' = mq_got
      BY <1>1 DEF mq_vars
    <2>2. QueueInv'
      <3>1. QueueTypes' /\ OwnersUnique' /\ GotInv'
        BY <2>1 DEF QueueInv, QueueTypes, OwnersUnique, GotInv
      <3>2. ASSUME NEW t \in Threads PROVE ThreadInv(t)'
        BY <2>1 DEF QueueInv, ThreadInv
      <3>3. ASSUME NEW p \in 0 .. mq_tail + QueueCapacity - 1 PROVE CellInv(p)'
        <4>1. CellInv(p)
          BY DEF QueueInv
        <4> QED
          BY <2>1, <4>1 DEF CellInv
      <3>4. (\A p \in 0 .. mq_tail + QueueCapacity - 1 : CellInv(p))'
        BY <2>1, <3>3
      <3> QED
        BY <3>1, <3>2, <3>4 DEF QueueInv
    <2>3. ASSUME NEW p PROVE ItemAt(p)' = ItemAt(p)
      BY <2>1, SMTT(30) DEF ItemAt
    <2> QED
      BY <2>1, <2>2, <2>3 DEF ItemsKept
  <1>2. ASSUME NEW t \in Threads,
               \/ \E x \in QueueItems : Push(t, x)
               \/ PushSeq(t) \/ PushLoad(t) \/ PushCas(t) \/ PushWrite(t) \/ PushPublish(t)
               \/ Pop(t) \/ PopSeq(t) \/ PopLoad(t) \/ PopCas(t) \/ PopRead(t) \/ PopPublish(t)
        PROVE  /\ QueueInv'
               /\ ItemsKept
               /\ \/ UNCHANGED <<mq_head, mq_tail>>
                  \/ /\ mq_head' = mq_head + 1 /\ mq_tail' = mq_tail
                     /\ mq_head < mq_tail + QueueCapacity
                     /\ \E x \in QueueItems : \A h : h = mq_head => ItemAt(h)' = x
                  \/ /\ mq_tail' = mq_tail + 1 /\ mq_head' = mq_head
                     /\ mq_tail < mq_head
    <2>1. PushCas(t) => Reserve(t) \/ PushMissed(t)
      BY DEF PushCas, Reserve, PushMissed, QueueAt, QueueGoto
    <2>2. PopCas(t) => Claim(t) \/ PopMissed(t)
      BY DEF PopCas, Claim, PopMissed, QueueAt, QueueGoto
    <2>3. CASE PushWrite(t)
      BY <2>3, PushWriteKeeps DEF PushWrite
    <2>4. CASE PushPublish(t)
      BY <2>4, PushPublishKeeps DEF PushPublish
    <2>5. CASE PopRead(t)
      BY <2>5, PopReadKeeps DEF PopRead
    <2>6. CASE PopPublish(t)
      BY <2>6, PopPublishKeeps DEF PopPublish
    <2>7. CASE Reserve(t)
      BY <2>7, ReserveKeeps DEF Reserve
    <2>8. CASE Claim(t)
      BY <2>8, ClaimKeeps DEF Claim
    <2>9. CASE \/ \E x \in QueueItems : Push(t, x)
               \/ PushSeq(t) \/ PushLoad(t) \/ PushMissed(t)
               \/ Pop(t) \/ PopSeq(t) \/ PopLoad(t) \/ PopMissed(t)
      BY ONLY QueueInv, <2>9, LocalKeeps
    <2> QED
      BY <1>2, <2>1, <2>2, <2>3, <2>4, <2>5, <2>6, <2>7, <2>8, <2>9
  <1> QED
    BY <1>1, <1>2 DEF QueueNext

LEMMA QueueInvariance == QueueSpec => []QueueInv
  <1>1. QueueInv /\ [QueueNext]_mq_vars => QueueInv'
    BY QueueStep
  <1> QED
    BY <1>1, QueueStart, PTL DEF QueueSpec

\* What push and pop report is true: push gives up only when the queue is full or a
\* consumer has yet to release a cell, pop only when it is empty or a producer has
\* yet to publish one (MPMCQueue.hpp enqueue_impl and pop).
THEOREM RefusalSafe == QueueSpec => []RefusalJustified
  <1>1. QueueInv => RefusalJustified
    <2> SUFFICES ASSUME QueueInv, NEW t \in Threads
                 PROVE  /\ mq_pc[t] = "pushSeq" /\ mq_seq[Cell(mq_pos[t])] < mq_pos[t]
                             => mq_head - mq_tail = QueueCapacity \/ InProgress({"popRead", "popPublish"})
                        /\ mq_pc[t] = "popSeq" /\ mq_seq[Cell(mq_pos[t])] < mq_pos[t] + 1
                             => mq_head = mq_tail \/ InProgress({"pushWrite", "pushPublish"})
      BY DEF RefusalJustified
    <2>1. PICK p \in Nat : p = mq_pos[t]
      BY ThreadTypes
    <2>2. /\ mq_head \in Nat /\ mq_tail \in Nat /\ mq_tail <= mq_head
          /\ mq_head <= mq_tail + QueueCapacity
      BY DEF QueueInv, QueueTypes
    <2>3. p < mq_tail + QueueCapacity => CellInv(p) /\ mq_seq[Cell(p)] \in Nat
      <3>1. p < mq_tail + QueueCapacity => p \in 0 .. mq_tail + QueueCapacity - 1
        BY <2>2, QueueAssumption, SMTT(30)
      <3> QED
        BY <3>1, PositionFacts
    <2>4. ASSUME mq_pc[t] = "pushSeq", mq_seq[Cell(p)] < p, mq_head - mq_tail # QueueCapacity
          PROVE  InProgress({"popRead", "popPublish"})
      <3>1. p <= mq_head
        BY <2>1, <2>4, ThreadTypes DEF ThreadInv
      <3>2. mq_head < mq_tail + QueueCapacity
        BY <2>2, <2>4, QueueAssumption, SMTT(30)
      <3>3. CellInv(p) /\ mq_seq[Cell(p)] \in Nat
        BY <2>2, <2>3, <3>1, <3>2, QueueAssumption, SMTT(30)
      <3>4. \E u \in Threads : mq_pc[u] \in Popping
        BY <2>2, <2>4, <3>1, <3>3, SMTT(30) DEF CellInv
      <3> QED
        BY <3>4 DEF InProgress, Popping
    <2>5. ASSUME mq_pc[t] = "popSeq", mq_seq[Cell(p)] < p + 1, mq_head # mq_tail
          PROVE  InProgress({"pushWrite", "pushPublish"})
      <3>1. p <= mq_tail
        BY <2>1, <2>5, ThreadTypes DEF ThreadInv
      <3>2. CellInv(p) /\ mq_seq[Cell(p)] \in Nat
        BY <2>2, <2>3, <3>1, QueueAssumption, SMTT(30)
      <3>3. \E u \in Threads : mq_pc[u] \in Pushing
        BY <2>2, <2>5, <3>1, <3>2, SMTT(30) DEF CellInv
      <3> QED
        BY <3>3 DEF InProgress, Pushing
    <2> QED
      BY <2>1, <2>4, <2>5
  <1> QED
    BY <1>1, QueueInvariance, PTL

-----------------------------------------------------------------------------
(* The refinement of AbstractQueue. *)

\* The part of F from position m, of length n, as a sequence.
Part(F, m, n) == [i \in 1 .. n |-> F[m + i - 1]]

LEMMA Index ==
  \A m, n \in Nat : \A i \in 1 .. n : m + i - 1 \in Nat /\ m + i - 1 \in 0 .. m + n - 1
  BY SMTT(30)

LEMMA PartSeq ==
  ASSUME NEW F, NEW m \in Nat, NEW n \in Nat
  PROVE  /\ Part(F, m, n) \in Seq({F[p] : p \in Nat}) /\ Len(Part(F, m, n)) = n
         /\ \A i \in 1 .. n : Part(F, m, n)[i] = F[m + i - 1]
  <1>1. PICK S : S = {F[p] : p \in Nat}
    OBVIOUS
  <1>2. Part(F, m, n) \in [1 .. n -> S]
    BY <1>1, Index DEF Part
  <1>3. Part(F, m, n) \in Seq(S) /\ Len(Part(F, m, n)) = n
    BY <1>2, SMTT(30)
  <1> QED
    BY <1>1, <1>3 DEF Part

\* F and G agree on the positions of a part.
Agree(F, G, m, n) == \A p \in 0 .. m + n - 1 : G[p] = F[p]

LEMMA PartSame ==
  ASSUME NEW F, NEW G, NEW m \in Nat, NEW n \in Nat, Agree(F, G, m, n)
  PROVE  Part(G, m, n) = Part(F, m, n)
  BY Index DEF Part, Agree

LEMMA PartAppend ==
  ASSUME NEW F, NEW G, NEW m \in Nat, NEW n \in Nat, Agree(F, G, m, n)
  PROVE  Part(G, m, n + 1) = Append(Part(F, m, n), G[m + n])
  <1>1. PICK S : S = {G[p] : p \in Nat}
    OBVIOUS
  <1>2. PICK s : s = Part(G, m, n)
    OBVIOUS
  <1>3. PICK k \in Nat : k = n + 1
    BY SMTT(30)
  <1>4. PICK r : r = Part(G, m, k)
    OBVIOUS
  <1>5. s \in Seq(S) /\ Len(s) = n /\ \A i \in 1 .. n : s[i] = G[m + i - 1]
    BY <1>1, <1>2, PartSeq
  <1>6. r \in Seq(S) /\ Len(r) = k /\ \A i \in 1 .. k : r[i] = G[m + i - 1]
    BY <1>1, <1>4, PartSeq
  <1>7. PICK e \in S : e = G[m + n]
    <2>1. m + n \in Nat
      BY SMTT(30)
    <2> QED
      BY <1>1, <2>1
  <1>8. /\ Append(s, e) \in Seq(S) /\ Len(Append(s, e)) = k
        /\ \A i \in 1 .. n : Append(s, e)[i] = s[i]
        /\ Append(s, e)[k] = e
    BY <1>3, <1>5, SMTT(30)
  <1>9. PICK a : a = Append(s, e)
    OBVIOUS
  <1>10. ASSUME NEW i \in 1 .. k PROVE r[i] = a[i]
    <2>1. CASE i = k
      <3>1. m + i - 1 = m + n
        BY <1>3, <2>1, SMTT(30)
      <3> QED
        BY <2>1, <3>1, <1>6, <1>7, <1>8, <1>9
    <2>2. CASE i # k
      <3>1. i \in 1 .. n
        BY <1>3, <2>2, SMTT(30)
      <3> QED
        BY <3>1, <1>5, <1>6, <1>8, <1>9
    <2> QED
      BY <2>1, <2>2
  <1>11. r = a
    BY <1>6, <1>8, <1>9, <1>10, SeqEqual
  <1>12. s = Part(F, m, n)
    BY <1>2, PartSame, SMTT(60)
  <1> QED
    BY <1>3, <1>4, <1>7, <1>9, <1>11, <1>12

LEMMA PartTail ==
  ASSUME NEW F, NEW G, NEW m \in Nat, NEW n \in Nat, n > 0, Agree(F, G, m, n)
  PROVE  /\ Part(F, m, n) # <<>> /\ Head(Part(F, m, n)) = G[m]
         /\ Part(G, m + 1, n - 1) = Tail(Part(F, m, n))
  <1>1. PICK S : S = {G[p] : p \in Nat}
    OBVIOUS
  <1>2. PICK s : s = Part(G, m, n)
    OBVIOUS
  <1>3. PICK k \in Nat : k = n - 1
    BY SMTT(30)
  <1>4. PICK j \in Nat : j = m + 1
    BY SMTT(30)
  <1>5. PICK r : r = Part(G, j, k)
    OBVIOUS
  <1>6. s \in Seq(S) /\ Len(s) = n /\ \A i \in 1 .. n : s[i] = G[m + i - 1]
    BY <1>1, <1>2, PartSeq
  <1>7. r \in Seq(S) /\ Len(r) = k /\ \A i \in 1 .. k : r[i] = G[j + i - 1]
    BY <1>1, <1>5, PartSeq
  <1>8. s # <<>> /\ Head(s) = G[m]
    <2>1. 1 \in 1 .. n /\ m + 1 - 1 = m
      BY SMTT(30)
    <2>2. s[1] = G[m]
      BY <1>6, <2>1
    <2>3. s # <<>> /\ Head(s) = s[1]
      BY <1>6, SMTT(30)
    <2> QED
      BY <2>2, <2>3
  <1>9. Tail(s) \in Seq(S) /\ Len(Tail(s)) = k /\ \A i \in 1 .. k : Tail(s)[i] = s[i + 1]
    BY <1>3, <1>6, SMTT(30)
  <1>10. PICK a : a = Tail(s)
    OBVIOUS
  <1>11. ASSUME NEW i \in 1 .. k PROVE r[i] = a[i]
    <2>1. i + 1 \in 1 .. n /\ j + i - 1 = m + (i + 1) - 1
      BY <1>3, <1>4, SMTT(30)
    <2> QED
      BY <2>1, <1>6, <1>7, <1>9, <1>10
  <1>12. r = a
    BY <1>7, <1>9, <1>10, <1>11, SeqEqual
  <1>13. s = Part(F, m, n)
    BY <1>2, PartSame, SMTT(60)
  <1> QED
    BY <1>3, <1>4, <1>5, <1>8, <1>10, <1>12, <1>13

\* A part that starts at 0.
LEMMA PartStart ==
  ASSUME NEW F, NEW G, NEW l \in Nat, Agree(F, G, 0, l)
  PROVE  Part(G, 0, l) = Part(F, 0, l) /\ Part(G, 0, l + 1) = Append(Part(F, 0, l), G[l])
  <1>1. PICK z \in Nat : z = 0 /\ z + l = l
    BY SMTT(30)
  <1>2. Agree(F, G, z, l)
    BY <1>1
  <1>3. Part(G, z, l) = Part(F, z, l)
    BY <1>2, PartSame
  <1>4. Part(G, z, l + 1) = Append(Part(F, z, l), G[z + l])
    BY <1>2, PartAppend
  <1> QED
    BY <1>1, <1>3, <1>4

\* The values of q and out under the refinement mapping.
Content == [i \in 1 .. mq_head - mq_tail |-> ItemAt(mq_tail + i - 1)]
Taken == [i \in 1 .. mq_tail |-> ItemAt(i - 1)]

\* The same, as parts of one function of positions, before and after a step.
LEMMA Parts ==
  ASSUME NEW F, F = [p \in Nat |-> ItemAt(p)],
         NEW l \in Nat, l = mq_tail, NEW n \in Nat, n = mq_head - mq_tail
  PROVE  Content = Part(F, l, n) /\ Taken = Part(F, 0, l)
  <1>1. \A i \in 1 .. l : 0 + i - 1 \in Nat /\ 0 + i - 1 = i - 1
    BY Index, SMTT(30)
  <1> QED
    BY <1>1, Index DEF Content, Taken, Part

LEMMA NextParts ==
  ASSUME NEW F, F = [p \in Nat |-> ItemAt(p)'],
         NEW l \in Nat, l = mq_tail', NEW n \in Nat, n = mq_head' - mq_tail'
  PROVE  Content' = Part(F, l, n) /\ Taken' = Part(F, 0, l)
  <1>1. \A k \in Nat : \A i \in 1 .. k : 0 + i - 1 \in Nat /\ 0 + i - 1 = i - 1
    BY ONLY SMTT(30)
  <1> QED
    BY <1>1, Index DEF Content, Taken, Part

\* However pushes and pops interleave, the ring buffer is the bounded first-in
\* first-out queue of AbstractQueue: the compare-exchange of push appends the item,
\* that of pop takes the first, and no other step of either changes what is in the
\* queue (MPMCQueue.hpp enqueue_impl and pop).
THEOREM QueueImplements == QueueSpec => ImplementsQueue
  <1>1. QueueInit => Queue!Init
    <2> SUFFICES ASSUME QueueInit PROVE Content = <<>> /\ Taken = <<>>
      BY DEF Queue!Init, Content, Taken
    <2> QED
      BY SMTT(30) DEF QueueInit, Content, Taken
  <1>2. QueueInv /\ [QueueNext]_mq_vars => [Queue!Next]_Queue!vars
    <2> SUFFICES ASSUME QueueInv, [QueueNext]_mq_vars
                 PROVE  \/ Content' = Content /\ Taken' = Taken
                        \/ \E x \in QueueItems : /\ Len(Content) < QueueCapacity
                                                 /\ Content' = Append(Content, x) /\ Taken' = Taken
                        \/ /\ Content # <<>> /\ Content' = Tail(Content)
                           /\ Taken' = Append(Taken, Head(Content))
      BY DEF Queue!Next, Queue!vars, Queue!push, Queue!pop, Content, Taken
    <2>1. PICK h \in Nat : h = mq_head
      BY DEF QueueInv, QueueTypes
    <2>2. PICK l \in Nat : l = mq_tail
      BY DEF QueueInv, QueueTypes
    <2>3. PICK n \in Nat : n = h - l
      BY <2>1, <2>2, SMTT(30) DEF QueueInv, QueueTypes
    <2>4. l <= h /\ l + n = h /\ h - l = n /\ 0 + l = l
      BY <2>1, <2>2, <2>3, SMTT(30) DEF QueueInv, QueueTypes
    <2>5. PICK F : F = [p \in Nat |-> ItemAt(p)]
      OBVIOUS
    <2>6. PICK G : G = [p \in Nat |-> ItemAt(p)']
      OBVIOUS
    <2>7. \A p \in 0 .. h - 1 : G[p] = F[p]
      <3>1. \A p \in 0 .. h - 1 : p \in Nat
        BY SMTT(30)
      <3> QED
        BY <3>1, <2>1, <2>5, <2>6, QueueStep DEF ItemsKept
    <2>8. Content = Part(F, l, n) /\ Taken = Part(F, 0, l)
      BY <2>1, <2>2, <2>4, <2>5, Parts
    <2>9. Agree(F, G, l, n) /\ Agree(F, G, 0, l)
      BY <2>4, <2>7, SMTT(30) DEF Agree
    <2>10. Part(G, 0, l) = Part(F, 0, l) /\ Part(G, 0, l + 1) = Append(Part(F, 0, l), G[l])
      BY <2>9, PartStart
    <2>11. CASE UNCHANGED <<mq_head, mq_tail>>
      <3>1. Content' = Part(G, l, n) /\ Taken' = Part(G, 0, l)
        BY <2>1, <2>2, <2>4, <2>6, <2>11, NextParts
      <3> QED
        BY <3>1, <2>8, <2>9, <2>10, PartSame
    <2>12. ASSUME mq_head' = mq_head + 1, mq_tail' = mq_tail, mq_head < mq_tail + QueueCapacity,
                  NEW x \in QueueItems, \A k : k = mq_head => ItemAt(k)' = x
           PROVE  /\ Len(Content) < QueueCapacity
                  /\ Content' = Append(Content, x) /\ Taken' = Taken
      <3>1. PICK k \in Nat : k = n + 1
        BY SMTT(30)
      <3>2. k = mq_head' - mq_tail' /\ n < QueueCapacity
        BY <3>1, <2>1, <2>2, <2>3, <2>12, QueueAssumption, SMTT(30)
      <3>3. Content' = Part(G, l, n + 1) /\ Taken' = Part(G, 0, l)
        BY <3>1, <3>2, <2>2, <2>6, <2>12, NextParts
      <3>4. G[l + n] = x
        BY <2>1, <2>4, <2>6, <2>12
      <3>5. Part(G, l, n + 1) = Append(Part(F, l, n), G[l + n])
        BY ONLY l \in Nat, n \in Nat, <2>9, PartAppend, SMTT(60)
      <3>6. Taken' = Taken
        BY <3>3, <2>8, <2>10
      <3>7. Len(Content) = n
        BY <2>8, PartSeq
      <3> QED
        BY <3>2, <3>3, <3>4, <3>5, <3>6, <3>7, <2>8
    <2>13. CASE mq_tail' = mq_tail + 1 /\ mq_head' = mq_head /\ mq_tail < mq_head
      <3>1. PICK k \in Nat : k = l + 1
        BY SMTT(30)
      <3>2. PICK j \in Nat : j = n - 1
        BY <2>1, <2>2, <2>3, <2>13, SMTT(30)
      <3>3. n > 0 /\ j = mq_head' - mq_tail' /\ k = mq_tail'
        BY <3>1, <3>2, <2>1, <2>2, <2>3, <2>13, SMTT(30)
      <3>4. Content' = Part(G, l + 1, n - 1) /\ Taken' = Part(G, 0, l + 1)
        BY <3>1, <3>2, <3>3, <2>6, NextParts
      <3>5. /\ Part(F, l, n) # <<>> /\ Head(Part(F, l, n)) = G[l]
            /\ Part(G, l + 1, n - 1) = Tail(Part(F, l, n))
        <4>1. n > 0 /\ Agree(F, G, l, n)
          BY <3>3, <2>9
        <4> QED
          BY ONLY l \in Nat, n \in Nat, <4>1, PartTail, ZenonT(90)
      <3> QED
        BY <3>4, <3>5, <2>8, <2>10
    <2> QED
      BY <2>11, <2>12, <2>13, QueueStep
  <1>3. QueueInit /\ [][QueueNext]_mq_vars /\ []QueueInv => Queue!Init /\ [][Queue!Next]_Queue!vars
    BY <1>1, <1>2, PTL
  <1> QED
    BY <1>3, QueueInvariance, PTL DEF QueueSpec, ImplementsQueue, Queue!Spec

-----------------------------------------------------------------------------
(* The spin lock *)

\* Where a context is between winning test_and_set and clearing it, except
\* inside a nested call of Lock.
Owning == {"own", "save", "cs", "reset", "clear"}
\* Inside Lock, before test_and_set is won.
Trying == {"disable", "tas", "check"}

\* The owner is unique and is known by locked_.
OwnerInv ==
  /\ \A x, y \in Contexts : held[x] /\ held[y] => x = y
  /\ locked <=> \E x \in Contexts : held[x]
  /\ \A x \in Contexts : pc[x] \in Owning => held[x]
  /\ \A x \in Contexts : held[x] => pc[x] \in Owning \union Trying
  /\ \A x \in Contexts : held[x] /\ pc[x] \in Trying => x[2] = "task"

\* core_id_ names the owner, except in the two steps around its stores.
CoreIdInv ==
  /\ \A x \in Contexts :
       held[x] /\ pc[x] # "own" /\ pc[x] # "clear" => core_id = x[1]
  /\ core_id # NoCore =>
       \E x \in Contexts :
         held[x] /\ x[1] = core_id /\ pc[x] # "own" /\ pc[x] # "clear"

\* The owner's core runs the owner, with its interrupts masked.
MaskInv ==
  /\ \A x \in Contexts :
       held[x] \/ pc[x] \in {"tas", "check"} => ~intr[x[1]] /\ Active(x)
  /\ \A x \in Contexts : held[x] /\ pc[x] \in Trying => ~intr_enable[x]
  /\ \A c \in Cores : pc[Isr(c)] # "hang"
  /\ \A c \in Cores : ~isr[c] => pc[Isr(c)] = "free"
  /\ \A c \in Cores : pc[Task(c)] # "hang"

\* An owner that is outside Lock and UnLock was last told "ok" or "recursive".
RetInv == \A x \in Contexts :
  (pc[x] = "cs" \/ (held[x] /\ pc[x] \in Trying)) => ret[x] # "not_owned"

\* The conjunction is inductive: ownership alone is not, because what UnLock
\* and the recursion check do depends on core_id_, and who may run while the
\* lock is held depends on the interrupt flags.
IInv == TypeOK /\ OwnerInv /\ CoreIdInv /\ MaskInv /\ RetInv

\* The contexts of a core are its task code and its handler.
LEMMA ContextsOfCores ==
  /\ \A c \in Cores : /\ Task(c) \in Contexts /\ Isr(c) \in Contexts
                       /\ Task(c)[1] = c /\ Isr(c)[1] = c
                       /\ Task(c)[2] = "task" /\ Isr(c)[2] = "isr"
  /\ \A x \in Contexts : /\ x[1] \in Cores /\ x[2] \in {"task", "isr"}
                          /\ (x = Task(x[1]) \/ x = Isr(x[1]))
BY SMT DEF Contexts, Task, Isr

\* The initial state satisfies the invariant: nobody owns the lock.
LEMMA InitIInv == Init => IInv
BY NoCoreAssumption, ZenonT(60) DEF Init, IInv, TypeOK, OwnerInv, CoreIdInv, MaskInv,
   RetInv, Contexts, PCs, Results, Owning, Trying, Active, Isr, Task

\* Every statement of Lock preserves the invariant.
LEMMA LockIInv ==
  ASSUME IInv, NEW x \in Contexts, LockStep(x)
  PROVE  IInv'
<1> USE NoCoreAssumption DEF IInv, Contexts, At, Goto
<1>1. CASE LockEnter(x)
  <2>1. TypeOK'
    BY <1>1 DEF LockEnter, TypeOK, PCs, Results
  <2>2. OwnerInv'
    BY <1>1 DEF LockEnter, TypeOK, OwnerInv, CoreIdInv, MaskInv, Owning, Trying, Active
  <2>3. CoreIdInv'
    BY <1>1 DEF LockEnter, TypeOK, OwnerInv, CoreIdInv, MaskInv, Owning, Trying, Active
  <2>4. MaskInv'
    BY <1>1, SMT DEF LockEnter, TypeOK, OwnerInv, CoreIdInv, MaskInv, Owning, Trying, Active, Isr, Task
  <2>5. RetInv'
    BY <1>1, SMT DEF LockEnter, TypeOK, OwnerInv, CoreIdInv, MaskInv, RetInv, Owning, Trying
  <2> QED BY <2>1, <2>2, <2>3, <2>4, <2>5
<1>2. CASE LockDisable(x)
  <2>1. TypeOK'
    BY <1>2 DEF LockDisable, TypeOK, PCs, Results
  <2>2. OwnerInv'
    BY <1>2 DEF LockDisable, TypeOK, OwnerInv, CoreIdInv, MaskInv, Owning, Trying, Active
  <2>3. CoreIdInv'
    BY <1>2 DEF LockDisable, TypeOK, OwnerInv, CoreIdInv, MaskInv, Owning, Trying, Active
  <2>4. MaskInv'
    BY <1>2 DEF LockDisable, TypeOK, OwnerInv, CoreIdInv, MaskInv, Owning, Trying, Active, Isr, Task
  <2>5. RetInv'
    BY <1>2 DEF LockDisable, TypeOK, OwnerInv, CoreIdInv, MaskInv, RetInv, Owning, Trying
  <2> QED BY <2>1, <2>2, <2>3, <2>4, <2>5
<1>3. CASE LockTas(x)
  <2>1. TypeOK'
    BY <1>3 DEF LockTas, TypeOK, PCs, Results
  <2>2. OwnerInv'
    <3>1. CASE locked
      BY <1>3, <3>1, SMT DEF LockTas, TypeOK, OwnerInv, Owning, Trying
    <3>2. CASE ~locked
      <4>1. \A y \in Contexts : ~held[y]
        BY <3>2 DEF OwnerInv
      <4>2. /\ held' = [held EXCEPT ![x] = TRUE]
            /\ pc' = [pc EXCEPT ![x] = "own"]
            /\ locked' = TRUE
        BY <1>3, <3>2 DEF LockTas
      <4>3. \A y \in Contexts : held'[y] <=> y = x
        BY <4>1, <4>2 DEF TypeOK
      <4> QED BY <4>1, <4>2, <4>3 DEF TypeOK, OwnerInv, Owning, Trying
    <3> QED BY <3>1, <3>2
  <2>3. CoreIdInv'
    <3>1. CASE locked
      BY <1>3, <3>1, SMT DEF LockTas, TypeOK, CoreIdInv
    <3>2. CASE ~locked
      <4>1. \A y \in Contexts : ~held[y]
        BY <3>2 DEF OwnerInv
      <4>2. core_id = NoCore
        BY <4>1 DEF CoreIdInv
      <4> QED BY <1>3, <3>2, <4>1, <4>2 DEF LockTas, TypeOK, CoreIdInv
    <3> QED BY <3>1, <3>2
  <2>4. MaskInv'
    BY <1>3, SMT DEF LockTas, TypeOK, OwnerInv, CoreIdInv, MaskInv, Owning, Trying, Active, Isr, Task
  <2>5. RetInv'
    BY <1>3, SMT DEF LockTas, TypeOK, OwnerInv, CoreIdInv, MaskInv, RetInv, Owning, Trying
  <2> QED BY <2>1, <2>2, <2>3, <2>4, <2>5
<1>4. CASE LockCheck(x)
  <2>1. TypeOK'
    BY <1>4, ZenonT(60) DEF LockCheck, TypeOK, PCs, Results
  <2>2. OwnerInv'
    BY <1>4, SMT DEF LockCheck, TypeOK, OwnerInv, CoreIdInv, MaskInv, Owning, Trying, Active
  <2>3. CoreIdInv'
    BY <1>4, SMT DEF LockCheck, TypeOK, OwnerInv, CoreIdInv, MaskInv, Owning, Trying, Active
  <2>4. MaskInv'
    <3>1. ~intr[x[1]] /\ Active(x)
      BY <1>4 DEF LockCheck, MaskInv
    <3>2. CASE core_id = x[1]
      <4>1. held[x]
        BY <3>1, <3>2, SMT DEF CoreIdInv, MaskInv, Active
      <4>2. x[2] = "task" /\ ~intr_enable[x]
        BY <1>4, <4>1 DEF LockCheck, OwnerInv, MaskInv, Trying
      <4>3. intr' = intr
        BY <1>4, <3>1, <3>2, <4>2, SMT DEF LockCheck, TypeOK
      <4>4. pc' = [pc EXCEPT ![x] = "cs"]
        BY <1>4, <3>2, <4>1, <4>2 DEF LockCheck
      <4> QED BY <1>4, <4>2, <4>3, <4>4
              DEF LockCheck, TypeOK, MaskInv, Trying, Active, Isr, Task
    <3>3. CASE core_id # x[1]
      BY <1>4, <3>1, <3>3
         DEF LockCheck, TypeOK, MaskInv, Trying, Active, Isr, Task
    <3> QED BY <3>2, <3>3
  <2>5. RetInv'
    BY <1>4, SMT DEF LockCheck, TypeOK, OwnerInv, CoreIdInv, MaskInv, RetInv, Owning, Trying
  <2> QED BY <2>1, <2>2, <2>3, <2>4, <2>5
<1>5. CASE LockOwn(x)
  <2>1. TypeOK'
    BY <1>5 DEF LockOwn, TypeOK, PCs, Results
  <2>2. OwnerInv'
    BY <1>5 DEF LockOwn, TypeOK, OwnerInv, CoreIdInv, MaskInv, Owning, Trying, Active
  <2>3. CoreIdInv'
    BY <1>5 DEF LockOwn, TypeOK, OwnerInv, CoreIdInv, MaskInv, Owning, Trying, Active
  <2>4. MaskInv'
    BY <1>5 DEF LockOwn, TypeOK, OwnerInv, CoreIdInv, MaskInv, Owning, Trying, Active, Isr, Task
  <2>5. RetInv'
    BY <1>5 DEF LockOwn, TypeOK, OwnerInv, CoreIdInv, MaskInv, RetInv, Owning, Trying
  <2> QED BY <2>1, <2>2, <2>3, <2>4, <2>5
<1>6. CASE LockSave(x)
  <2>1. TypeOK'
    BY <1>6 DEF LockSave, TypeOK, PCs, Results
  <2>2. OwnerInv'
    BY <1>6 DEF LockSave, TypeOK, OwnerInv, CoreIdInv, MaskInv, Owning, Trying, Active
  <2>3. CoreIdInv'
    BY <1>6 DEF LockSave, TypeOK, OwnerInv, CoreIdInv, MaskInv, Owning, Trying, Active
  <2>4. MaskInv'
    BY <1>6, SMT DEF LockSave, TypeOK, OwnerInv, CoreIdInv, MaskInv, Owning, Trying, Active, Isr, Task
  <2>5. RetInv'
    BY <1>6 DEF LockSave, TypeOK, OwnerInv, CoreIdInv, MaskInv, RetInv, Owning, Trying
  <2> QED BY <2>1, <2>2, <2>3, <2>4, <2>5
<1> QED BY <1>1, <1>2, <1>3, <1>4, <1>5, <1>6 DEF LockStep

\* Every statement of UnLock preserves the invariant.
LEMMA UnLockIInv ==
  ASSUME IInv, NEW x \in Contexts, UnLockStep(x)
  PROVE  IInv'
<1> USE NoCoreAssumption DEF IInv, Contexts, At, Goto
<1>1. CASE UnLockEnter(x)
  <2>1. TypeOK'
    BY <1>1, SMTT(60) DEF UnLockEnter, TypeOK, PCs, Results
  <2>2. OwnerInv'
    BY <1>1, SMT DEF UnLockEnter, TypeOK, OwnerInv, CoreIdInv, MaskInv, Owning, Trying, Active
  <2>3. CoreIdInv'
    BY <1>1, SMT DEF UnLockEnter, TypeOK, OwnerInv, CoreIdInv, MaskInv, Owning, Trying, Active
  <2>4. MaskInv'
    BY <1>1, SMT DEF UnLockEnter, TypeOK, OwnerInv, CoreIdInv, MaskInv, Owning, Trying, Active, Isr, Task
  <2>5. RetInv'
    BY <1>1, SMT DEF UnLockEnter, TypeOK, OwnerInv, CoreIdInv, MaskInv, RetInv, Owning, Trying
  <2> QED BY <2>1, <2>2, <2>3, <2>4, <2>5
<1>2. CASE UnLockReset(x)
  <2>1. TypeOK'
    BY <1>2 DEF UnLockReset, TypeOK, PCs, Results
  <2>2. OwnerInv'
    BY <1>2 DEF UnLockReset, TypeOK, OwnerInv, CoreIdInv, MaskInv, Owning, Trying, Active
  <2>3. CoreIdInv'
    BY <1>2 DEF UnLockReset, TypeOK, OwnerInv, CoreIdInv, MaskInv, Owning, Trying, Active
  <2>4. MaskInv'
    BY <1>2, SMT DEF UnLockReset, TypeOK, OwnerInv, CoreIdInv, MaskInv, Owning, Trying, Active, Isr, Task
  <2>5. RetInv'
    BY <1>2 DEF UnLockReset, TypeOK, OwnerInv, CoreIdInv, MaskInv, RetInv, Owning, Trying
  <2> QED BY <2>1, <2>2, <2>3, <2>4, <2>5
<1>3. CASE UnLockClear(x)
  <2>1. TypeOK'
    BY <1>3 DEF UnLockClear, TypeOK, PCs, Results
  <2>2. OwnerInv'
    BY <1>3 DEF UnLockClear, TypeOK, OwnerInv, CoreIdInv, MaskInv, Owning, Trying, Active
  <2>3. CoreIdInv'
    BY <1>3 DEF UnLockClear, TypeOK, OwnerInv, CoreIdInv, MaskInv, Owning, Trying, Active
  <2>4. MaskInv'
    BY <1>3 DEF UnLockClear, TypeOK, OwnerInv, CoreIdInv, MaskInv, Owning, Trying, Active, Isr, Task
  <2>5. RetInv'
    BY <1>3 DEF UnLockClear, TypeOK, OwnerInv, CoreIdInv, MaskInv, RetInv, Owning, Trying
  <2> QED BY <2>1, <2>2, <2>3, <2>4, <2>5
<1>4. CASE UnLockRestore(x)
  <2>1. TypeOK'
    BY <1>4 DEF UnLockRestore, TypeOK, PCs, Results
  <2>2. OwnerInv'
    BY <1>4 DEF UnLockRestore, TypeOK, OwnerInv, CoreIdInv, MaskInv, Owning, Trying, Active
  <2>3. CoreIdInv'
    BY <1>4 DEF UnLockRestore, TypeOK, OwnerInv, CoreIdInv, MaskInv, Owning, Trying, Active
  <2>4. MaskInv'
    BY <1>4, SMT DEF UnLockRestore, TypeOK, OwnerInv, CoreIdInv, MaskInv, Owning, Trying, Active, Isr, Task
  <2>5. RetInv'
    BY <1>4 DEF UnLockRestore, TypeOK, OwnerInv, CoreIdInv, MaskInv, RetInv, Owning, Trying
  <2> QED BY <2>1, <2>2, <2>3, <2>4, <2>5
<1> QED BY <1>1, <1>2, <1>3, <1>4 DEF UnLockStep

\* Interrupts and the callers' own use of the flag preserve the invariant.
LEMMA ProcessorIInv ==
  ASSUME IInv, NEW c \in Cores,
         Interrupt(c) \/ InterruptReturn(c) \/ SetInterrupt(c)
  PROVE  IInv'
<1> USE NoCoreAssumption DEF IInv, Contexts, At, Goto
<1>1. CASE Interrupt(c)
  <2>1. TypeOK'
    BY <1>1 DEF Interrupt, TypeOK, PCs, Results
  <2>2. OwnerInv'
    BY <1>1 DEF Interrupt, Isr, Task, Active, TypeOK, OwnerInv, CoreIdInv, MaskInv, Owning, Trying, Active
  <2>3. CoreIdInv'
    BY <1>1 DEF Interrupt, Isr, Task, Active, TypeOK, OwnerInv, CoreIdInv, MaskInv, Owning, Trying, Active
  <2>4. MaskInv'
    BY <1>1, SMT DEF Interrupt, TypeOK, OwnerInv, CoreIdInv, MaskInv, Owning, Trying, Active, Isr, Task
  <2>5. RetInv'
    BY <1>1 DEF Interrupt, Isr, Task, Active, TypeOK, OwnerInv, CoreIdInv, MaskInv, RetInv, Owning, Trying
  <2> QED BY <2>1, <2>2, <2>3, <2>4, <2>5
<1>2. CASE InterruptReturn(c)
  <2>1. TypeOK'
    BY <1>2 DEF InterruptReturn, TypeOK, PCs, Results
  <2>2. OwnerInv'
    BY <1>2 DEF InterruptReturn, Isr, Task, Active, TypeOK, OwnerInv, CoreIdInv, MaskInv, Owning, Trying, Active
  <2>3. CoreIdInv'
    BY <1>2 DEF InterruptReturn, Isr, Task, Active, TypeOK, OwnerInv, CoreIdInv, MaskInv, Owning, Trying, Active
  <2>4. MaskInv'
    <3>1. \A x \in Contexts :
            x[1] = c => ~held[x] /\ pc[x] \notin {"tas", "check"}
      <4>1. ~held[Isr(c)] /\ pc[Isr(c)] = "free"
        BY <1>2, ContextsOfCores
           DEF InterruptReturn, OwnerInv, MaskInv, Active, Owning, Trying
      <4>2. ~held[Task(c)] /\ pc[Task(c)] \notin {"tas", "check"}
        BY <1>2, ContextsOfCores, SMT
           DEF InterruptReturn, OwnerInv, MaskInv, Active, Owning, Trying
      <4> QED BY <4>1, <4>2, ContextsOfCores, SMT
    <3> QED BY <1>2, <3>1
            DEF InterruptReturn, TypeOK, MaskInv, Trying, Active, Isr, Task
  <2>5. RetInv'
    BY <1>2 DEF InterruptReturn, Isr, Task, Active, TypeOK, OwnerInv, CoreIdInv, MaskInv, RetInv, Owning, Trying
  <2> QED BY <2>1, <2>2, <2>3, <2>4, <2>5
<1>3. CASE SetInterrupt(c)
  <2>1. TypeOK'
    BY <1>3 DEF SetInterrupt, TypeOK, PCs, Results
  <2>2. OwnerInv'
    BY <1>3 DEF SetInterrupt, Isr, Task, Active, TypeOK, OwnerInv, CoreIdInv, MaskInv, Owning, Trying, Active
  <2>3. CoreIdInv'
    BY <1>3 DEF SetInterrupt, Isr, Task, Active, TypeOK, OwnerInv, CoreIdInv, MaskInv, Owning, Trying, Active
  <2>4. MaskInv'
    <3>1. \A x \in Contexts :
            x[1] = c => ~held[x] /\ pc[x] \notin {"tas", "check"}
      <4>1. ~held[Isr(c)] /\ pc[Isr(c)] = "free"
        BY <1>3, ContextsOfCores, SMT
           DEF SetInterrupt, OwnerInv, MaskInv, Active, Owning, Trying
      <4>2. ~held[Task(c)] /\ pc[Task(c)] \notin {"tas", "check"}
        BY <1>3, ContextsOfCores
           DEF SetInterrupt, OwnerInv, MaskInv, Active, Owning, Trying
      <4> QED BY <4>1, <4>2, ContextsOfCores, SMT
    <3> QED BY <1>3, <3>1
            DEF SetInterrupt, TypeOK, MaskInv, Trying, Active, Isr, Task
  <2>5. RetInv'
    BY <1>3 DEF SetInterrupt, Isr, Task, Active, TypeOK, OwnerInv, CoreIdInv, MaskInv, RetInv, Owning, Trying
  <2> QED BY <2>1, <2>2, <2>3, <2>4, <2>5
<1> QED BY <1>1, <1>2, <1>3
\* The invariant holds in every reachable state, for any set of cores.
THEOREM InductiveInvariant == Spec => []IInv
<1>1. IInv /\ [Next]_vars => IInv'
  <2> SUFFICES ASSUME IInv, [Next]_vars
               PROVE  IInv'
    OBVIOUS
  <2>1. CASE \E x \in Contexts : LockStep(x) \/ UnLockStep(x)
    BY <2>1, LockIInv, UnLockIInv
  <2>2. CASE \E c \in Cores : Interrupt(c) \/ InterruptReturn(c) \/ SetInterrupt(c)
    BY <2>2, ProcessorIInv
  <2>3. CASE UNCHANGED vars
    BY <2>3 DEF vars, IInv, TypeOK, OwnerInv, CoreIdInv, MaskInv, RetInv, Active
  <2> QED BY <2>1, <2>2, <2>3 DEF Next
<1> QED BY <1>1, InitIInv, PTL DEF Spec

\* The state of the lock is well-typed in every reachable state.
THEOREM TypeCorrect == Spec => []TypeOK
<1>1. IInv => TypeOK
  BY DEF IInv
<1> QED BY <1>1, InductiveInvariant, PTL

\* At most one context owns the lock: test_and_set decides, and only its
\* winner clears the flag.
THEOREM MutualExclusionHolds == Spec => []MutualExclusion
<1>1. IInv => MutualExclusion
  BY DEF IInv, OwnerInv, MutualExclusion
<1> QED BY <1>1, InductiveInvariant, PTL

\* UnLock of an owner never fails: nobody overwrites the core_id_ of an owner.
THEOREM OwnerRecognisedHolds == Spec => []OwnerRecognised
<1>1. IInv => OwnerRecognised
  BY DEF IInv, OwnerInv, RetInv, OwnerRecognised, Owning, Trying
<1> QED BY <1>1, InductiveInvariant, PTL

\* A handler never runs on top of an owner, so LockGuard never hangs in it.
THEOREM NoHandlerHangHolds == Spec => []NoHandlerHang
<1>1. IInv => NoHandlerHang
  <2> SUFFICES ASSUME IInv, NEW c \in Cores
               PROVE  pc[Isr(c)] # "hang" /\ ~(isr[c] /\ held[Task(c)])
    BY DEF NoHandlerHang
  <2>1. pc[Isr(c)] # "hang"
    BY DEF IInv, MaskInv
  <2>2. held[Task(c)] => Active(Task(c))
    BY ContextsOfCores DEF IInv, MaskInv
  <2>3. Active(Task(c)) => ~isr[c]
    BY ContextsOfCores DEF Active
  <2> QED BY <2>1, <2>2, <2>3
<1> QED BY <1>1, InductiveInvariant, PTL

\* Lock reports a recursion only to the core that owns the lock.
THEOREM RecursionIsRealHolds == Spec => RecursionIsReal
<1> DEFINE Returns(x) == pc[x] = "check" /\ pc'[x] \notin {"check", "tas"}
<1>1. ASSUME IInv, Next, NEW x \in Contexts, Returns(x)
      PROVE  held[Task(x[1])] \/ held[Isr(x[1])]
  <2>1. \A y \in Contexts : y # x /\ (LockStep(y) \/ UnLockStep(y)) => pc'[x] = pc[x]
    BY <1>1 DEF IInv, TypeOK, LockStep, UnLockStep, LockEnter, LockDisable, LockTas,
       LockCheck, LockOwn, LockSave, UnLockEnter, UnLockReset, UnLockClear,
       UnLockRestore, Goto
  <2>2. \A c \in Cores : Interrupt(c) \/ InterruptReturn(c) \/ SetInterrupt(c)
                           => pc' = pc
    BY DEF Interrupt, InterruptReturn, SetInterrupt
  <2>3. LockStep(x) \/ UnLockStep(x)
    BY <1>1, <2>1, <2>2 DEF Next
  <2>4. LockCheck(x)
    BY <1>1, <2>3 DEF LockStep, UnLockStep, LockEnter, LockDisable, LockTas, LockOwn,
       LockSave, UnLockEnter, UnLockReset, UnLockClear, UnLockRestore, At
  <2>5. core_id = x[1]
    BY <1>1, <2>4 DEF LockCheck, Goto, IInv, TypeOK
  <2>6. PICK y \in Contexts : held[y] /\ y[1] = x[1]
    <3>1. core_id # NoCore
      <4>1. x[1] \in Cores
        BY <1>1 DEF Contexts
      <4> QED BY <2>5, <4>1, NoCoreAssumption
    <3> QED BY <1>1, <2>5, <3>1 DEF IInv, CoreIdInv
  <2> QED BY <2>6, ContextsOfCores, SMT
<1>2. IInv /\ [Next]_vars =>
        [\A x \in Contexts : Returns(x) => held[Task(x[1])] \/ held[Isr(x[1])]]_vars
  BY <1>1 DEF vars
<1> QED BY <1>2, InductiveInvariant, PTL DEF Spec, RecursionIsReal

\* The abstract holder is the core of the owner; there is none when nobody owns
\* the lock.
HolderIsOwner ==
  /\ \A x \in Contexts : held[x] => holder = x[1]
  /\ (\A x \in Contexts : ~held[x]) => holder = NoCore

\* The invariant determines the abstract holder, before and after a step.
LEMMA HolderOfOwner ==
  /\ IInv => HolderIsOwner
  /\ IInv' => HolderIsOwner'
BY DEF IInv, OwnerInv, HolderIsOwner, holder

\* The spin lock implements the abstract lock: winning test_and_set is Acquire,
\* clearing the flag is Release, and no step changes the interrupt flag of the
\* holder's core.
THEOREM ImplementsAbstractLockHolds == Spec => ImplementsAbstractLock
<1> DEFINE masked == [c \in Cores |-> ~intr[c]]
<1>1. Init => Abstract!AInit
  <2> SUFFICES ASSUME Init PROVE holder = NoCore /\ masked \in [Cores -> BOOLEAN]
    BY DEF Abstract!AInit
  <2> QED BY DEF Init, holder
<1>2. ASSUME IInv, IInv', [Next]_vars
      PROVE  [Abstract!ANext]_(Abstract!avars)
  <2> USE DEF At, Goto
  <2> HIDE DEF masked
  <2>0. HolderIsOwner /\ HolderIsOwner'
    BY <1>2, HolderOfOwner
  <2>1. ASSUME NEW x \in Contexts, LockTas(x), ~locked
        PROVE  Abstract!Acquire(x[1])
    <3>1. holder = NoCore
      BY <1>2, <2>0, <2>1 DEF IInv, OwnerInv, HolderIsOwner
    <3>2. held'[x]
      BY <1>2, <2>1 DEF LockTas, IInv, TypeOK
    <3>3. holder' = x[1]
      BY <2>0, <3>2 DEF HolderIsOwner
    <3>4. masked[x[1]]
      <4>1. ~intr[x[1]]
        BY <1>2, <2>1 DEF LockTas, IInv, MaskInv
      <4>2. x[1] \in Cores
        BY DEF Contexts
      <4> QED BY <4>1, <4>2, Zenon DEF masked
    <3>5. masked' = masked
      BY <2>1 DEF LockTas, masked
    <3> QED BY <3>1, <3>3, <3>4, <3>5 DEF Abstract!Acquire, masked
  <2>2. ASSUME NEW x \in Contexts, UnLockClear(x)
        PROVE  Abstract!Release(x[1])
    <3>1. held[x] /\ holder = x[1]
      BY <1>2, <2>0, <2>2 DEF UnLockClear, IInv, OwnerInv, Owning, HolderIsOwner
    <3>2. \A y \in Contexts : ~held'[y]
      BY <1>2, <2>2, <3>1 DEF UnLockClear, IInv, TypeOK, OwnerInv
    <3>3. holder' = NoCore
      BY <2>0, <3>2 DEF HolderIsOwner
    <3>4. masked' = masked
      BY <2>2 DEF UnLockClear, masked
    <3> QED BY <3>1, <3>3, <3>4 DEF Abstract!Release, masked
  \* The steps that write an interrupt flag: not of the holder's core, or without
  \* effect.
  <2>3. ASSUME NEW c \in Cores, NEW b \in BOOLEAN, intr' = [intr EXCEPT ![c] = b],
               held' = held, holder # c
        PROVE  Abstract!SetMask(c)
    <3>1. holder' = holder
      BY <2>3 DEF holder
    <3>2. masked' = [masked EXCEPT ![c] = ~b]
      BY <1>2, <2>3 DEF masked, IInv, TypeOK
    <3> QED BY <2>3, <3>1, <3>2 DEF Abstract!SetMask, masked
  <2>4. ASSUME held' = held, intr' = intr
        PROVE  UNCHANGED Abstract!avars
    BY <2>4 DEF Abstract!avars, holder
  <2>5. ASSUME NEW c \in Cores, \A x \in Contexts : x[1] = c => ~held[x]
        PROVE  holder # c
    BY <2>0, <2>5, NoCoreAssumption DEF HolderIsOwner
  <2>6. ASSUME NEW x \in Contexts, LockStep(x)
        PROVE  [Abstract!ANext]_(Abstract!avars)
    <3>0. x[1] \in Cores
      BY DEF Contexts
    <3>1. CASE LockTas(x)
      <4>1. CASE locked
        BY <2>4, <3>1, <4>1 DEF LockTas
      <4>2. CASE ~locked
        BY <2>1, <3>0, <3>1, <4>2 DEF Abstract!ANext
      <4> QED BY <4>1, <4>2
    <3>2. CASE LockDisable(x)
      <4>1. held' = held /\ intr' = [intr EXCEPT ![x[1]] = FALSE]
        BY <3>2 DEF LockDisable
      <4>2. CASE holder = x[1]
        <5>1. PICK y \in Contexts : held[y] /\ y[1] = x[1]
          BY <2>5, <3>0, <4>2
        <5>2. intr' = intr
          BY <1>2, <3>0, <4>1, <5>1, SMT DEF IInv, TypeOK, MaskInv
        <5> QED BY <2>4, <4>1, <5>2
      <4>3. CASE holder # x[1]
        BY <2>3, <3>0, <4>1, <4>3 DEF Abstract!ANext
      <4> QED BY <4>2, <4>3
    <3>3. CASE LockCheck(x)
      <4>1. held' = held /\ ~intr[x[1]] /\ Active(x)
        BY <1>2, <3>3 DEF LockCheck, IInv, MaskInv
      <4>2. CASE core_id = x[1]
        <5>1. PICK y \in Contexts : held[y] /\ y[1] = x[1]
          BY <1>2, <3>0, <4>2, NoCoreAssumption DEF IInv, CoreIdInv
        <5>2. y = x
          BY <1>2, <4>1, <5>1, ContextsOfCores, SMT DEF IInv, MaskInv, Active
        <5>3. ~intr_enable[x]
          BY <1>2, <3>3, <5>1, <5>2 DEF LockCheck, IInv, MaskInv, Trying
        <5>4. intr' = intr
          BY <1>2, <3>0, <3>3, <4>1, <4>2, <5>3, SMT DEF LockCheck, IInv, TypeOK
        <5> QED BY <2>4, <4>1, <5>4
      <4>3. CASE core_id # x[1]
        BY <2>4, <3>3, <4>3 DEF LockCheck
      <4> QED BY <4>2, <4>3
    <3>4. CASE LockEnter(x) \/ LockOwn(x) \/ LockSave(x)
      BY <2>4, <3>4 DEF LockEnter, LockOwn, LockSave
    <3> QED BY <2>6, <3>1, <3>2, <3>3, <3>4 DEF LockStep
  <2>7. ASSUME NEW x \in Contexts, UnLockStep(x)
        PROVE  [Abstract!ANext]_(Abstract!avars)
    <3>0. x[1] \in Cores
      BY DEF Contexts
    <3>1. CASE UnLockClear(x)
      BY <2>2, <3>0, <3>1 DEF Abstract!ANext
    <3>2. CASE UnLockRestore(x)
      <4>1. ~held[x] /\ Active(x)
        BY <1>2, <3>2 DEF UnLockRestore, IInv, OwnerInv, Owning, Trying
      <4>2. \A y \in Contexts : y[1] = x[1] => ~held[y]
        BY <1>2, <4>1, ContextsOfCores, SMT DEF IInv, MaskInv, Active
      <4>3. holder # x[1]
        BY <2>5, <3>0, <4>2
      <4>4. /\ held' = held
            /\ (intr[x[1]] \/ saved_intr_enable) \in BOOLEAN
            /\ intr' = [intr EXCEPT ![x[1]] = intr[x[1]] \/ saved_intr_enable]
        BY <3>2 DEF UnLockRestore
      <4> QED BY <2>3, <3>0, <4>3, <4>4 DEF Abstract!ANext
    <3>3. CASE UnLockEnter(x) \/ UnLockReset(x)
      BY <2>4, <3>3 DEF UnLockEnter, UnLockReset
    <3> QED BY <2>7, <3>1, <3>2, <3>3 DEF UnLockStep
  <2>8. ASSUME NEW c \in Cores, Interrupt(c) \/ InterruptReturn(c) \/ SetInterrupt(c)
        PROVE  [Abstract!ANext]_(Abstract!avars)
    <3>1. ~held[Task(c)] /\ ~held[Isr(c)]
      <4>1. CASE Interrupt(c)
        BY <1>2, <4>1, ContextsOfCores, SMT DEF Interrupt, IInv, MaskInv
      <4>2. CASE InterruptReturn(c)
        <5>1. Active(Isr(c)) /\ pc[Isr(c)] = "free"
          BY <4>2 DEF InterruptReturn, At
        <5>2. ~held[Isr(c)]
          BY <1>2, <5>1, ContextsOfCores, SMTT(60) DEF IInv, OwnerInv, Owning, Trying
        <5>3. ~Active(Task(c))
          BY <5>1, ContextsOfCores, SMTT(60) DEF Active
        <5>4. ~held[Task(c)]
          BY <1>2, <5>3, ContextsOfCores, SMTT(60) DEF IInv, MaskInv
        <5> QED BY <5>2, <5>4
      <4>3. CASE SetInterrupt(c)
        <5>1. Active(Task(c)) /\ pc[Task(c)] = "free"
          BY <4>3 DEF SetInterrupt, At
        <5>2. ~held[Task(c)]
          BY <1>2, <5>1, ContextsOfCores, SMTT(60) DEF IInv, OwnerInv, Owning, Trying
        <5>3. ~Active(Isr(c))
          BY <5>1, ContextsOfCores, SMTT(60) DEF Active
        <5>4. ~held[Isr(c)]
          BY <1>2, <5>3, ContextsOfCores, SMTT(60) DEF IInv, MaskInv
        <5> QED BY <5>2, <5>4
      <4> QED BY <2>8, <4>1, <4>2, <4>3
    <3>2. holder # c
      BY <2>5, <3>1, ContextsOfCores, SMT
    <3>3. held' = held /\ \E b \in BOOLEAN : intr' = [intr EXCEPT ![c] = b]
      BY <2>8 DEF Interrupt, InterruptReturn, SetInterrupt
    <3> QED BY <2>3, <3>2, <3>3 DEF Abstract!ANext
  <2>9. CASE UNCHANGED vars
    BY <2>4, <2>9 DEF vars
  <2> QED BY <1>2, <2>6, <2>7, <2>8, <2>9 DEF Next
<1> QED BY <1>1, <1>2, InductiveInvariant, PTL
        DEF Spec, ImplementsAbstractLock, Abstract!ASpec
=============================================================================
