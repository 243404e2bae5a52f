----------------------------- MODULE MPMCQueue ------------------------------
(***************************************************************************)
(* The lock-free ring buffer of src/3rd/MPMCQueue, which TaskManager       *)
(* declares as its queue of interrupt work.  One step per access to shared *)
(* memory; a compare-and-exchange may fail without reason.  Positions are  *)
(* not bounded by a width here: pushes stop at MaxPos.                     *)
(***************************************************************************)
EXTENDS Naturals, Sequences

CONSTANTS
  Threads,
  QueueItems,
  QueueCapacity,  \* Capacity, a power of 2 above 1
  MaxPos,         \* bound on head_
  NoItem

ASSUME QueueAssumption ==
  /\ QueueCapacity \in Nat /\ QueueCapacity > 1
  /\ MaxPos \in Nat
  /\ NoItem \notin QueueItems

VARIABLES
  mq_head, mq_tail,  \* head_, tail_
  mq_seq, mq_data,   \* buffer_[i].sequence, buffer_[i].data
  mq_pc,             \* mq_pc[t]: where t is
  mq_pos, mq_item,   \* its locals pos and item
  mq_got             \* mq_got[p]: the item that the pop of position p has moved out

mq_vars == <<mq_head, mq_tail, mq_seq, mq_data, mq_pc, mq_pos, mq_item, mq_got>>

Cell(p) == p % QueueCapacity
Cells == 0 .. QueueCapacity - 1

QueueInit ==
  /\ mq_head = 0 /\ mq_tail = 0
  /\ mq_seq = [i \in Cells |-> i]
  /\ mq_data = [i \in Cells |-> NoItem]
  /\ mq_pc = [t \in Threads |-> "idle"]
  /\ mq_pos = [t \in Threads |-> 0]
  /\ mq_item = [t \in Threads |-> NoItem]
  /\ mq_got = [p \in 0 .. MaxPos - 1 |-> NoItem]

QueueAt(t, label) == mq_pc[t] = label
QueueGoto(t, label) == mq_pc' = [mq_pc EXCEPT ![t] = label]
\* The locals are dead after the call.
QueueReturn(t) ==
  /\ QueueGoto(t, "idle")
  /\ mq_pos' = [mq_pos EXCEPT ![t] = 0]
  /\ mq_item' = [mq_item EXCEPT ![t] = NoItem]

-----------------------------------------------------------------------------
(* push: enqueue_impl *)

Push(t, x) ==
  /\ QueueAt(t, "idle") /\ mq_head < MaxPos
  /\ mq_item' = [mq_item EXCEPT ![t] = x]
  /\ mq_pos' = [mq_pos EXCEPT ![t] = mq_head]
  /\ QueueGoto(t, "pushSeq")
  /\ UNCHANGED <<mq_head, mq_tail, mq_seq, mq_data, mq_got>>

PushSeq(t) ==
  LET seq == mq_seq[Cell(mq_pos[t])]
  IN  /\ QueueAt(t, "pushSeq")
      /\ \/ seq = mq_pos[t] /\ QueueGoto(t, "pushCas") /\ UNCHANGED <<mq_pos, mq_item>>
         \/ seq < mq_pos[t] /\ QueueReturn(t)
         \/ seq > mq_pos[t] /\ QueueGoto(t, "pushLoad") /\ UNCHANGED <<mq_pos, mq_item>>
      /\ UNCHANGED <<mq_head, mq_tail, mq_seq, mq_data, mq_got>>

PushLoad(t) ==
  /\ QueueAt(t, "pushLoad")
  /\ mq_pos' = [mq_pos EXCEPT ![t] = mq_head]
  /\ QueueGoto(t, "pushSeq")
  /\ UNCHANGED <<mq_head, mq_tail, mq_seq, mq_data, mq_item, mq_got>>

PushCas(t) ==
  /\ QueueAt(t, "pushCas")
  /\ \/ /\ mq_head = mq_pos[t] /\ mq_head < MaxPos
        /\ mq_head' = mq_head + 1
        /\ QueueGoto(t, "pushWrite") /\ UNCHANGED mq_pos
     \/ /\ mq_pos' = [mq_pos EXCEPT ![t] = mq_head]
        /\ QueueGoto(t, "pushSeq") /\ UNCHANGED mq_head
  /\ UNCHANGED <<mq_tail, mq_seq, mq_data, mq_item, mq_got>>

PushWrite(t) ==
  /\ QueueAt(t, "pushWrite")
  /\ mq_data' = [mq_data EXCEPT ![Cell(mq_pos[t])] = mq_item[t]]
  /\ QueueGoto(t, "pushPublish")
  /\ UNCHANGED <<mq_head, mq_tail, mq_seq, mq_pos, mq_item, mq_got>>

PushPublish(t) ==
  /\ QueueAt(t, "pushPublish")
  /\ mq_seq' = [mq_seq EXCEPT ![Cell(mq_pos[t])] = mq_pos[t] + 1]
  /\ QueueReturn(t)
  /\ UNCHANGED <<mq_head, mq_tail, mq_data, mq_got>>

-----------------------------------------------------------------------------
(* pop *)

Pop(t) ==
  /\ QueueAt(t, "idle")
  /\ mq_pos' = [mq_pos EXCEPT ![t] = mq_tail]
  /\ QueueGoto(t, "popSeq")
  /\ UNCHANGED <<mq_head, mq_tail, mq_seq, mq_data, mq_item, mq_got>>

\* Mutant: sequence is compared with pos.
PopSeqEarly(t) ==
  LET seq == mq_seq[Cell(mq_pos[t])]
  IN  /\ QueueAt(t, "popSeq")
      /\ \/ seq = mq_pos[t] /\ QueueGoto(t, "popCas") /\ UNCHANGED <<mq_pos, mq_item>>
         \/ seq < mq_pos[t] /\ QueueReturn(t)
         \/ seq > mq_pos[t] /\ QueueGoto(t, "popLoad") /\ UNCHANGED <<mq_pos, mq_item>>
      /\ UNCHANGED <<mq_head, mq_tail, mq_seq, mq_data, mq_got>>

PopSeq(t) ==
  LET seq == mq_seq[Cell(mq_pos[t])]
  IN  /\ QueueAt(t, "popSeq")
      /\ \/ seq = mq_pos[t] + 1 /\ QueueGoto(t, "popCas") /\ UNCHANGED <<mq_pos, mq_item>>
         \/ seq < mq_pos[t] + 1 /\ QueueReturn(t)
         \/ seq > mq_pos[t] + 1 /\ QueueGoto(t, "popLoad") /\ UNCHANGED <<mq_pos, mq_item>>
      /\ UNCHANGED <<mq_head, mq_tail, mq_seq, mq_data, mq_got>>

PopLoad(t) ==
  /\ QueueAt(t, "popLoad")
  /\ mq_pos' = [mq_pos EXCEPT ![t] = mq_tail]
  /\ QueueGoto(t, "popSeq")
  /\ UNCHANGED <<mq_head, mq_tail, mq_seq, mq_data, mq_item, mq_got>>

PopCas(t) ==
  /\ QueueAt(t, "popCas")
  /\ \/ /\ mq_tail = mq_pos[t]
        /\ mq_tail' = mq_tail + 1
        /\ QueueGoto(t, "popRead") /\ UNCHANGED mq_pos
     \/ /\ mq_pos' = [mq_pos EXCEPT ![t] = mq_tail]
        /\ QueueGoto(t, "popSeq") /\ UNCHANGED mq_tail
  /\ UNCHANGED <<mq_head, mq_seq, mq_data, mq_item, mq_got>>

PopRead(t) ==
  /\ QueueAt(t, "popRead")
  /\ mq_got' = [mq_got EXCEPT ![mq_pos[t]] = mq_data[Cell(mq_pos[t])]]
  /\ QueueGoto(t, "popPublish")
  /\ UNCHANGED <<mq_head, mq_tail, mq_seq, mq_data, mq_pos, mq_item>>

\* Mutant: the cell is marked as if it still held the item.
PopPublishSame(t) ==
  /\ QueueAt(t, "popPublish")
  /\ mq_seq' = [mq_seq EXCEPT ![Cell(mq_pos[t])] = mq_pos[t] + 1]
  /\ QueueReturn(t)
  /\ UNCHANGED <<mq_head, mq_tail, mq_data, mq_got>>

PopPublish(t) ==
  /\ QueueAt(t, "popPublish")
  /\ mq_seq' = [mq_seq EXCEPT ![Cell(mq_pos[t])] = mq_pos[t] + QueueCapacity]
  /\ QueueReturn(t)
  /\ UNCHANGED <<mq_head, mq_tail, mq_data, mq_got>>

QueueNext ==
  \E t \in Threads :
    \/ (\E x \in QueueItems : Push(t, x)) \/ PushSeq(t) \/ PushLoad(t) \/ PushCas(t)
    \/ PushWrite(t) \/ PushPublish(t)
    \/ Pop(t) \/ PopSeq(t) \/ PopLoad(t) \/ PopCas(t) \/ PopRead(t) \/ PopPublish(t)

QueueSpec == QueueInit /\ [][QueueNext]_mq_vars

-----------------------------------------------------------------------------
\* The item of position p: with the producer that has reserved p, in its cell, or
\* with the consumer.
ItemAt(p) ==
  LET writers == {t \in Threads : mq_pos[t] = p /\ mq_pc[t] = "pushWrite"}
  IN  IF writers # {} THEN mq_item[CHOOSE t \in writers : TRUE]
      ELSE IF mq_got[p] # NoItem THEN mq_got[p]
      ELSE mq_data[Cell(p)]

Queue == INSTANCE AbstractQueue WITH
           Items <- QueueItems, Capacity <- QueueCapacity,
           q <- [i \in 1 .. mq_head - mq_tail |-> ItemAt(mq_tail + i - 1)],
           out <- [i \in 1 .. mq_tail |-> ItemAt(i - 1)]

\* However pushes and pops interleave, items leave in the order in which their
\* producers moved head_, none is lost, duplicated or overwritten, and there are
\* never more than Capacity.
ImplementsQueue == Queue!Spec

InProgress(labels) == \E t \in Threads : mq_pc[t] \in labels

\* push and pop give up only when the queue is full or empty, or when a pop or a
\* push has moved tail_ or head_ and not yet released its cell.
RefusalJustified ==
  \A t \in Threads :
    /\ mq_pc[t] = "pushSeq" /\ mq_seq[Cell(mq_pos[t])] < mq_pos[t]
         => mq_head - mq_tail = QueueCapacity \/ InProgress({"popRead", "popPublish"})
    /\ mq_pc[t] = "popSeq" /\ mq_seq[Cell(mq_pos[t])] < mq_pos[t] + 1
         => mq_head = mq_tail \/ InProgress({"pushWrite", "pushPublish"})
=============================================================================
