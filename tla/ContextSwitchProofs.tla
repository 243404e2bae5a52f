------------------------ MODULE ContextSwitchProofs -------------------------
(***************************************************************************)
(* Proofs about Schedule, switch_to and the timer interrupt on one x86_64  *)
(* core whose task code disables interrupts before it calls Schedule, for  *)
(* any set of tasks: the setting of the run switch_masked.                 *)
(***************************************************************************)
EXTENDS ContextSwitch, SequenceTheorems, TLAPS

USE ZenonT(30)

\* The other settings break the properties: a second core finds boot_done set, the
\* other architectures enable interrupts or acknowledge the timer elsewhere, and open
\* callers let a handler in between the choice of a task and the switch.
MaskedX86 ==
  /\ Arch = "x86_64"
  /\ "open" \notin Callers
  /\ \A c, d \in Cores : c = d

Frames == [op : {"schedule", "irq", "entry"},
           at : {"pick", "boot", "mask", "switch", "enable", "enter", "ack", "handler", "leave"},
           prev : Stacks, next : Stacks]

\* A timer handler that has called Schedule, or is about to return.
Leave(x) == Frame("irq", "leave", x, x)

\* Calls on stack x: under the innermost one there are only timer handlers that have
\* called Schedule and were interrupted again when it had returned.
Calls(s, x) == s \in Seq(Frames) /\ \A i \in 1 .. Len(s) - 1 : s[i] = Leave(x)

\* Such handlers and nothing above them.
Handlers(s, x) == s \in Seq(Frames) /\ \A i \in 1 .. Len(s) : s[i] = Leave(x)

\* The task that is current while stack x executes: the boot code runs as the idle task.
Owner(c, x) == IF x = Boot(c) THEN Idle(c) ELSE x

\* A stack that is not executed: a thread that has not begun, or a Schedule whose
\* switch_to has left it.
Parked(x) ==
  /\ stack[x] # <<>>
  /\ \/ Top(x).op = "entry" /\ Top(x).at = "enter"
     \/ Top(x).op = "schedule" /\ Top(x).at = "enable"

\* The innermost call f on the executed stack x: how far it is says which task is
\* running_task, what its locals hold and whether the interrupt is acknowledged.
Doing(c, x, f) ==
  \/ /\ f.op = "entry" /\ f.at = "enter"
     /\ x # Boot(c) /\ running[c] = x /\ boot_done /\ ~in_service[c]
  \/ /\ f.op = "irq" /\ f.at \in {"ack", "handler", "leave"}
     /\ f.prev = x /\ f.next = x
     /\ x # Boot(c) /\ running[c] = x /\ boot_done
     /\ in_service[c] <=> f.at = "ack"
  \/ /\ f.op = "schedule" /\ ~in_service[c]
     /\ \/ /\ f.at = "pick" /\ running[c] = Owner(c, x)
           /\ boot_done <=> x # Boot(c)
        \/ /\ f.at = "boot" /\ f.prev = Owner(c, x) /\ f.next = running[c]
           /\ boot_done <=> x # Boot(c)
        \/ f.at \in {"mask", "switch"} /\ f.prev = x /\ f.next = running[c] /\ boot_done
        \/ f.at = "enable" /\ x # Boot(c) /\ running[c] = x /\ boot_done

\* The executed stack: thread code with interrupts enabled, boot code without, or a
\* call, in which they are masked unless it is a handler that Schedule returned to.
Live(c) ==
  LET x == exec[c]
  IN  \/ /\ stack[x] = <<>>
         /\ running[c] = Owner(c, x) /\ ~in_service[c]
         /\ boot_done <=> x # Boot(c)
         /\ intr[c] <=> x # Boot(c)
      \/ /\ stack[x] # <<>>
         /\ intr[c] => Top(x).op = "irq" /\ Top(x).at = "leave"
         /\ Doing(c, x, Top(x))

Types ==
  /\ home \in [Tasks -> Cores]
  /\ running \in [Cores -> AllTasks]
  /\ exec \in [Cores -> Stacks]
  /\ stack \in [Stacks -> Seq(Frames)]
  /\ boot_done \in BOOLEAN
  /\ intr \in [Cores -> BOOLEAN]
  /\ in_service \in [Cores -> BOOLEAN]

SwitchInv ==
  /\ Types
  /\ ctx = [t \in AllTasks |-> t]
  /\ \A x \in Stacks : Calls(stack[x], x)
  /\ \A c \in Cores : Live(c)
  /\ \A c \in Cores : \A x \in Stacks \ {exec[c]} : Parked(x)

-----------------------------------------------------------------------------
(* What a call, a return and a step of the innermost call do to a stack. *)

\* The call f above the calls s.
Called(s, f) == Append(s, f)

\* A call above handlers.
LEMMA PushCalls ==
  ASSUME NEW x, NEW s, Handlers(s, x), NEW f \in Frames
  PROVE  /\ Called(s, f) \in Seq(Frames) /\ Called(s, f) # <<>>
         /\ Called(s, f)[Len(Called(s, f))] = f
         /\ Calls(Called(s, f), x)
  BY SMTT(30) DEF Calls, Handlers, Called

\* The innermost call returns: to a handler, or to thread code.
LEMMA PopCalls ==
  ASSUME NEW x, NEW s, Calls(s, x), s # <<>>,
         NEW t, t = SubSeq(s, 1, Len(s) - 1)
  PROVE  /\ t \in Seq(Frames)
         /\ \A i \in 1 .. Len(t) : t[i] = Leave(x)
         /\ Calls(t, x)
         /\ t # <<>> => t[Len(t)] = Leave(x)
  <1>1. s \in Seq(Frames) /\ Len(s) \in Nat \ {0} /\ Len(s) - 1 \in 0 .. Len(s)
    BY SMTT(30) DEF Calls
  <1>2. t \in Seq(Frames) /\ Len(t) = Len(s) - 1 /\ \A i \in 1 .. Len(t) : t[i] = s[i]
    <2> DEFINE n == Len(s) - 1
    <2>1. n \in Int /\ 1 \in Int /\ \A i \in 1 .. n : s[i] \in Frames
      BY <1>1, SMTT(30)
    <2> HIDE DEF n
    <2>2. /\ SubSeq(s, 1, n) \in Seq(Frames)
          /\ Len(SubSeq(s, 1, n)) = IF 1 <= n THEN n - 1 + 1 ELSE 0
          /\ \A i \in 1 .. n - 1 + 1 : SubSeq(s, 1, n)[i] = s[1 + i - 1]
      BY <2>1, SubSeqProperties, SMTT(30)
    <2>3. t = SubSeq(s, 1, n)
      BY DEF n
    <2>4. /\ t \in Seq(Frames)
          /\ Len(t) = IF 1 <= n THEN n - 1 + 1 ELSE 0
          /\ \A i \in 1 .. n - 1 + 1 : t[i] = s[1 + i - 1]
      BY <2>2, <2>3, ZenonT(30)
    <2>5. n \in Nat /\ n = Len(s) - 1
      BY <1>1, SMTT(30) DEF n
    <2> HIDE <2>3
    <2> QED
      BY <2>4, <2>5, SMTT(30)
  <1>4. \A i \in 1 .. Len(t) : t[i] = Leave(x)
    BY <1>1, <1>2, SMTT(30) DEF Calls
  <1>5. t # <<>> => Len(t) \in 1 .. Len(t)
    BY <1>2, SMTT(30)
  <1> QED
    BY <1>2, <1>4, <1>5, SMTT(30) DEF Calls

\* The innermost call of s becomes f.
SetLast(s, f) == [s EXCEPT ![Len(s)] = f]

\* The innermost call makes a step.
LEMMA StepCalls ==
  ASSUME NEW x, NEW s, Calls(s, x), s # <<>>, NEW f \in Frames
  PROVE  /\ SetLast(s, f) \in Seq(Frames) /\ SetLast(s, f) # <<>>
         /\ SetLast(s, f)[Len(SetLast(s, f))] = f
         /\ Calls(SetLast(s, f), x)
  <1> DEFINE t == SetLast(s, f)
  <1>1. s \in Seq(Frames) /\ Len(s) \in 1 .. Len(s)
    BY SMTT(30) DEF Calls
  <1>2. t \in Seq(Frames) /\ Len(t) = Len(s)
        /\ \A i \in 1 .. Len(s) : t[i] = IF i = Len(s) THEN f ELSE s[i]
    BY <1>1, ExceptSeq, SMTT(30) DEF SetLast
  <1>3. ASSUME NEW r \in Seq(Frames), Len(r) = Len(s),
               \A i \in 1 .. Len(s) : r[i] = IF i = Len(s) THEN f ELSE s[i]
        PROVE  r # <<>> /\ r[Len(r)] = f /\ Calls(r, x)
    BY <1>1, <1>3, SMTT(30) DEF Calls
  <1> QED
    BY <1>2, <1>3, ZenonT(30)

-----------------------------------------------------------------------------
(* Every step keeps SwitchInv. *)

\* The idle thread and the boot code have stacks of their own.
LEMMA StackFacts ==
  ASSUME NEW c \in Cores
  PROVE  /\ Idle(c) \in AllTasks /\ Idle(c) \in Stacks /\ Boot(c) \in Stacks
         /\ Boot(c) \notin AllTasks
         /\ \A t \in Tasks : t \in AllTasks /\ t # Boot(c)
         /\ \A t \in AllTasks : t \in Stacks /\ t # Boot(c)
  <1>1. \A d \in Cores : Idle(d) # Boot(c)
    BY SMTT(30) DEF Idle, Boot
  <1>2. Boot(c) \notin Tasks
    BY ContextSwitchAssumption
  <1> QED
    BY <1>1, <1>2 DEF AllTasks, Stacks

\* The executed stack of core c, its innermost call and what is known of them.
LEMMA Executed ==
  ASSUME MaskedX86, SwitchInv, NEW c \in Cores
  PROVE  /\ exec[c] \in Stacks /\ stack[exec[c]] \in Seq(Frames)
         /\ Calls(stack[exec[c]], exec[c])
         /\ stack[exec[c]] # <<>> => Top(exec[c]) \in Frames
         /\ exec[c] # Boot(c) => exec[c] \in AllTasks
         /\ running[c] \in AllTasks
         /\ Owner(c, exec[c]) \in AllTasks
  <1>1. exec[c] \in Stacks /\ running[c] \in AllTasks /\ stack[exec[c]] \in Seq(Frames)
        /\ Calls(stack[exec[c]], exec[c])
    BY DEF SwitchInv, Types
  <1>2. ASSUME NEW s \in Seq(Frames), s # <<>> PROVE s[Len(s)] \in Frames
    BY <1>2, SMTT(30)
  <1>3. exec[c] # Boot(c) => exec[c] \in AllTasks
    <2>1. ASSUME NEW d \in Cores, exec[c] = Boot(d) PROVE d = c
      BY <2>1 DEF MaskedX86
    <2> QED
      BY <1>1, <2>1 DEF Stacks
  <1> QED
    BY <1>1, <1>2, <1>3, StackFacts DEF Owner, Top

\* A step that only works on the executed stack keeps the invariant if it leaves the
\* core in a good state: the other stacks stay parked.
LEMMA Keep ==
  ASSUME MaskedX86, SwitchInv, NEW c \in Cores, NEW t \in Seq(Frames), Calls(t, exec[c]),
         stack' = [stack EXCEPT ![exec[c]] = t],
         UNCHANGED <<home, exec, ctx>>,
         running' \in [Cores -> AllTasks], boot_done' \in BOOLEAN,
         intr' \in [Cores -> BOOLEAN], in_service' \in [Cores -> BOOLEAN],
         Live(c)'
  PROVE  SwitchInv'
  <1>1. exec[c] \in Stacks /\ exec' = exec /\ ctx' = ctx /\ home' = home /\ \A d \in Cores : d = c
    BY Executed DEF MaskedX86
  <1>2. /\ stack' \in [Stacks -> Seq(Frames)]
        /\ stack'[exec[c]] = t
        /\ \A x \in Stacks \ {exec[c]} : stack'[x] = stack[x]
    BY <1>1, SMTT(30) DEF SwitchInv, Types
  <1>3. Types'
    BY <1>1, <1>2 DEF SwitchInv, Types
  <1>4. \A x \in Stacks : Calls(stack'[x], x)
    BY <1>2 DEF SwitchInv
  <1>5. \A x \in Stacks \ {exec[c]} : Parked(x)'
    BY <1>1, <1>2, SMTT(60) DEF SwitchInv, Parked, Top
  <1> QED
    BY <1>1, <1>3, <1>4, <1>5 DEF SwitchInv, Calls

\* The executed stack becomes t, with innermost call g.
LEMMA CallStep ==
  ASSUME MaskedX86, SwitchInv, NEW c \in Cores,
         NEW t, t \in Seq(Frames), t # <<>>, Calls(t, exec[c]),
         NEW g, t[Len(t)] = g,
         stack' = [stack EXCEPT ![exec[c]] = t], UNCHANGED <<home, exec, ctx>>,
         running' \in [Cores -> AllTasks], boot_done' \in BOOLEAN,
         intr' \in [Cores -> BOOLEAN], in_service' \in [Cores -> BOOLEAN],
         intr'[c] => g.op = "irq" /\ g.at = "leave",
         Doing(c, exec[c], g)'
  PROVE  SwitchInv'
  <1> DEFINE x == exec[c]
  <1>1. x \in Stacks /\ exec' = exec
    BY Executed
  <1>2. stack'[x] = t
    BY <1>1 DEF SwitchInv, Types
  <1>3. (stack[exec[c]] # <<>>)' /\ Top(exec[c])' = g
    BY <1>1, <1>2 DEF Top
  <1>4. Doing(c, exec[c], Top(exec[c]))'
    BY <1>3 DEF Doing
  <1>5. Live(c)'
    BY <1>3, <1>4 DEF Live
  <1> QED
    BY <1>5, Keep

\* A step of the innermost call, to g.
LEMMA SetTopStep ==
  ASSUME MaskedX86, SwitchInv, NEW c \in Cores, stack[exec[c]] # <<>>,
         NEW g \in Frames, SetTop(exec[c], g), UNCHANGED <<home, exec, ctx>>,
         running' \in [Cores -> AllTasks], boot_done' \in BOOLEAN,
         intr' \in [Cores -> BOOLEAN], in_service' \in [Cores -> BOOLEAN],
         intr'[c] => g.op = "irq" /\ g.at = "leave",
         Doing(c, exec[c], g)'
  PROVE  SwitchInv'
  <1> DEFINE x == exec[c]
  <1>1. PICK t : t = SetLast(stack[x], g)
    OBVIOUS
  <1>2. t \in Seq(Frames) /\ t # <<>> /\ t[Len(t)] = g /\ Calls(t, x)
    <2>1. g \in Frames /\ stack[x] # <<>> /\ Calls(stack[x], x)
      BY Executed
    <2> HIDE DEF x
    <2> QED
      BY <1>1, <2>1, StepCalls
  <1>3. stack' = [stack EXCEPT ![x] = t]
    BY <1>1 DEF SetTop, SetLast
  <1> QED
    BY <1>2, <1>3, CallStep

\* A call above handlers or thread code.
LEMMA PushStep ==
  ASSUME MaskedX86, SwitchInv, NEW c \in Cores, Handlers(stack[exec[c]], exec[c]),
         NEW g \in Frames, Push(exec[c], g), UNCHANGED <<home, exec, ctx>>,
         running' \in [Cores -> AllTasks], boot_done' \in BOOLEAN,
         intr' \in [Cores -> BOOLEAN], in_service' \in [Cores -> BOOLEAN],
         ~intr'[c],
         Doing(c, exec[c], g)'
  PROVE  SwitchInv'
  <1> DEFINE x == exec[c]
  <1>1. PICK t : t = Called(stack[x], g)
    OBVIOUS
  <1>2. t \in Seq(Frames) /\ t # <<>> /\ t[Len(t)] = g /\ Calls(t, x)
    <2>1. g \in Frames /\ Handlers(stack[x], x)
      OBVIOUS
    <2> HIDE DEF x
    <2> QED
      BY ONLY <1>1, <2>1, PushCalls, ZenonT(30)
  <1>3. stack' = [stack EXCEPT ![x] = t]
    BY <1>1 DEF Push, Called
  <1> QED
    BY <1>2, <1>3, CallStep

\* A return with interrupts enabled, to thread code or to the handler that called.
LEMMA PopStep ==
  ASSUME MaskedX86, SwitchInv, NEW c \in Cores, stack[exec[c]] # <<>>,
         Pop(exec[c]), UNCHANGED <<home, running, exec, ctx, boot_done>>,
         intr' = [intr EXCEPT ![c] = TRUE], in_service' = in_service,
         exec[c] # Boot(c), running[c] = exec[c], boot_done, ~in_service[c]
  PROVE  SwitchInv'
  <1> DEFINE x == exec[c]
             t == SubSeq(stack[x], 1, Len(stack[x]) - 1)
  <1>1. x \in Stacks /\ Calls(stack[x], x) /\ exec' = exec
    BY Executed
  <1>2. t \in Seq(Frames) /\ Calls(t, x) /\ (t # <<>> => t[Len(t)] = Leave(x))
    BY <1>1, PopCalls
  <1>3. stack' = [stack EXCEPT ![x] = t]
    BY DEF Pop
  <1> HIDE DEF t
  <1>4. stack'[x] = t /\ intr' \in [Cores -> BOOLEAN] /\ intr'[c]
    BY <1>1, <1>3, SMTT(30) DEF SwitchInv, Types
  <1>5. Leave(x).op = "irq" /\ Leave(x).at = "leave" /\ Leave(x).prev = x /\ Leave(x).next = x
    BY DEF Leave, Frame
  <1>6. Live(c)'
    <2>1. CASE t = <<>>
      BY <1>1, <1>4, <2>1 DEF Live, Owner
    <2>2. CASE t # <<>>
      <3>1. Top(x)' = Leave(x)
        BY <1>2, <1>4, <2>2 DEF Top
      <3>2. Doing(c, x, Leave(x))'
        BY <1>1, <1>5, SMTT(30) DEF Doing
      <3> QED
        BY <1>1, <1>4, <1>5, <2>2, <3>1, <3>2, SMTT(30) DEF Live
    <2> QED
      BY <2>1, <2>2
  <1> QED
    BY <1>2, <1>3, <1>4, <1>6, Keep DEF SwitchInv, Types

\* Where the innermost call of core c is.
LEMMA AtFacts ==
  ASSUME MaskedX86, SwitchInv, NEW c \in Cores, NEW op, NEW at, At(c, op, at)
  PROVE  /\ stack[exec[c]] # <<>>
         /\ Top(exec[c]) \in Frames /\ Top(exec[c]).op = op /\ Top(exec[c]).at = at
         /\ Top(exec[c]).prev \in Stacks /\ Top(exec[c]).next \in Stacks
         /\ Doing(c, exec[c], Top(exec[c]))
         /\ intr[c] => op = "irq" /\ at = "leave"
         /\ running \in [Cores -> AllTasks] /\ boot_done \in BOOLEAN
         /\ intr \in [Cores -> BOOLEAN] /\ in_service \in [Cores -> BOOLEAN]
  <1>1. stack[exec[c]] # <<>> /\ Top(exec[c]).op = op /\ Top(exec[c]).at = at
    BY DEF At
  <1>2. Top(exec[c]) \in Frames
    BY <1>1, Executed
  <1>3. ASSUME NEW f \in Frames PROVE f.prev \in Stacks /\ f.next \in Stacks
    BY <1>3, SMTT(30) DEF Frames
  <1>4. Live(c) /\ Types
    BY DEF SwitchInv
  <1> QED
    BY <1>1, <1>2, <1>3, <1>4 DEF Live, Types

\* A call of Schedule from thread code, or from the boot code.
LEMMA CallScheduleKeeps ==
  ASSUME MaskedX86, SwitchInv, NEW c \in Cores, NEW how, CallSchedule(c, how)
  PROVE  SwitchInv'
  <1> DEFINE x == exec[c]
  <1>1. /\ stack[x] = <<>> /\ Push(x, ScheduleFrame(x))
        /\ UNCHANGED <<home, running, exec, ctx, boot_done, in_service>>
    BY DEF CallSchedule
  <1>2. x \in Stacks /\ Live(c) /\ running \in [Cores -> AllTasks] /\ boot_done \in BOOLEAN
        /\ intr \in [Cores -> BOOLEAN] /\ in_service \in [Cores -> BOOLEAN]
    BY Executed DEF SwitchInv, Types
  <1>3. ScheduleFrame(x) \in Frames /\ ScheduleFrame(x).op = "schedule" /\ ScheduleFrame(x).at = "pick"
    BY <1>2, SMTT(30) DEF ScheduleFrame, Frame, Frames
  <1>4. Handlers(stack[x], x)
    BY <1>1, SMTT(30) DEF Handlers
  <1>5. intr' \in [Cores -> BOOLEAN] /\ ~intr'[c]
    <2>1. CASE x = Boot(c)
      <3>1. ~intr[c] /\ (intr' = intr \/ intr' = [intr EXCEPT ![c] = FALSE])
        BY <1>1, <1>2, <2>1 DEF Live, CallSchedule
      <3> QED
        BY <1>2, <3>1
    <2>2. CASE x # Boot(c)
      <3>1. how \in Callers
        BY <2>2 DEF CallSchedule
      <3>2. how = "masked"
        BY <3>1, ContextSwitchAssumption DEF MaskedX86
      <3>3. intr' = [intr EXCEPT ![c] = FALSE]
        BY <3>2 DEF CallSchedule
      <3> QED
        BY <1>2, <3>3
    <2> QED
      BY <2>1, <2>2
  <1>6. running[c] = Owner(c, x) /\ ~in_service[c] /\ (boot_done <=> x # Boot(c))
    BY <1>1, <1>2 DEF Live
  <1>7. Doing(c, x, ScheduleFrame(x))'
    BY <1>1, <1>3, <1>6, SMTT(30) DEF Doing, Owner
  <1> QED
    BY <1>1, <1>2, <1>3, <1>4, <1>5, <1>7, PushStep

\* The choice of the next task.
LEMMA PickKeeps ==
  ASSUME MaskedX86, SwitchInv, NEW c \in Cores, Pick(c)
  PROVE  SwitchInv'
  <1> DEFINE x == exec[c]
  <1>1. PICK next \in {t \in Tasks : home[t] = c} \union {Idle(c)} :
          /\ running' = [running EXCEPT ![c] = next]
          /\ SetTop(x, Frame("schedule", "boot", running[c], next))
    BY DEF Pick
  <1>2. At(c, "schedule", "pick") /\ UNCHANGED <<home, exec, ctx, boot_done, intr, in_service>>
    BY DEF Pick
  <1>3. Top(x).op = "schedule" /\ Top(x).at = "pick" /\ Doing(c, x, Top(x)) /\ stack[x] # <<>>
        /\ ~intr[c] /\ running \in [Cores -> AllTasks] /\ boot_done \in BOOLEAN
        /\ intr \in [Cores -> BOOLEAN] /\ in_service \in [Cores -> BOOLEAN]
    BY <1>2, AtFacts
  <1>4. next \in AllTasks /\ next \in Stacks
    BY <1>1, StackFacts
  <1>5. running[c] \in AllTasks /\ running[c] \in Stacks
    BY <1>3, StackFacts
  <1>6. running' \in [Cores -> AllTasks] /\ running'[c] = next
    BY <1>1, <1>3, <1>4, SMTT(30)
  <1>7. PICK g : g = Frame("schedule", "boot", running[c], next)
    OBVIOUS
  <1>8. g \in Frames /\ g.op = "schedule" /\ g.at = "boot" /\ g.prev = running[c] /\ g.next = next
    BY <1>4, <1>5, <1>7, SMTT(30) DEF Frames, Frame
  <1>9. running[c] = Owner(c, x) /\ ~in_service[c] /\ (boot_done <=> x # Boot(c))
    BY <1>3, SMTT(30) DEF Doing
  <1>10. Doing(c, x, g)'
    BY <1>2, <1>6, <1>8, <1>9, SMTT(30) DEF Doing, Owner
  <1>11. SetTop(x, g)
    BY <1>1, <1>7
  <1> QED
    BY <1>2, <1>3, <1>6, <1>8, <1>10, <1>11, SetTopStep

\* The test of boot_done.
LEMMA BootCheckKeeps ==
  ASSUME MaskedX86, SwitchInv, NEW c \in Cores, BootCheck(c)
  PROVE  SwitchInv'
  <1> DEFINE x == exec[c]
             f == Top(x)
             prev == IF boot_done THEN f.prev ELSE Boot(c)
  <1>1. PICK g : g = Frame("schedule", "mask", prev, f.next)
    OBVIOUS
  <1>2. /\ At(c, "schedule", "boot") /\ boot_done' = TRUE /\ SetTop(x, g)
        /\ UNCHANGED <<home, running, exec, ctx, intr, in_service>>
    BY <1>1 DEF BootCheck
  <1>3. f.op = "schedule" /\ f.at = "boot" /\ Doing(c, x, f) /\ stack[x] # <<>>
        /\ f.prev \in Stacks /\ f.next \in Stacks
        /\ ~intr[c] /\ running \in [Cores -> AllTasks] /\ boot_done \in BOOLEAN
        /\ intr \in [Cores -> BOOLEAN] /\ in_service \in [Cores -> BOOLEAN]
    BY <1>2, AtFacts
  <1>4. f.next = running[c] /\ f.prev = Owner(c, x) /\ ~in_service[c] /\ (boot_done <=> x # Boot(c))
    BY <1>3, SMTT(30) DEF Doing
  <1> HIDE DEF f
  <1>5. prev = x /\ x \in Stacks
    BY <1>4, Executed DEF Owner
  <1> HIDE DEF prev
  <1>6. g \in Frames /\ g.op = "schedule" /\ g.at = "mask" /\ g.prev = x /\ g.next = running[c]
    BY <1>1, <1>3, <1>4, <1>5, SMTT(30) DEF Frames, Frame
  <1>7. Doing(c, x, g)'
    BY <1>2, <1>4, <1>6, SMTT(30) DEF Doing
  <1> QED
    BY <1>2, <1>3, <1>6, <1>7, SetTopStep

\* DisableInterrupt before the switch.
LEMMA MaskKeeps ==
  ASSUME MaskedX86, SwitchInv, NEW c \in Cores, Mask(c)
  PROVE  SwitchInv'
  <1> DEFINE x == exec[c]
             f == Top(x)
  <1>1. PICK g : g = [f EXCEPT !.at = "switch"]
    OBVIOUS
  <1>2. /\ At(c, "schedule", "mask") /\ SetTop(x, g) /\ intr' = [intr EXCEPT ![c] = FALSE]
        /\ UNCHANGED <<home, running, exec, ctx, boot_done, in_service>>
    BY <1>1 DEF Mask, Step
  <1>3. f \in Frames /\ f.op = "schedule" /\ f.at = "mask" /\ Doing(c, x, f) /\ stack[x] # <<>>
        /\ running \in [Cores -> AllTasks] /\ boot_done \in BOOLEAN
        /\ intr \in [Cores -> BOOLEAN] /\ in_service \in [Cores -> BOOLEAN]
    BY <1>2, AtFacts
  <1>4. f.next = running[c] /\ f.prev = x /\ ~in_service[c] /\ boot_done
    BY <1>3, SMTT(30) DEF Doing
  <1> HIDE DEF f
  <1>5. g \in Frames /\ g.op = "schedule" /\ g.at = "switch" /\ g.prev = f.prev /\ g.next = f.next
    BY <1>1, <1>3, SMTT(30) DEF Frames
  <1>6. Doing(c, x, g)'
    BY <1>2, <1>4, <1>5, SMTT(30) DEF Doing
  <1>7. intr' \in [Cores -> BOOLEAN] /\ ~intr'[c]
    BY <1>2, <1>3
  <1> QED
    BY <1>2, <1>3, <1>5, <1>6, <1>7, SetTopStep

\* EnableInterrupt and the return from Schedule.
LEMMA EnableKeeps ==
  ASSUME MaskedX86, SwitchInv, NEW c \in Cores, Enable(c)
  PROVE  SwitchInv'
  <1> DEFINE x == exec[c]
  <1>1. /\ At(c, "schedule", "enable") /\ Pop(x) /\ intr' = [intr EXCEPT ![c] = TRUE]
        /\ UNCHANGED <<home, running, exec, ctx, boot_done, in_service>>
    BY DEF Enable
  <1>2. Top(x).op = "schedule" /\ Top(x).at = "enable" /\ Doing(c, x, Top(x)) /\ stack[x] # <<>>
    BY <1>1, AtFacts
  <1>3. x # Boot(c) /\ running[c] = x /\ boot_done /\ ~in_service[c]
    BY <1>2, SMTT(30) DEF Doing
  <1> QED
    BY <1>1, <1>2, <1>3, PopStep

\* kernel_thread_entry.
LEMMA ThreadEntryKeeps ==
  ASSUME MaskedX86, SwitchInv, NEW c \in Cores, ThreadEntry(c)
  PROVE  SwitchInv'
  <1> DEFINE x == exec[c]
  <1>1. /\ At(c, "entry", "enter") /\ Pop(x) /\ intr' = [intr EXCEPT ![c] = TRUE]
        /\ UNCHANGED <<home, running, exec, ctx, boot_done, in_service>>
    BY DEF ThreadEntry, MaskedX86
  <1>2. Top(x).op = "entry" /\ Top(x).at = "enter" /\ Doing(c, x, Top(x)) /\ stack[x] # <<>>
    BY <1>1, AtFacts
  <1>3. x # Boot(c) /\ running[c] = x /\ boot_done /\ ~in_service[c]
    BY <1>2, SMTT(30) DEF Doing
  <1> QED
    BY <1>1, <1>2, <1>3, PopStep

\* The timer handler returns.
LEMMA IrqLeaveKeeps ==
  ASSUME MaskedX86, SwitchInv, NEW c \in Cores, IrqLeave(c)
  PROVE  SwitchInv'
  <1> DEFINE x == exec[c]
  <1>1. /\ At(c, "irq", "leave") /\ Pop(x) /\ intr' = [intr EXCEPT ![c] = TRUE]
        /\ UNCHANGED <<home, running, exec, ctx, boot_done, in_service>>
    BY DEF IrqLeave, MaskedX86
  <1>2. Top(x).op = "irq" /\ Top(x).at = "leave" /\ Doing(c, x, Top(x)) /\ stack[x] # <<>>
    BY <1>1, AtFacts
  <1>3. x # Boot(c) /\ running[c] = x /\ boot_done /\ ~in_service[c]
    BY <1>2, SMTT(30) DEF Doing
  <1> QED
    BY <1>1, <1>2, <1>3, PopStep

\* The timer interrupt, above thread code or above a handler that is about to return.
LEMMA IrqKeeps ==
  ASSUME MaskedX86, SwitchInv, NEW c \in Cores, Irq(c)
  PROVE  SwitchInv'
  <1> DEFINE x == exec[c]
  <1>1. PICK g : g = Frame("irq", "ack", x, x)
    OBVIOUS
  <1>2. /\ intr[c] /\ Push(x, g) /\ intr' = [intr EXCEPT ![c] = FALSE]
        /\ in_service' = [in_service EXCEPT ![c] = TRUE]
        /\ UNCHANGED <<home, running, exec, ctx, boot_done>>
    BY <1>1 DEF Irq
  <1>3. x \in Stacks /\ Live(c) /\ running \in [Cores -> AllTasks] /\ boot_done \in BOOLEAN
        /\ intr \in [Cores -> BOOLEAN] /\ in_service \in [Cores -> BOOLEAN]
        /\ Calls(stack[x], x)
    BY Executed DEF SwitchInv, Types
  <1>4. g \in Frames /\ g.op = "irq" /\ g.at = "ack" /\ g.prev = x /\ g.next = x
    BY <1>1, <1>3, SMTT(30) DEF Frame, Frames
  <1>5. intr' \in [Cores -> BOOLEAN] /\ ~intr'[c]
        /\ in_service' \in [Cores -> BOOLEAN] /\ in_service'[c]
    BY <1>2, <1>3
  <1>6. CASE stack[x] = <<>>
    <2>1. Handlers(stack[x], x)
      BY <1>6, SMTT(30) DEF Handlers
    <2>2. running[c] = x /\ x # Boot(c) /\ boot_done
      BY <1>2, <1>3, <1>6 DEF Live, Owner
    <2>3. Doing(c, x, g)'
      BY <1>2, <1>4, <1>5, <2>2 DEF Doing
    <2> QED
      BY <1>2, <1>3, <1>4, <1>5, <2>1, <2>3, PushStep
  <1>7. CASE stack[x] # <<>>
    <2>1. Top(x) \in Frames /\ Top(x).op = "irq" /\ Top(x).at = "leave" /\ Doing(c, x, Top(x))
      BY <1>2, <1>3, <1>7, Executed DEF Live
    <2>2. running[c] = x /\ x # Boot(c) /\ boot_done /\ Top(x).prev = x /\ Top(x).next = x
      BY <2>1, SMTT(30) DEF Doing
    <2>3. ASSUME NEW f \in Frames, f.op = "irq", f.at = "leave", f.prev = x, f.next = x
          PROVE  f = Leave(x)
      BY <2>3, SMTT(30) DEF Frames, Frame, Leave
    <2>4. Top(x) = Leave(x)
      BY <2>1, <2>2, <2>3
    <2>5. ASSUME NEW s, Calls(s, x), s[Len(s)] = Leave(x) PROVE Handlers(s, x)
      BY <2>5, SMTT(30) DEF Calls, Handlers
    <2>6. Handlers(stack[x], x)
      BY <1>3, <2>4, <2>5 DEF Top
    <2>7. Doing(c, x, g)'
      BY <1>2, <1>4, <1>5, <2>2 DEF Doing
    <2> QED
      BY <1>2, <1>3, <1>4, <1>5, <2>6, <2>7, PushStep
  <1> QED
    BY <1>6, <1>7

\* The EOI.
LEMMA IrqAckKeeps ==
  ASSUME MaskedX86, SwitchInv, NEW c \in Cores, IrqAck(c)
  PROVE  SwitchInv'
  <1> DEFINE x == exec[c]
             f == Top(x)
  <1>1. PICK g : g = [f EXCEPT !.at = "handler"]
    OBVIOUS
  <1>2. /\ At(c, "irq", "ack") /\ SetTop(x, g) /\ in_service' = [in_service EXCEPT ![c] = FALSE]
        /\ UNCHANGED <<home, running, exec, ctx, boot_done, intr>>
    <2>1. (Arch = "aarch64") = FALSE
      BY DEF MaskedX86
    <2> QED
      BY <1>1, <2>1 DEF IrqAck, Step
  <1>3. f \in Frames /\ f.op = "irq" /\ f.at = "ack" /\ Doing(c, x, f) /\ stack[x] # <<>>
        /\ running \in [Cores -> AllTasks] /\ boot_done \in BOOLEAN
        /\ intr \in [Cores -> BOOLEAN] /\ in_service \in [Cores -> BOOLEAN]
        /\ (intr[c] => "ack" = "leave")
    BY <1>2, AtFacts
  <1>4. f.next = x /\ f.prev = x /\ x # Boot(c) /\ running[c] = x /\ boot_done
    BY <1>3, SMTT(30) DEF Doing
  <1> HIDE DEF f
  <1>5. g \in Frames /\ g.op = "irq" /\ g.at = "handler" /\ g.prev = x /\ g.next = x
    BY <1>1, <1>3, <1>4, SMTT(30) DEF Frames
  <1>6. in_service' \in [Cores -> BOOLEAN] /\ ~in_service'[c]
    BY <1>2, <1>3
  <1>7. Doing(c, x, g)'
    BY <1>2, <1>4, <1>5, <1>6, SMTT(30) DEF Doing
  <1> QED
    BY <1>2, <1>3, <1>5, <1>6, <1>7, SetTopStep

\* The handler on top of s calls Schedule.
Preempted(s, x, f) == s \o <<Leave(x), f>>

\* What a stack of handlers becomes then.
LEMMA HandlerCalls ==
  ASSUME NEW x \in Stacks, NEW s, Handlers(s, x), NEW f \in Frames,
         NEW t, t = Preempted(s, x, f)
  PROVE  t \in Seq(Frames) /\ t # <<>> /\ t[Len(t)] = f /\ Calls(t, x)
  <1>1. s \in Seq(Frames) /\ Len(s) \in Nat /\ \A i \in 1 .. Len(s) : s[i] = Leave(x)
    BY SMTT(30) DEF Handlers
  <1>2. Leave(x) \in Frames
    BY SMTT(30) DEF Leave, Frame, Frames
  <1>3. PICK r : r = <<Leave(x), f>>
    OBVIOUS
  <1>4. r \in Seq(Frames) /\ Len(r) = 2 /\ r[1] = Leave(x) /\ r[2] = f
    BY <1>2, <1>3, SMTT(30)
  <1>5. t = s \o r
    BY <1>3 DEF Preempted
  <1>6. /\ t \in Seq(Frames)
        /\ Len(t) = Len(s) + Len(r)
        /\ \A i \in 1 .. Len(s) + Len(r) : t[i] = IF i <= Len(s) THEN s[i] ELSE r[i - Len(s)]
    <2>1. s \in Seq(Frames) /\ r \in Seq(Frames)
      BY <1>1, <1>4
    <2> QED
      BY ONLY <2>1, <1>5, ConcatProperties, ZenonT(30)
  <1>7. ASSUME NEW q \in Seq(Frames), Len(q) = Len(s) + 2,
               \A i \in 1 .. Len(s) + 2 : q[i] = IF i <= Len(s) THEN s[i] ELSE r[i - Len(s)]
        PROVE  q # <<>> /\ q[Len(q)] = f /\ \A i \in 1 .. Len(q) - 1 : q[i] = Leave(x)
    BY ONLY <1>1, <1>4, <1>7, SMTT(30)
  <1> QED
    BY <1>4, <1>6, <1>7 DEF Calls

\* TickUpdate, with or without a Schedule.
LEMMA IrqHandlerKeeps ==
  ASSUME MaskedX86, SwitchInv, NEW c \in Cores, IrqHandler(c)
  PROVE  SwitchInv'
  <1> DEFINE x == exec[c]
             f == Top(x)
  <1>1. PICK below, left, sch :
          below = SubSeq(stack[x], 1, Len(stack[x]) - 1) /\ left = [f EXCEPT !.at = "leave"]
          /\ sch = ScheduleFrame(x)
    OBVIOUS
  <1>2. /\ At(c, "irq", "handler")
        /\ \/ stack' = [stack EXCEPT ![x] = Append(below, left)]
           \/ stack' = [stack EXCEPT ![x] = below \o <<left, sch>>]
        /\ UNCHANGED <<home, running, exec, ctx, boot_done, intr, in_service>>
    BY <1>1 DEF IrqHandler
  <1>3. f \in Frames /\ f.op = "irq" /\ f.at = "handler" /\ Doing(c, x, f) /\ stack[x] # <<>>
        /\ running \in [Cores -> AllTasks] /\ boot_done \in BOOLEAN
        /\ intr \in [Cores -> BOOLEAN] /\ in_service \in [Cores -> BOOLEAN]
        /\ (intr[c] => "handler" = "leave")
    BY <1>2, AtFacts
  <1>4. f.next = x /\ f.prev = x /\ x # Boot(c) /\ running[c] = x /\ boot_done /\ ~in_service[c]
    BY <1>3, SMTT(30) DEF Doing
  <1> HIDE DEF f
  <1>5. x \in Stacks /\ Calls(stack[x], x) /\ Owner(c, x) = x
    BY <1>4, Executed DEF Owner
  <1>6. left = Leave(x) /\ left \in Frames
        /\ left.op = "irq" /\ left.at = "leave" /\ left.prev = x /\ left.next = x
    BY <1>1, <1>3, <1>4, <1>5, SMTT(30) DEF Frames, Frame, Leave
  <1>7. sch \in Frames /\ sch.op = "schedule" /\ sch.at = "pick"
    BY <1>1, <1>5, SMTT(30) DEF Frames, Frame, ScheduleFrame
  <1>8. Handlers(below, x)
    <2>1. below = SubSeq(stack[x], 1, Len(stack[x]) - 1) /\ Calls(stack[x], x) /\ stack[x] # <<>>
      BY <1>1, <1>3, <1>5
    <2> HIDE DEF x
    <2> QED
      BY ONLY <2>1, PopCalls, SMTT(60) DEF Handlers
  <1>9. CASE stack' = [stack EXCEPT ![x] = Append(below, left)]
    <2>1. PICK t : t = Called(below, left)
      OBVIOUS
    <2>2. t \in Seq(Frames) /\ t # <<>> /\ t[Len(t)] = left /\ Calls(t, x)
      <3> HIDE DEF x
      <3> QED
        BY ONLY <1>6, <1>8, <2>1, PushCalls, ZenonT(30)
    <2>3. Doing(c, x, left)'
      BY <1>2, <1>4, <1>6 DEF Doing
    <2>4. stack' = [stack EXCEPT ![x] = t]
      BY <1>9, <2>1 DEF Called
    <2> QED
      BY <1>2, <1>3, <1>6, <2>2, <2>3, <2>4, CallStep
  <1>10. CASE stack' = [stack EXCEPT ![x] = below \o <<left, sch>>]
    <2>1. PICK t : t = below \o <<left, sch>>
      OBVIOUS
    <2>2. t \in Seq(Frames) /\ t # <<>> /\ t[Len(t)] = sch /\ Calls(t, x)
      <3> HIDE DEF x
      <3>1. x \in Stacks /\ Handlers(below, x) /\ sch \in Frames /\ t = Preempted(below, x, sch)
        BY <1>5, <1>6, <1>7, <1>8, <2>1 DEF Preempted
      <3> QED
        BY <3>1, HandlerCalls, SMTT(30)
    <2>3. Doing(c, x, sch)'
      BY <1>2, <1>4, <1>5, <1>7 DEF Doing, Owner
    <2>4. stack' = [stack EXCEPT ![x] = t]
      BY <1>10, <2>1
    <2> QED
      BY <1>2, <1>3, <1>7, <2>2, <2>3, <2>4, CallStep
  <1> QED
    BY <1>2, <1>9, <1>10

\* switch_to: the core leaves its stack in Schedule and goes on where running_task was
\* left.  This is where the other stacks have to be parked.
LEMMA SwitchKeeps ==
  ASSUME MaskedX86, SwitchInv, NEW c \in Cores, Switch(c)
  PROVE  SwitchInv'
  <1> DEFINE x == exec[c]
             f == Top(x)
             y == running[c]
  <1>1. PICK g, t : g = [f EXCEPT !.at = "enable"] /\ t = SetLast(stack[x], g)
    OBVIOUS
  <1>2. /\ At(c, "schedule", "switch") /\ SetTop(x, g)
        /\ UNCHANGED <<home, running, boot_done, intr, in_service>>
    BY <1>1 DEF Switch, Step
  <1>3. f \in Frames /\ f.op = "schedule" /\ f.at = "switch" /\ Doing(c, x, f) /\ stack[x] # <<>>
        /\ running \in [Cores -> AllTasks] /\ boot_done \in BOOLEAN
        /\ intr \in [Cores -> BOOLEAN] /\ in_service \in [Cores -> BOOLEAN]
        /\ (intr[c] => "schedule" = "irq")
    BY <1>2, AtFacts
  <1>4. f.next = y /\ f.prev = x /\ boot_done /\ ~in_service[c]
    BY <1>3, SMTT(30) DEF Doing
  <1>5. x \in Stacks /\ y \in AllTasks /\ y # Boot(c) /\ y \in Stacks
    BY Executed, StackFacts
  <1>6. IF x = y THEN UNCHANGED <<ctx, exec>>
        ELSE /\ ctx' = IF x \in AllTasks THEN [ctx EXCEPT ![x] = x] ELSE ctx
             /\ exec' = [exec EXCEPT ![c] = ctx[y]]
    BY <1>4 DEF Switch
  <1> HIDE DEF f
  <1>7. g \in Frames /\ g.op = "schedule" /\ g.at = "enable"
    BY <1>1, <1>3, SMTT(30) DEF Frames
  <1>8. CASE x = y
    <2>1. Doing(c, x, g)'
      BY <1>2, <1>4, <1>5, <1>6, <1>7, <1>8 DEF Doing
    <2> QED
      BY <1>2, <1>3, <1>6, <1>7, <1>8, <2>1, SetTopStep
  <1>9. CASE x # y
    <2>1. ctx' = ctx /\ ctx[y] = y
      BY <1>5, <1>6, <1>9 DEF SwitchInv
    <2>2. exec' = [exec EXCEPT ![c] = y]
      BY <1>6, <1>9, <2>1
    <2>3. t \in Seq(Frames) /\ t # <<>> /\ t[Len(t)] = g /\ Calls(t, x)
      <3>1. Calls(stack[x], x) /\ stack[x] # <<>> /\ g \in Frames /\ t = SetLast(stack[x], g)
        BY <1>1, <1>3, <1>7, Executed
      <3> HIDE DEF x
      <3> QED
        BY ONLY <3>1, StepCalls, ZenonT(30)
    <2>4. stack' = [stack EXCEPT ![x] = t]
      BY <1>1, <1>2 DEF SetTop, SetLast
    <2>5. exec \in [Cores -> Stacks] /\ stack \in [Stacks -> Seq(Frames)] /\ home \in [Tasks -> Cores]
      BY DEF SwitchInv, Types
    <2>6. exec' \in [Cores -> Stacks] /\ exec'[c] = y
      BY <1>5, <2>2, <2>5
    <2>7. /\ stack' \in [Stacks -> Seq(Frames)] /\ stack'[x] = t
          /\ \A z \in Stacks \ {x} : stack'[z] = stack[z]
      BY <1>5, <2>3, <2>4, <2>5, SMTT(30)
    <2>8. Types'
      BY <1>2, <1>3, <2>5, <2>6, <2>7 DEF Types
    <2>9. \A z \in Stacks : Calls(stack'[z], z)
      BY <2>3, <2>7 DEF SwitchInv
    <2>10. \A z \in Stacks \ {y} : Parked(z)'
      <3>1. ASSUME NEW z \in Stacks, z = x PROVE Parked(z)'
        BY <1>7, <2>3, <2>7, <3>1 DEF Parked, Top
      <3>2. ASSUME NEW z \in Stacks, z # x, z # y PROVE Parked(z)'
        BY <2>7, <3>2 DEF SwitchInv, Parked, Top
      <3> QED
        BY <3>1, <3>2
    <2>11. Live(c)'
      <3>1. Parked(y) /\ stack'[y] = stack[y]
        BY <1>5, <1>9, <2>7 DEF SwitchInv
      <3>2. (stack[exec[c]] # <<>>)' /\ Top(exec[c])' = Top(y)
        BY <2>6, <3>1 DEF Parked, Top
      <3>3. PICK h : h = Top(y)
        OBVIOUS
      <3>4. \/ h.op = "entry" /\ h.at = "enter"
            \/ h.op = "schedule" /\ h.at = "enable"
        <4> HIDE DEF y
        <4> QED
          BY ONLY <3>1, <3>3, ZenonT(30) DEF Parked
      <3>5. (running[c] = exec[c] /\ exec[c] # Boot(c) /\ boot_done /\ ~in_service[c] /\ ~intr[c])'
        BY <1>2, <1>3, <1>4, <1>5, <2>6
      <3>6. Doing(c, exec[c], h)'
        BY <3>4, <3>5 DEF Doing
      <3> QED
        BY <3>2, <3>3, <3>5, <3>6 DEF Live, Doing
    <2>12. \A d \in Cores : d = c
      BY DEF MaskedX86
    <2> QED
      BY <2>1, <2>6, <2>8, <2>9, <2>10, <2>11, <2>12 DEF SwitchInv, Calls
  <1> QED
    BY <1>8, <1>9

-----------------------------------------------------------------------------
\* The core boots with every thread at its entry and interrupts disabled.
LEMMA SwitchInit == ASSUME MaskedX86, Init PROVE SwitchInv
  <1>1. ASSUME NEW x \in Stacks
        PROVE  LET f == Frame("entry", "enter", x, x)
               IN  f \in Frames /\ f.op = "entry" /\ f.at = "enter"
                   /\ <<f>> \in Seq(Frames) /\ <<f>> # <<>> /\ Len(<<f>>) = 1 /\ <<f>>[1] = f
    BY <1>1, SMTT(30) DEF Frame, Frames
  <1>2. <<>> \in Seq(Frames) /\ Len(<<>>) = 0
    BY SMTT(30)
  <1>3. \A c \in Cores : Idle(c) \in AllTasks /\ Boot(c) \in Stacks /\ Boot(c) \notin AllTasks
    BY StackFacts
  <1>4. \A x \in AllTasks : x \in Stacks /\ stack[x] = <<Frame("entry", "enter", x, x)>>
    BY DEF Init, Stacks
  <1>5. \A x \in Stacks \ AllTasks : stack[x] = <<>>
    BY DEF Init
  <1>6. stack \in [Stacks -> Seq(Frames)]
    <2>1. stack = [x \in Stacks |-> IF x \in AllTasks THEN <<Frame("entry", "enter", x, x)>> ELSE <<>>]
      BY DEF Init
    <2>2. \A x \in Stacks : stack[x] \in Seq(Frames)
      BY <1>1, <1>2, <1>4, <1>5
    <2> QED
      BY <2>1, <2>2
  <1>7. Types
    BY <1>3, <1>6 DEF Init, Types, Stacks
  <1>8. \A x \in Stacks : Calls(stack[x], x)
    <2>1. ASSUME NEW x \in Stacks, NEW s \in Seq(Frames), Len(s) < 2 PROVE Calls(s, x)
      <3>1. \A i \in 1 .. Len(s) - 1 : FALSE
        BY <2>1, SMTT(30)
      <3> QED
        BY <2>1, <3>1 DEF Calls
    <2>2. 0 < 2 /\ 1 < 2
      BY SMTT(30)
    <2>3. \A x \in AllTasks : Calls(stack[x], x)
      BY <1>1, <1>4, <2>2, <2>1
    <2>4. \A x \in Stacks \ AllTasks : Calls(stack[x], x)
      BY <1>2, <1>5, <2>2, <2>1
    <2> QED
      BY <2>3, <2>4
  <1>9. ASSUME NEW c \in Cores PROVE Live(c) /\ \A x \in Stacks \ {exec[c]} : Parked(x)
    <2>1. /\ exec[c] = Boot(c) /\ running[c] = Idle(c) /\ boot_done = FALSE
          /\ ~intr[c] /\ ~in_service[c] /\ stack[exec[c]] = <<>>
      <3>1. exec[c] = Boot(c) /\ running[c] = Idle(c) /\ boot_done = FALSE /\ ~in_service[c]
        BY <1>9 DEF Init
      <3>2. intr[c] = (Arch # "x86_64")
        BY <1>9 DEF Init
      <3> QED
        BY <1>3, <1>5, <1>9, <3>1, <3>2 DEF MaskedX86
    <2>2. Live(c)
      BY <2>1 DEF Live, Owner
    <2>3. ASSUME NEW x \in Stacks \ {exec[c]} PROVE Parked(x)
      <3>1. x \in AllTasks
        BY <1>9, <2>1, <2>3 DEF MaskedX86, Stacks
      <3> QED
        BY <1>1, <1>4, <3>1 DEF Parked, Top
    <2> QED
      BY <2>2, <2>3
  <1> QED
    BY <1>7, <1>8, <1>9 DEF SwitchInv, Init

\* SwitchInv is inductive.
LEMMA SwitchStep == ASSUME MaskedX86, SwitchInv, [Next]_vars PROVE SwitchInv'
  <1>1. CASE UNCHANGED vars
    <2>1. /\ home' = home /\ running' = running /\ exec' = exec /\ stack' = stack /\ ctx' = ctx
          /\ boot_done' = boot_done /\ intr' = intr /\ in_service' = in_service
      BY <1>1 DEF vars
    <2>2. Types' = Types
      BY <2>1 DEF Types
    <2>3. \A c \in Cores : Live(c) => Live(c)'
      BY <2>1, ZenonT(60) DEF Live, Doing, Top, Owner
    <2>4. \A x \in Stacks : Parked(x) => Parked(x)'
      BY <2>1 DEF Parked, Top
    <2> QED
      BY <2>1, <2>2, <2>3, <2>4 DEF SwitchInv, Calls
  <1>2. CASE Next
    BY <1>2, CallScheduleKeeps, PickKeeps, BootCheckKeeps, MaskKeeps, SwitchKeeps, EnableKeeps,
       ThreadEntryKeeps, IrqKeeps, IrqAckKeeps, IrqHandlerKeeps, IrqLeaveKeeps DEF Next
  <1> QED
    BY <1>1, <1>2

\* SwitchInv holds in every state.
LEMMA SwitchInvariance == ASSUME MaskedX86 PROVE Spec => []SwitchInv
  <1>1. Init => SwitchInv
    BY SwitchInit
  <1>2. SwitchInv /\ [Next]_vars => SwitchInv'
    BY SwitchStep
  <1> QED
    BY <1>1, <1>2, PTL DEF Spec

\* Thread code executes on the stack of running_task and what it says about
\* interrupts, in every state.
LEMMA ThreadFacts ==
  ASSUME MaskedX86, SwitchInv, NEW c \in Cores, InThread(c)
  PROVE  exec[c] = running[c] /\ intr[c] /\ ~in_service[c]
  BY StackFacts DEF SwitchInv, InThread, Live, Owner

\* switch_to never saves or resumes a stack that is not the task's own, and thread
\* code runs as the task whose stack it is on.
THEOREM OwnContextSafe == ASSUME MaskedX86 PROVE Spec => []OwnContext
  <1>1. SwitchInv => OwnContext
    BY ThreadFacts DEF OwnContext, SwitchInv
  <1> QED
    BY <1>1, SwitchInvariance, PTL

\* No timer handler runs between the store of running_task and switch_to.
THEOREM NoNestingSafe == ASSUME MaskedX86 PROVE Spec => []NoNestedSchedule
  <1>1. ASSUME NEW s, NEW x, Calls(s, x), NEW i \in DOMAIN s, i < Len(s) PROVE s[i] = Leave(x)
    BY <1>1, SMTT(30) DEF Calls
  <1>2. \A x : Leave(x).op # "schedule"
    BY DEF Leave, Frame
  <1>3. SwitchInv => NoNestedSchedule
    <2> SUFFICES ASSUME SwitchInv, NEW x \in Stacks, NEW i \in DOMAIN stack[x], i < Len(stack[x])
                 PROVE  stack[x][i].op # "schedule"
      BY DEF NoNestedSchedule
    <2>1. PICK s : s = stack[x]
      OBVIOUS
    <2>2. Calls(s, x) /\ i \in DOMAIN s /\ i < Len(s)
      BY <2>1 DEF SwitchInv
    <2> QED
      BY <1>1, <1>2, <2>1, <2>2
  <1> QED
    BY <1>3, SwitchInvariance, PTL

\* Thread code can always be preempted.
THEOREM PreemptibleSafe == ASSUME MaskedX86 PROVE Spec => []ThreadsPreemptible
  <1>1. SwitchInv => ThreadsPreemptible
    BY ThreadFacts DEF ThreadsPreemptible
  <1> QED
    BY <1>1, SwitchInvariance, PTL

\* The timer interrupt has its EOI before the handler can switch to another thread.
THEOREM AcknowledgedSafe == ASSUME MaskedX86 PROVE Spec => []TimerAcknowledged
  <1>1. SwitchInv => TimerAcknowledged
    BY ThreadFacts DEF TimerAcknowledged
  <1> QED
    BY <1>1, SwitchInvariance, PTL

\* Every variable of the model keeps its type.
THEOREM SwitchTypes == ASSUME MaskedX86 PROVE Spec => []TypeOK
  <1>1. ASSUME NEW s \in Seq(Frames), NEW i \in DOMAIN s
        PROVE  s[i].op \in {"schedule", "irq", "entry"} /\ s[i].prev \in Stacks /\ s[i].next \in Stacks
    <2>1. s[i] \in Frames
      BY <1>1, SMTT(30)
    <2> QED
      BY <2>1, SMTT(30) DEF Frames
  <1>2. \A t \in AllTasks : t \in Stacks
    BY DEF Stacks
  <1>3. SwitchInv => TypeOK
    BY <1>1, <1>2 DEF SwitchInv, Types, TypeOK
  <1> QED
    BY <1>3, SwitchInvariance, PTL
=============================================================================
