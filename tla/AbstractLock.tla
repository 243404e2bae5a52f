---------------------------- MODULE AbstractLock ----------------------------
(***************************************************************************)
(* What a kernel spin lock promises its callers, without the protocol that *)
(* keeps the promise: at most one core is the holder, and the holder's     *)
(* interrupts stay masked from the moment it becomes the holder until it   *)
(* gives the lock up.  SpinLock.tla is shown to implement this module.     *)
(***************************************************************************)
CONSTANTS Cores, NoCore

VARIABLES
  holder,   \* the core that owns the lock, or NoCore
  masked    \* masked[c]: interrupts of core c are disabled

avars == <<holder, masked>>

AInit ==
  /\ holder = NoCore
  /\ masked \in [Cores -> BOOLEAN]

Acquire(c) ==
  /\ holder = NoCore
  /\ masked[c]
  /\ holder' = c
  /\ UNCHANGED masked

Release(c) ==
  /\ holder = c
  /\ holder' = NoCore
  /\ UNCHANGED masked

\* Any core that is not the holder may mask or unmask its own interrupts.
SetMask(c) ==
  /\ holder # c
  /\ \E b \in BOOLEAN : masked' = [masked EXCEPT ![c] = b]
  /\ UNCHANGED holder

ANext == \E c \in Cores : Acquire(c) \/ Release(c) \/ SetMask(c)

ASpec == AInit /\ [][ANext]_avars
=============================================================================
