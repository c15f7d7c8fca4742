------------------------------- MODULE ALock -------------------------------
(***************************************************************************)
(* locks/ALock.hpp, OptimizedALock.hpp, ALock.java: the array lock.  The   *)
(* lock is a token, a raised flag, that unlock() passes to the next slot   *)
(* of a ring of ThreadCount slots; lock() draws a slot from a counter that *)
(* wraps with the machine word, and waits for the token there.  The slot   *)
(* is remembered until unlock() in a ThreadLocal of ThreadCount cells.     *)
(*                                                                         *)
(* Nothing in the code keeps more than ThreadCount threads from using the  *)
(* lock; what happens then is checked too.                                 *)
(***************************************************************************)
EXTENDS ThreadLocal, SequencesExt

CONSTANTS
  MaxUsize      \* the largest value of tail

ThreadCount == MaxThreads

Slots == 0..(ThreadCount - 1)

(* What a lock's constants are; assumed where one is checked or proved. *)
Sizes == ThreadLocalParameters /\ Values = Slots /\ Default = 0 /\ MaxUsize \in Nat

VARIABLES
  tail,
  flags,
  slot,         \* the local variable of lock(), then of unlock()
  pc

lockVars == <<tail, flags, slot, pc>>
vars == <<threadLocalVars, lockVars>>

TypeOK ==
  /\ ThreadLocalTypeOK
  /\ tail \in 0..MaxUsize
  /\ flags \in [Slots -> BOOLEAN]
  /\ slot \in [Threads -> Slots]
  /\ pc \in [Threads -> {"idle", "record", "spin", "lower", "critical", "pass"}]

NextSlot(s) == (s + 1) % ThreadCount

Init ==
  /\ ThreadLocalInit
  /\ tail = 0
  /\ flags = [s \in Slots |-> s = 0]
  /\ slot = [t \in Threads |-> 0]
  /\ pc = [t \in Threads |-> "idle"]

Goto(t, label) == pc' = [pc EXCEPT ![t] = label]

DrawSlot(t) ==
  /\ pc[t] = "idle"
  /\ slot' = [slot EXCEPT ![t] = tail % ThreadCount]
  /\ tail' = (tail + 1) % (MaxUsize + 1)
  /\ Goto(t, "record")
  /\ UNCHANGED <<threadLocalVars, flags>>

RecordSlot(t) ==
  /\ pc[t] = "record"
  /\ Set(t, slot[t])
  /\ Goto(t, "spin")
  /\ UNCHANGED <<tail, flags, slot>>

StopSpinning(t) ==
  /\ pc[t] = "spin" /\ flags[slot[t]]
  /\ Goto(t, "lower")
  /\ UNCHANGED <<threadLocalVars, tail, flags, slot>>

(* Mutant: the flag stays raised. *)
LowerFlagNot(t) ==
  /\ pc[t] = "lower"
  /\ Goto(t, "critical")
  /\ UNCHANGED <<threadLocalVars, tail, flags, slot>>

LowerFlag(t) ==
  /\ pc[t] = "lower"
  /\ flags' = [flags EXCEPT ![slot[t]] = FALSE]
  /\ Goto(t, "critical")
  /\ UNCHANGED <<threadLocalVars, tail, slot>>

(* unlock() looks its slot up ... *)
RecallSlot(t) ==
  /\ pc[t] = "critical"
  /\ \E s \in Slots : Get(t, s) /\ slot' = [slot EXCEPT ![t] = s]
  /\ Goto(t, "pass")
  /\ UNCHANGED <<tail, flags>>

(* Mutant: the token is passed to the thread's own slot. *)
RaiseOwnFlag(t) ==
  /\ pc[t] = "pass"
  /\ flags' = [flags EXCEPT ![slot[t]] = TRUE]
  /\ Goto(t, "idle")
  /\ UNCHANGED <<threadLocalVars, tail, slot>>

(* ... and passes the token on. *)
RaiseNextFlag(t) ==
  /\ pc[t] = "pass"
  /\ flags' = [flags EXCEPT ![NextSlot(slot[t])] = TRUE]
  /\ Goto(t, "idle")
  /\ UNCHANGED <<threadLocalVars, tail, slot>>

Step(t) ==
  \/ RecordSlot(t) \/ StopSpinning(t) \/ LowerFlag(t)
  \/ RecallSlot(t) \/ RaiseNextFlag(t)

Next == \E t \in Threads : DrawSlot(t) \/ Step(t)

Spec == Init /\ [][Next]_vars

(* The scheduler runs every thread, and a critical section ends. *)
FairSpec == Spec /\ \A t \in Threads : WF_vars(Step(t))
-----------------------------------------------------------------------------
Engaged == {t \in Threads : pc[t] # "idle"}

Holding == {t \in Threads : pc[t] \in {"critical", "pass"}}

(* At most one thread is between lock() and unlock(). *)
MutualExclusion == \A t, u \in Holding : t = u

(* The token is never lost or doubled, although two threads write flags    *)
(* without an atomic read-modify-write: one flag is raised, or one thread  *)
(* holds the lock; and no two threads wait for it at one slot, also after  *)
(* tail has wrapped.                                                       *)
OneToken ==
  /\ Cardinality({s \in Slots : flags[s]}) + Cardinality(Holding) = 1
  /\ \A t, u \in Engaged : slot[t] = slot[u] => t = u

(* The slot that is being served. *)
TokenSlot ==
  IF Holding = {} THEN CHOOSE s \in Slots : flags[s]
  ELSE slot[CHOOSE t \in Holding : TRUE]

(* How many slots the token passes before it gets to s. *)
Ahead(s) == (s + ThreadCount - TokenSlot) % ThreadCount

(* Engaged threads in the order in which the token gets to their slots. *)
Queue ==
  CHOOSE q \in SetToSeqs(Engaged) :
    \A i, j \in 1..Len(q) : i < j => Ahead(slot[q[i]]) < Ahead(slot[q[j]])

Fifo == INSTANCE FifoMutex WITH
          queue <- Queue,
          inside <- Holding # {}

(* Threads enter in the order in which they drew their slots, and every    *)
(* thread that drew one enters, also after tail has wrapped.               *)
ImplementsFifo == Fifo!FairSpec
=============================================================================
