--------------------------- MODULE Barrier_proofs ---------------------------
(***************************************************************************)
(* The barrier keeps its contract for any number of threads and rounds and *)
(* for a round number that wraps after two rounds or more: arrivals are    *)
(* counted for their own round, no call returns early, and no thread       *)
(* sleeps through the end of its round.                                    *)
(***************************************************************************)
EXTENDS Barrier, TLAPS, FiniteSetTheorems

(* Where sync() has the mutex; Java signals while it holds it. *)
InMonitor(t) ==
  \/ pc[t] \in {"arrive", "test", "unlock"}
  \/ pc[t] = "notify" /\ version = "Java"

MonitorExcludes == \A t \in Threads : InMonitor(t) <=> mutex = t

(* Threads that have arrived in the round that is not over. *)
Arrived == {t \in Threads : pc[t] \in {"test", "blocked", "relock"} /\ check[t] = march}

(* The thread that ended a round knows that it is over, and no caller is   *)
(* inside a call too many.                                                 *)
CallsInProgress ==
  \A t \in Threads : /\ pc[t] \in {"notify", "unlock"} => check[t] # march
                     /\ pc[t] # "out" => round[t] < Rounds

(* d rounds are over: a thread whose round is over and that has not left   *)
(* yet has returned from d - 1 calls, everybody else from d.  March alone  *)
(* tells the two apart, although it wraps.                                 *)
RoundsOver(d) ==
  \A t \in Threads : round[t] = IF Inside(t) /\ check[t] # march THEN d - 1 ELSE d

IInv ==
  /\ TypeOK /\ MonitorExcludes /\ CallsInProgress
  /\ CountIsArrivals /\ NoLostWakeup
  /\ \E d \in Int : RoundsOver(d)
-----------------------------------------------------------------------------
(* The next round's number differs from this one's. *)
LEMMA MarchDiffers ==
  ASSUME NEW m \in Marches
  PROVE  /\ (m + 1) % MarchValues \in Marches
         /\ (m + 1) % MarchValues # m
<1>1. m \in Int /\ 0 <= m /\ m <= MarchValues - 1 /\ MarchValues \in Int /\ MarchValues >= 2
  BY Parameters DEF Marches
<1>2. CASE m + 1 = MarchValues
  <2>1. (m + 1) % MarchValues = 0
    BY <1>1, <1>2
  <2> QED BY <1>1, <1>2, <2>1 DEF Marches
<1>3. CASE m + 1 < MarchValues
  <2>1. (m + 1) % MarchValues = m + 1
    BY <1>1, <1>3
  <2> QED BY <1>1, <1>3, <2>1 DEF Marches
<1> QED BY <1>1, <1>2, <1>3

(* Sizes: arrivals are some of the threads, of which there is one or more. *)
LEMMA ArrivedSize ==
  /\ IsFiniteSet(Arrived) /\ Cardinality(Arrived) \in Nat
  /\ nThreads \in Nat \ {0}
<1>1. Arrived \subseteq Threads
  BY DEF Arrived
<1>2. IsFiniteSet(Arrived)
  BY <1>1, FS_Subset, Parameters
<1>3. nThreads \in Nat /\ nThreads # 0
  BY FS_CardinalityType, FS_EmptySet, Parameters DEF nThreads
<1> QED BY <1>2, <1>3, FS_CardinalityType

(* When all but one have arrived, everybody else is among them. *)
LEMMA AllOthersArrived ==
  ASSUME CountIsArrivals, NEW t \in Threads, pc[t] = "arrive", count + 1 = nThreads
  PROVE  \A u \in Threads \ {t} : u \in Arrived
<1>1. t \notin Arrived /\ Arrived \cup {t} \in SUBSET Threads
  BY DEF Arrived
<1>2. Cardinality(Arrived \cup {t}) = Cardinality(Arrived) + 1
  BY <1>1, ArrivedSize, FS_AddElement
<1>3. count = Cardinality(Arrived)
  BY DEF CountIsArrivals, Arrived
<1>4. Cardinality(Arrived \cup {t}) = Cardinality(Threads)
  BY <1>2, <1>3 DEF nThreads
<1>5. Arrived \cup {t} = Threads
  BY <1>1, <1>4, FS_Subset, Parameters
<1> QED BY <1>5
-----------------------------------------------------------------------------
(* The constructor, with no thread in sync(). *)
LEMMA InitIInv == Init => IInv
<1> SUFFICES ASSUME Init PROVE IInv
  OBVIOUS
<1> USE DEF Init
<1>1. TypeOK
  BY ArrivedSize, Parameters DEF TypeOK, Marches
<1>2. MonitorExcludes /\ CallsInProgress /\ NoLostWakeup
  BY Parameters DEF MonitorExcludes, InMonitor, CallsInProgress, NoLostWakeup
<1>3. CountIsArrivals
  <2>1. Arrived = {}
    BY DEF Arrived
  <2> QED BY <2>1, FS_EmptySet DEF CountIsArrivals, Arrived
<1>4. RoundsOver(0)
  BY DEF RoundsOver, Inside
<1> QED BY <1>1, <1>2, <1>3, <1>4 DEF IInv

(* The first lock of sync(). *)
LEMMA LockIInv ==
  ASSUME IInv, NEW t \in Threads, Lock(t) PROVE IInv'
<1> USE DEF Lock, Acquire, Goto
<1>1. TypeOK'
  BY DEF IInv, TypeOK
<1>2. MonitorExcludes'
  BY Parameters DEF IInv, TypeOK, MonitorExcludes, InMonitor
<1>3. CallsInProgress'
  BY DEF IInv, TypeOK, CallsInProgress
<1>4. CountIsArrivals'
  <2>1. Arrived' = Arrived
    BY DEF IInv, TypeOK, Arrived
  <2> QED BY <2>1 DEF IInv, CountIsArrivals, Arrived
<1>5. NoLostWakeup'
  BY DEF IInv, TypeOK, NoLostWakeup
<1>6. \A d \in Int : RoundsOver(d) => RoundsOver(d)'
  BY DEF IInv, TypeOK, RoundsOver, Inside
<1> QED BY <1>1, <1>2, <1>3, <1>4, <1>5, <1>6 DEF IInv

(* The last arrival: the others are waiting, so nobody is left of a round  *)
(* before, and all of them now wait for a round that is over.              *)
LEMMA LastArrivesIInv ==
  ASSUME IInv, NEW t \in Threads, LastArrives(t) PROVE IInv'
<1> USE DEF LastArrives, Goto
<1>1. \A u \in Threads \ {t} : u \in Arrived
  BY AllOthersArrived DEF IInv
<1>2. march \in Marches /\ march' = (march + 1) % MarchValues
  BY DEF IInv, TypeOK
<1>3. march' \in Marches /\ march' # march
  BY <1>2, MarchDiffers
<1>4. \A u \in Threads : check'[u] = march
  BY <1>1 DEF IInv, TypeOK, Arrived
<1>5. TypeOK'
  BY <1>3, ArrivedSize DEF IInv, TypeOK
<1>6. MonitorExcludes'
  BY DEF IInv, TypeOK, MonitorExcludes, InMonitor
<1>7. CallsInProgress'
  BY <1>3, <1>4 DEF IInv, TypeOK, CallsInProgress
<1>8. CountIsArrivals'
  <2>1. Arrived' = {}
    BY <1>3, <1>4 DEF Arrived
  <2> QED BY <2>1, FS_EmptySet DEF CountIsArrivals, Arrived
<1>9. NoLostWakeup'
  <2>1. pc'[t] = "notify" \/ (pc'[t] = "unlock" /\ version' = "C++")
    BY DEF IInv, TypeOK
  <2> QED BY <2>1 DEF NoLostWakeup
<1>10. ASSUME NEW d \in Int, RoundsOver(d) PROVE RoundsOver(d + 1)'
  <2>1. \A u \in Threads : round[u] = d
    BY <1>1, <1>10 DEF RoundsOver, Arrived, Inside
  <2>2. \A u \in Threads : Inside(u)'
    BY <1>1 DEF IInv, TypeOK, Inside, Arrived
  <2> QED BY <1>3, <1>4, <2>1, <2>2 DEF RoundsOver
<1> QED BY <1>5, <1>6, <1>7, <1>8, <1>9, <1>10 DEF IInv

(* Another arrival adds one to count and one thread to those waiting. *)
LEMMA OtherArrivesIInv ==
  ASSUME IInv, NEW t \in Threads, OtherArrives(t) PROVE IInv'
<1> USE DEF OtherArrives, Goto
<1>1. t \notin Arrived /\ Arrived' = Arrived \cup {t}
  BY DEF IInv, TypeOK, Arrived
<1>2. count' = count + 1 /\ count' \in 0..(nThreads - 1)
  BY ArrivedSize DEF IInv, TypeOK
<1>3. TypeOK'
  BY <1>2 DEF IInv, TypeOK
<1>4. MonitorExcludes'
  BY DEF IInv, TypeOK, MonitorExcludes, InMonitor
<1>5. CallsInProgress'
  BY DEF IInv, TypeOK, CallsInProgress
<1>6. CountIsArrivals'
  <2>1. Cardinality(Arrived') = Cardinality(Arrived) + 1
    BY <1>1, ArrivedSize, FS_AddElement
  <2>2. count = Cardinality(Arrived)
    BY DEF IInv, CountIsArrivals, Arrived
  <2> QED BY <1>2, <2>1, <2>2 DEF CountIsArrivals, Arrived
<1>7. NoLostWakeup'
  BY DEF IInv, TypeOK, NoLostWakeup
<1>8. \A d \in Int : RoundsOver(d) => RoundsOver(d)'
  BY DEF IInv, TypeOK, RoundsOver, Inside
<1> QED BY <1>3, <1>4, <1>5, <1>6, <1>7, <1>8 DEF IInv

(* The wait gives the mutex up; its round is not over. *)
LEMMA WaitIInv ==
  ASSUME IInv, NEW t \in Threads, Wait(t) PROVE IInv'
<1> USE DEF Wait, Goto
<1>1. TypeOK'
  BY DEF IInv, TypeOK, CallsInProgress
<1>2. MonitorExcludes'
  BY Parameters DEF IInv, TypeOK, MonitorExcludes, InMonitor
<1>3. CallsInProgress'
  BY DEF IInv, TypeOK, CallsInProgress
<1>4. CountIsArrivals'
  <2>1. Arrived' = Arrived
    BY DEF IInv, TypeOK, CallsInProgress, Arrived
  <2> QED BY <2>1 DEF IInv, CountIsArrivals, Arrived
<1>5. NoLostWakeup'
  BY DEF IInv, TypeOK, CallsInProgress, NoLostWakeup
<1>6. \A d \in Int : RoundsOver(d) => RoundsOver(d)'
  BY DEF IInv, TypeOK, CallsInProgress, RoundsOver, Inside
<1> QED BY <1>1, <1>2, <1>3, <1>4, <1>5, <1>6 DEF IInv

(* A waiting thread leaves a round that is over. *)
LEMMA StopWaitingIInv ==
  ASSUME IInv, NEW t \in Threads, StopWaiting(t) PROVE IInv'
<1> USE DEF StopWaiting, Return, Goto
<1>1. TypeOK'
  BY Parameters DEF IInv, TypeOK, CallsInProgress
<1>2. MonitorExcludes'
  BY Parameters DEF IInv, TypeOK, MonitorExcludes, InMonitor
<1>3. CallsInProgress'
  BY DEF IInv, TypeOK, CallsInProgress
<1>4. CountIsArrivals'
  <2>1. Arrived' = Arrived
    BY DEF IInv, TypeOK, CallsInProgress, Arrived
  <2> QED BY <2>1 DEF IInv, CountIsArrivals, Arrived
<1>5. NoLostWakeup'
  BY DEF IInv, TypeOK, CallsInProgress, NoLostWakeup
<1>6. \A d \in Int : RoundsOver(d) => RoundsOver(d)'
  BY DEF IInv, TypeOK, CallsInProgress, RoundsOver, Inside
<1> QED BY <1>1, <1>2, <1>3, <1>4, <1>5, <1>6 DEF IInv

(* A wakeup without a notification: the thread goes on waiting, for the    *)
(* mutex first.                                                            *)
LEMMA SpuriousWakeupIInv ==
  ASSUME IInv, NEW t \in Threads, SpuriousWakeup(t) PROVE IInv'
<1> USE DEF SpuriousWakeup, Goto
<1>1. TypeOK'
  BY DEF IInv, TypeOK, CallsInProgress
<1>2. MonitorExcludes'
  BY Parameters DEF IInv, TypeOK, MonitorExcludes, InMonitor
<1>3. CallsInProgress'
  BY DEF IInv, TypeOK, CallsInProgress
<1>4. CountIsArrivals'
  <2>1. Arrived' = Arrived
    BY DEF IInv, TypeOK, CallsInProgress, Arrived
  <2> QED BY <2>1 DEF IInv, CountIsArrivals, Arrived
<1>5. NoLostWakeup'
  BY DEF IInv, TypeOK, CallsInProgress, NoLostWakeup
<1>6. \A d \in Int : RoundsOver(d) => RoundsOver(d)'
  BY DEF IInv, TypeOK, CallsInProgress, RoundsOver, Inside
<1> QED BY <1>1, <1>2, <1>3, <1>4, <1>5, <1>6 DEF IInv

(* A woken thread gets the mutex back. *)
LEMMA RelockIInv ==
  ASSUME IInv, NEW t \in Threads, Relock(t) PROVE IInv'
<1> USE DEF Relock, Acquire, Goto
<1>1. TypeOK'
  BY DEF IInv, TypeOK, CallsInProgress
<1>2. MonitorExcludes'
  BY Parameters DEF IInv, TypeOK, MonitorExcludes, InMonitor
<1>3. CallsInProgress'
  BY DEF IInv, TypeOK, CallsInProgress
<1>4. CountIsArrivals'
  <2>1. Arrived' = Arrived
    BY DEF IInv, TypeOK, CallsInProgress, Arrived
  <2> QED BY <2>1 DEF IInv, CountIsArrivals, Arrived
<1>5. NoLostWakeup'
  BY DEF IInv, TypeOK, CallsInProgress, NoLostWakeup
<1>6. \A d \in Int : RoundsOver(d) => RoundsOver(d)'
  BY DEF IInv, TypeOK, CallsInProgress, RoundsOver, Inside
<1> QED BY <1>1, <1>2, <1>3, <1>4, <1>5, <1>6 DEF IInv

(* The end of a round in C++: the mutex is free before anybody is woken. *)
LEMMA UnlockThenNotifyIInv ==
  ASSUME IInv, NEW t \in Threads, UnlockThenNotify(t) PROVE IInv'
<1> USE DEF UnlockThenNotify, Goto
<1>1. TypeOK'
  BY DEF IInv, TypeOK, CallsInProgress
<1>2. MonitorExcludes'
  BY Parameters DEF IInv, TypeOK, MonitorExcludes, InMonitor
<1>3. CallsInProgress'
  BY DEF IInv, TypeOK, CallsInProgress
<1>4. CountIsArrivals'
  <2>1. Arrived' = Arrived
    BY DEF IInv, TypeOK, CallsInProgress, Arrived
  <2> QED BY <2>1 DEF IInv, CountIsArrivals, Arrived
<1>5. NoLostWakeup'
  BY DEF IInv, TypeOK, CallsInProgress, NoLostWakeup
<1>6. \A d \in Int : RoundsOver(d) => RoundsOver(d)'
  BY DEF IInv, TypeOK, CallsInProgress, RoundsOver, Inside
<1> QED BY <1>1, <1>2, <1>3, <1>4, <1>5, <1>6 DEF IInv

(* Everybody blocked is woken; in C++ the call returns. *)
LEMMA NotifyAllIInv ==
  ASSUME IInv, NEW t \in Threads, NotifyAll(t) PROVE IInv'
<1> USE DEF NotifyAll
<1>1. TypeOK'
  BY Parameters DEF IInv, TypeOK, CallsInProgress
<1>2. MonitorExcludes'
  BY Parameters DEF IInv, TypeOK, MonitorExcludes, InMonitor
<1>3. CallsInProgress'
  BY DEF IInv, TypeOK, CallsInProgress
<1>4. CountIsArrivals'
  <2>1. Arrived' = Arrived
    BY DEF IInv, TypeOK, CallsInProgress, Arrived
  <2> QED BY <2>1 DEF IInv, CountIsArrivals, Arrived
<1>5. NoLostWakeup'
  BY DEF IInv, TypeOK, CallsInProgress, NoLostWakeup
<1>6. \A d \in Int : RoundsOver(d) => RoundsOver(d)'
  BY DEF IInv, TypeOK, CallsInProgress, RoundsOver, Inside
<1> QED BY <1>1, <1>2, <1>3, <1>4, <1>5, <1>6 DEF IInv

(* The end of a round in Java. *)
LEMMA UnlockAfterSignalIInv ==
  ASSUME IInv, NEW t \in Threads, UnlockAfterSignal(t) PROVE IInv'
<1> USE DEF UnlockAfterSignal, Return, Goto
<1>1. TypeOK'
  BY Parameters DEF IInv, TypeOK, CallsInProgress
<1>2. MonitorExcludes'
  BY Parameters DEF IInv, TypeOK, MonitorExcludes, InMonitor
<1>3. CallsInProgress'
  BY DEF IInv, TypeOK, CallsInProgress
<1>4. CountIsArrivals'
  <2>1. Arrived' = Arrived
    BY DEF IInv, TypeOK, CallsInProgress, Arrived
  <2> QED BY <2>1 DEF IInv, CountIsArrivals, Arrived
<1>5. NoLostWakeup'
  BY DEF IInv, TypeOK, CallsInProgress, NoLostWakeup
<1>6. \A d \in Int : RoundsOver(d) => RoundsOver(d)'
  BY DEF IInv, TypeOK, CallsInProgress, RoundsOver, Inside
<1> QED BY <1>1, <1>2, <1>3, <1>4, <1>5, <1>6 DEF IInv

(* One step of any thread preserves the invariant. *)
LEMMA NextIInv == IInv /\ [Next]_vars => IInv'
<1> SUFFICES ASSUME IInv, [Next]_vars PROVE IInv'
  OBVIOUS
<1>1. CASE UNCHANGED vars
  BY <1>1 DEF vars, IInv, TypeOK, MonitorExcludes, InMonitor, CallsInProgress,
              CountIsArrivals, NoLostWakeup, RoundsOver, Inside
<1>2. ASSUME NEW t \in Threads, Step(t) PROVE IInv'
  <2>1. CASE Lock(t)               BY <2>1, LockIInv
  <2>2. CASE LastArrives(t)        BY <2>2, LastArrivesIInv
  <2>3. CASE OtherArrives(t)       BY <2>3, OtherArrivesIInv
  <2>4. CASE Wait(t)               BY <2>4, WaitIInv
  <2>5. CASE StopWaiting(t)        BY <2>5, StopWaitingIInv
  <2>6. CASE Relock(t)             BY <2>6, RelockIInv
  <2>7. CASE UnlockThenNotify(t)   BY <2>7, UnlockThenNotifyIInv
  <2>8. CASE NotifyAll(t)          BY <2>8, NotifyAllIInv
  <2>9. CASE UnlockAfterSignal(t)  BY <2>9, UnlockAfterSignalIInv
  <2> QED BY <1>2, <2>1, <2>2, <2>3, <2>4, <2>5, <2>6, <2>7, <2>8, <2>9 DEF Step
<1>3. ASSUME NEW t \in Threads, SpuriousWakeup(t) PROVE IInv'
  BY <1>3, SpuriousWakeupIInv
<1>4. CASE Terminated
  BY <1>1, <1>4 DEF Terminated
<1> QED BY <1>1, <1>2, <1>3, <1>4 DEF Next

(* Types, the mutex, the count, the notifications and the rounds of the    *)
(* threads agree in every state of the barrier.                            *)
THEOREM Invariance == Spec => []IInv
<1> QED BY InitIInv, NextIInv, PTL DEF Spec

(* Every variable of the barrier keeps its type; count stays below the     *)
(* number of threads, since sync() never leaves a full count behind.       *)
THEOREM Typing == Spec => []TypeOK
<1>1. IInv => TypeOK
  BY DEF IInv
<1> QED BY <1>1, Invariance, PTL

(* An arrival is counted in its own round and in no other, although march  *)
(* wraps and although woken threads leave while others arrive again.       *)
THEOREM CountIsExact == Spec => []CountIsArrivals
<1>1. IInv => CountIsArrivals
  BY DEF IInv
<1> QED BY <1>1, Invariance, PTL

(* A thread blocked in a round that is over still has a notify_all or      *)
(* signalAll to come, whether the mutex is given up before it or after.    *)
THEOREM WakeupsNotLost == Spec => []NoLostWakeup
<1>1. IInv => NoLostWakeup
  BY DEF IInv
<1> QED BY <1>1, Invariance, PTL
-----------------------------------------------------------------------------
(* A call of sync() that may return finds its round over: all the others   *)
(* have returned from it or are inside it.                                 *)
LEMMA EverybodyArrived ==
  ASSUME IInv, NEW t \in Threads, Inside(t), check[t] # march
  PROVE  \A u \in Threads : round[u] > round[t] \/ (round[u] = round[t] /\ Inside(u))
<1> PICK d \in Int : RoundsOver(d)
  BY DEF IInv
<1>1. round[t] = d - 1
  BY DEF RoundsOver
<1> QED BY <1>1 DEF RoundsOver

(* sync() returns: the contract's Depart. *)
LEMMA ReturnIsDepart ==
  ASSUME IInv, NEW t \in Threads, Inside(t), check[t] # march, ~Inside(t)',
         round' = [round EXCEPT ![t] = @ + 1],
         \A u \in Threads \ {t} : Inside(u)' = Inside(u)
  PROVE  Contract!Depart(t)
<1>1. \A u \in Threads : round[u] > round[t] \/ (round[u] = round[t] /\ Inside(u))
  BY EverybodyArrived
<1>2. [u \in Threads |-> Inside(u)]' = [[u \in Threads |-> Inside(u)] EXCEPT ![t] = FALSE]
  BY DEF Inside
<1> QED BY <1>1, <1>2 DEF Contract!Depart

(* A step that neither counts an arrival nor returns is not seen. *)
LEMMA Unseen ==
  ASSUME UNCHANGED round, \A u \in Threads : Inside(u)' = Inside(u)
  PROVE  UNCHANGED Contract!vars
BY DEF Contract!vars

(* What a step of one thread is in the contract. *)
LEMMA StepRefines ==
  ASSUME IInv, NEW t \in Threads, Step(t) \/ SpuriousWakeup(t)
  PROVE  Contract!Next \/ UNCHANGED Contract!vars
<1> USE DEF IInv, TypeOK, CallsInProgress, Goto, Inside
<1>1. CASE LastArrives(t) \/ OtherArrives(t)
  <2>1. ~Inside(t) /\ Inside(t)' /\ round[t] < Rounds /\ UNCHANGED round
    BY <1>1 DEF LastArrives, OtherArrives
  <2>2. \A u \in Threads \ {t} : Inside(u)' = Inside(u)
    BY <1>1 DEF LastArrives, OtherArrives
  <2>3. [u \in Threads |-> Inside(u)]' = [[u \in Threads |-> Inside(u)] EXCEPT ![t] = TRUE]
    BY <2>1, <2>2
  <2> QED BY <2>1, <2>3 DEF Contract!Arrive, Contract!Next
<1>2. CASE StopWaiting(t)
  <2>1. Contract!Depart(t)
    BY <1>2, ReturnIsDepart DEF StopWaiting, Return
  <2> QED BY <2>1 DEF Contract!Next
<1>3. CASE NotifyAll(t) /\ version = "C++"
  <2>1. Contract!Depart(t)
    BY <1>3, ReturnIsDepart DEF NotifyAll
  <2> QED BY <2>1 DEF Contract!Next
<1>4. CASE UnlockAfterSignal(t)
  <2>1. Contract!Depart(t)
    BY <1>4, ReturnIsDepart DEF UnlockAfterSignal, Return
  <2> QED BY <2>1 DEF Contract!Next
<1>5. CASE NotifyAll(t) /\ version = "Java"
  BY <1>5, Unseen DEF NotifyAll
<1>6. CASE Lock(t) \/ Wait(t) \/ Relock(t) \/ UnlockThenNotify(t) \/ SpuriousWakeup(t)
  BY <1>6, Unseen DEF Lock, Wait, Relock, UnlockThenNotify, SpuriousWakeup
<1> QED BY <1>1, <1>2, <1>3, <1>4, <1>5, <1>6 DEF Step

(* Sync() number r of a thread returns only after every thread has called  *)
(* sync() number r: each step of the barrier is an arrival, a departure or *)
(* not seen by its callers.                                                *)
THEOREM ImplementsBarrier == Spec => Contract!Spec
<1>1. Init => Contract!Init
  BY DEF Init, Contract!Init, Inside
<1>2. IInv /\ [Next]_vars => [Contract!Next]_Contract!vars
  <2> SUFFICES ASSUME IInv, [Next]_vars
               PROVE  Contract!Next \/ UNCHANGED Contract!vars
    OBVIOUS
  <2>1. CASE UNCHANGED vars \/ Terminated
    BY <2>1, Unseen DEF Terminated, vars, Inside
  <2>2. CASE \E t \in Threads : Step(t) \/ SpuriousWakeup(t)
    BY <2>2, StepRefines
  <2> QED BY <2>1, <2>2 DEF Next
<1> QED BY <1>1, <1>2, Invariance, PTL DEF Spec, Contract!Spec
=============================================================================
