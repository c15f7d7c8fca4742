------------------------------ MODULE Barrier ------------------------------
(***************************************************************************)
(* barrier/Barrier.hpp and Barrier.java: a reusable barrier from a mutex,  *)
(* a condition variable, a count of arrivals and a round number, march.    *)
(* The threads are those of TestBarrier: each calls sync() Rounds times.   *)
(*                                                                         *)
(* The two versions differ at the end of a round: C++ unlocks and then     *)
(* notifies, Java signals while it holds the lock.  A woken thread must    *)
(* take the mutex again, in any order, behind threads that may already be  *)
(* in the next round, and a wait may end without a notification.           *)
(***************************************************************************)
EXTENDS Naturals, FiniteSets

CONSTANTS
  Threads,
  Rounds,
  MarchValues,  \* march wraps after this many rounds
  NoThread

ASSUME Parameters ==
  /\ IsFiniteSet(Threads) /\ Threads # {} /\ NoThread \notin Threads
  /\ Rounds \in Nat
  /\ MarchValues \in Nat \ {0, 1}

VARIABLES
  version,      \* "C++" or "Java"
  mutex,        \* the thread that holds it, or NoThread
  count, march,
  check,        \* the local variable of sync()
  round,        \* the caller's loop counter
  pc

vars == <<version, mutex, count, march, check, round, pc>>

nThreads == Cardinality(Threads)

Marches == 0..(MarchValues - 1)

TypeOK ==
  /\ version \in {"C++", "Java"}
  /\ mutex \in Threads \cup {NoThread}
  /\ count \in 0..(nThreads - 1)
  /\ march \in Marches
  /\ check \in [Threads -> Marches]
  /\ round \in [Threads -> 0..Rounds]
  /\ pc \in [Threads -> {"out", "arrive", "notify", "test", "blocked",
                         "relock", "unlock"}]

Init ==
  /\ version \in {"C++", "Java"}
  /\ mutex = NoThread
  /\ count = 0
  /\ march = 0
  /\ check = [t \in Threads |-> 0]
  /\ round = [t \in Threads |-> 0]
  /\ pc = [t \in Threads |-> "out"]

Goto(t, label) == pc' = [pc EXCEPT ![t] = label]

Acquire(t) == mutex = NoThread /\ mutex' = t

(* A call of sync() returns to the caller's loop. *)
Return(t) == round' = [round EXCEPT ![t] = @ + 1] /\ Goto(t, "out")

Lock(t) ==
  /\ pc[t] = "out" /\ round[t] < Rounds
  /\ Acquire(t)
  /\ Goto(t, "arrive")
  /\ UNCHANGED <<version, count, march, check, round>>

(* Mutant: count is not reset. *)
LastArrivesNoReset(t) ==
  /\ pc[t] = "arrive" /\ count + 1 = nThreads
  /\ count' = count + 1
  /\ check' = [check EXCEPT ![t] = march]
  /\ march' = (march + 1) % MarchValues
  /\ Goto(t, IF version = "C++" THEN "unlock" ELSE "notify")
  /\ UNCHANGED <<version, mutex, round>>

(* Mutant: the last thread counts for the next round. *)
LastArrivesCounted(t) ==
  /\ pc[t] = "arrive" /\ count + 1 = nThreads
  /\ count' = 1
  /\ check' = [check EXCEPT ![t] = march]
  /\ march' = (march + 1) % MarchValues
  /\ Goto(t, IF version = "C++" THEN "unlock" ELSE "notify")
  /\ UNCHANGED <<version, mutex, round>>

LastArrives(t) ==
  /\ pc[t] = "arrive" /\ count + 1 = nThreads
  /\ count' = 0
  /\ check' = [check EXCEPT ![t] = march]
  /\ march' = (march + 1) % MarchValues
  /\ Goto(t, IF version = "C++" THEN "unlock" ELSE "notify")
  /\ UNCHANGED <<version, mutex, round>>

OtherArrives(t) ==
  /\ pc[t] = "arrive" /\ count + 1 # nThreads
  /\ count' = count + 1
  /\ check' = [check EXCEPT ![t] = march]
  /\ Goto(t, "test")
  /\ UNCHANGED <<version, mutex, march, round>>

(* The wait's predicate: wait gives the mutex up and blocks in one step. *)
Wait(t) ==
  /\ pc[t] = "test" /\ check[t] = march
  /\ mutex' = NoThread
  /\ Goto(t, "blocked")
  /\ UNCHANGED <<version, count, march, check, round>>

StopWaiting(t) ==
  /\ pc[t] = "test" /\ check[t] # march
  /\ mutex' = NoThread
  /\ Return(t)
  /\ UNCHANGED <<version, count, march, check>>

SpuriousWakeup(t) ==
  /\ pc[t] = "blocked"
  /\ Goto(t, "relock")
  /\ UNCHANGED <<version, mutex, count, march, check, round>>

(* Mutant: the predicate is not tested again after a wakeup. *)
RelockAndReturn(t) ==
  /\ pc[t] = "relock" /\ mutex = NoThread
  /\ Return(t)
  /\ UNCHANGED <<version, mutex, count, march, check>>

Relock(t) ==
  /\ pc[t] = "relock"
  /\ Acquire(t)
  /\ Goto(t, "test")
  /\ UNCHANGED <<version, count, march, check, round>>

(* The last to arrive: unlock, then notify_all (C++) ...  *)
UnlockThenNotify(t) ==
  /\ pc[t] = "unlock" /\ version = "C++"
  /\ mutex' = NoThread
  /\ Goto(t, "notify")
  /\ UNCHANGED <<version, count, march, check, round>>

(* Mutant: only one thread is woken. *)
NotifyOne(t) ==
  /\ pc[t] = "notify"
  /\ LET asleep == {u \in Threads : pc[u] = "blocked"}
         woken == IF asleep = {} THEN pc
                  ELSE [pc EXCEPT ![CHOOSE u \in asleep : TRUE] = "relock"]
     IN  pc' = [woken EXCEPT ![t] = IF version = "C++" THEN "out" ELSE "unlock"]
  /\ round' = [round EXCEPT ![t] = IF version = "C++" THEN @ + 1 ELSE @]
  /\ UNCHANGED <<version, mutex, count, march, check>>

(* ... or signalAll, then unlock (Java). *)
NotifyAll(t) ==
  /\ pc[t] = "notify"
  /\ LET woken == [u \in Threads |-> IF pc[u] = "blocked" THEN "relock" ELSE pc[u]]
     IN  pc' = [woken EXCEPT ![t] = IF version = "C++" THEN "out" ELSE "unlock"]
  /\ round' = [round EXCEPT ![t] = IF version = "C++" THEN @ + 1 ELSE @]
  /\ UNCHANGED <<version, mutex, count, march, check>>

UnlockAfterSignal(t) ==
  /\ pc[t] = "unlock" /\ version = "Java"
  /\ mutex' = NoThread
  /\ Return(t)
  /\ UNCHANGED <<version, count, march, check>>

Step(t) ==
  \/ Lock(t) \/ LastArrives(t) \/ OtherArrives(t) \/ Wait(t) \/ StopWaiting(t)
  \/ Relock(t) \/ UnlockThenNotify(t) \/ NotifyAll(t) \/ UnlockAfterSignal(t)

(* Every thread has returned from its last sync(). *)
Terminated ==
  /\ \A t \in Threads : pc[t] = "out" /\ round[t] = Rounds
  /\ UNCHANGED vars

Next == (\E t \in Threads : Step(t) \/ SpuriousWakeup(t)) \/ Terminated

Spec == Init /\ [][Next]_vars

(* The scheduler runs every thread, and a thread that waits for the mutex  *)
(* gets it if it is free again and again; nobody relies on a wakeup that   *)
(* was not notified.                                                       *)
FairSpec ==
  Spec /\ \A t \in Threads :
            WF_vars(Step(t)) /\ SF_vars(Lock(t)) /\ SF_vars(Relock(t))
-----------------------------------------------------------------------------
(* A thread counts as arrived from its increment of count. *)
Inside(t) == pc[t] \notin {"out", "arrive"}

Contract == INSTANCE BarrierContract WITH
              inside <- [t \in Threads |-> Inside(t)]

(* No call of sync() returns before everybody has called it, whichever     *)
(* wakeups are late, early or for the round before; and all calls return.  *)
ImplementsContract == Contract!FairSpec

(* Nobody sleeps through a notification: when a thread is blocked although *)
(* its round is over, the one that ended the round has yet to notify.      *)
NoLostWakeup ==
  \A t \in Threads : pc[t] = "blocked" /\ check[t] # march =>
    \E u \in Threads : pc[u] = "notify" \/ (pc[u] = "unlock" /\ version = "C++")

(* count is the number of threads that have arrived in the current round   *)
(* and wait for it to end: arrivals of one round never count for another.  *)
CountIsArrivals ==
  count = Cardinality({t \in Threads : /\ pc[t] \in {"test", "blocked", "relock"}
                                       /\ check[t] = march})
=============================================================================
