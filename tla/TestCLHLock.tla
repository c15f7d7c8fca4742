---------------------------- MODULE TestCLHLock ----------------------------
(***************************************************************************)
(* The test of bench/test/TestLocks.cpp (work, testLock) on a CLHLock:     *)
(* every thread increments one shared counter CountTo times under the      *)
(* lock, and the counter must end at the product.                          *)
(*                                                                         *)
(* QNode.locked is a plain bool in C++ and a plain field in Java, so the   *)
(* store that unlocks is not ordered after the stores of the critical      *)
(* section: compiler and processor may make the next thread see the lock   *)
(* open before it sees the counter.  PlainFlag allows that one reordering, *)
(* up to the thread's next call of lock(), whose exchange no earlier store *)
(* passes; without it memory is sequentially consistent.                   *)
(***************************************************************************)
EXTENDS CLHLock

CONSTANTS
  CountTo,
  PlainFlag     \* may the store in unlock() overtake the counter's?

ASSUME TestParameters == CountTo \in Nat /\ PlainFlag \in BOOLEAN

VARIABLES
  counter,
  loaded,       \* the value of counter in a register of the thread
  done,         \* the thread's loop variable c
  body          \* the thread's progress in the critical section

testVars == <<counter, loaded, done, body>>

TestInit ==
  /\ Init
  /\ counter = 0
  /\ loaded = [t \in Threads |-> 0]
  /\ done = [t \in Threads |-> 0]
  /\ body = [t \in Threads |-> "before"]

CallLock(t) ==
  /\ body[t] = "before" /\ done[t] < CountTo
  /\ Announce(t)
  /\ UNCHANGED testVars

(* lock() beyond its first store. *)
InLock(t) == (Exchange(t) \/ StopSpinning(t)) /\ UNCHANGED testVars

LoadCounter(t) ==
  /\ pc[t] = "critical" /\ body[t] = "before"
  /\ loaded' = [loaded EXCEPT ![t] = counter]
  /\ body' = [body EXCEPT ![t] = "loaded"]
  /\ UNCHANGED <<counter, done, vars>>

StoreCounter(t) ==
  /\ body[t] = "loaded"
  /\ counter' = loaded[t] + 1
  /\ body' = [body EXCEPT ![t] = IF pc[t] = "critical" THEN "stored" ELSE "before"]
  /\ done' = [done EXCEPT ![t] = @ + 1]
  /\ UNCHANGED <<loaded, vars>>

(* Mutant: unlock() before the counter is stored. *)
CallUnlockEarly(t) ==
  /\ body[t] = "loaded" \/ body[t] = "stored"
  /\ body' = [body EXCEPT ![t] = IF @ = "stored" THEN "before" ELSE @]
  /\ Unlock(t)
  /\ UNCHANGED <<counter, loaded, done>>

CallUnlock(t) ==
  /\ \/ body[t] = "stored" /\ body' = [body EXCEPT ![t] = "before"]
     \/ body[t] = "loaded" /\ PlainFlag /\ UNCHANGED body
  /\ Unlock(t)
  /\ UNCHANGED <<counter, loaded, done>>

InUnlock(t) == Recycle(t) /\ UNCHANGED testVars

(* main has joined every thread. *)
AllDone == \A t \in Threads : pc[t] = "idle" /\ done[t] = CountTo

Joined == AllDone /\ UNCHANGED <<vars, testVars>>

TestStep(t) ==
  \/ CallLock(t) \/ InLock(t) \/ LoadCounter(t) \/ StoreCounter(t)
  \/ CallUnlock(t) \/ InUnlock(t)

TestNext == (\E t \in Threads : TestStep(t)) \/ Joined

TestSpec == TestInit /\ [][TestNext]_<<vars, testVars>>

(* The scheduler runs every thread to its end. *)
TestFairSpec ==
  TestSpec /\ \A t \in Threads : WF_<<vars, testVars>>(TestStep(t))
-----------------------------------------------------------------------------
(* "target == counter" (TestLocks.cpp): no increment is lost.              *)
CounterExact == AllDone => counter = CountTo * Cardinality(Threads)
=============================================================================
