------------------------------- MODULE Mutex -------------------------------
(***************************************************************************)
(* What MutexType (locks/MutexType.hpp) promises its callers, whatever the *)
(* algorithm: lock() blocks until no other thread is between its lock()    *)
(* and its unlock().  Which of the waiting threads is let in is left open, *)
(* so this is the contract of the test-and-set locks as well as the queue  *)
(* locks; FifoMutex is the stronger contract of the latter.                *)
(***************************************************************************)
CONSTANT Threads

VARIABLE status         \* status[t]: where t is in lock() ... unlock()

Init == status = [t \in Threads |-> "idle"]

(* lock() is called. *)
Request(t) ==
  /\ status[t] = "idle"
  /\ status' = [status EXCEPT ![t] = "waiting"]

(* lock() returns. *)
Acquire(t) ==
  /\ status[t] = "waiting"
  /\ \A u \in Threads : status[u] # "critical"
  /\ status' = [status EXCEPT ![t] = "critical"]

(* unlock(), by the thread that holds the lock. *)
Release(t) ==
  /\ status[t] = "critical"
  /\ status' = [status EXCEPT ![t] = "idle"]

Next == \E t \in Threads : Request(t) \/ Acquire(t) \/ Release(t)

Spec == Init /\ [][Next]_status

(* lock_guard gives the lock back, and a free lock that somebody waits for *)
(* is taken by somebody; a thread may still wait forever.                  *)
LiveSpec ==
  /\ Spec
  /\ WF_status(\E t \in Threads : Acquire(t))
  /\ \A t \in Threads : WF_status(Release(t))
=============================================================================
