----------------------------- MODULE FifoMutex -----------------------------
(***************************************************************************)
(* The contract of the queue locks (ALock, CLHLock, MCSLock,               *)
(* TwoCounterLock): lock() takes a place in a queue with one atomic        *)
(* operation on the lock's shared word, and threads enter in queue order.  *)
(***************************************************************************)
EXTENDS Naturals, Sequences, FiniteSets

CONSTANT Threads

VARIABLES
  queue,        \* threads that have a place, the next to be served first
  inside        \* whether the first of them has returned from lock()

vars == <<queue, inside>>

InQueue(t) == \E i \in 1..Len(queue) : queue[i] = t

Init == queue = <<>> /\ inside = FALSE

(* The atomic operation at the start of lock(). *)
Arrive(t) ==
  /\ ~InQueue(t)
  /\ queue' = Append(queue, t)
  /\ UNCHANGED inside

(* The first thread's spin loop ends. *)
Enter(t) ==
  /\ queue # <<>> /\ Head(queue) = t /\ ~inside
  /\ inside' = TRUE
  /\ UNCHANGED queue

(* unlock() hands the lock over. *)
Leave(t) ==
  /\ inside /\ Head(queue) = t
  /\ inside' = FALSE
  /\ queue' = Tail(queue)

Next == \E t \in Threads : Arrive(t) \/ Enter(t) \/ Leave(t)

Spec == Init /\ [][Next]_vars

FairSpec == Spec /\ \A t \in Threads : WF_vars(Enter(t)) /\ WF_vars(Leave(t))
=============================================================================
