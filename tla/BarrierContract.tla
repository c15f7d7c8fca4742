-------------------------- MODULE BarrierContract --------------------------
(***************************************************************************)
(* What Barrier::sync promises the threads that share a barrier: sync()    *)
(* number r of a thread returns only after every thread has called sync()  *)
(* number r, and does return then.                                         *)
(***************************************************************************)
EXTENDS Naturals

CONSTANTS
  Threads,
  Rounds        \* how often each thread calls sync()

VARIABLES
  round,        \* how many calls of sync() of a thread have returned
  inside        \* whether it is in a further one

vars == <<round, inside>>

Init ==
  /\ round = [t \in Threads |-> 0]
  /\ inside = [t \in Threads |-> FALSE]

Arrive(t) ==
  /\ ~inside[t] /\ round[t] < Rounds
  /\ inside' = [inside EXCEPT ![t] = TRUE]
  /\ UNCHANGED round

Depart(t) ==
  /\ inside[t]
  /\ \A u \in Threads : round[u] > round[t] \/ (round[u] = round[t] /\ inside[u])
  /\ inside' = [inside EXCEPT ![t] = FALSE]
  /\ round' = [round EXCEPT ![t] = @ + 1]

Next == \E t \in Threads : Arrive(t) \/ Depart(t)

Spec == Init /\ [][Next]_vars

FairSpec == Spec /\ \A t \in Threads : WF_vars(Depart(t))
=============================================================================
