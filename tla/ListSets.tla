------------------------------ MODULE ListSets ------------------------------
(***************************************************************************)
(* The three list sets under the calls any number of threads may make, as  *)
(* in bench/test/TestSets.cpp and TestSets.java but on elements they       *)
(* share: each is a linearizable set.                                      *)
(***************************************************************************)
EXTENDS FineGrainedSet, OptimisticSet, LazySet

Step(t) ==
  \/ kind = "FineGrained" /\ FineGrainedFind(t)
  \/ kind = "Optimistic" /\ OptimisticFind(t)
  \/ kind = "Lazy" /\ LazyFind(t)
  \/ Callback(t)

Next == \E t \in Threads : Start(t) \/ Step(t)

Spec == Init /\ [][Next]_vars

(* The scheduler runs every thread; a thread that waits for a mutex that   *)
(* is free only now and then may wait forever.                             *)
FairSpec == Spec /\ \A t \in Threads : WF_vars(Step(t))
-----------------------------------------------------------------------------
TypeOK ==
  /\ allocated \in 0..MaxNodes
  /\ next \in [Nodes -> Nodes \cup {NoNode}]
  /\ value \in [Nodes -> Elements \cup {NoElement}]
  /\ deleted \in [Nodes -> BOOLEAN]
  /\ mutex \in [Nodes -> Threads \cup {NoThread}]
  /\ call \in [Threads -> Calls \cup {NoCall}]
  /\ \A local \in {pred, cur, other} : local \in [Threads -> Nodes]
  /\ ahead \in [Threads -> Nodes \cup {NoNode}]
  /\ pc \in [Threads -> {"idle", "start", "first", "walk", "handover", "lockcur",
                         "locked", "check", "look", "found", "unlink", "return"}]

(* Reach[i]: the nodes at most i steps after the head.  Between the head   *)
(* and the tail there are at most as many as were allocated.               *)
Reach[i \in Nat] ==
  IF i = 0 THEN {Head}
  ELSE LET near == Reach[i - 1] IN near \cup {next[n] : n \in near \cap Nodes}

InList == Reach[allocated + 1] \cap Nodes

Inner == InList \ {Head, Tail}

(* The fields have their types; nodes come in the order of their keys,     *)
(* those of one key in the order of their allocation, and end at the tail; *)
(* no element is in the list twice; and a node in it is marked deleted     *)
(* only by the thread that is about to unlink it, so that a mark never     *)
(* makes the others retry for nothing.                                     *)
ListWellFormed ==
  /\ TypeOK
  /\ Tail \in InList
  /\ \A n \in InList \ {Tail} :
       /\ KeyOf(n) <= KeyOf(next[n])
       /\ KeyOf(n) = KeyOf(next[n]) => n < next[n]
  /\ \A m, n \in Inner : value[m] = value[n] => m = n
  /\ \A n \in InList :
       deleted[n] => \E t \in Threads : pc[t] = "unlink" /\ cur[t] = n /\ mutex[n] = t

(* Whatever changed while find walked without locks, or between its check  *)
(* and the callback: the callback runs with two locked, adjacent nodes of  *)
(* the list, and if the second is not the element's, no node in it is.     *)
CallbackWindow ==
  \A t \in Threads : pc[t] \in {"found", "unlink"} =>
    /\ mutex[pred[t]] = t /\ mutex[cur[t]] = t
    /\ pred[t] \in InList /\ next[pred[t]] = cur[t]
    /\ Found(t) \/ \A n \in InList : value[n] # call[t].elem

Contract == INSTANCE SetContract WITH set <- {value[n] : n \in Inner}

(* Every call of add, remove and contains takes effect at one instant, and *)
(* while calls are pending some call gets through: no deadlock among the   *)
(* nodes' mutexes, and no retry without another call's success.            *)
ImplementsSet == Contract!LiveSpec
=============================================================================
