---------------------------- MODULE TestLazySet ----------------------------
(***************************************************************************)
(* The loop of bench/test/TestSets.java (ControllerA) on a LazySet.java:   *)
(* every thread adds, finds, removes and misses a token of its own, here   *)
(* named after the thread: Elements is to be Threads.                      *)
(*                                                                         *)
(* The fields of LazySet.Node are plain, and find walks without locks, so  *)
(* nothing orders a new node's "next" before the "next" that publishes it: *)
(* compiler and processor may let the two stores of add() change places.   *)
(* This module lets them, and nothing else: all of it happens while the    *)
(* adding thread holds its locks.                                          *)
(***************************************************************************)
EXTENDS ListSets

VARIABLE calls  \* how many calls of the loop's body a thread has made

testVars == <<vars, calls>>

(* The loop's body: what is called and what the test asserts of it. *)
Body == <<[op |-> "add", answer |-> "yes"], [op |-> "contains", answer |-> "yes"],
          [op |-> "remove", answer |-> "yes"], [op |-> "contains", answer |-> "no"]>>

TestInit ==
  /\ Init
  /\ kind = "Lazy" /\ version = "Java"
  /\ calls = [t \in Threads |-> 0]

TestCall(t) ==
  /\ calls[t] < 4
  /\ Call(t, Body[calls[t] + 1].op, t)
  /\ calls' = [calls EXCEPT ![t] = @ + 1]

(* The new node is seen in the list before the node after it is. *)
Publish(t) ==
  /\ pc[t] = "found" /\ call[t].op = "add" /\ ~Found(t)
  /\ LET n == allocated + 1
     IN  /\ allocated' = n
         /\ value' = [value EXCEPT ![n] = call[t].elem]
         /\ next' = [next EXCEPT ![pred[t]] = n]
         /\ other' = [other EXCEPT ![t] = n]
  /\ Goto(t, "complete")
  /\ UNCHANGED <<kind, version, deleted, mutex, call, pred, cur, ahead, calls>>

Complete(t) ==
  /\ pc[t] = "complete"
  /\ next' = [next EXCEPT ![other[t]] = cur[t]]
  /\ Answer(t, "yes")
  /\ Goto(t, "return")
  /\ UNCHANGED <<kind, version, allocated, value, deleted, mutex, locals, calls>>

(* A walk takes the new node for the tail, and keeps to that when it has   *)
(* got the lock of the node before it.                                     *)
StopShort(t) ==
  /\ pc[t] = "walk" /\ next[cur[t]] = NoNode /\ cur[t] # Tail
  /\ Goto(t, "stopped")
  /\ UNCHANGED <<kind, version, heap, mutex, call, locals, calls>>

LockPredLate(t) ==
  /\ pc[t] = "stopped" /\ mutex[pred[t]] = NoThread
  /\ mutex' = [mutex EXCEPT ![pred[t]] = t]
  /\ Goto(t, "lockcur")
  /\ UNCHANGED <<kind, version, heap, call, locals, calls>>

TestNext ==
  \E t \in Threads :
    \/ TestCall(t) \/ Publish(t) \/ Complete(t) \/ StopShort(t) \/ LockPredLate(t)
    \/ Step(t) /\ UNCHANGED calls

TestSpec == TestInit /\ [][TestNext]_testVars
-----------------------------------------------------------------------------
(* The assertions of the loop: a thread finds what it has added and not    *)
(* removed, whatever the others do with their own tokens.                  *)
AssertionsHold ==
  \A t \in Threads :
    call[t] # NoCall /\ call[t].answer # "pending" =>
      call[t].answer = Body[calls[t]].answer
=============================================================================
