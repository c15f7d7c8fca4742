--------------------------- MODULE OptimisticSet ---------------------------
(***************************************************************************)
(* sets/OptimisticSet.hpp, OptimisticSet.java: find walks without locks,   *)
(* locks the pair it has come to, and walks once more from the head to see *)
(* whether the pair is still in the list.  That walk holds no lock but the *)
(* pair's either, so the nodes it passes change under it.                  *)
(***************************************************************************)
EXTENDS ListSet

(* other is the variable check, ahead the node after it: next in C++, read *)
(* once, and check.next in Java, read again for every use.                 *)
StartCheck(t) ==
  /\ pc[t] = "locked"
  /\ other' = [other EXCEPT ![t] = Head]
  /\ ahead' = [ahead EXCEPT ![t] = next[Head]]
  /\ Goto(t, "check")
  /\ UNCHANGED <<kind, version, heap, mutex, call, pred, cur>>

(* The condition of the second loop. *)
ChecksOn(t) ==
  \/ KeyOf(other[t]) < KeyOf(pred[t])
  \/ KeyOf(other[t]) = KeyOf(pred[t]) /\ value[ahead[t]] # value[cur[t]]

Check(t) ==
  /\ pc[t] = "check" /\ version = "C++" /\ ChecksOn(t)
  /\ other' = [other EXCEPT ![t] = ahead[t]]
  /\ ahead' = [ahead EXCEPT ![t] = next[ahead[t]]]
  /\ UNCHANGED <<kind, version, heap, mutex, call, pred, cur, pc>>

CheckJava(t) ==
  /\ pc[t] = "check" /\ version = "Java" /\ ChecksOn(t)
  /\ other' = [other EXCEPT ![t] = next[other[t]]]
  /\ Goto(t, "look")
  /\ UNCHANGED <<kind, version, heap, mutex, call, pred, cur, ahead>>

LookAhead(t) ==
  /\ pc[t] = "look"
  /\ ahead' = [ahead EXCEPT ![t] = next[other[t]]]
  /\ Goto(t, "check")
  /\ UNCHANGED <<kind, version, heap, mutex, call, pred, cur, other>>

(* Mutant: whether the two are still adjacent is not looked at. *)
ValidReachable(t) == other[t] = pred[t]

Valid(t) == other[t] = pred[t] /\ next[pred[t]] = cur[t]

EndCheck(t) ==
  /\ pc[t] = "check" /\ ~ChecksOn(t) /\ Valid(t)
  /\ other' = [other EXCEPT ![t] = Head]
  /\ ahead' = [ahead EXCEPT ![t] = Head]
  /\ Goto(t, "found")
  /\ UNCHANGED <<kind, version, heap, mutex, call, pred, cur>>

CheckFails(t) == pc[t] = "check" /\ ~ChecksOn(t) /\ ~Valid(t) /\ Retry(t)

OptimisticFind(t) ==
  \/ OptimisticStep(t)
  \/ StartCheck(t) \/ Check(t) \/ CheckJava(t) \/ LookAhead(t)
  \/ EndCheck(t) \/ CheckFails(t)
=============================================================================
