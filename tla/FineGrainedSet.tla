--------------------------- MODULE FineGrainedSet ---------------------------
(***************************************************************************)
(* sets/FineGrainedSet.hpp, FineGrainedSet.java: find walks hand over      *)
(* hand, always holding the locks of predecessor and current.  To move on  *)
(* the C++ code locks the next node while it holds two locks, and then     *)
(* lets go of the first (the assignment to currentLock); the Java code     *)
(* lets go of it before.                                                   *)
(***************************************************************************)
EXTENDS ListSet

LockHead(t) ==
  /\ pc[t] = "start" /\ mutex[Head] = NoThread
  /\ mutex' = [mutex EXCEPT ![Head] = t]
  /\ pred' = [pred EXCEPT ![t] = Head]
  /\ Goto(t, "first")
  /\ UNCHANGED <<kind, version, heap, call, cur, other, ahead>>

LockFirst(t) ==
  /\ pc[t] = "first" /\ mutex[next[Head]] = NoThread
  /\ mutex' = [mutex EXCEPT ![next[Head]] = t]
  /\ cur' = [cur EXCEPT ![t] = next[Head]]
  /\ Goto(t, "walk")
  /\ UNCHANGED <<kind, version, heap, call, pred, other, ahead>>

(* other is the node behind predecessor, whose lock C++ still holds. *)
StepOn(t) ==
  /\ pc[t] = "walk" /\ WalksOn(t)
  /\ other' = [other EXCEPT ![t] = pred[t]]
  /\ pred' = [pred EXCEPT ![t] = cur[t]]
  /\ cur' = [cur EXCEPT ![t] = next[cur[t]]]
  /\ mutex' = IF version = "Java" THEN [mutex EXCEPT ![pred[t]] = NoThread] ELSE mutex
  /\ Goto(t, "handover")
  /\ UNCHANGED <<kind, version, heap, call, ahead>>

HandOver(t) ==
  /\ pc[t] = "handover" /\ mutex[cur[t]] = NoThread
  /\ mutex' = [n \in Nodes |->
                 CASE n = cur[t]                          -> t
                   [] n = other[t] /\ version = "C++"     -> NoThread
                   [] OTHER                               -> mutex[n]]
  /\ other' = [other EXCEPT ![t] = Head]
  /\ Goto(t, "walk")
  /\ UNCHANGED <<kind, version, heap, call, pred, cur, ahead>>

FindLocked(t) ==
  /\ pc[t] = "walk" /\ ~WalksOn(t)
  /\ Goto(t, "found")
  /\ UNCHANGED <<kind, version, heap, mutex, call, locals>>

FineGrainedFind(t) ==
  LockHead(t) \/ LockFirst(t) \/ StepOn(t) \/ HandOver(t) \/ FindLocked(t)
=============================================================================
