------------------------------ MODULE LazySet ------------------------------
(***************************************************************************)
(* sets/LazySet.hpp, LazySet.java: find walks without locks, locks the     *)
(* pair it has come to, and accepts it if neither node is marked deleted   *)
(* and the two are still adjacent.                                         *)
(***************************************************************************)
EXTENDS ListSet

(* Mutant: a removed predecessor is not noticed. *)
UnmarkedCur(t) ==
  ~deleted[cur[t]] /\ next[pred[t]] = cur[t]

Unmarked(t) ==
  ~deleted[pred[t]] /\ ~deleted[cur[t]] /\ next[pred[t]] = cur[t]

SeeUnmarked(t) ==
  /\ pc[t] = "locked" /\ Unmarked(t)
  /\ Goto(t, "found")
  /\ UNCHANGED <<kind, version, heap, mutex, call, locals>>

SeeMarked(t) == pc[t] = "locked" /\ ~Unmarked(t) /\ Retry(t)

LazyFind(t) == OptimisticStep(t) \/ SeeUnmarked(t) \/ SeeMarked(t)
=============================================================================
