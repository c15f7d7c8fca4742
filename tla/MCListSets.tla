----------------------------- MODULE MCListSets -----------------------------
(* An element that collides with the head, as 0 does under std::hash<int>, *)
(* and two that collide with each other.  Of three workers one has come    *)
(* and gone; the others' tokens, 0 and 2, are neighbours.                  *)
EXTENDS BenchSets

CONSTANTS t1, t2

MCThreadId == [t \in {t1, t2} |-> IF t = t1 THEN 0 ELSE 2]
MCElements == 0..2
MCKey == [e \in MCElements |-> IF e = 0 THEN 0 ELSE 1]
=============================================================================
