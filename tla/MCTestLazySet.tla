--------------------------- MODULE MCTestLazySet ---------------------------
(* Two tokens with different hash codes. *)
EXTENDS TestLazySet

CONSTANTS t1, t2

MCThreads == {t1, t2}
MCKey == [e \in MCThreads |-> IF e = t1 THEN 0 ELSE 1]
=============================================================================
