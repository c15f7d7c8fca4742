----------------------------- MODULE MCHashMaps -----------------------------
(* Keys that hash to themselves, as int does.  Two of the keys for any     *)
(* calls, 0 and 2, share a bucket, and -1 has a negative hash code.  Of    *)
(* three workers one has come and gone: the tokens 0 and 3 of the first    *)
(* share buckets with 2 and 5 of the third.                                *)
EXTENDS BenchMaps

CONSTANTS t1, t2

MCThreadId == [t \in {t1, t2} |-> IF t = t1 THEN 0 ELSE 2]
MCAnyKeys == {0, 2, -1}
MCTokens == Tokens(t1) \cup Tokens(t2)
MCKeys == MCAnyKeys \cup MCTokens
MCAnyValues == {"v", "w"}
MCValues == MCAnyValues \cup {Value(token) : token \in MCTokens}
MCHash == [key \in MCKeys |-> key]
=============================================================================
