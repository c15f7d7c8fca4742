---------------------------- MODULE MCBenchmarks ----------------------------
(* Two tests for each program, three for TuneBackoffLock.  The clock may   *)
(* tick once or more in a millisecond, or be set back meanwhile.           *)
EXTENDS Benchmarks

CONSTANTS r1, r2

MCMayRun == [r \in {r1, r2} |-> IF r = r1 THEN Programs ELSE {"mapByLocks"}]
MCLocks == <<"CLHLock", "MCSLock">>
MCHpxLocks == <<"hpx::mutex", "hpx::spinlock">>
MCSets == <<"LockHashSet", "LazySet">>
MCMaps == <<"LockHashMap", "SetBasedMap<LazySet>">>
MCDurations == {-3, 2, 3}
=============================================================================
