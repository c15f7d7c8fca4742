---------------------------- MODULE BenchWorker ----------------------------
(***************************************************************************)
(* What a worker of benchMap and benchSet (bench/BenchMaps.cpp, BenchSets, *)
(* BenchMapByLocks, BenchSetByLocks, with hpx::async or std::async) calls, *)
(* and with it the workers of bench/test/TestMaps.cpp and TestSets.cpp: it *)
(* puts, gets, deletes and misses one token of its own after the other,    *)
(* and then puts all, gets all, deletes all and misses all of them.        *)
(***************************************************************************)
EXTENDS Naturals, FiniteSets

CONSTANTS
  NThreads, WorkSize,
  threadId      \* the number each worker is given

(* The tokens are computed in usize and handed over as int: no benchmark   *)
(* is run with more than 2^32 of them.                                     *)
ASSUME WorkerParameters ==
  /\ NThreads \in Nat /\ WorkSize \in Nat \ {0}
  /\ \A t, u \in DOMAIN threadId :
       /\ threadId[t] \in 0..(NThreads - 1)
       /\ threadId[t] = threadId[u] => t = u

(* Mutant: tokens that other workers have too. *)
TokenShared(t, i) == i * (NThreads - 1) + threadId[t]

Token(t, i) == i * NThreads + threadId[t]

Tokens(t) == {Token(t, i) : i \in 0..(WorkSize - 1)}

(* A worker's calls are numbered from 0: which of put, get, del, get the   *)
(* n-th one is, and on which of its tokens.                                *)
Phase(n) == IF n < 4 * WorkSize THEN n % 4 ELSE n \div WorkSize - 4

Round(n) == IF n < 4 * WorkSize THEN n \div 4 ELSE n % WorkSize

CallsPerWorker == 8 * WorkSize
=============================================================================
