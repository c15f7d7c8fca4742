----------------------------- MODULE WordLocks -----------------------------
(***************************************************************************)
(* The locks around a single atomic word that is 0 while the lock is free: *)
(* locks/TASLock.hpp, TTASLock.hpp, BackoffLock.hpp, IdLock.hpp and        *)
(* TIdLock.hpp, with their Java counterparts.  They differ in              *)
(*   - what they write: the Boolean TRUE, here 1, or the thread's id;      *)
(*   - whether they read the word before they exchange it;                 *)
(*   - what they do when the exchange fails: Backoff sleeps for a random   *)
(*     number of milliseconds whose limit doubles, the others try again.   *)
(* Ids are drawn by ThreadId::get on a thread's first use of an id lock,   *)
(* so drawing one races with the lock() calls of the others.               *)
(***************************************************************************)
EXTENDS Naturals, FiniteSets, FiniteSetsExt

CONSTANTS
  Threads,
  MinDelay, MaxDelay    \* BackoffLock's template parameters

ASSUME Parameters ==
  /\ IsFiniteSet(Threads)
  /\ MinDelay \in Nat /\ MaxDelay \in Nat

Kinds == {"TAS", "TTAS", "Backoff", "Id", "TId"}
IdKinds == {"Id", "TId"}

VARIABLES
  kind,         \* the class the lock is an object of
  word,         \* aBool or turn
  idCounter,    \* ThreadId::idCounter
  id,           \* each thread's thread_local ThreadId::id, 0 until drawn
  delayLimit,   \* local variable of BackoffLock::lock
  delay,        \* how long a sleeping thread sleeps
  pc

vars == <<kind, word, idCounter, id, delayLimit, delay, pc>>
ids == <<idCounter, id>>
delays == <<delayLimit, delay>>

LongestDelay == Max({MinDelay, MaxDelay})

(* Among the types: an id is drawn once per thread, and contention never   *)
(* makes a thread sleep longer than the configured delays.  MinDelay may   *)
(* be the larger of the two: TuneBackoffLock.cpp instantiates such locks.  *)
TypeOK ==
  /\ kind \in Kinds
  /\ word \in 0..Cardinality(Threads)
  /\ idCounter \in 1..(Cardinality(Threads) + 1)
  /\ id \in [Threads -> 0..Cardinality(Threads)]
  /\ delayLimit \in [Threads -> 0..LongestDelay]
  /\ delay \in [Threads -> 0..LongestDelay]
  /\ pc \in [Threads -> {"idle", "test", "exchange", "sleep", "critical"}]

Init ==
  /\ kind \in Kinds
  /\ word = 0
  /\ idCounter = 1
  /\ id = [t \in Threads |-> 0]
  /\ delayLimit = [t \in Threads |-> 0]
  /\ delay = [t \in Threads |-> 0]
  /\ pc = [t \in Threads |-> "idle"]

Goto(t, label) == pc' = [pc EXCEPT ![t] = label]

(* The head of the loop: TAS and Id do not look before they exchange. *)
LoopHead == IF kind \in {"TAS", "Id"} THEN "exchange" ELSE "test"

(* What a thread writes when it takes the lock. *)
Mark(t) == IF kind \in IdKinds THEN id[t] ELSE 1

(* Mutant: two threads may draw one id. *)
GetIdByLoad(t) ==
  IF id[t] = 0
    THEN id' = [id EXCEPT ![t] = idCounter] /\ idCounter' \in {idCounter, idCounter + 1}
    ELSE UNCHANGED ids

(* ThreadId::get: one fetch_add, the first time only. *)
GetId(t) ==
  IF id[t] = 0
    THEN id' = [id EXCEPT ![t] = idCounter] /\ idCounter' = idCounter + 1
    ELSE UNCHANGED ids

Lock(t) ==
  /\ pc[t] = "idle"
  /\ IF kind \in IdKinds THEN GetId(t) ELSE UNCHANGED ids
  /\ delayLimit' = [delayLimit EXCEPT ![t] = IF kind = "Backoff" THEN MinDelay ELSE @]
  /\ Goto(t, LoopHead)
  /\ UNCHANGED <<kind, word, delay>>

(* The word is read as free; until then the thread yields and looks again. *)
Test(t) ==
  /\ pc[t] = "test" /\ word = 0
  /\ Goto(t, "exchange")
  /\ UNCHANGED <<kind, word, ids, delays>>

ExchangeWins(t) ==
  /\ pc[t] = "exchange" /\ word = 0
  /\ word' = Mark(t)
  /\ Goto(t, "critical")
  /\ UNCHANGED <<kind, ids, delays>>

(* The exchange finds the word taken; compare_exchange_weak may also fail  *)
(* although it is free.                                                    *)
ExchangeLoses(t) ==
  /\ pc[t] = "exchange" /\ kind # "Backoff"
  /\ word # 0 \/ kind \in IdKinds
  /\ Goto(t, LoopHead)
  /\ UNCHANGED <<kind, word, ids, delays>>

(* Mutant: the limit is not capped. *)
DoubledUncapped(limit) == 2 * limit

Doubled(limit) == Min({MaxDelay, 2 * limit})

(* BackoffLock goes to sleep (getRand's bounds are both inclusive).        *)
Sleep(t) ==
  /\ pc[t] = "exchange" /\ kind = "Backoff" /\ word # 0
  /\ \E d \in 0..delayLimit[t] : delay' = [delay EXCEPT ![t] = d]
  /\ delayLimit' = [delayLimit EXCEPT ![t] = Doubled(@)]
  /\ Goto(t, "sleep")
  /\ UNCHANGED <<kind, word, ids>>

WakeUp(t) ==
  /\ pc[t] = "sleep"
  /\ delay' = [delay EXCEPT ![t] = 0]
  /\ Goto(t, LoopHead)
  /\ UNCHANGED <<kind, word, ids, delayLimit>>

(* Mutant: unlock() leaves the word as it is. *)
UnlockNothing(t) ==
  /\ pc[t] = "critical"
  /\ Goto(t, "idle")
  /\ UNCHANGED <<kind, word, ids, delays>>

(* unlock() of the id locks exchanges only its own id, and until that      *)
(* succeeds the C++ code loops and the Java code fails its assertion.      *)
Unlock(t) ==
  /\ pc[t] = "critical"
  /\ kind \in IdKinds => word = id[t]
  /\ word' = 0
  /\ Goto(t, "idle")
  /\ UNCHANGED <<kind, ids, delays>>

Next ==
  \E t \in Threads :
    \/ Lock(t) \/ Test(t) \/ ExchangeWins(t) \/ ExchangeLoses(t)
    \/ Sleep(t) \/ WakeUp(t) \/ Unlock(t)

Spec == Init /\ [][Next]_vars

(* The scheduler runs every thread, a sleep ends and a critical section    *)
(* ends.  Threads that keep exchanging on a free word do not all fail      *)
(* spuriously forever, hence the strong fairness, of the threads together: *)
(* a single one may lose every time.                                       *)
FairSpec ==
  /\ Spec
  /\ \A t \in Threads : WF_vars(Test(t) \/ Sleep(t) \/ WakeUp(t) \/ Unlock(t))
  /\ SF_vars(\E t \in Threads : ExchangeWins(t))
-----------------------------------------------------------------------------
(* At most one thread is between lock() and unlock(). *)
MutualExclusion ==
  \A t, u \in Threads : pc[t] = "critical" /\ pc[u] = "critical" => t = u

(* The word is taken exactly while somebody holds the lock, and names the  *)
(* holder of an id lock and nobody else: no lost exchange or late unlock() *)
(* changes it under the holder, the loop in unlock() of IdLock.hpp and     *)
(* TIdLock.hpp ends, and "assert worked" of the Java versions holds.       *)
WordNamesHolder ==
  /\ word # 0 <=> \E t \in Threads : pc[t] = "critical"
  /\ kind \in IdKinds =>
       \A t \in Threads : pc[t] = "critical" <=> word # 0 /\ word = id[t]

(* The strengthening that makes these inductive: ids in use are smaller    *)
(* than the counter and all different, and a thread draws its own before   *)
(* it touches the word of an id lock.                                      *)
IdsDrawnOnce ==
  /\ idCounter \in Nat \ {0} /\ id \in [Threads -> Nat]
  /\ \A t \in Threads : id[t] < idCounter
  /\ \A t, u \in Threads : id[t] = id[u] /\ id[t] # 0 => t = u
  /\ kind \in IdKinds => \A t \in Threads : pc[t] # "idle" => id[t] # 0

IInv ==
  /\ kind \in Kinds /\ word \in Nat
  /\ pc \in [Threads -> {"idle", "test", "exchange", "sleep", "critical"}]
  /\ IdsDrawnOnce
  /\ WordNamesHolder
  /\ MutualExclusion

Status(t) == CASE pc[t] = "idle"     -> "idle"
               [] pc[t] = "critical" -> "critical"
               [] OTHER              -> "waiting"

Contract == INSTANCE Mutex WITH status <- [t \in Threads |-> Status(t)]

(* The locks exclude, and a free one that somebody waits for is taken by   *)
(* somebody, even while those who lost an exchange sleep; none is fair.    *)
ImplementsMutex == Contract!LiveSpec
=============================================================================
