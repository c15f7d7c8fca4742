-------------------------- MODULE WordLocks_proofs --------------------------
(***************************************************************************)
(* Mutual exclusion of the locks around one word, for every set of threads *)
(* and all delays.  The argument: the word is 0 exactly while nobody holds *)
(* the lock, and an exchange succeeds only on 0.  That unlock() of an id   *)
(* lock finds its own id rests on ids being drawn once: a thread that is   *)
(* handed a used one could be taken for the holder.  The bounds of the     *)
(* types rest on counting the threads that have drawn one.                 *)
(***************************************************************************)
EXTENDS WordLocks, TLAPS, FiniteSetTheorems

(* The invariant holds when the lock is constructed. *)
LEMMA InitIInv == Init => IInv
  BY DEF Init, IInv, IdsDrawnOnce, WordNamesHolder, MutualExclusion, Kinds

(* A drawn id differs from every id in use: one fetch_add per thread. *)
LEMMA LockIInv ==
  ASSUME IInv, NEW t \in Threads, Lock(t)
  PROVE  IInv'
<1> USE DEF IInv, Lock, Goto
<1>1. kind' = kind /\ word' = word /\ pc' = [pc EXCEPT ![t] = LoopHead]
  OBVIOUS
<1>2. LoopHead \in {"test", "exchange"}
  BY DEF LoopHead
<1>3. pc' \in [Threads -> {"idle", "test", "exchange", "sleep", "critical"}]
  BY <1>1, <1>2
<1>4. \A u \in Threads : pc'[u] = "critical" <=> pc[u] = "critical"
  BY <1>1, <1>2
<1>5. \A u \in Threads : u # t => id'[u] = id[u] /\ pc'[u] = pc[u]
  BY <1>1 DEF GetId, ids, IdsDrawnOnce
<1>6. id[t] # 0 => id' = id
  BY DEF GetId, ids
<1>7. IdsDrawnOnce'
  <2>1. CASE kind \in IdKinds /\ id[t] = 0
    <3>1. id' = [id EXCEPT ![t] = idCounter] /\ idCounter' = idCounter + 1
      BY <2>1 DEF GetId
    <3> QED
      BY <3>1, <1>1, <1>3, <1>5 DEF IdsDrawnOnce
  <2>2. CASE ~(kind \in IdKinds /\ id[t] = 0)
    <3>1. id' = id /\ idCounter' = idCounter
      BY <2>2 DEF GetId, ids
    <3> QED
      BY <3>1, <2>2, <1>1, <1>5 DEF IdsDrawnOnce
  <2> QED
    BY <2>1, <2>2
<1>8. WordNamesHolder'
  <2>1. word' # 0 <=> \E u \in Threads : pc'[u] = "critical"
    BY <1>1, <1>4 DEF WordNamesHolder
  <2>2. ASSUME kind \in IdKinds, NEW u \in Threads
        PROVE  pc'[u] = "critical" <=> word # 0 /\ word = id'[u]
    <3>1. CASE id'[u] = id[u]
      BY <3>1, <2>2, <1>4 DEF WordNamesHolder
    <3>2. CASE id'[u] # id[u]
      <4>1. u = t /\ id[t] = 0 /\ id'[t] = idCounter
        BY <3>2, <1>5, <1>6, <2>2 DEF GetId, IdsDrawnOnce
      <4>2. word # idCounter
        BY <2>2 DEF WordNamesHolder, IdsDrawnOnce
      <4> QED
        BY <4>1, <4>2, <1>4
    <3> QED
      BY <3>1, <3>2
  <2> QED
    BY <2>1, <2>2, <1>1 DEF WordNamesHolder
<1>9. MutualExclusion'
  BY <1>4 DEF MutualExclusion
<1> QED
  BY <1>1, <1>3, <1>7, <1>8, <1>9

(* A thread gets in only when the word is 0, and then nobody is in. *)
LEMMA ExchangeWinsIInv ==
  ASSUME IInv, NEW t \in Threads, ExchangeWins(t)
  PROVE  IInv'
<1> USE DEF IInv, ExchangeWins, Goto
<1>1. \A u \in Threads : pc[u] # "critical"
  BY DEF WordNamesHolder
<1>2. pc' = [pc EXCEPT ![t] = "critical"] /\ UNCHANGED <<kind, ids>>
  OBVIOUS
<1>3. Mark(t) \in Nat \ {0} /\ (kind \in IdKinds => Mark(t) = id[t])
  BY DEF Mark, IdsDrawnOnce
<1>4. IdsDrawnOnce'
  BY <1>2 DEF IdsDrawnOnce, ids
<1>5. WordNamesHolder'
  BY <1>1, <1>2, <1>3 DEF WordNamesHolder, IdsDrawnOnce, ids
<1>6. MutualExclusion'
  BY <1>1, <1>2 DEF MutualExclusion
<1> QED
  BY <1>2, <1>3, <1>4, <1>5, <1>6

(* The holder leaves a free word behind. *)
LEMMA UnlockIInv ==
  ASSUME IInv, NEW t \in Threads, Unlock(t)
  PROVE  IInv'
<1> USE DEF IInv, Unlock, Goto
<1>1. pc' = [pc EXCEPT ![t] = "idle"] /\ word' = 0 /\ UNCHANGED <<kind, ids>>
  OBVIOUS
<1>2. \A u \in Threads : pc'[u] # "critical"
  BY <1>1 DEF MutualExclusion
<1>3. IdsDrawnOnce'
  BY <1>1 DEF IdsDrawnOnce, ids
<1>4. WordNamesHolder'
  BY <1>1, <1>2 DEF WordNamesHolder
<1>5. MutualExclusion'
  BY <1>2 DEF MutualExclusion
<1> QED
  BY <1>1, <1>3, <1>4, <1>5

(* The other steps touch neither the word nor anybody's place in or out of *)
(* the critical section.                                                   *)
LEMMA QuietIInv ==
  ASSUME IInv, NEW t \in Threads,
         Test(t) \/ ExchangeLoses(t) \/ Sleep(t) \/ WakeUp(t)
  PROVE  IInv'
<1>1. UNCHANGED <<kind, word, idCounter, id>>
  BY DEF Test, ExchangeLoses, Sleep, WakeUp, ids
<1>2. PICK label \in {"test", "exchange", "sleep"} : pc' = [pc EXCEPT ![t] = label]
  BY DEF Test, ExchangeLoses, Sleep, WakeUp, Goto, LoopHead
<1>3. pc[t] \notin {"idle", "critical"}
  BY DEF Test, ExchangeLoses, Sleep, WakeUp
<1>4. pc' \in [Threads -> {"idle", "test", "exchange", "sleep", "critical"}]
  BY <1>2 DEF IInv
<1>5. \A u \in Threads : /\ pc'[u] = "critical" <=> pc[u] = "critical"
                         /\ pc'[u] = "idle" <=> pc[u] = "idle"
  BY <1>2, <1>3 DEF IInv
<1>6. IdsDrawnOnce'
  BY <1>1, <1>5 DEF IInv, IdsDrawnOnce
<1>7. WordNamesHolder'
  BY <1>1, <1>5 DEF IInv, WordNamesHolder
<1>8. MutualExclusion'
  BY <1>5 DEF IInv, MutualExclusion
<1> QED
  BY <1>1, <1>4, <1>6, <1>7, <1>8 DEF IInv

(* Every step preserves the invariant. *)
LEMMA NextIInv == IInv /\ [Next]_vars => IInv'
<1> SUFFICES ASSUME IInv, [Next]_vars PROVE IInv'
  OBVIOUS
<1>1. CASE Next
  <2> PICK t \in Threads :
        \/ Lock(t) \/ Test(t) \/ ExchangeWins(t) \/ ExchangeLoses(t)
        \/ Sleep(t) \/ WakeUp(t) \/ Unlock(t)
    BY <1>1 DEF Next
  <2>1. CASE Lock(t)
    BY <2>1, LockIInv
  <2>2. CASE ExchangeWins(t)
    BY <2>2, ExchangeWinsIInv
  <2>3. CASE Unlock(t)
    BY <2>3, UnlockIInv
  <2>4. CASE Test(t) \/ ExchangeLoses(t) \/ Sleep(t) \/ WakeUp(t)
    BY <2>4, QuietIInv
  <2> QED
    BY <2>1, <2>2, <2>3, <2>4
<1>2. CASE UNCHANGED vars
  BY <1>2 DEF vars, IInv, IdsDrawnOnce, WordNamesHolder, MutualExclusion
<1> QED
  BY <1>1, <1>2

(* The invariant that the runs check on three threads holds for all.       *)
THEOREM Invariance == Spec => []IInv
  BY InitIInv, NextIInv, PTL DEF Spec

(* For every set of threads the word is taken exactly while somebody holds *)
(* the lock, and names the holder of an id lock (IdLock.hpp, TIdLock.hpp): *)
(* unlock() of these never loops, nor does "assert worked" fail in Java.   *)
THEOREM Holder == Spec => []WordNamesHolder
<1>1. IInv => WordNamesHolder
  BY DEF IInv
<1> QED
  BY <1>1, Invariance, PTL

(* TASLock, TTASLock, BackoffLock, IdLock and TIdLock let at most one of   *)
(* any number of threads in at a time.                                     *)
THEOREM Mutex == Spec => []MutualExclusion
<1>1. IInv => MutualExclusion
  BY DEF IInv
<1> QED
  BY <1>1, Invariance, PTL

(* Each of the five locks is a MutexType: every step is a Request, an      *)
(* Acquire or a Release of the contract, or leaves the callers alone.      *)
THEOREM ImplementsContract == Spec => Contract!Spec
<1> DEFINE status == [t \in Threads |-> Status(t)]
<1>1. Init => Contract!Init
  BY DEF Init, Contract!Init, Status
<1>2. ASSUME IInv, [Next]_vars
      PROVE  [Contract!Next]_status
  <2> USE DEF Goto
  <2>1. CASE UNCHANGED vars
    BY <2>1 DEF vars, Status
  <2>2. ASSUME NEW t \in Threads, Test(t) \/ ExchangeLoses(t) \/ Sleep(t) \/ WakeUp(t)
        PROVE  UNCHANGED status
    <3>1. PICK label \in {"test", "exchange", "sleep"} : pc' = [pc EXCEPT ![t] = label]
      BY <2>2 DEF Test, ExchangeLoses, Sleep, WakeUp, LoopHead
    <3>2. pc[t] \notin {"idle", "critical"}
      BY <2>2 DEF Test, ExchangeLoses, Sleep, WakeUp
    <3> QED BY <1>2, <3>1, <3>2 DEF Status, IInv
  <2>3. ASSUME NEW t \in Threads, Lock(t)
        PROVE  Contract!Request(t)
    BY <1>2, <2>3 DEF Lock, LoopHead, Status, IInv, Contract!Request
  <2>4. ASSUME NEW t \in Threads, ExchangeWins(t)
        PROVE  Contract!Acquire(t)
    <3>1. \A u \in Threads : pc[u] # "critical"
      BY <1>2, <2>4 DEF ExchangeWins, IInv, WordNamesHolder
    <3>2. status[t] = "waiting" /\ \A u \in Threads : status[u] # "critical"
      BY <2>4, <3>1 DEF ExchangeWins, Status
    <3>3. status' = [status EXCEPT ![t] = "critical"]
      BY <1>2, <2>4 DEF ExchangeWins, Status, IInv
    <3> QED BY <3>2, <3>3 DEF Contract!Acquire
  <2>5. ASSUME NEW t \in Threads, Unlock(t)
        PROVE  Contract!Release(t)
    BY <1>2, <2>5 DEF Unlock, Status, IInv, Contract!Release
  <2> HIDE DEF status
  <2> QED
    BY <1>2, <2>1, <2>2, <2>3, <2>4, <2>5 DEF Next, Contract!Next
<1>3. Spec => [][Contract!Next]_status
  BY <1>2, Invariance, PTL DEF Spec
<1> QED
  BY <1>1, <1>3, PTL DEF Spec, Contract!Spec
-----------------------------------------------------------------------------
(* The threads that have drawn an id, one for each value of the counter.   *)
Drawn == {t \in Threads : id[t] # 0}

Counted == IInv /\ TypeOK /\ idCounter = Cardinality(Drawn) + 1

(* The two delays of a lock and the larger one. *)
LEMMA LongestDelayBound ==
  LongestDelay \in Nat /\ MinDelay <= LongestDelay /\ MaxDelay <= LongestDelay
<1>1. \E x \in {MinDelay, MaxDelay} : \A y \in {MinDelay, MaxDelay} : x >= y
  BY Parameters
<1> QED BY <1>1, Parameters DEF LongestDelay, Max

(* BackoffLock.hpp: the limit doubles up to MaxDelay. *)
LEMMA DoubledBound ==
  ASSUME NEW limit \in Nat PROVE Doubled(limit) \in 0..LongestDelay
<1>1. 2 * limit \in Nat
  OBVIOUS
<1>2. \E x \in {MaxDelay, 2 * limit} : \A y \in {MaxDelay, 2 * limit} : x <= y
  BY <1>1, Parameters
<1>3. Doubled(limit) \in Nat /\ Doubled(limit) <= MaxDelay
  BY <1>1, <1>2, Parameters DEF Doubled, Min
<1> QED BY <1>3, LongestDelayBound, Parameters

LEMMA DrawnFinite ==
  /\ IsFiniteSet(Drawn) /\ Cardinality(Drawn) \in Nat
  /\ Cardinality(Threads) \in Nat
  /\ Threads # {} => Cardinality(Threads) >= 1
<1>1. Drawn \subseteq Threads
  BY DEF Drawn
<1>2. IsFiniteSet(Drawn) /\ Cardinality(Drawn) \in Nat
  BY <1>1, Parameters, FS_Subset, FS_CardinalityType
<1>3. Cardinality(Threads) \in Nat
  BY Parameters, FS_CardinalityType
<1>4. Threads # {} => Cardinality(Threads) # 0
  BY Parameters, FS_EmptySet
<1> QED BY <1>2, <1>3, <1>4

LEMMA InitCounted == Init => Counted
<1> SUFFICES ASSUME Init PROVE Counted
  OBVIOUS
<1>1. Drawn = {}
  BY DEF Init, Drawn
<1>2. idCounter = Cardinality(Drawn) + 1
  BY <1>1, FS_EmptySet DEF Init
<1>3. TypeOK
  BY DrawnFinite, LongestDelayBound DEF Init, TypeOK
<1> QED BY <1>2, <1>3, InitIInv DEF Counted

(* While a thread has no id the counter has not passed the number of       *)
(* threads; drawing one counts the thread.                                 *)
LEMMA GetIdCounted ==
  ASSUME Counted, NEW t \in Threads, GetId(t)
  PROVE  /\ id' \in [Threads -> 0..Cardinality(Threads)]
         /\ idCounter' \in 1..(Cardinality(Threads) + 1)
         /\ idCounter' = Cardinality(Drawn') + 1
<1>1. CASE id[t] = 0
  <2>1. id' = [id EXCEPT ![t] = idCounter] /\ idCounter' = idCounter + 1
    BY <1>1 DEF GetId
  <2>2. t \notin Drawn /\ Drawn' = Drawn \cup {t}
    BY <1>1, <2>1 DEF Drawn, Counted, TypeOK
  <2>3. Cardinality(Drawn \cup {t}) = Cardinality(Drawn) + 1
    BY <2>2, DrawnFinite, FS_AddElement
  <2>4. Drawn \cup {t} \subseteq Threads
    BY DEF Drawn
  <2>5. Cardinality(Drawn \cup {t}) <= Cardinality(Threads)
    BY <2>4, Parameters, FS_Subset
  <2>6. idCounter = Cardinality(Drawn) + 1
    BY DEF Counted
  <2>7. idCounter \in 1..Cardinality(Threads)
    BY <2>3, <2>5, <2>6, DrawnFinite
  <2>8. Cardinality(Drawn') = Cardinality(Drawn) + 1
    BY <2>2, <2>3
  <2>9. idCounter' = Cardinality(Drawn') + 1
    BY <2>1, <2>6, <2>8
  <2> QED BY <2>1, <2>7, <2>9, DrawnFinite DEF Counted, TypeOK
<1>2. CASE id[t] # 0
  <2>1. id' = id /\ idCounter' = idCounter
    BY <1>2 DEF GetId, ids
  <2>2. Drawn' = Drawn
    BY <2>1 DEF Drawn
  <2> QED BY <2>1, <2>2 DEF Counted, TypeOK
<1> QED BY <1>1, <1>2

LEMMA IdsKept ==
  ASSUME Counted, UNCHANGED ids
  PROVE  /\ id' \in [Threads -> 0..Cardinality(Threads)]
         /\ idCounter' \in 1..(Cardinality(Threads) + 1)
         /\ idCounter' = Cardinality(Drawn') + 1
<1>1. id' = id /\ idCounter' = idCounter
  BY DEF ids
<1>2. Drawn' = Drawn
  BY <1>1 DEF Drawn
<1> QED BY <1>1, <1>2 DEF Counted, TypeOK

LEMMA NextCounted == Counted /\ [Next]_vars => Counted'
<1> SUFFICES ASSUME Counted, [Next]_vars PROVE Counted'
  OBVIOUS
<1> USE DEF Goto
<1>1. IInv'
  BY NextIInv DEF Counted
<1>2. kind' \in Kinds /\ pc' \in [Threads -> {"idle", "test", "exchange", "sleep", "critical"}]
  BY <1>1 DEF IInv
<1>3. CASE UNCHANGED vars
  <2>1. UNCHANGED ids /\ word' = word /\ delayLimit' = delayLimit /\ delay' = delay
    BY <1>3 DEF vars, ids
  <2> QED BY <1>1, <1>2, <2>1, IdsKept DEF Counted, TypeOK
<1>4. ASSUME NEW t \in Threads, Lock(t) PROVE Counted'
  <2>1. GetId(t) \/ UNCHANGED ids
    BY <1>4 DEF Lock
  <2>2. word' = word /\ delay' = delay
    BY <1>4 DEF Lock
  <2>3. delayLimit' \in [Threads -> 0..LongestDelay]
    BY <1>4, LongestDelayBound, Parameters DEF Lock, Counted, TypeOK
  <2> QED BY <1>1, <1>2, <2>1, <2>2, <2>3, GetIdCounted, IdsKept DEF Counted, TypeOK
<1>5. ASSUME NEW t \in Threads, ExchangeWins(t) PROVE Counted'
  <2>1. UNCHANGED ids /\ delayLimit' = delayLimit /\ delay' = delay /\ word' = Mark(t)
    BY <1>5 DEF ExchangeWins, delays
  <2>2. Mark(t) \in 0..Cardinality(Threads)
    BY DrawnFinite DEF Mark, Counted, TypeOK
  <2> QED BY <1>1, <1>2, <2>1, <2>2, IdsKept DEF Counted, TypeOK
<1>6. ASSUME NEW t \in Threads, Test(t) \/ ExchangeLoses(t) PROVE Counted'
  <2>1. UNCHANGED ids /\ word' = word /\ delayLimit' = delayLimit /\ delay' = delay
    BY <1>6 DEF Test, ExchangeLoses, delays
  <2> QED BY <1>1, <1>2, <2>1, IdsKept DEF Counted, TypeOK
<1>7. ASSUME NEW t \in Threads, Sleep(t) PROVE Counted'
  <2>1. UNCHANGED ids /\ word' = word
    BY <1>7 DEF Sleep
  <2>2. delayLimit[t] \in Nat /\ delayLimit[t] <= LongestDelay
    BY LongestDelayBound DEF Counted, TypeOK
  <2>3. delayLimit' \in [Threads -> 0..LongestDelay]
    BY <1>7, <2>2, DoubledBound DEF Sleep, Counted, TypeOK
  <2>4. PICK d \in 0..delayLimit[t] : delay' = [delay EXCEPT ![t] = d]
    BY <1>7 DEF Sleep
  <2>5. d \in 0..LongestDelay
    BY <2>2, LongestDelayBound
  <2>6. delay' \in [Threads -> 0..LongestDelay]
    BY <2>4, <2>5 DEF Counted, TypeOK
  <2> QED BY <1>1, <1>2, <2>1, <2>3, <2>6, IdsKept DEF Counted, TypeOK
<1>8. ASSUME NEW t \in Threads, WakeUp(t) PROVE Counted'
  <2>1. UNCHANGED ids /\ word' = word /\ delayLimit' = delayLimit
    BY <1>8 DEF WakeUp
  <2>2. delay' \in [Threads -> 0..LongestDelay]
    BY <1>8, LongestDelayBound DEF WakeUp, Counted, TypeOK
  <2> QED BY <1>1, <1>2, <2>1, <2>2, IdsKept DEF Counted, TypeOK
<1>9. ASSUME NEW t \in Threads, Unlock(t) PROVE Counted'
  <2>1. UNCHANGED ids /\ word' = 0 /\ delayLimit' = delayLimit /\ delay' = delay
    BY <1>9 DEF Unlock, delays
  <2> QED BY <1>1, <1>2, <2>1, IdsKept, DrawnFinite DEF Counted, TypeOK
<1> QED BY <1>3, <1>4, <1>5, <1>6, <1>7, <1>8, <1>9 DEF Next

(* For any number of threads: an id is drawn once per thread, so that ids  *)
(* are at most the number of threads, and no BackoffLock sleeps for longer *)
(* than the larger of its two delays.                                      *)
THEOREM Typing == Spec => []TypeOK
<1>1. Counted => TypeOK
  BY DEF Counted
<1> QED BY <1>1, InitCounted, NextCounted, PTL DEF Spec
=============================================================================
