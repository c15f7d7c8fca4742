-------------------------- MODULE FifoLocks_proofs --------------------------
(***************************************************************************)
(* The locks that serve in order of arrival.  First TwoCounterLock: it     *)
(* excludes critical sections, in the order of the tickets, for any number *)
(* of threads up to the number of values of its counters, however often    *)
(* these wrap.  Then MCSLock: it serves its threads one at a time and in   *)
(* the order of their exchanges on tail, for any set of threads.  Then     *)
(* ALock: it serves any set of threads that its ring of slots has room     *)
(* for, with one token.  Last, from these, the three locks under test.     *)
(***************************************************************************)
EXTENDS FifoLocks, TLAPS, FiniteSetTheorems, SequenceTheorems

IInv == TypeOK /\ TicketsOutstanding

(* Engaged is a finite set no larger than Threads. *)
LEMMA EngagedSize ==
  /\ IsFiniteSet(Engaged)
  /\ Cardinality(Engaged) \in Nat
  /\ Cardinality(Engaged) <= MaxUsize + 1
<1>1. Engaged \subseteq Threads
  BY DEF Engaged
<1>2. IsFiniteSet(Engaged) /\ Cardinality(Engaged) <= Cardinality(Threads)
  BY <1>1, FS_Subset, WordSize
<1>3. Cardinality(Engaged) \in Nat /\ Cardinality(Threads) \in Nat
  BY <1>2, FS_CardinalityType, WordSize
<1> QED BY <1>2, <1>3, WordSize

(* A thread that is not engaged leaves room for one more ticket. *)
LEMMA RoomForOne ==
  ASSUME NEW t \in Threads, t \notin Engaged
  PROVE  Cardinality(Engaged) <= MaxUsize
<1>1. Engaged \cup {t} \subseteq Threads
  BY DEF Engaged
<1>2. /\ IsFiniteSet(Engaged \cup {t})
      /\ Cardinality(Engaged \cup {t}) <= Cardinality(Threads)
  BY <1>1, FS_Subset, WordSize
<1>3. Cardinality(Engaged \cup {t}) = Cardinality(Engaged) + 1
  BY FS_AddElement, EngagedSize
<1>4. Cardinality(Threads) \in Nat
  BY FS_CardinalityType, WordSize
<1> QED BY <1>2, <1>3, <1>4, EngagedSize, WordSize

(* The constructor: both counters at 0 and no ticket held. *)
LEMMA InitIInv == Init => IInv
<1> SUFFICES ASSUME Init PROVE IInv
  OBVIOUS
<1>1. Engaged = {}
  BY DEF Init, Engaged
<1>2. Cardinality(Engaged) = 0
  BY <1>1, FS_EmptySet
<1>3. TypeOK
  BY WordSize DEF Init, TypeOK, Usize
<1>4. TicketsOutstanding
  BY <1>1, <1>2, WordSize DEF Init, TicketsOutstanding, Ahead
<1> QED BY <1>3, <1>4 DEF IInv

(* fetch_add on ticketCounter gives t the first ticket nobody holds. *)
LEMMA TakeTicketIInv ==
  ASSUME IInv, NEW t \in Threads, TakeTicket(t) PROVE IInv'
<1> DEFINE n == Cardinality(Engaged)
<1>1. t \notin Engaged /\ Engaged' = Engaged \cup {t}
  BY DEF TakeTicket, Engaged, IInv, TypeOK
<1>2. n \in Nat /\ n <= MaxUsize /\ Cardinality(Engaged') = n + 1
  BY <1>1, EngagedSize, RoomForOne, FS_AddElement
<1>3. Ahead(ticketCounter) = n
  BY <1>2, WordSize DEF IInv, TicketsOutstanding
<1>4. TypeOK'
  BY WordSize DEF TakeTicket, IInv, TypeOK, Usize, Inc
<1>5. \A k : Ahead(k)' = Ahead(k)
  BY DEF TakeTicket, Ahead
<1>6. /\ ticket'[t] = ticketCounter
      /\ \A u \in Engaged : ticket'[u] = ticket[u]
  BY <1>1 DEF TakeTicket, IInv, TypeOK
<1>7. \A u \in Engaged : ticket[u] # ticketCounter
  BY <1>2, <1>3 DEF IInv, TicketsOutstanding
<1> HIDE DEF n
<1>8. \A u \in Engaged' : Ahead(ticket[u])' < n + 1
  <2>1. \A u \in Engaged : Ahead(ticket[u]) < n /\ Ahead(ticket[u]) \in Int
    BY WordSize DEF IInv, TicketsOutstanding, TypeOK, Usize, Ahead, Engaged, n
  <2> QED BY <1>1, <1>2, <1>3, <1>5, <1>6, <2>1
<1>9. \A u, v \in Engaged' : ticket'[u] = ticket'[v] => u = v
  BY <1>1, <1>6, <1>7 DEF IInv, TicketsOutstanding
<1>10. \/ Ahead(ticketCounter)' = n + 1
       \/ Ahead(ticketCounter)' = 0 /\ n + 1 = MaxUsize + 1
  BY <1>2, <1>3, WordSize DEF TakeTicket, Ahead, Inc, IInv, TypeOK, Usize
<1>11. \A u \in Threads : pc'[u] = "critical" => ticket'[u] = currentTicket'
  BY DEF TakeTicket, IInv, TypeOK, TicketsOutstanding
<1> QED BY <1>2, <1>4, <1>8, <1>9, <1>10, <1>11 DEF IInv, TicketsOutstanding

(* Leaving the spin loop changes neither the tickets nor who holds one. *)
LEMMA StopSpinningIInv ==
  ASSUME IInv, NEW t \in Threads, StopSpinning(t) PROVE IInv'
<1>1. Engaged' = Engaged
  BY DEF StopSpinning, Engaged, IInv, TypeOK
<1>2. TypeOK'
  BY DEF StopSpinning, IInv, TypeOK
<1>3. \A k : Ahead(k)' = Ahead(k)
  BY DEF StopSpinning, Ahead
<1>4. TicketsOutstanding'
  BY <1>1, <1>3 DEF StopSpinning, IInv, TypeOK, TicketsOutstanding
<1> QED BY <1>2, <1>4 DEF IInv

(* unlock() moves every other ticket one place forward. *)
LEMMA UnlockIInv ==
  ASSUME IInv, NEW t \in Threads, Unlock(t) PROVE IInv'
<1> DEFINE n == Cardinality(Engaged)
<1>1. t \in Engaged /\ Engaged' = Engaged \ {t} /\ ticket[t] = currentTicket
  BY DEF Unlock, Engaged, IInv, TypeOK, TicketsOutstanding
<1>2. n \in Nat /\ n <= MaxUsize + 1 /\ Cardinality(Engaged') = n - 1
  BY <1>1, EngagedSize, FS_RemoveElement
<1>3. n > 0
  BY <1>1, <1>2, EngagedSize, FS_EmptySet
<1> HIDE DEF n
<1>4. TypeOK'
  BY WordSize DEF Unlock, IInv, TypeOK, Usize, Inc
<1>5. \A k \in Usize : k # currentTicket => Ahead(k)' = Ahead(k) - 1
  BY WordSize DEF Unlock, Ahead, Inc, IInv, TypeOK, Usize
<1>6. \A u \in Engaged' : ticket[u] # currentTicket /\ ticket[u] \in Usize
  BY <1>1 DEF IInv, TicketsOutstanding, TypeOK, Engaged
<1>7. \A u \in Engaged' : Ahead(ticket[u])' < n - 1
  <2>1. \A u \in Engaged : Ahead(ticket[u]) < n /\ Ahead(ticket[u]) \in Int
    BY WordSize DEF IInv, TicketsOutstanding, TypeOK, Usize, Ahead, Engaged, n
  <2>2. ticket' = ticket
    BY DEF Unlock
  <2> QED BY <1>1, <1>2, <1>5, <1>6, <2>1, <2>2
<1>8. \A u, v \in Engaged' : ticket'[u] = ticket'[v] => u = v
  BY <1>1 DEF Unlock, IInv, TicketsOutstanding
<1>9. \/ Ahead(ticketCounter)' = n - 1
      \/ Ahead(ticketCounter)' = 0 /\ n - 1 = MaxUsize + 1
  BY <1>2, <1>3, WordSize
  DEF Unlock, IInv, TicketsOutstanding, TypeOK, Usize, Ahead, Inc, n
<1>10. \A u \in Threads : pc'[u] = "critical" => ticket'[u] = currentTicket'
  <2> SUFFICES ASSUME NEW u \in Threads, pc'[u] = "critical" PROVE FALSE
    OBVIOUS
  <2>1. pc[u] = "critical" /\ u # t /\ u \in Engaged
    BY DEF Unlock, IInv, TypeOK, Engaged
  <2> QED BY <1>1, <2>1 DEF IInv, TicketsOutstanding
<1> QED BY <1>2, <1>4, <1>7, <1>8, <1>9, <1>10 DEF IInv, TicketsOutstanding

(* One step of any thread preserves the invariant. *)
LEMMA NextIInv == IInv /\ [Next]_vars => IInv'
<1> SUFFICES ASSUME IInv, [Next]_vars PROVE IInv'
  OBVIOUS
<1>1. CASE UNCHANGED vars
  BY <1>1 DEF vars, IInv, TypeOK, TicketsOutstanding, Engaged, Ahead
<1>2. CASE Next
  <2> PICK t \in Threads : TakeTicket(t) \/ Step(t)
    BY <1>2 DEF Next
  <2>1. CASE TakeTicket(t)    BY <2>1, TakeTicketIInv
  <2>2. CASE StopSpinning(t)  BY <2>2, StopSpinningIInv
  <2>3. CASE Unlock(t)        BY <2>3, UnlockIInv
  <2> QED BY <2>1, <2>2, <2>3 DEF Step
<1> QED BY <1>1, <1>2

(* The tickets outstanding are the next ones to be served, each held once, *)
(* in every state: fetch_add on the two words never loses or repeats one.  *)
THEOREM TicketsInvariant == Spec => []TicketsOutstanding
<1>1. Init => IInv
  BY InitIInv
<1>2. IInv /\ [Next]_vars => IInv'
  BY NextIInv
<1>3. IInv => TicketsOutstanding
  BY DEF IInv
<1> QED BY <1>1, <1>2, <1>3, PTL DEF Spec

(* The counters stay words and every thread is in one of the lock's states. *)
THEOREM Typing == Spec => []TypeOK
<1>1. IInv => TypeOK
  BY DEF IInv
<1> QED BY <1>1, InitIInv, NextIInv, PTL DEF Spec

(* At most one thread is between lock() and unlock() of the ticket lock.   *)
THEOREM Mutex == Spec => []MutualExclusion
<1>1. TicketsOutstanding => MutualExclusion
  BY DEF TicketsOutstanding, MutualExclusion, Engaged
<1> QED BY <1>1, TicketsInvariant, PTL

-----------------------------------------------------------------------------
(* No two engaged threads have one place. *)
LEMMA PlacesDiffer ==
  ASSUME IInv, NEW t \in Engaged, NEW u \in Engaged,
         Ahead(ticket[t]) = Ahead(ticket[u])
  PROVE  t = u
<1>1. /\ currentTicket \in Usize /\ ticket[t] \in Usize /\ ticket[u] \in Usize
  BY DEF IInv, TypeOK, Engaged
<1>2. ticket[t] = ticket[u]
  BY <1>1, WordSize DEF Usize, Ahead
<1> QED BY <1>2 DEF IInv, TicketsOutstanding

(* The tickets held are as many as the places 0, 1, ... behind the one     *)
(* being served, so every place is taken by one thread.                    *)
LEMMA EveryPlaceTaken ==
  ASSUME IInv, NEW k \in 0..(Cardinality(Engaged) - 1)
  PROVE  \E t \in Engaged : Ahead(ticket[t]) = k
<1> DEFINE n == Cardinality(Engaged)
           place == [t \in Engaged |-> Ahead(ticket[t])]
<1>1. n \in Nat /\ IsFiniteSet(Engaged)
  BY EngagedSize
<1>2. IsFiniteSet(0..(n - 1)) /\ Cardinality(0..(n - 1)) = n
  BY <1>1, FS_Interval
<1>3. \A t \in Engaged : ticket[t] \in Usize /\ Ahead(ticket[t]) \in 0..(n - 1)
  BY <1>1, WordSize DEF IInv, TypeOK, TicketsOutstanding, Engaged, Usize, Ahead
<1>4. \A t, u \in Engaged : Ahead(ticket[t]) = Ahead(ticket[u]) => t = u
  BY PlacesDiffer
<1>5. place \in Injection(Engaged, 0..(n - 1))
  BY <1>3, <1>4 DEF Injection, IsInjective
<1> HIDE DEF place, n
<1>6. place \in Surjection(Engaged, 0..(n - 1))
  BY <1>1, <1>2, <1>5, FS_Injection DEF n
<1>7. PICK t \in Engaged : place[t] = k
  BY <1>6 DEF Surjection, n
<1> QED BY <1>7 DEF place

(* Functions that agree everywhere are equal. *)
LEMMA SameFunction ==
  ASSUME NEW S, NEW R, NEW f \in [S -> R], NEW g \in [S -> R],
         \A x \in S : f[x] = g[x]
  PROVE  f = g
OBVIOUS

(* Every engaged thread at the place its ticket gives it. *)
ByPlaces(q) ==
  /\ q \in [1..Cardinality(Engaged) -> Engaged]
  /\ \A i \in 1..Cardinality(Engaged) : Ahead(ticket[q[i]]) = i - 1

(* Queue is such a sequence, and there is no other. *)
LEMMA QueueByPlaces ==
  IInv => /\ ByPlaces(Queue)
          /\ \A q : ByPlaces(q) => q = Queue
<1> SUFFICES ASSUME IInv PROVE /\ ByPlaces(Queue)
                               /\ \A q : ByPlaces(q) => q = Queue
  OBVIOUS
<1> PICK n : n = Cardinality(Engaged)
  OBVIOUS
<1> PICK p : p = [i \in 1..n |-> CHOOSE t \in Engaged : Ahead(ticket[t]) = i - 1]
  OBVIOUS
<1>1. n \in Nat
  BY EngagedSize
<1>2. ASSUME NEW i \in 1..n
      PROVE  p[i] \in Engaged /\ Ahead(ticket[p[i]]) = i - 1
  <2>1. i - 1 \in 0..(n - 1)
    BY <1>1
  <2>2. \E t \in Engaged : Ahead(ticket[t]) = i - 1
    BY <2>1, EveryPlaceTaken
  <2> QED BY <2>2
<1>3. p \in [1..n -> Engaged]
  BY <1>2
<1>4. ByPlaces(p)
  BY <1>2, <1>3 DEF ByPlaces
<1>5. ASSUME NEW q, ByPlaces(q) PROVE q = p /\ q \in SetToSeqs(Engaged) /\ Len(q) = n
  <2>1. q \in [1..n -> Engaged] /\ \A i \in 1..n : Ahead(ticket[q[i]]) = i - 1
    BY <1>5 DEF ByPlaces
  <2>2. \A i \in 1..n : q[i] = p[i]
    BY <1>2, <2>1, PlacesDiffer
  <2>3. q = p
    BY <1>3, <2>1, <2>2, SameFunction
  <2>4. q \in SetToSeqs(Engaged)
    BY <1>1, <2>1 DEF SetToSeqs
  <2>5. Len(q) = n
    BY <1>1, <2>1
  <2> QED BY <2>3, <2>4, <2>5
<1>6. ASSUME NEW q \in SetToSeqs(Engaged),
             \A i \in 1..Len(q) : Ahead(ticket[q[i]]) = i - 1
      PROVE  ByPlaces(q)
  <2>1. q \in [1..n -> Engaged]
    BY DEF SetToSeqs
  <2>2. Len(q) = n
    BY <1>1, <2>1
  <2> QED BY <1>6, <2>1, <2>2 DEF ByPlaces
<1>7. Queue = p
  <2>1. p \in SetToSeqs(Engaged) /\ \A i \in 1..Len(p) : Ahead(ticket[p[i]]) = i - 1
    BY <1>2, <1>4, <1>5
  <2>2. \A q \in SetToSeqs(Engaged) :
          (\A i \in 1..Len(q) : Ahead(ticket[q[i]]) = i - 1) => q = p
    BY <1>5, <1>6
  <2> QED BY <2>1, <2>2 DEF Queue
<1> QED BY <1>4, <1>5, <1>7

(* The same after a step. *)
LEMMA NextQueueByPlaces ==
  IInv' => \A q : ByPlaces(q)' => q = Queue'
<1>1. IInv => \A q : ByPlaces(q) => q = Queue
  BY QueueByPlaces
<1>2. (IInv => \A q : ByPlaces(q) => q = Queue)'
  BY <1>1, PTL
<1> QED BY <1>2

(* What Queue is, with its length and elements. *)
LEMMA QueueShape ==
  ASSUME IInv
  PROVE  /\ Queue \in Seq(Engaged) /\ Len(Queue) = Cardinality(Engaged)
         /\ \A i \in 1..Len(Queue) : Queue[i] \in Engaged /\ Ahead(ticket[Queue[i]]) = i - 1
         /\ \A t \in Engaged : \E i \in 1..Len(Queue) : Queue[i] = t
<1> PICK n : n = Cardinality(Engaged)
  OBVIOUS
<1>1. n \in Nat
  BY EngagedSize
<1>2. Queue \in [1..n -> Engaged] /\ \A i \in 1..n : Ahead(ticket[Queue[i]]) = i - 1
  BY QueueByPlaces DEF ByPlaces
<1>3. Queue \in Seq(Engaged) /\ Len(Queue) = n
  BY <1>1, <1>2
<1>4. ASSUME NEW t \in Engaged PROVE \E i \in 1..n : Queue[i] = t
  <2>1. Ahead(ticket[t]) < n /\ Ahead(ticket[t]) \in Nat
    BY WordSize DEF IInv, TypeOK, TicketsOutstanding, Engaged, Usize, Ahead
  <2>2. Ahead(ticket[t]) + 1 \in 1..n
    BY <1>1, <2>1
  <2>3. Queue[Ahead(ticket[t]) + 1] = t
    BY <1>2, <2>1, <2>2, PlacesDiffer
  <2> QED BY <2>2, <2>3
<1> QED BY <1>2, <1>3, <1>4

(* fetch_add on ticketCounter takes the last place of the queue. *)
LEMMA ArriveRefines ==
  ASSUME IInv, NEW t \in Threads, TakeTicket(t) PROVE Fifo!Arrive(t)
<1> PICK n : n = Cardinality(Engaged)
  OBVIOUS
<1> PICK r : r = Append(Queue, t)
  OBVIOUS
<1>1. t \notin Engaged /\ Engaged' = Engaged \cup {t}
  BY DEF TakeTicket, Engaged, IInv, TypeOK
<1>2. n \in Nat /\ n <= MaxUsize /\ Cardinality(Engaged') = n + 1
  BY <1>1, EngagedSize, RoomForOne, FS_AddElement
<1>3. Ahead(ticketCounter) = n
  BY <1>2, WordSize DEF IInv, TicketsOutstanding
<1>4. /\ Queue \in Seq(Engaged) /\ Len(Queue) = n
      /\ \A i \in 1..n : Queue[i] \in Engaged /\ Ahead(ticket[Queue[i]]) = i - 1
  BY QueueShape
<1>5. /\ Queue \in Seq(Engaged') /\ t \in Engaged'
  BY <1>1, <1>4, SeqMonotonic
<1>6. /\ r \in Seq(Engaged') /\ Len(r) = n + 1
      /\ \A i \in 1..n : r[i] = Queue[i]
      /\ r[n + 1] = t
  BY <1>2, <1>4, <1>5, AppendProperties
<1>7. \A k : Ahead(k)' = Ahead(k)
  BY DEF TakeTicket, Ahead
<1>8. /\ ticket'[t] = ticketCounter
      /\ \A u \in Engaged : ticket'[u] = ticket[u]
  BY <1>1 DEF TakeTicket, IInv, TypeOK
<1>9. ByPlaces(r)'
  <2>1. r \in [1..(n + 1) -> Engaged']
    BY <1>6, LenProperties
  <2>2. \A i \in 1..n : Ahead(ticket[r[i]])' = i - 1
    BY <1>4, <1>6, <1>7, <1>8
  <2>3. Ahead(ticket[r[n + 1]])' = n
    BY <1>3, <1>6, <1>7, <1>8
  <2>4. \A i \in 1..(n + 1) : Ahead(ticket[r[i]])' = i - 1
    <3>1. 1..(n + 1) = 1..n \cup {n + 1} /\ (n + 1) - 1 = n
      BY <1>2
    <3> QED BY <2>2, <2>3, <3>1
  <2> QED BY <1>2, <2>1, <2>4 DEF ByPlaces
<1>10. Queue' = r
  BY <1>9, TakeTicketIInv, NextQueueByPlaces
<1>11. UNCHANGED (\E u \in Threads : pc[u] = "critical")
  BY DEF TakeTicket, IInv, TypeOK
<1>12. ~ \E i \in 1..Len(Queue) : Queue[i] = t
  BY <1>1, <1>4
<1> QED BY <1>10, <1>11, <1>12 DEF Fifo!Arrive, Fifo!InQueue

(* The thread whose ticket is served is the first of the queue, which then *)
(* enters.                                                                 *)
LEMMA EnterRefines ==
  ASSUME IInv, NEW t \in Threads, StopSpinning(t) PROVE Fifo!Enter(t)
<1>1. t \in Engaged /\ Engaged' = Engaged /\ ticket[t] = currentTicket
  BY DEF StopSpinning, Engaged, IInv, TypeOK
<1>2. currentTicket \in Nat /\ Ahead(currentTicket) = 0
  BY WordSize DEF IInv, TypeOK, Usize, Ahead
<1>3. PICK i \in 1..Len(Queue) : Queue[i] = t /\ Ahead(ticket[Queue[i]]) = i - 1
  BY <1>1, QueueShape
<1>4. Len(Queue) \in Nat /\ Queue \in Seq(Engaged)
  BY QueueShape, LenProperties
<1>5. i = 1
  BY <1>1, <1>2, <1>3, <1>4
<1>6. Queue # <<>> /\ Head(Queue) = t
  BY <1>3, <1>4, <1>5
<1>7. Queue' = Queue
  BY <1>1 DEF StopSpinning, Queue, Ahead
<1>8. ~ \E u \in Threads : pc[u] = "critical"
  BY <1>1 DEF StopSpinning, IInv, TicketsOutstanding, Engaged
<1>9. \E u \in Threads : pc'[u] = "critical"
  BY DEF StopSpinning, IInv, TypeOK
<1>10. (\E u \in Threads : pc[u] = "critical")' = TRUE
  BY <1>9
<1> QED BY <1>6, <1>7, <1>8, <1>10 DEF Fifo!Enter

(* The holder has the first place and leaves it: the others move up. *)
LEMMA LeaveRefines ==
  ASSUME IInv, NEW t \in Threads, Unlock(t) PROVE Fifo!Leave(t)
<1> PICK n : n = Cardinality(Engaged)
  OBVIOUS
<1> PICK r : r = Tail(Queue)
  OBVIOUS
<1>1. t \in Engaged /\ Engaged' = Engaged \ {t} /\ ticket[t] = currentTicket
  BY DEF Unlock, Engaged, IInv, TypeOK, TicketsOutstanding
<1>2. n \in Nat /\ Cardinality(Engaged') = n - 1
  BY <1>1, EngagedSize, FS_RemoveElement
<1>3. /\ Queue \in Seq(Engaged) /\ Len(Queue) = n
      /\ \A i \in 1..n : Queue[i] \in Engaged /\ Ahead(ticket[Queue[i]]) = i - 1
  BY QueueShape
<1>4. n > 0 /\ Queue[1] = t /\ Queue # <<>> /\ Head(Queue) = t
  <2>1. currentTicket \in Nat /\ Ahead(currentTicket) = 0
    BY WordSize DEF IInv, TypeOK, Usize, Ahead
  <2>2. PICK i \in 1..n : Queue[i] = t /\ Ahead(ticket[Queue[i]]) = i - 1
    BY <1>1, <1>3, QueueShape
  <2>3. i = 1
    BY <1>1, <1>2, <2>1, <2>2
  <2> QED BY <1>2, <1>3, <2>2, <2>3
<1>5. /\ r \in Seq(Engaged) /\ Len(r) = n - 1
      /\ \A i \in 1..(n - 1) : r[i] = Queue[i + 1]
  BY <1>2, <1>3, <1>4, HeadTailProperties
<1>6. \A k \in Usize : k # currentTicket => Ahead(k)' = Ahead(k) - 1
  BY WordSize DEF Unlock, Ahead, Inc, IInv, TypeOK, Usize
<1>7. \A u \in Engaged' : ticket[u] # currentTicket /\ ticket[u] \in Usize
  BY <1>1 DEF IInv, TicketsOutstanding, TypeOK, Engaged
<1>8. ByPlaces(r)'
  <2>1. ASSUME NEW i \in 1..(n - 1)
        PROVE  r[i] \in Engaged' /\ Ahead(ticket[r[i]])' = i - 1
    <3>1. i + 1 \in 1..n /\ (i + 1) - 1 = i /\ i # 0
      BY <1>2
    <3>2. r[i] \in Engaged /\ Ahead(ticket[r[i]]) = i
      BY <1>3, <1>5, <3>1
    <3>3. r[i] # t
      <4>1. Ahead(ticket[t]) = 0
        <5>1. 1 \in 1..n
          BY <1>2, <1>4
        <5> QED BY <1>3, <1>4, <5>1
      <4> QED BY <3>1, <3>2, <4>1
    <3>4. r[i] \in Engaged' /\ ticket'[r[i]] = ticket[r[i]]
      BY <1>1, <3>2, <3>3 DEF Unlock
    <3>5. Ahead(ticket[r[i]])' = Ahead(ticket[r[i]]) - 1
      BY <1>6, <1>7, <3>4
    <3> QED BY <1>2, <3>2, <3>4, <3>5
  <2>2. r \in [1..(n - 1) -> Engaged']
    BY <1>5, <2>1, LenProperties
  <2> QED BY <1>2, <2>1, <2>2 DEF ByPlaces
<1>9. Queue' = r
  BY <1>8, UnlockIInv, NextQueueByPlaces
<1>10. \E u \in Threads : pc[u] = "critical"
  BY DEF Unlock
<1>11. ~ \E u \in Threads : pc'[u] = "critical"
  BY <1>1 DEF Unlock, IInv, TypeOK, TicketsOutstanding, Engaged
<1>12. (\E u \in Threads : pc[u] = "critical")' = FALSE
  BY <1>11
<1> QED BY <1>4, <1>9, <1>10, <1>12 DEF Fifo!Leave

(* Threads enter the ticket lock in the order in which they drew their     *)
(* tickets, one at a time, across the wrap of both counters.               *)
THEOREM ServesInOrder == Spec => Fifo!Spec
<1>1. Init => Fifo!Init
  <2> SUFFICES ASSUME Init PROVE Fifo!Init
    OBVIOUS
  <2>1. Engaged = {}
    BY DEF Init, Engaged
  <2>2. Queue \in Seq(Engaged) /\ Len(Queue) = 0
    BY <2>1, InitIInv, QueueShape, FS_EmptySet
  <2>3. Queue = <<>>
    BY <2>2, EmptySeq
  <2>4. ~ \E t \in Threads : pc[t] = "critical"
    BY DEF Init
  <2> QED BY <2>3, <2>4 DEF Fifo!Init
<1>2. IInv /\ [Next]_vars => [Fifo!Next]_Fifo!vars
  <2> SUFFICES ASSUME IInv, [Next]_vars PROVE Fifo!Next \/ UNCHANGED Fifo!vars
    OBVIOUS
  <2>1. CASE UNCHANGED vars
    BY <2>1 DEF vars, Fifo!vars, Queue, Engaged, Ahead
  <2>2. ASSUME NEW t \in Threads, TakeTicket(t) \/ Step(t) PROVE Fifo!Next
    BY <2>2, ArriveRefines, EnterRefines, LeaveRefines DEF Step, Fifo!Next
  <2> QED BY <2>1, <2>2 DEF Next
<1>3. Spec => []IInv
  BY InitIInv, NextIInv, PTL DEF Spec
<1> QED BY <1>1, <1>2, <1>3, PTL DEF Spec, Fifo!Spec
-----------------------------------------------------------------------------
(* The instances of MCSLock and ALock have library operators of their own. *)
LEMMA SameLibrary ==
  /\ Array!IsFiniteSet(QueueThreads) = IsFiniteSet(QueueThreads)
  /\ \A S : MCS!Cardinality(S) = Cardinality(S) /\ Array!Cardinality(S) = Cardinality(S)
  /\ \A S : MCS!SetToSeqs(S) = SetToSeqs(S) /\ Array!SetToSeqs(S) = SetToSeqs(S)
<1>1. \A S : MCS!Cardinality(S) = Cardinality(S) /\ Array!Cardinality(S) = Cardinality(S)
  BY DEF Cardinality, MCS!Cardinality, Array!Cardinality
<1>2. \A S : MCS!SetToSeqs(S) = SetToSeqs(S) /\ Array!SetToSeqs(S) = SetToSeqs(S)
  BY <1>1 DEF SetToSeqs, MCS!SetToSeqs, Array!SetToSeqs
<1> QED BY <1>1, <1>2 DEF IsFiniteSet, Array!IsFiniteSet

(* MCSLock, for the object under test and any set of threads.             *)
LEMMA NullIsNoNode == NoNode \notin QueueThreads
BY LocksParameters DEF MCS!NoNodeDistinct

(* The engaged threads stand in the queue q, each once, and tail names the *)
(* last of them.                                                           *)
Lined(q) ==
  /\ \A i, j \in 1..Len(q) : q[i] = q[j] => i = j
  /\ \A t \in QueueThreads : t \in MCS!Engaged <=> \E i \in 1..Len(q) : q[i] = t
  /\ tail = IF Len(q) = 0 THEN NoNode ELSE q[Len(q)]

(* The first holds the lock or may enter, and gives up tail or hands over  *)
(* rightly.                                                                *)
FirstMayEnter(q) ==
  Len(q) > 0 =>
    /\ \/ q[1] \in MCS!Holding
       \/ mcsPc[q[1]] = "queued" /\ pred[q[1]] = NoNode
       \/ mcsPc[q[1]] = "spin"
    /\ ~locked[q[1]]
    /\ mcsPc[q[1]] \in {"awaitLink", "handOver"} => Len(q) > 1

(* Every other waits for the one before it, which has a link to it or will *)
(* get one; nobody has a link to anybody else.                             *)
OthersWait(q) ==
  /\ \A i \in 2..Len(q) :
       /\ mcsPc[q[i]] \in {"queued", "link", "spin"}
       /\ pred[q[i]] = q[i - 1]
       /\ locked[q[i]] <=> mcsPc[q[i]] # "queued"
       /\ next[q[i - 1]] = IF mcsPc[q[i]] = "spin" THEN q[i] ELSE NoNode
  /\ Len(q) > 0 => next[q[Len(q)]] = NoNode

(* Nobody writes to the node of a thread that is not engaged. *)
OutsideAsNew ==
  \A t \in QueueThreads \ MCS!Engaged :
    /\ ~locked[t]
    /\ mcsPc[t] = "idle" => next[t] = NoNode

QueueInv(q) == MCS!TypeOK /\ Lined(q) /\ FirstMayEnter(q) /\ OthersWait(q) /\ OutsideAsNew

MCSInv == \E q \in Seq(QueueThreads) : QueueInv(q)
-----------------------------------------------------------------------------
(* The constructor: nobody is queued. *)
LEMMA InitQueueInv == MCS!Init => QueueInv(<<>>)
<1> SUFFICES ASSUME MCS!Init PROVE QueueInv(<<>>)
  OBVIOUS
<1>1. MCS!Engaged = {} /\ Len(<<>>) = 0
  BY DEF MCS!Init, MCS!Engaged, MCS!Waiting, MCS!Holding
<1>2. MCS!TypeOK
  BY DEF MCS!Init, MCS!TypeOK, MCS!NodeOrNull
<1>3. Lined(<<>>) /\ FirstMayEnter(<<>>) /\ OthersWait(<<>>)
  BY <1>1 DEF MCS!Init, Lined, FirstMayEnter, OthersWait
<1>4. OutsideAsNew
  BY DEF MCS!Init, OutsideAsNew
<1> QED BY <1>2, <1>3, <1>4 DEF QueueInv

(* The exchange on tail puts t behind the last of the queue. *)
LEMMA ExchangeQueueInv ==
  ASSUME NEW q \in Seq(QueueThreads), QueueInv(q), NEW t \in QueueThreads, MCS!Exchange(t)
  PROVE  Append(q, t) \in Seq(QueueThreads) /\ QueueInv(Append(q, t))'
<1> DEFINE r == Append(q, t)
<1> USE DEF MCS!Exchange, MCS!Goto, QueueInv, MCS!TypeOK
<1>1. /\ r \in Seq(QueueThreads) /\ Len(r) = Len(q) + 1 /\ Len(q) \in Nat
      /\ \A i \in 1..Len(q) : r[i] = q[i] /\ q[i] \in QueueThreads
      /\ r[Len(q) + 1] = t
  BY AppendProperties, ElementOfSeq
<1> HIDE DEF r
<1>2. /\ t \notin MCS!Engaged /\ MCS!Engaged' = MCS!Engaged \cup {t}
      /\ MCS!Holding' = MCS!Holding
  BY DEF MCS!Engaged, MCS!Waiting, MCS!Holding
<1>3. \A i \in 1..Len(q) : q[i] # t
  BY <1>1, <1>2 DEF Lined
<1>4. MCS!TypeOK'
  BY DEF MCS!NodeOrNull
<1>5. Lined(r)'
  <2>1. \A i, j \in 1..Len(r) : r[i] = r[j] => i = j
    BY <1>1, <1>3 DEF Lined
  <2>2. \A u \in QueueThreads : u \in MCS!Engaged' <=> \E i \in 1..Len(r) : r[i] = u
    <3> SUFFICES ASSUME NEW u \in QueueThreads
                 PROVE  u \in MCS!Engaged' <=> \E i \in 1..Len(r) : r[i] = u
      OBVIOUS
    <3>1. u \in MCS!Engaged' <=> u = t \/ \E i \in 1..Len(q) : q[i] = u
      BY <1>2 DEF Lined
    <3>2. 1..Len(r) = 1..Len(q) \cup {Len(q) + 1}
      BY <1>1
    <3> QED BY <1>1, <3>1, <3>2
  <2>3. tail' = r[Len(r)] /\ Len(r) # 0
    BY <1>1
  <2> QED BY <2>1, <2>2, <2>3 DEF Lined
<1>6. FirstMayEnter(r)'
  <2>1. CASE Len(q) = 0
    BY <1>1, <1>2, <2>1 DEF FirstMayEnter, Lined, OutsideAsNew
  <2>2. CASE Len(q) > 0
    BY <1>1, <1>2, <1>3, <2>2 DEF FirstMayEnter
  <2> QED BY <1>1, <2>1, <2>2
<1>7. OthersWait(r)'
  <2>1. ASSUME NEW i \in 2..Len(r)
        PROVE  /\ mcsPc'[r[i]] \in {"queued", "link", "spin"}
               /\ pred'[r[i]] = r[i - 1]
               /\ locked'[r[i]] <=> mcsPc'[r[i]] # "queued"
               /\ next'[r[i - 1]] = IF mcsPc'[r[i]] = "spin" THEN r[i] ELSE NoNode
    <3>1. CASE i = Len(r)
      <4>1. r[i] = t /\ r[i - 1] = q[Len(q)] /\ Len(q) > 0
        BY <1>1, <3>1
      <4> QED BY <1>2, <4>1 DEF Lined, OthersWait, OutsideAsNew
    <3>2. CASE i \in 2..Len(q)
      <4>1. r[i] = q[i] /\ r[i - 1] = q[i - 1] /\ q[i] # t
        BY <1>1, <1>3, <3>2
      <4> QED BY <1>1, <3>2, <4>1 DEF OthersWait
    <3> QED BY <1>1, <3>1, <3>2
  <2>2. next'[r[Len(r)]] = NoNode
    BY <1>1, <1>2 DEF OutsideAsNew
  <2> QED BY <2>1, <2>2 DEF OthersWait
<1>8. OutsideAsNew'
  BY <1>2 DEF OutsideAsNew
<1> QED BY <1>1, <1>4, <1>5, <1>6, <1>7, <1>8 DEF r

(* An engaged thread is the first of the queue, or has one before it. *)
LEMMA PlaceInQueue ==
  ASSUME NEW q \in Seq(QueueThreads), QueueInv(q), NEW t \in MCS!Engaged
  PROVE  /\ Len(q) > 0
         /\ q[1] = t \/ \E i \in 2..Len(q) : q[i] = t /\ q[i - 1] # t
         /\ t \in MCS!Holding => q[1] = t
<1>1. PICK i \in 1..Len(q) : q[i] = t
  BY DEF QueueInv, Lined, MCS!Engaged, MCS!Waiting, MCS!Holding
<1>2. Len(q) \in Nat
  BY LenProperties
<1>3. CASE i = 1
  BY <1>1, <1>2, <1>3
<1>4. CASE i \in 2..Len(q)
  <2>1. t \notin MCS!Holding
    BY <1>1, <1>4 DEF QueueInv, OthersWait, MCS!Holding
  <2>2. q[i - 1] # t
    BY <1>1, <1>2, <1>4 DEF QueueInv, Lined
  <2> QED BY <1>1, <1>2, <1>4, <2>1, <2>2
<1> QED BY <1>2, <1>3, <1>4

(* Only the first leaves lock(), and only when nobody holds it. *)
LEMMA FirstEnters ==
  ASSUME NEW q \in Seq(QueueThreads), QueueInv(q), NEW t \in QueueThreads,
         MCS!NoPredecessor(t) \/ MCS!StopSpinning(t)
  PROVE  QueueInv(q)' /\ Len(q) > 0 /\ q[1] = t /\ MCS!Holding = {}
<1> USE DEF MCS!NoPredecessor, MCS!StopSpinning, MCS!Goto, QueueInv, MCS!TypeOK
<1>1. t \in MCS!Engaged /\ t \notin MCS!Holding /\ MCS!Engaged' = MCS!Engaged
  BY DEF MCS!Engaged, MCS!Waiting, MCS!Holding
<1>2. Len(q) \in Nat /\ \A i \in 1..Len(q) : q[i] \in QueueThreads
  BY LenProperties, ElementOfSeq
<1>3. Len(q) > 0 /\ q[1] = t
  <2>1. \A i \in 2..Len(q) : q[i] # t
    BY <1>2, NullIsNoNode DEF OthersWait
  <2> QED BY <1>1, <2>1, PlaceInQueue
<1>4. MCS!Holding = {}
  BY <1>1, <1>3, PlaceInQueue DEF MCS!Engaged
<1>5. MCS!TypeOK' /\ Lined(q)' /\ OutsideAsNew'
  BY <1>1 DEF Lined, OutsideAsNew
<1>6. FirstMayEnter(q)'
  BY <1>3 DEF FirstMayEnter, MCS!Holding
<1>7. OthersWait(q)'
  <2>1. \A i \in 2..Len(q) : q[i] # t
    BY <1>2, <1>3 DEF Lined
  <2> QED BY <1>2, <2>1 DEF OthersWait
<1> QED BY <1>3, <1>4, <1>5, <1>6, <1>7

(* A thread that found somebody in tail locks its own node. *)
LEMMA SetLockedQueueInv ==
  ASSUME NEW q \in Seq(QueueThreads), QueueInv(q), NEW t \in QueueThreads, MCS!SetLocked(t)
  PROVE  QueueInv(q)'
<1> USE DEF MCS!SetLocked, MCS!Goto, QueueInv, MCS!TypeOK
<1>1. t \in MCS!Engaged /\ MCS!Engaged' = MCS!Engaged /\ MCS!Holding' = MCS!Holding
  BY DEF MCS!Engaged, MCS!Waiting, MCS!Holding
<1>2. Len(q) \in Nat /\ \A i \in 1..Len(q) : q[i] \in QueueThreads
  BY LenProperties, ElementOfSeq
<1>3. Len(q) > 0 /\ q[1] # t
  BY <1>1, PlaceInQueue DEF FirstMayEnter, MCS!Holding
<1>4. MCS!TypeOK' /\ Lined(q)' /\ OutsideAsNew'
  BY <1>1 DEF Lined, OutsideAsNew
<1>5. FirstMayEnter(q)'
  BY <1>1, <1>2, <1>3 DEF FirstMayEnter
<1>6. OthersWait(q)'
  BY <1>2 DEF OthersWait
<1> QED BY <1>4, <1>5, <1>6

(* The link goes into the node of the one before t, and nowhere else. *)
LEMMA LinkQueueInv ==
  ASSUME NEW q \in Seq(QueueThreads), QueueInv(q), NEW t \in QueueThreads, MCS!Link(t)
  PROVE  QueueInv(q)'
<1> USE DEF MCS!Link, MCS!Goto, QueueInv, MCS!TypeOK
<1>1. t \in MCS!Engaged /\ MCS!Engaged' = MCS!Engaged /\ MCS!Holding' = MCS!Holding
  BY DEF MCS!Engaged, MCS!Waiting, MCS!Holding
<1>2. Len(q) \in Nat /\ \A i \in 1..Len(q) : q[i] \in QueueThreads
  BY LenProperties, ElementOfSeq
<1>3. Len(q) > 0 /\ q[1] # t
  BY <1>1, PlaceInQueue DEF FirstMayEnter, MCS!Holding
<1>4. PICK k \in 2..Len(q) : q[k] = t
  BY <1>1, <1>3, PlaceInQueue
<1>5. pred[t] = q[k - 1] /\ q[k - 1] \in MCS!Engaged
  BY <1>2, <1>4 DEF OthersWait, Lined
<1>6. next' = [next EXCEPT ![q[k - 1]] = t] /\ q[k - 1] \in QueueThreads
  BY <1>2, <1>4, <1>5
<1>7. MCS!TypeOK' /\ Lined(q)' /\ OutsideAsNew'
  <2>1. MCS!TypeOK'
    BY NullIsNoNode DEF MCS!NodeOrNull
  <2>2. Lined(q)'
    BY <1>1 DEF Lined
  <2>3. \A u \in QueueThreads \ MCS!Engaged : next'[u] = next[u] /\ mcsPc'[u] = mcsPc[u]
    BY <1>1, <1>5, <1>6
  <2> QED BY <1>1, <2>1, <2>2, <2>3 DEF OutsideAsNew
<1>8. FirstMayEnter(q)'
  BY <1>1, <1>2, <1>3 DEF FirstMayEnter
<1>9. OthersWait(q)'
  <2>1. \A i \in 1..Len(q) : q[i] = q[k - 1] => i = k - 1
    BY <1>2, <1>4 DEF Lined
  <2>2. \A i \in 2..Len(q) : q[i] = t => i = k
    BY <1>2, <1>4 DEF Lined
  <2>3. ASSUME NEW i \in 2..Len(q)
        PROVE  next'[q[i - 1]] = IF mcsPc'[q[i]] = "spin" THEN q[i] ELSE NoNode
    <3>1. i = k \/ (q[i - 1] # q[k - 1] /\ q[i] # t)
      BY <1>2, <2>1, <2>2
    <3> QED BY <1>2, <1>4, <1>6, <3>1 DEF OthersWait
  <2>4. next'[q[Len(q)]] = NoNode
    BY <1>2, <1>3, <1>4, <1>6, <2>1 DEF OthersWait
  <2>5. \A i \in 2..Len(q) : /\ mcsPc'[q[i]] \in {"queued", "link", "spin"}
                             /\ pred'[q[i]] = q[i - 1]
                             /\ locked'[q[i]] <=> mcsPc'[q[i]] # "queued"
    BY <1>2 DEF OthersWait
  <2> QED BY <2>3, <2>4, <2>5 DEF OthersWait
<1> QED BY <1>7, <1>8, <1>9

(* unlock() up to the point where it lets go: the owner goes on to hand    *)
(* over only when there is somebody behind it.                             *)
LEMMA OwnerQueueInv ==
  ASSUME NEW q \in Seq(QueueThreads), QueueInv(q), NEW t \in QueueThreads,
         MCS!LookForNext(t) \/ MCS!AwaitLink(t) \/ (MCS!GiveUpTail(t) /\ tail # t)
  PROVE  QueueInv(q)'
<1> USE DEF MCS!LookForNext, MCS!AwaitLink, MCS!GiveUpTail, MCS!Goto, QueueInv, MCS!TypeOK
<1>1. /\ t \in MCS!Holding /\ t \in MCS!Engaged
      /\ MCS!Engaged' = MCS!Engaged /\ MCS!Holding' = MCS!Holding
  BY DEF MCS!Engaged, MCS!Waiting, MCS!Holding
<1>2. Len(q) \in Nat /\ \A i \in 1..Len(q) : q[i] \in QueueThreads
  BY LenProperties, ElementOfSeq
<1>3. Len(q) > 0 /\ q[1] = t
  BY <1>1, PlaceInQueue
<1>4. MCS!TypeOK' /\ Lined(q)' /\ OutsideAsNew'
  BY <1>1 DEF Lined, OutsideAsNew
<1>5. FirstMayEnter(q)'
  <2>1. Len(q) = 1 => next[t] = NoNode /\ tail = t
    BY <1>3 DEF OthersWait, Lined
  <2>2. Len(q) = 1 \/ Len(q) > 1
    <3>1. Len(q) \in Nat /\ Len(q) > 0
      BY <1>2, <1>3
    <3>2. \A n \in Nat : n > 0 => n = 1 \/ n > 1
      OBVIOUS
    <3> QED BY <3>1, <3>2
  <2>3. CASE Len(q) > 1
    BY <1>1, <1>3, <2>3 DEF FirstMayEnter
  <2>4. CASE Len(q) = 1
    <3>1. mcsPc'[t] \notin {"awaitLink", "handOver"}
      BY <1>3, <2>1, <2>4 DEF FirstMayEnter
    <3> QED BY <1>1, <1>3, <3>1 DEF FirstMayEnter
  <2> QED BY <2>2, <2>3, <2>4
<1>6. OthersWait(q)'
  <2>1. \A i \in 2..Len(q) : q[i] # t
    BY <1>2, <1>3 DEF Lined
  <2> QED BY <1>2, <2>1 DEF OthersWait
<1> QED BY <1>4, <1>5, <1>6

(* An owner that is still in tail is alone and leaves an empty queue. *)
LEMMA GiveUpQueueInv ==
  ASSUME NEW q \in Seq(QueueThreads), QueueInv(q), NEW t \in QueueThreads,
         MCS!GiveUpTail(t), tail = t
  PROVE  /\ q = <<t>> /\ MCS!Holding # {} /\ MCS!Holding' = {}
         /\ QueueInv(<<>>)'
<1> USE DEF MCS!GiveUpTail, MCS!Goto, QueueInv, MCS!TypeOK
<1>1. t \in MCS!Holding /\ t \in MCS!Engaged /\ MCS!Engaged' = MCS!Engaged \ {t}
  BY DEF MCS!Engaged, MCS!Waiting, MCS!Holding
<1>2. Len(q) \in Nat /\ \A i \in 1..Len(q) : q[i] \in QueueThreads
  BY LenProperties, ElementOfSeq
<1>3. Len(q) > 0 /\ q[1] = t
  BY <1>1, PlaceInQueue
<1>4. Len(q) = 1
  <2>1. q[Len(q)] = q[1] /\ 1 \in 1..Len(q) /\ Len(q) \in 1..Len(q)
    BY <1>2, <1>3 DEF Lined
  <2> QED BY <2>1 DEF Lined
<1>5. MCS!Engaged = {t} /\ MCS!Engaged' = {}
  BY <1>1, <1>3, <1>4 DEF Lined, MCS!Engaged, MCS!Waiting, MCS!Holding
<1>6. Len(<<>>) = 0
  OBVIOUS
<1>7. MCS!TypeOK' /\ Lined(<<>>)' /\ FirstMayEnter(<<>>)' /\ OthersWait(<<>>)'
  BY <1>5, <1>6 DEF MCS!NodeOrNull, Lined, FirstMayEnter, OthersWait
<1>8. OutsideAsNew'
  BY <1>1, <1>3, <1>4 DEF OutsideAsNew, FirstMayEnter, OthersWait
<1>9. q = <<t>>
  BY <1>3, <1>4
<1> QED BY <1>1, <1>5, <1>7, <1>8, <1>9 DEF MCS!Engaged

(* The link leads to the second of the queue, who is unlocked and becomes  *)
(* the first.                                                              *)
LEMMA HandOverQueueInv ==
  ASSUME NEW q \in Seq(QueueThreads), QueueInv(q), NEW t \in QueueThreads, MCS!HandOver(t)
  PROVE  /\ Len(q) > 0 /\ q[1] = t /\ MCS!Holding # {} /\ MCS!Holding' = {}
         /\ Tail(q) \in Seq(QueueThreads) /\ QueueInv(Tail(q))'
<1> DEFINE r == Tail(q)
<1> USE DEF MCS!HandOver, MCS!Goto, QueueInv, MCS!TypeOK
<1>1. /\ t \in MCS!Holding /\ t \in MCS!Engaged
      /\ MCS!Engaged' = MCS!Engaged \ {t} /\ MCS!Holding' = MCS!Holding \ {t}
  BY DEF MCS!Engaged, MCS!Waiting, MCS!Holding
<1>2. Len(q) \in Nat /\ \A i \in 1..Len(q) : q[i] \in QueueThreads
  BY LenProperties, ElementOfSeq
<1>3. Len(q) > 1 /\ q[1] = t
  BY <1>1, PlaceInQueue DEF FirstMayEnter
<1>4. /\ r \in Seq(QueueThreads) /\ Len(r) = Len(q) - 1
      /\ \A i \in 1..Len(r) : r[i] = q[i + 1]
  BY <1>2, <1>3, HeadTailProperties
<1> HIDE DEF r
<1>5. next[t] = q[2] /\ mcsPc[q[2]] = "spin" /\ q[2] \in MCS!Engaged
  BY <1>2, <1>3 DEF OthersWait, Lined
<1>6. \A i \in 2..Len(q) : q[i] # t /\ (q[i] = q[2] => i = 2)
  BY <1>2, <1>3 DEF Lined
<1>7. MCS!TypeOK'
  OBVIOUS
<1>8. Lined(r)'
  <2>1. ASSUME NEW i \in 1..Len(r), NEW j \in 1..Len(r), r[i] = r[j] PROVE i = j
    <3>1. i + 1 \in 1..Len(q) /\ j + 1 \in 1..Len(q) /\ q[i + 1] = q[j + 1]
      BY <1>2, <1>4, <2>1
    <3>2. i + 1 = j + 1
      BY <3>1 DEF Lined
    <3> QED BY <3>2
  <2>2. ASSUME NEW u \in QueueThreads
        PROVE  u \in MCS!Engaged' <=> \E i \in 1..Len(r) : r[i] = u
    <3>1. u \in MCS!Engaged' <=> \E i \in 2..Len(q) : q[i] = u
      BY <1>1, <1>2, <1>3, <1>6 DEF Lined
    <3>2. \A i \in 2..Len(q) : i - 1 \in 1..Len(r) /\ r[i - 1] = q[i]
      BY <1>2, <1>4
    <3>3. \A i \in 1..Len(r) : i + 1 \in 2..Len(q)
      BY <1>2, <1>4
    <3> QED BY <1>4, <3>1, <3>2, <3>3
  <2>3. tail' = r[Len(r)] /\ Len(r) # 0
    BY <1>2, <1>3, <1>4 DEF Lined
  <2> QED BY <2>1, <2>2, <2>3 DEF Lined
<1>9. FirstMayEnter(r)'
  BY <1>2, <1>3, <1>4, <1>5, <1>6 DEF FirstMayEnter
<1>10. OthersWait(r)'
  <2>1. ASSUME NEW i \in 2..Len(r)
        PROVE  /\ mcsPc'[r[i]] \in {"queued", "link", "spin"}
               /\ pred'[r[i]] = r[i - 1]
               /\ locked'[r[i]] <=> mcsPc'[r[i]] # "queued"
               /\ next'[r[i - 1]] = IF mcsPc'[r[i]] = "spin" THEN r[i] ELSE NoNode
    <3>1. i + 1 \in 3..Len(q) /\ r[i] = q[i + 1] /\ r[i - 1] = q[i]
      <4>1. i \in 1..Len(r) /\ i - 1 \in 1..Len(r) /\ (i - 1) + 1 = i
        BY <1>2, <1>4
      <4>2. i + 1 \in 3..Len(q)
        BY <1>2, <1>4
      <4> QED BY <1>4, <4>1, <4>2
    <3>2. q[i + 1] # t /\ q[i + 1] # q[2]
      BY <1>6, <3>1
    <3> QED BY <1>2, <1>5, <3>1, <3>2 DEF OthersWait
  <2>2. next'[r[Len(r)]] = NoNode
    BY <1>2, <1>3, <1>4 DEF OthersWait
  <2> QED BY <2>1, <2>2 DEF OthersWait
<1>11. OutsideAsNew'
  <2>1. \A u \in QueueThreads \ MCS!Engaged' : ~locked'[u]
    BY <1>1, <1>3, <1>5 DEF OutsideAsNew, FirstMayEnter
  <2> QED BY <1>1, <2>1 DEF OutsideAsNew
<1>12. MCS!Holding' = {}
  BY <1>1, <1>3, PlaceInQueue DEF MCS!Engaged
<1> QED BY <1>1, <1>3, <1>4, <1>7, <1>8, <1>9, <1>10, <1>11, <1>12 DEF r

(* The owner that has handed over makes its node new again. *)
LEMMA UnlinkQueueInv ==
  ASSUME NEW q \in Seq(QueueThreads), QueueInv(q), NEW t \in QueueThreads, MCS!Unlink(t)
  PROVE  QueueInv(q)'
<1> USE DEF MCS!Unlink, MCS!Goto, QueueInv, MCS!TypeOK
<1>1. t \notin MCS!Engaged /\ MCS!Engaged' = MCS!Engaged /\ MCS!Holding' = MCS!Holding
  BY DEF MCS!Engaged, MCS!Waiting, MCS!Holding
<1>2. Len(q) \in Nat /\ \A i \in 1..Len(q) : q[i] \in QueueThreads /\ q[i] # t
  BY <1>1, LenProperties, ElementOfSeq DEF Lined
<1>3. MCS!TypeOK' /\ Lined(q)' /\ OutsideAsNew'
  BY <1>1 DEF MCS!NodeOrNull, Lined, OutsideAsNew
<1>4. FirstMayEnter(q)' /\ OthersWait(q)'
  BY <1>1, <1>2 DEF FirstMayEnter, OthersWait
<1> QED BY <1>3, <1>4

(* What one step does to the queue: somebody arrives at its end, its first *)
(* leaves, or it stays as it is.                                           *)
LEMMA StepQueueInv ==
  ASSUME NEW q \in Seq(QueueThreads), QueueInv(q), [MCS!Next]_MCS!vars
  PROVE  \E r \in Seq(QueueThreads) : QueueInv(r)'
<1>1. CASE UNCHANGED MCS!vars
  <2>1. QueueInv(q)'
    BY <1>1
    DEF MCS!vars, QueueInv, MCS!TypeOK, MCS!NodeOrNull, Lined, FirstMayEnter, OthersWait,
        OutsideAsNew, MCS!Engaged, MCS!Waiting, MCS!Holding
  <2> QED BY <2>1
<1>2. ASSUME NEW t \in QueueThreads, MCS!Exchange(t)
      PROVE  \E r \in Seq(QueueThreads) : QueueInv(r)'
  BY <1>2, ExchangeQueueInv
<1>3. ASSUME NEW t \in QueueThreads, MCS!Step(t)
      PROVE  \E r \in Seq(QueueThreads) : QueueInv(r)'
  <2>1. CASE MCS!NoPredecessor(t) \/ MCS!StopSpinning(t)
    BY <2>1, FirstEnters
  <2>2. CASE MCS!SetLocked(t)
    BY <2>2, SetLockedQueueInv
  <2>3. CASE MCS!Link(t)
    BY <2>3, LinkQueueInv
  <2>4. CASE MCS!LookForNext(t) \/ MCS!AwaitLink(t) \/ (MCS!GiveUpTail(t) /\ tail # t)
    BY <2>4, OwnerQueueInv
  <2>5. CASE MCS!GiveUpTail(t) /\ tail = t
    <3>1. QueueInv(<<>>)' /\ <<>> \in Seq(QueueThreads)
      BY <2>5, GiveUpQueueInv
    <3> QED BY <3>1
  <2>6. CASE MCS!HandOver(t)
    BY <2>6, HandOverQueueInv
  <2>7. CASE MCS!Unlink(t)
    BY <2>7, UnlinkQueueInv
  <2> QED BY <1>3, <2>1, <2>2, <2>3, <2>4, <2>5, <2>6, <2>7 DEF MCS!Step
<1> QED BY <1>1, <1>2, <1>3 DEF MCS!Next

(* In every state the engaged threads stand in one queue, linked in its    *)
(* order, and only its first holds the lock.                               *)
THEOREM MCSInvariance == MCS!Spec => []MCSInv
<1>1. MCS!Init => MCSInv
  <2>1. <<>> \in Seq(QueueThreads)
    OBVIOUS
  <2> QED BY <2>1, InitQueueInv DEF MCSInv
<1>2. MCSInv /\ [MCS!Next]_MCS!vars => MCSInv'
  BY StepQueueInv DEF MCSInv
<1> QED BY <1>1, <1>2, PTL DEF MCS!Spec

(* No null pointer is dereferenced: a thread that links has a predecessor, *)
(* and one that hands over has a link.                                     *)
THEOREM MCSTyping == MCS!Spec => []MCS!TypeOK
<1>1. MCSInv => MCS!TypeOK
  BY DEF MCSInv, QueueInv
<1> QED BY <1>1, MCSInvariance, PTL

(* At most one thread is between lock() and the store of unlock() that     *)
(* frees the lock.                                                         *)
THEOREM MCSMutex == MCS!Spec => []MCS!MutualExclusion
<1>1. MCSInv => MCS!MutualExclusion
  BY PlaceInQueue DEF MCSInv, MCS!MutualExclusion, MCS!Engaged
<1> QED BY <1>1, MCSInvariance, PTL

(* Nodes are used for one call after another without being reset in        *)
(* lock(): the links and the flag others write are gone when unlock()      *)
(* returns, in whatever order they were written.                           *)
THEOREM NodesLeftAsNew == MCS!Spec => []MCS!IdleNodesAsNew
<1>1. MCSInv => MCS!IdleNodesAsNew
  BY DEF MCSInv, QueueInv, OutsideAsNew, MCS!IdleNodesAsNew,
         MCS!Engaged, MCS!Waiting, MCS!Holding
<1> QED BY <1>1, MCSInvariance, PTL

-----------------------------------------------------------------------------
(* Of natural numbers there is a least one; so a counterexample is minimal. *)
LEMMA LeastElement ==
  ASSUME NEW S \in SUBSET Nat, S # {}
  PROVE  \E n \in S : \A m \in S : n <= m
<1>1. PICK n \in S : \A m \in S : <<m, n>> \notin OpToRel(<, Nat)
  BY NatLessThanWellFounded, WFMin
<1>2. ASSUME NEW m \in S PROVE n <= m
  <2>1. <<m, n>> \notin OpToRel(<, Nat)
    BY <1>1
  <2> QED BY <2>1 DEF OpToRel
<1> QED BY <1>2

(* Queue is the queue of the invariant: going from tail by the             *)
(* predecessors, no other sequence of the engaged threads fits.            *)
LEMMA QueueIsLine ==
  ASSUME NEW q \in Seq(QueueThreads), QueueInv(q)
  PROVE  MCS!Queue = q
<1> DEFINE n == Len(q)
           Fits(r) == /\ \A i \in 1..(Len(r) - 1) : pred[r[i + 1]] = r[i]
                      /\ r # <<>> => r[Len(r)] = tail
<1>1. n \in Nat /\ q \in [1..n -> QueueThreads]
  BY LenProperties
<1>2. q \in [1..n -> MCS!Engaged] /\ \A i, j \in 1..n : i # j => q[i] # q[j]
  BY <1>1 DEF QueueInv, Lined
<1>3. Cardinality(MCS!Engaged) = n
  <2>1. q \in Bijection(1..n, MCS!Engaged)
    BY <1>1, <1>2
    DEF QueueInv, Lined, Bijection, Injection, Surjection, IsInjective,
        MCS!Engaged, MCS!Waiting, MCS!Holding
  <2> QED BY <1>1, <2>1, FS_CountingElements DEF ExistsBijection
<1>4. q \in SetToSeqs(MCS!Engaged)
  BY <1>2, <1>3 DEF SetToSeqs
<1>5. Fits(q)
  <2>1. \A i \in 1..(n - 1) : pred[q[i + 1]] = q[i]
    <3>1. \A i \in 1..(n - 1) : i + 1 \in 2..n /\ (i + 1) - 1 = i
      BY <1>1
    <3> QED BY <3>1 DEF QueueInv, OthersWait
  <2>2. q # <<>> => n # 0
    BY <1>1, EmptySeq
  <2> QED BY <2>1, <2>2 DEF QueueInv, Lined
<1>6. ASSUME NEW r \in SetToSeqs(MCS!Engaged), Fits(r) PROVE r = q
  <2>1. r \in [1..n -> MCS!Engaged]
    BY <1>3, <1>6 DEF SetToSeqs
  <2>2. r \in Seq(MCS!Engaged) /\ Len(r) = n
    BY <1>1, <2>1
  <2> DEFINE Differ == {k \in 0..(n - 1) : r[n - k] # q[n - k]}
  <2>3. ASSUME Differ # {} PROVE FALSE
    <3>1. PICK k \in Differ : \A m \in Differ : k <= m
      <4>1. Differ \in SUBSET Nat
        BY <1>1
      <4> HIDE DEF Differ
      <4> QED BY <2>3, <4>1, LeastElement
    <3>2. k \in 0..(n - 1) /\ k \in Int /\ r[n - k] # q[n - k]
      OBVIOUS
    <3> HIDE DEF Differ
    <3>3. n > 0 /\ n \in Int
      BY <1>1, <3>2
    <3>4. k # 0
      <4>1. r[n] = tail /\ q[n] = tail
        BY <1>5, <1>6, <2>2, <3>3
      <4> QED BY <1>1, <3>2, <4>1
    <3>5. k - 1 \in 0..(n - 1) /\ k - 1 \notin Differ
      BY <3>1, <3>2, <3>4
    <3>6. r[n - (k - 1)] = q[n - (k - 1)]
      BY <3>5 DEF Differ
    <3>7. n - k \in 1..(n - 1) /\ n - (k - 1) = (n - k) + 1
      BY <3>2, <3>3, <3>4
    <3>8. r[n - k] = pred[r[(n - k) + 1]] /\ q[n - k] = pred[q[(n - k) + 1]]
      BY <1>5, <1>6, <2>2, <3>7
    <3> QED BY <3>2, <3>6, <3>7, <3>8
  <2>4. ASSUME NEW i \in 1..n PROVE r[i] = q[i]
    <3>1. n - i \in 0..(n - 1) /\ n - (n - i) = i
      BY <1>1
    <3> QED BY <2>3, <3>1
  <2> QED BY <1>1, <2>1, <2>4
<1> HIDE DEF Fits
<1>7. (CHOOSE r \in SetToSeqs(MCS!Engaged) : Fits(r)) = q
  BY <1>4, <1>5, <1>6
<1> QED BY <1>7, SameLibrary DEF MCS!Queue, Fits

(* Links lead from a thread to the one behind it, or are missing.          *)
THEOREM LinksInOrder == MCS!Spec => []MCS!LinksFollowQueue
<1>1. ASSUME NEW q \in Seq(QueueThreads), QueueInv(q) PROVE MCS!LinksFollowQueue
  <2>1. MCS!Queue = q /\ Len(q) \in Nat
    BY <1>1, QueueIsLine, LenProperties
  <2>2. ASSUME NEW i \in 1..Len(q), next[q[i]] # NoNode
        PROVE  i < Len(q) /\ next[q[i]] = q[i + 1]
    <3>1. i # Len(q)
      BY <1>1, <2>1, <2>2 DEF QueueInv, OthersWait
    <3>2. i + 1 \in 2..Len(q) /\ (i + 1) - 1 = i
      BY <2>1, <3>1
    <3>3. next[q[(i + 1) - 1]] = IF mcsPc[q[i + 1]] = "spin" THEN q[i + 1] ELSE NoNode
      BY <1>1, <3>2 DEF QueueInv, OthersWait
    <3> QED BY <2>1, <2>2, <3>1, <3>2, <3>3
  <2>3. ASSUME NEW t \in MCS!Holding, mcsPc[t] \in {"awaitLink", "handOver"}
        PROVE  Len(q) > 1
    BY <1>1, <2>3, PlaceInQueue DEF QueueInv, FirstMayEnter, MCS!Engaged
  <2> QED BY <2>1, <2>2, <2>3 DEF MCS!LinksFollowQueue
<1>2. MCSInv => MCS!LinksFollowQueue
  BY <1>1 DEF MCSInv
<1> QED BY <1>2, MCSInvariance, PTL
-----------------------------------------------------------------------------
(* The same after a step. *)
LEMMA NextQueueIsLine == \A q \in Seq(QueueThreads) : QueueInv(q)' => MCS!Queue' = q
<1>1. \A q \in Seq(QueueThreads) : QueueInv(q) => MCS!Queue = q
  BY QueueIsLine
<1>2. (\A q \in Seq(QueueThreads) : QueueInv(q) => MCS!Queue = q)'
  BY <1>1, PTL
<1> QED BY <1>2

(* The first of the queue enters. *)
LEMMA MCSEnterRefines ==
  ASSUME NEW q \in Seq(QueueThreads), QueueInv(q), NEW t \in QueueThreads,
         MCS!NoPredecessor(t) \/ MCS!StopSpinning(t)
  PROVE  MCS!Fifo!Enter(t)
<1>1. QueueInv(q)' /\ Len(q) > 0 /\ q[1] = t /\ MCS!Holding = {}
  BY FirstEnters
<1>2. MCS!Queue = q /\ MCS!Queue' = q
  BY <1>1, QueueIsLine, NextQueueIsLine
<1>3. MCS!Holding' # {}
  BY DEF MCS!NoPredecessor, MCS!StopSpinning, MCS!Goto, MCS!Holding, QueueInv, MCS!TypeOK
<1>4. q # <<>> /\ Head(q) = t
  BY <1>1, EmptySeq
<1> QED BY <1>1, <1>2, <1>3, <1>4 DEF MCS!Fifo!Enter

(* The exchange on tail takes the last place of the queue. *)
LEMMA MCSArriveRefines ==
  ASSUME NEW q \in Seq(QueueThreads), QueueInv(q), NEW t \in QueueThreads, MCS!Exchange(t)
  PROVE  MCS!Fifo!Arrive(t)
<1>1. Append(q, t) \in Seq(QueueThreads) /\ QueueInv(Append(q, t))'
  BY ExchangeQueueInv
<1>2. MCS!Queue = q /\ MCS!Queue' = Append(q, t)
  BY <1>1, QueueIsLine, NextQueueIsLine
<1>3. t \notin MCS!Engaged /\ MCS!Holding' = MCS!Holding
  BY DEF MCS!Exchange, MCS!Goto, MCS!Engaged, MCS!Waiting, MCS!Holding, QueueInv, MCS!TypeOK
<1>4. ~ \E i \in 1..Len(q) : q[i] = t
  BY <1>3 DEF QueueInv, Lined
<1> QED BY <1>2, <1>3, <1>4 DEF MCS!Fifo!Arrive, MCS!Fifo!InQueue

(* unlock() lets go, by tail or by the link: the first leaves the queue. *)
LEMMA MCSLeaveRefines ==
  ASSUME NEW q \in Seq(QueueThreads), QueueInv(q), NEW t \in QueueThreads,
         (MCS!GiveUpTail(t) /\ tail = t) \/ MCS!HandOver(t)
  PROVE  MCS!Fifo!Leave(t)
<1>1. /\ Len(q) > 0 /\ q[1] = t /\ MCS!Holding # {} /\ MCS!Holding' = {}
      /\ Tail(q) \in Seq(QueueThreads) /\ QueueInv(Tail(q))'
  <2>1. CASE MCS!HandOver(t)
    BY <2>1, HandOverQueueInv
  <2>2. CASE MCS!GiveUpTail(t) /\ tail = t
    <3>1. q = <<t>> /\ MCS!Holding # {} /\ MCS!Holding' = {} /\ QueueInv(<<>>)'
      BY <2>2, GiveUpQueueInv
    <3>2. Tail(<<t>>) = <<>> /\ Len(<<t>>) > 0 /\ <<t>>[1] = t /\ <<>> \in Seq(QueueThreads)
      OBVIOUS
    <3> QED BY <3>1, <3>2
  <2> QED BY <2>1, <2>2
<1>2. MCS!Queue = q /\ MCS!Queue' = Tail(q)
  BY <1>1, QueueIsLine, NextQueueIsLine
<1>3. Head(q) = t
  BY <1>1, EmptySeq
<1> QED BY <1>1, <1>2, <1>3 DEF MCS!Fifo!Leave

(* Every other step leaves the queue and its first's state as they are. *)
LEMMA OtherStepsUnseen ==
  ASSUME NEW q \in Seq(QueueThreads), QueueInv(q), NEW t \in QueueThreads,
         \/ MCS!SetLocked(t) \/ MCS!Link(t) \/ MCS!LookForNext(t) \/ MCS!AwaitLink(t)
         \/ (MCS!GiveUpTail(t) /\ tail # t) \/ MCS!Unlink(t)
  PROVE  UNCHANGED MCS!Fifo!vars
<1>1. QueueInv(q)'
  BY SetLockedQueueInv, LinkQueueInv, OwnerQueueInv, UnlinkQueueInv
<1>2. MCS!Queue = q /\ MCS!Queue' = q
  BY <1>1, QueueIsLine, NextQueueIsLine
<1>3. MCS!Holding' = MCS!Holding
  BY DEF MCS!SetLocked, MCS!Link, MCS!LookForNext, MCS!AwaitLink, MCS!GiveUpTail,
         MCS!Unlink, MCS!Goto,
         MCS!Holding, QueueInv, MCS!TypeOK
<1> QED BY <1>2, <1>3 DEF MCS!Fifo!vars

(* Threads hold the lock one at a time and in the order of their exchanges *)
(* on tail: each step of the MCS lock is an arrival, an entry or a         *)
(* departure of FifoMutex, or leaves its queue alone.                      *)
THEOREM MCSServesInOrder == MCS!Spec => MCS!Fifo!Spec
<1>1. MCS!Init => MCS!Fifo!Init
  <2> SUFFICES ASSUME MCS!Init PROVE MCS!Fifo!Init
    OBVIOUS
  <2>1. MCS!Queue = <<>>
    BY InitQueueInv, QueueIsLine, EmptySeq
  <2>2. MCS!Holding = {}
    BY DEF MCS!Init, MCS!Holding
  <2> QED BY <2>1, <2>2 DEF MCS!Fifo!Init
<1>2. MCSInv /\ [MCS!Next]_MCS!vars => [MCS!Fifo!Next]_MCS!Fifo!vars
  <2> SUFFICES ASSUME MCSInv, [MCS!Next]_MCS!vars
               PROVE  MCS!Fifo!Next \/ UNCHANGED MCS!Fifo!vars
    OBVIOUS
  <2> PICK q \in Seq(QueueThreads) : QueueInv(q)
    BY DEF MCSInv
  <2>1. CASE UNCHANGED MCS!vars
    BY <2>1 DEF MCS!vars, MCS!Fifo!vars, MCS!Queue, MCS!Holding, MCS!Engaged, MCS!Waiting
  <2>2. ASSUME NEW t \in QueueThreads, MCS!Exchange(t) PROVE MCS!Fifo!Next
    BY <2>2, MCSArriveRefines DEF MCS!Fifo!Next
  <2>3. ASSUME NEW t \in QueueThreads, MCS!Step(t)
        PROVE  MCS!Fifo!Next \/ UNCHANGED MCS!Fifo!vars
    <3>1. CASE MCS!NoPredecessor(t) \/ MCS!StopSpinning(t)
      BY <3>1, MCSEnterRefines DEF MCS!Fifo!Next
    <3>2. CASE (MCS!GiveUpTail(t) /\ tail = t) \/ MCS!HandOver(t)
      BY <3>2, MCSLeaveRefines DEF MCS!Fifo!Next
    <3>3. CASE \/ MCS!SetLocked(t) \/ MCS!Link(t) \/ MCS!LookForNext(t) \/ MCS!AwaitLink(t)
               \/ (MCS!GiveUpTail(t) /\ tail # t) \/ MCS!Unlink(t)
      BY <3>3, OtherStepsUnseen
    <3> QED BY <2>3, <3>1, <3>2, <3>3 DEF MCS!Step
  <2> QED BY <2>1, <2>2, <2>3 DEF MCS!Next
<1> QED BY <1>1, <1>2, MCSInvariance, PTL DEF MCS!Spec, MCS!Fifo!Spec
-----------------------------------------------------------------------------
(* ALock: what keeps two threads from one slot is a slot for every thread, *)
(* and a tail whose wrap is a whole number of turns of the ring.           *)
EnoughSlots == Cardinality(QueueThreads) <= MaxThreads /\ (MaxTail + 1) % MaxThreads = 0

(* The slot k places after s on the ring, for k up to one turn. *)
Off(s, k) == IF s + k < Array!ThreadCount THEN s + k ELSE s + k - Array!ThreadCount

(* The engaged threads stand in the queue q, each once. *)
ArrayLined(q) ==
  /\ \A i, j \in 1..Len(q) : q[i] = q[j] => i = j
  /\ \A t \in QueueThreads : t \in Array!Engaged <=> \E i \in 1..Len(q) : q[i] = t

(* Their slots follow each other on the ring from s on, the next one to be *)
(* drawn after them.                                                       *)
SlotsFollow(q, s) ==
  /\ \A i \in 1..Len(q) : slot[q[i]] = Off(s, i - 1)
  /\ counter % Array!ThreadCount = Off(s, Len(q))

(* The token is at s or with the first thread; the others wait. *)
OneMayEnter(q, s) ==
  /\ \A i \in 2..Len(q) : alockPc[q[i]] \in {"record", "spin"}
  /\ \A x \in Array!Slots : flags[x] <=> x = s /\ Array!Holding = {}

Drawn == {t \in QueueThreads : id[t] # 0}

(* The ids drawn are the last ones before the counter, each one thread's. *)
IdsInARow ==
  /\ \A t \in Drawn : id[t] < idCounter /\ idCounter <= id[t] + Cardinality(Drawn)
  /\ \A t, u \in Drawn : id[t] = id[u] => t = u

(* unlock() will find the slot that lock() recorded. *)
SlotsRemembered ==
  \A t \in QueueThreads : alockPc[t] \in {"spin", "lower", "critical"} =>
    /\ id[t] # 0
    /\ setArr[Array!Cell(id[t])]
    /\ dataArr[Array!Cell(id[t])] = slot[t]

ArrayQueueInv(q, s) ==
  /\ Array!TypeOK /\ ArrayLined(q) /\ SlotsFollow(q, s) /\ OneMayEnter(q, s)
  /\ IdsInARow /\ SlotsRemembered

ArrayInv == \E q \in Seq(QueueThreads), s \in Array!Slots : ArrayQueueInv(q, s)

-----------------------------------------------------------------------------
LEMMA RemainderOf ==
  ASSUME NEW T \in Nat \ {0}, NEW k \in Nat, NEW r \in 0..(T - 1)
  PROVE  (T * k + r) % T = r
OBVIOUS

LEMMA RemainderOfNext ==
  ASSUME NEW T \in Nat \ {0}, NEW a \in Nat
  PROVE  (a + 1) % T = IF (a % T) + 1 < T THEN (a % T) + 1 ELSE 0
<1> DEFINE k == a \div T
           r == a % T
<1>1. k \in Nat /\ r \in 0..(T - 1) /\ a = T * k + r
  OBVIOUS
<1> HIDE DEF k, r
<1>2. CASE r + 1 < T
  <2>1. a + 1 = T * k + (r + 1) /\ r + 1 \in 0..(T - 1)
    BY <1>1, <1>2
  <2>2. (a + 1) % T = r + 1
    BY <1>1, <2>1, RemainderOf
  <2> QED BY <1>2, <2>2 DEF r
<1>3. CASE ~ (r + 1 < T)
  <2>1. a + 1 = T * (k + 1) + 0 /\ k + 1 \in Nat /\ 0 \in 0..(T - 1)
    BY <1>1, <1>3
  <2>2. (a + 1) % T = 0
    BY <1>1, <2>1, RemainderOf
  <2> QED BY <1>3, <2>2 DEF r
<1> QED BY <1>2, <1>3

(* Numbers less than T apart have different remainders. *)
LEMMA RemaindersDiffer ==
  ASSUME NEW T \in Nat \ {0}, NEW x \in Nat, NEW y \in Nat, x < y, y < x + T
  PROVE  x % T # y % T
<1> SUFFICES ASSUME x % T = y % T PROVE FALSE
  OBVIOUS
<1> DEFINE j == x \div T
           k == y \div T
           r == x % T
<1>1. j \in Nat /\ k \in Nat /\ r \in Nat /\ x = T * j + r /\ y = T * k + r
  OBVIOUS
<1> HIDE DEF j, k, r
<1>2. y - x = T * (k - j)
  BY <1>1
<1>3. CASE k <= j
  BY <1>1, <1>2, <1>3
<1>4. CASE k - j >= 1
  <2>1. PICK d \in Nat : k - j = d + 1
    BY <1>1, <1>4
  <2>2. T * (d + 1) = T * d + T /\ T * d \in Nat
    OBVIOUS
  <2> QED BY <1>2, <2>1, <2>2
<1> QED BY <1>1, <1>3, <1>4

(* Slots as places on the ring. *)
LEMMA Ring ==
  ASSUME EnoughSlots
  PROVE  /\ Array!ThreadCount \in Nat \ {0} /\ MaxTail \in Nat /\ IsFiniteSet(QueueThreads)
         /\ \A s \in Array!Slots : /\ Off(s, 0) = s /\ Off(s, Array!ThreadCount) = s
                             /\ s % Array!ThreadCount = s
                             /\ Array!NextSlot(s) = Off(s, 1) /\ Off(s, 1) \in Array!Slots
         /\ \A s \in Array!Slots, k \in 0..(Array!ThreadCount - 1) :
              /\ Off(s, k) \in Array!Slots
              /\ Off(s, k) = s => k = 0
              /\ Off(Off(s, k), 1) = Off(s, k + 1)
              /\ Off(Off(s, 1), k) = Off(s, k + 1)
              /\ \A j \in 0..(Array!ThreadCount - 1) : Off(s, j) = Off(s, k) => j = k
<1>1. Array!ThreadCount \in Nat \ {0} /\ MaxTail \in Nat /\ IsFiniteSet(QueueThreads)
  BY LocksParameters, SameLibrary
  DEF Array!Sizes, Array!ThreadLocalParameters, Array!ThreadCount
<1>2. \A s \in Array!Slots : s % Array!ThreadCount = s
  BY <1>1 DEF Array!Slots
<1>3. ASSUME NEW s \in Array!Slots PROVE Array!NextSlot(s) = Off(s, 1)
  <2>1. s \in Nat
    BY <1>1 DEF Array!Slots
  <2>2. (s + 1) % Array!ThreadCount = IF (s % Array!ThreadCount) + 1 < Array!ThreadCount
                                  THEN (s % Array!ThreadCount) + 1 ELSE 0
    BY <1>1, <2>1, RemainderOfNext
  <2> QED BY <1>1, <1>2, <2>1, <2>2 DEF Array!Slots, Array!NextSlot, Off
<1>4. \A s \in Array!Slots : /\ Off(s, 0) = s /\ Off(s, Array!ThreadCount) = s
                       /\ Off(s, 1) \in Array!Slots
  BY <1>1 DEF Array!Slots, Off
<1>5. \A s \in Array!Slots, k \in 0..(Array!ThreadCount - 1) :
        /\ Off(s, k) \in Array!Slots
        /\ Off(s, k) = s => k = 0
        /\ Off(Off(s, k), 1) = Off(s, k + 1)
        /\ Off(Off(s, 1), k) = Off(s, k + 1)
        /\ \A j \in 0..(Array!ThreadCount - 1) : Off(s, j) = Off(s, k) => j = k
  BY <1>1 DEF Array!Slots, Off
<1> QED BY <1>1, <1>2, <1>3, <1>4, <1>5

(* fetch_add moves on to the next slot of the ring, also when it wraps. *)
LEMMA TailFollows ==
  ASSUME EnoughSlots, NEW i \in 0..MaxTail
  PROVE  ((i + 1) % (MaxTail + 1)) % Array!ThreadCount
           = Array!NextSlot(i % Array!ThreadCount)
<1>1. /\ Array!ThreadCount \in Nat \ {0} /\ MaxTail \in Nat
      /\ i % Array!ThreadCount \in Array!Slots
  BY Ring DEF Array!Slots
<1>2. Array!NextSlot(i % Array!ThreadCount) = (i + 1) % Array!ThreadCount
  <2>1. (i + 1) % Array!ThreadCount = IF (i % Array!ThreadCount) + 1 < Array!ThreadCount
                                  THEN (i % Array!ThreadCount) + 1 ELSE 0
    <3>1. i \in Nat
      OBVIOUS
    <3> QED BY <1>1, <3>1, RemainderOfNext
  <2>2. Array!NextSlot(i % Array!ThreadCount) = Off(i % Array!ThreadCount, 1)
    BY <1>1, Ring
  <2> QED BY <1>1, <2>1, <2>2 DEF Off, Array!Slots
<1>3. CASE i < MaxTail
  <2>1. (i + 1) % (MaxTail + 1) = i + 1
    BY <1>1, <1>3
  <2> QED BY <1>2, <2>1
<1>4. CASE i = MaxTail
  <2>1. (i + 1) % (MaxTail + 1) = 0 /\ 0 % Array!ThreadCount = 0
    BY <1>1, <1>4
  <2> QED BY <1>2, <1>4, <2>1 DEF EnoughSlots, Array!ThreadCount
<1> QED BY <1>1, <1>3, <1>4

(* The queue is never longer than the ring. *)
LEMMA QueueFits ==
  ASSUME EnoughSlots, NEW q \in Seq(QueueThreads), ArrayLined(q)
  PROVE  /\ Len(q) \in Nat /\ \A i \in 1..Len(q) : q[i] \in Array!Engaged
         /\ Cardinality(Array!Engaged) = Len(q) /\ IsFiniteSet(Array!Engaged)
         /\ Len(q) <= Array!ThreadCount
         /\ Array!Engaged # QueueThreads => Len(q) < Array!ThreadCount
<1> DEFINE n == Len(q)
<1>1. n \in Nat /\ q \in [1..n -> QueueThreads]
  BY LenProperties
<1>2. q \in Bijection(1..n, Array!Engaged)
  BY <1>1 DEF ArrayLined, Bijection, Injection, Surjection, Array!Engaged, IsInjective
<1>3. Cardinality(Array!Engaged) = n
  BY <1>1, <1>2, FS_CountingElements DEF ExistsBijection
<1>4. Array!Engaged \in SUBSET QueueThreads
  BY DEF Array!Engaged
<1>5. /\ IsFiniteSet(Array!Engaged)
      /\ Cardinality(Array!Engaged) <= Cardinality(QueueThreads)
      /\ Cardinality(QueueThreads) = Cardinality(Array!Engaged)
           => QueueThreads = Array!Engaged
  BY <1>4, Ring, FS_Subset
<1>6. Cardinality(QueueThreads) \in Nat /\ Cardinality(QueueThreads) <= Array!ThreadCount
  BY Ring, FS_CardinalityType DEF EnoughSlots, Array!ThreadCount
<1>7. \A i \in 1..Len(q) : q[i] \in Array!Engaged
  BY <1>1 DEF ArrayLined
<1> QED BY <1>1, <1>3, <1>5, <1>6, <1>7, Ring


-----------------------------------------------------------------------------
(* Threads that have drawn an id have cells of their own: the ids drawn    *)
(* are no further apart than there are cells.                              *)
LEMMA OwnCells ==
  ASSUME EnoughSlots, Array!TypeOK, IdsInARow,
         NEW t \in Drawn, NEW u \in Drawn, Array!Cell(id[t]) = Array!Cell(id[u])
  PROVE  t = u
<1> DEFINE n == Cardinality(Drawn)
<1>1. n \in Nat /\ n <= Array!ThreadCount
  <2>1. Drawn \in SUBSET QueueThreads
    BY DEF Drawn
  <2>2. /\ IsFiniteSet(Drawn) /\ Cardinality(Drawn) <= Cardinality(QueueThreads)
    BY <2>1, Ring, FS_Subset
  <2> QED BY <2>2, Ring, FS_CardinalityType DEF EnoughSlots, Array!ThreadCount
<1> HIDE DEF n
<1>2. /\ id[t] \in Nat /\ id[u] \in Nat /\ idCounter \in Nat
      /\ id[t] < idCounter /\ idCounter <= id[t] + n
      /\ id[u] < idCounter /\ idCounter <= id[u] + n
  BY DEF Array!TypeOK, Array!ThreadLocalTypeOK, IdsInARow, Drawn, n
<1>3. id[t] < id[u] + Array!ThreadCount /\ id[u] < id[t] + Array!ThreadCount
  BY <1>1, <1>2, Ring
<1>4. id[t] % Array!ThreadCount = id[u] % Array!ThreadCount
  BY DEF Array!Cell, Array!ThreadCount
<1>5. ~ (id[t] < id[u]) /\ ~ (id[u] < id[t])
  BY <1>2, <1>3, <1>4, Ring, RemaindersDiffer
<1>6. id[t] = id[u]
  BY <1>2, <1>5
<1> QED BY <1>6 DEF IdsInARow

(* The same after a step. *)
LEMMA NextOwnCells ==
  EnoughSlots /\ Array!TypeOK' /\ IdsInARow' =>
    \A t, u \in Drawn' : Array!Cell(id'[t]) = Array!Cell(id'[u]) => t = u
<1>1. EnoughSlots /\ Array!TypeOK /\ IdsInARow =>
        \A t, u \in Drawn : Array!Cell(id[t]) = Array!Cell(id[u]) => t = u
  BY OwnCells
<1>2. (EnoughSlots /\ Array!TypeOK /\ IdsInARow =>
        \A t, u \in Drawn : Array!Cell(id[t]) = Array!Cell(id[u]) => t = u)'
  BY <1>1, PTL
<1> QED BY <1>2 DEF EnoughSlots, Array!ThreadCount, Array!Cell

(* The first use of the ThreadLocal gives a thread the next id. *)
LEMMA DrawIdRow ==
  ASSUME EnoughSlots, Array!TypeOK, IdsInARow, NEW t \in QueueThreads, Array!DrawId(t)
  PROVE  /\ idCounter' \in Nat \ {0} /\ id' \in [QueueThreads -> Nat]
         /\ id'[t] # 0 /\ Array!Cell(id'[t]) \in Array!Cells
         /\ \A u \in Drawn : id'[u] = id[u]
         /\ Drawn' = Drawn \cup {t}
         /\ IdsInARow'
<1>1. /\ idCounter \in Nat \ {0} /\ id \in [QueueThreads -> Nat]
  BY DEF Array!TypeOK, Array!ThreadLocalTypeOK
<1>2. /\ idCounter' \in Nat \ {0} /\ id' \in [QueueThreads -> Nat] /\ id'[t] # 0
      /\ \A u \in Drawn : id'[u] = id[u]
      /\ Drawn' = Drawn \cup {t}
  BY <1>1 DEF Array!DrawId, Drawn
<1>3. Array!Cell(id'[t]) \in Array!Cells
  <2>1. id'[t] % Array!ThreadCount \in 0..(Array!ThreadCount - 1)
    BY <1>2, Ring
  <2> QED BY <2>1 DEF Array!Cell, Array!Cells, Array!ThreadCount
<1>4. IdsInARow'
  <2>1. CASE id[t] # 0
    <3>1. Drawn' = Drawn /\ UNCHANGED <<id, idCounter>>
      BY <2>1 DEF Array!DrawId, Drawn
    <3> QED BY <3>1 DEF IdsInARow
  <2>2. CASE id[t] = 0
    <3>1. t \notin Drawn /\ Drawn \in SUBSET QueueThreads
      BY <2>2 DEF Drawn
    <3>2. IsFiniteSet(Drawn) /\ Cardinality(Drawn) \in Nat
      BY <3>1, Ring, FS_Subset, FS_CardinalityType
    <3>3. Cardinality(Drawn') = Cardinality(Drawn) + 1
      BY <1>2, <3>1, <3>2, FS_AddElement
    <3>4. id'[t] = idCounter /\ idCounter' = idCounter + 1
      BY <1>1, <2>2 DEF Array!DrawId
    <3>5. \A u \in Drawn : id[u] \in Nat
      BY <1>1 DEF Drawn
    <3>6. ASSUME NEW u \in Drawn'
          PROVE  id'[u] < idCounter' /\ idCounter' <= id'[u] + Cardinality(Drawn')
      <4>1. CASE u = t
        BY <1>1, <3>2, <3>3, <3>4, <4>1
      <4>2. CASE u \in Drawn
        <5>1. id[u] < idCounter /\ idCounter <= id[u] + Cardinality(Drawn)
          BY <4>2 DEF IdsInARow
        <5> QED BY <1>1, <1>2, <3>2, <3>3, <3>4, <3>5, <4>2, <5>1
      <4> QED BY <1>2, <4>1, <4>2
    <3>7. \A u \in Drawn : id'[u] # id'[t]
      BY <1>1, <1>2, <3>4, <3>5 DEF IdsInARow
    <3>8. \A u, v \in Drawn' : id'[u] = id'[v] => u = v
      BY <1>2, <3>7 DEF IdsInARow
    <3> QED BY <3>6, <3>8 DEF IdsInARow
  <2> QED BY <2>1, <2>2
<1> QED BY <1>2, <1>3, <1>4


-----------------------------------------------------------------------------
(* The constructor: nobody is queued, and the first flag is raised. *)
LEMMA ArrayInitQueueInv ==
  EnoughSlots /\ Array!Init =>
    <<>> \in Seq(QueueThreads) /\ 0 \in Array!Slots /\ ArrayQueueInv(<<>>, 0)
<1> SUFFICES ASSUME EnoughSlots, Array!Init
             PROVE  /\ <<>> \in Seq(QueueThreads) /\ 0 \in Array!Slots
                    /\ ArrayQueueInv(<<>>, 0)
  OBVIOUS
<1>1. /\ Len(<<>>) = 0 /\ 0 \in Array!Slots /\ Array!Engaged = {} /\ Array!Holding = {}
      /\ Drawn = {}
  BY Ring
  DEF Array!Init, Array!ThreadLocalInit, Array!Engaged, Array!Holding, Drawn, Array!Slots
<1>2. Array!TypeOK
  BY Ring DEF Array!Init, Array!ThreadLocalInit, Array!TypeOK, Array!ThreadLocalTypeOK,
              Array!ThreadLocalParameters, Array!Slots, Array!ThreadCount
<1>3. ArrayLined(<<>>) /\ IdsInARow /\ SlotsRemembered
  BY <1>1 DEF Array!Init, ArrayLined, IdsInARow, SlotsRemembered
<1>4. SlotsFollow(<<>>, 0)
  BY <1>1, Ring DEF Array!Init, SlotsFollow
<1>5. OneMayEnter(<<>>, 0)
  <2>1. \A x \in Array!Slots : flags[x] <=> x = 0
    BY DEF Array!Init
  <2> QED BY <1>1, <2>1 DEF OneMayEnter
<1> QED BY <1>1, <1>2, <1>3, <1>4, <1>5 DEF ArrayQueueInv

(* Only the first of the queue may be past its spin loop. *)
LEMMA FirstOnly ==
  ASSUME EnoughSlots, NEW q \in Seq(QueueThreads), NEW s \in Array!Slots,
         ArrayQueueInv(q, s),
         NEW t \in QueueThreads, alockPc[t] \in {"lower", "critical", "pass"}
  PROVE  Len(q) > 0 /\ q[1] = t /\ slot[t] = s
<1>1. Len(q) \in Nat
  BY LenProperties
<1>2. PICK i \in 1..Len(q) : q[i] = t
  BY DEF ArrayQueueInv, ArrayLined, Array!Engaged
<1>3. i = 1
  BY <1>1, <1>2 DEF ArrayQueueInv, OneMayEnter
<1> QED BY <1>1, <1>2, <1>3, Ring DEF ArrayQueueInv, SlotsFollow

(* fetch_add on tail puts t behind the last of the queue, at a slot nobody *)
(* is engaged at.                                                          *)
LEMMA DrawSlotInv ==
  ASSUME EnoughSlots, NEW q \in Seq(QueueThreads), NEW s \in Array!Slots,
         ArrayQueueInv(q, s),
         NEW t \in QueueThreads, Array!DrawSlot(t)
  PROVE  /\ Append(q, t) \in Seq(QueueThreads) /\ ArrayQueueInv(Append(q, t), s)'
         /\ t \notin Array!Engaged /\ Array!Holding' = Array!Holding
<1> PICK r : r = Append(q, t)
  OBVIOUS
<1>1. /\ t \notin Array!Engaged /\ Array!Engaged' = Array!Engaged \cup {t}
      /\ Array!Holding' = Array!Holding
  BY DEF Array!DrawSlot, Array!Goto, ArrayQueueInv, Array!TypeOK, Array!Engaged,
      Array!Holding
<1>2. /\ Len(q) \in Nat /\ Len(q) < Array!ThreadCount /\ Array!ThreadCount \in Nat
      /\ \A i \in 1..Len(q) : q[i] \in Array!Engaged /\ q[i] # t
  BY <1>1, QueueFits, Ring DEF ArrayQueueInv
<1>3. /\ r \in Seq(QueueThreads) /\ Len(r) = Len(q) + 1
      /\ \A i \in 1..Len(q) : r[i] = q[i]
      /\ r[Len(q) + 1] = t
  BY AppendProperties
<1>4. 1..Len(r) = 1..Len(q) \cup {Len(q) + 1} /\ Len(r) - 1 = Len(q)
  BY <1>2, <1>3
<1>5. slot'[t] = Off(s, Len(q)) /\ Off(s, Len(q)) \in Array!Slots
      /\ \A u \in Array!Engaged : slot'[u] = slot[u] /\ alockPc'[u] = alockPc[u]
  <2>1. Off(s, Len(q)) \in Array!Slots
    BY <1>2, Ring
  <2> QED
    BY <1>1, <2>1
    DEF Array!DrawSlot, Array!Goto, ArrayQueueInv, SlotsFollow, Array!TypeOK, Array!Engaged
<1>6. counter' \in 0..MaxTail /\ counter' % Array!ThreadCount = Off(s, Len(r))
  <2>1. counter \in 0..MaxTail /\ MaxTail \in Nat
    BY Ring DEF ArrayQueueInv, Array!TypeOK
  <2>2. counter' % Array!ThreadCount = Array!NextSlot(counter % Array!ThreadCount)
    BY <2>1, TailFollows DEF Array!DrawSlot
  <2>3. counter % Array!ThreadCount = Off(s, Len(q)) /\ Off(s, Len(q)) \in Array!Slots
    BY <1>5 DEF ArrayQueueInv, SlotsFollow
  <2>4. Off(Off(s, Len(q)), 1) = Off(s, Len(q) + 1)
    BY <1>2, Ring
  <2>5. counter' \in 0..MaxTail
    BY <2>1 DEF Array!DrawSlot
  <2> QED BY <1>3, <2>2, <2>3, <2>4, <2>5, Ring
<1>7. Array!TypeOK'
  BY <1>5, <1>6
  DEF Array!DrawSlot, Array!Goto, ArrayQueueInv, Array!TypeOK, Array!ThreadLocalTypeOK,
      Array!threadLocalVars
<1>8. ArrayLined(r)'
  <2>1. \A i, j \in 1..Len(r) : r[i] = r[j] => i = j
    BY <1>2, <1>3, <1>4 DEF ArrayQueueInv, ArrayLined
  <2>2. ASSUME NEW u \in QueueThreads
        PROVE  u \in Array!Engaged' <=> \E i \in 1..Len(r) : r[i] = u
    <3>1. u \in Array!Engaged' <=> u = t \/ \E i \in 1..Len(q) : q[i] = u
      BY <1>1 DEF ArrayQueueInv, ArrayLined
    <3> QED BY <1>3, <1>4, <3>1
  <2> QED BY <2>1, <2>2 DEF ArrayLined
<1>9. SlotsFollow(r, s)'
  <2>1. \A i \in 1..Len(q) : slot'[r[i]] = Off(s, i - 1)
    BY <1>2, <1>3, <1>5 DEF ArrayQueueInv, SlotsFollow
  <2>2. slot'[r[Len(r)]] = Off(s, Len(r) - 1)
    BY <1>3, <1>4, <1>5
  <2> QED BY <1>3, <1>4, <1>6, <2>1, <2>2 DEF SlotsFollow
<1>10. OneMayEnter(r, s)'
  <2>1. ASSUME NEW i \in 2..Len(r) PROVE alockPc'[r[i]] \in {"record", "spin"}
    <3>1. CASE i = Len(r)
      BY <1>3, <3>1 DEF Array!DrawSlot, Array!Goto, ArrayQueueInv, Array!TypeOK
    <3>2. CASE i \in 2..Len(q)
      BY <1>2, <1>3, <1>5, <3>2 DEF ArrayQueueInv, OneMayEnter
    <3> QED BY <1>2, <1>3, <3>1, <3>2
  <2> QED BY <1>1, <2>1 DEF Array!DrawSlot, ArrayQueueInv, OneMayEnter
<1>11. IdsInARow'
  BY DEF Array!DrawSlot, Array!threadLocalVars, ArrayQueueInv, IdsInARow, Drawn
<1>12. SlotsRemembered'
  BY <1>1, <1>5
  DEF Array!DrawSlot, Array!Goto, Array!threadLocalVars, ArrayQueueInv, Array!TypeOK,
      SlotsRemembered, Array!Engaged
<1> QED BY <1>1, <1>3, <1>7, <1>8, <1>9, <1>10, <1>11, <1>12 DEF ArrayQueueInv

(* mySlotIndex.set() touches no other thread's cell. *)
LEMMA RecordSlotInv ==
  ASSUME EnoughSlots, NEW q \in Seq(QueueThreads), NEW s \in Array!Slots,
         ArrayQueueInv(q, s),
         NEW t \in QueueThreads, Array!RecordSlot(t)
  PROVE  /\ ArrayQueueInv(q, s)' /\ Array!Engaged' = Array!Engaged
         /\ Array!Holding' = Array!Holding
<1> USE DEF Array!RecordSlot, Array!Set, Array!Goto, ArrayQueueInv
<1>1. /\ t \in Array!Engaged /\ t \notin Array!Holding /\ Array!Engaged' = Array!Engaged
      /\ Array!Holding' = Array!Holding
  BY DEF Array!TypeOK, Array!Engaged, Array!Holding
<1>2. /\ idCounter' \in Nat \ {0} /\ id' \in [QueueThreads -> Nat]
      /\ id'[t] # 0 /\ Array!Cell(id'[t]) \in Array!Cells
      /\ \A u \in Drawn : id'[u] = id[u]
      /\ Drawn' = Drawn \cup {t}
      /\ IdsInARow'
  BY DrawIdRow
<1>3. slot[t] \in 0..(MaxThreads - 1) /\ Array!ThreadCount \in Nat
  BY Ring DEF Array!TypeOK, Array!Slots, Array!ThreadCount
<1>4. Array!TypeOK'
  BY <1>2, <1>3 DEF Array!TypeOK, Array!ThreadLocalTypeOK
<1>5. ArrayLined(q)' /\ SlotsFollow(q, s)' /\ OneMayEnter(q, s)'
  <2>1. ArrayLined(q)' /\ SlotsFollow(q, s)'
    BY <1>1 DEF ArrayLined, SlotsFollow
  <2>2. \A u \in QueueThreads :
          alockPc[u] \in {"record", "spin"} => alockPc'[u] \in {"record", "spin"}
    BY DEF Array!TypeOK
  <2>3. Len(q) \in Nat /\ \A i \in 1..Len(q) : q[i] \in QueueThreads
    BY QueueFits DEF Array!Engaged
  <2>4. \A i \in 2..Len(q) : q[i] \in QueueThreads
    BY <2>3
  <2>5. OneMayEnter(q, s)'
    BY <1>1, <2>2, <2>4 DEF OneMayEnter
  <2> QED BY <2>1, <2>5
<1>6. \A u, v \in Drawn' : Array!Cell(id'[u]) = Array!Cell(id'[v]) => u = v
  BY <1>2, <1>4, NextOwnCells
<1>7. SlotsRemembered'
  <2>1. ASSUME NEW u \in QueueThreads, alockPc'[u] \in {"spin", "lower", "critical"}
        PROVE  /\ id'[u] # 0 /\ setArr'[Array!Cell(id'[u])]
               /\ dataArr'[Array!Cell(id'[u])] = slot'[u]
    <3>1. CASE u = t
      BY <1>2, <3>1 DEF Array!TypeOK, Array!ThreadLocalTypeOK
    <3>2. CASE u # t
      <4>1. alockPc[u] \in {"spin", "lower", "critical"} /\ u \in Drawn
        BY <2>1, <3>2 DEF Array!TypeOK, SlotsRemembered, Drawn
      <4>2. Array!Cell(id'[u]) # Array!Cell(id'[t]) /\ id'[u] = id[u]
        BY <1>2, <1>6, <3>2, <4>1
      <4> QED
        BY <1>2, <4>1, <4>2
        DEF Array!TypeOK, Array!ThreadLocalTypeOK, SlotsRemembered, Drawn
    <3> QED BY <3>1, <3>2
  <2> QED BY <2>1 DEF SlotsRemembered
<1> QED BY <1>1, <1>2, <1>4, <1>5, <1>7


(* The raised flag is seen by the first of the queue only. *)
LEMMA StopSpinningInv ==
  ASSUME EnoughSlots, NEW q \in Seq(QueueThreads), NEW s \in Array!Slots,
         ArrayQueueInv(q, s),
         NEW t \in QueueThreads, Array!StopSpinning(t)
  PROVE  /\ ArrayQueueInv(q, s)' /\ Array!Engaged' = Array!Engaged
         /\ Array!Holding' = Array!Holding
<1> USE DEF Array!StopSpinning, Array!Goto, Array!threadLocalVars, ArrayQueueInv
<1>1. /\ t \in Array!Engaged /\ t \notin Array!Holding /\ Array!Engaged' = Array!Engaged
      /\ Array!Holding' = Array!Holding
  BY DEF Array!TypeOK, Array!Engaged, Array!Holding
<1>2. slot[t] = s
  BY DEF Array!TypeOK, OneMayEnter
<1>3. PICK i \in 1..Len(q) : q[i] = t
  BY <1>1 DEF ArrayLined, Array!Engaged
<1>4. i - 1 \in 0..(Array!ThreadCount - 1) /\ Len(q) \in Nat
  BY QueueFits, Ring
<1>5. i = 1
  <2>1. Off(s, i - 1) = s
    BY <1>2, <1>3 DEF SlotsFollow
  <2> QED BY <1>3, <1>4, <2>1, Ring
<1>6. OneMayEnter(q, s)'
  <2>1. \A j \in 2..Len(q) : q[j] # t
    BY <1>3, <1>4, <1>5 DEF ArrayLined
  <2> QED BY <1>1, <2>1 DEF Array!TypeOK, OneMayEnter
<1>7. Array!TypeOK' /\ ArrayLined(q)' /\ SlotsFollow(q, s)'
  BY <1>1 DEF Array!TypeOK, Array!ThreadLocalTypeOK, ArrayLined, SlotsFollow
<1>8. IdsInARow' /\ SlotsRemembered'
  BY DEF Array!TypeOK, IdsInARow, Drawn, SlotsRemembered
<1> QED BY <1>1, <1>6, <1>7, <1>8

(* The thread that takes the token down holds the lock. *)
LEMMA LowerFlagInv ==
  ASSUME EnoughSlots, NEW q \in Seq(QueueThreads), NEW s \in Array!Slots,
         ArrayQueueInv(q, s),
         NEW t \in QueueThreads, Array!LowerFlag(t)
  PROVE  /\ ArrayQueueInv(q, s)' /\ Len(q) > 0 /\ q[1] = t /\ Array!Holding = {}
         /\ Array!Holding' # {}
<1> USE DEF Array!LowerFlag, Array!Goto, Array!threadLocalVars, ArrayQueueInv
<1>1. Len(q) > 0 /\ q[1] = t /\ slot[t] = s /\ Len(q) \in Nat
  BY FirstOnly, LenProperties
<1>2. Array!Holding = {}
  <2>1. \A u \in Array!Holding : u = t
    BY <1>1, FirstOnly DEF Array!Holding
  <2> QED BY <2>1 DEF Array!Holding
<1>3. Array!Engaged' = Array!Engaged /\ Array!Holding' # {}
  BY DEF Array!TypeOK, Array!Engaged, Array!Holding
<1>4. \A x \in Array!Slots : ~ flags'[x]
  BY <1>1, <1>2 DEF Array!TypeOK, OneMayEnter
<1>5. OneMayEnter(q, s)'
  <2>1. \A j \in 2..Len(q) : q[j] # t
    BY <1>1 DEF ArrayLined
  <2> QED BY <1>3, <1>4, <2>1 DEF Array!TypeOK, OneMayEnter
<1>6. Array!TypeOK' /\ ArrayLined(q)' /\ SlotsFollow(q, s)'
  BY <1>3 DEF Array!TypeOK, Array!ThreadLocalTypeOK, ArrayLined, SlotsFollow
<1>7. IdsInARow' /\ SlotsRemembered'
  BY DEF Array!TypeOK, IdsInARow, Drawn, SlotsRemembered
<1> QED BY <1>1, <1>2, <1>3, <1>5, <1>6, <1>7

(* unlock() finds the slot that lock() drew: the ThreadLocal still has it. *)
LEMMA RecallSlotInv ==
  ASSUME EnoughSlots, NEW q \in Seq(QueueThreads), NEW s \in Array!Slots,
         ArrayQueueInv(q, s),
         NEW t \in QueueThreads, Array!RecallSlot(t)
  PROVE  /\ ArrayQueueInv(q, s)' /\ Array!Engaged' = Array!Engaged
         /\ Array!Holding' = Array!Holding
<1> USE DEF Array!Goto, ArrayQueueInv
<1>1. Array!Engaged' = Array!Engaged /\ Array!Holding' = Array!Holding
  BY DEF Array!RecallSlot, Array!TypeOK, Array!Engaged, Array!Holding
<1>2. /\ id[t] # 0 /\ setArr[Array!Cell(id[t])] /\ dataArr[Array!Cell(id[t])] = slot[t]
      /\ Array!Cell(id[t]) \in Array!Cells
  <2>1. id[t] # 0 /\ setArr[Array!Cell(id[t])] /\ dataArr[Array!Cell(id[t])] = slot[t]
    BY DEF Array!RecallSlot, SlotsRemembered
  <2>2. id[t] % Array!ThreadCount \in 0..(Array!ThreadCount - 1)
    BY Ring DEF Array!TypeOK, Array!ThreadLocalTypeOK
  <2> QED BY <2>1, <2>2 DEF Array!Cell, Array!Cells, Array!ThreadCount
<1>3. UNCHANGED <<Array!threadLocalVars, counter, flags, slot>>
  <2>1. PICK v : Array!Get(t, v) /\ slot' = [slot EXCEPT ![t] = v]
    BY DEF Array!RecallSlot
  <2>2. UNCHANGED <<id, idCounter>>
    BY <1>2, <2>1 DEF Array!Get, Array!DrawId
  <2>3. v = slot[t]
    BY <1>2, <2>1, <2>2 DEF Array!Get
  <2>4. setArr' = setArr
    <3>1. setArr' = [setArr EXCEPT ![Array!Cell(id[t])] = TRUE]
      BY <2>1, <2>2 DEF Array!Get
    <3>2. setArr[Array!Cell(id[t])] = TRUE
      BY <1>2 DEF Array!TypeOK, Array!ThreadLocalTypeOK
    <3> QED BY <3>1, <3>2 DEF Array!TypeOK, Array!ThreadLocalTypeOK
  <2>5. dataArr' = dataArr
    BY <1>2, <2>1, <2>2, <2>3 DEF Array!Get, Array!TypeOK, Array!ThreadLocalTypeOK
  <2>6. slot' = slot
    BY <2>1, <2>3 DEF Array!TypeOK
  <2> QED BY <2>2, <2>4, <2>5, <2>6 DEF Array!RecallSlot, Array!threadLocalVars
<1>4. OneMayEnter(q, s)'
  <2>1. \A j \in 2..Len(q) : q[j] # t
    BY DEF Array!RecallSlot, OneMayEnter
  <2> QED BY <1>1, <1>3, <2>1 DEF Array!RecallSlot, Array!TypeOK, OneMayEnter
<1>5. Array!TypeOK' /\ ArrayLined(q)' /\ SlotsFollow(q, s)'
  BY <1>1, <1>3
  DEF Array!RecallSlot, Array!threadLocalVars, Array!TypeOK, Array!ThreadLocalTypeOK,
      ArrayLined, SlotsFollow
<1>6. IdsInARow' /\ SlotsRemembered'
  BY <1>3
  DEF Array!RecallSlot, Array!threadLocalVars, Array!TypeOK, IdsInARow, Drawn,
      SlotsRemembered
<1> QED BY <1>1, <1>4, <1>5, <1>6


(* The token goes to the next slot, and the next thread is first. *)
LEMMA RaiseNextFlagInv ==
  ASSUME EnoughSlots, NEW q \in Seq(QueueThreads), NEW s \in Array!Slots,
         ArrayQueueInv(q, s),
         NEW t \in QueueThreads, Array!RaiseNextFlag(t)
  PROVE  /\ Tail(q) \in Seq(QueueThreads) /\ Off(s, 1) \in Array!Slots
         /\ ArrayQueueInv(Tail(q), Off(s, 1))'
         /\ Len(q) > 0 /\ q[1] = t /\ Array!Holding # {} /\ Array!Holding' = {}
<1> PICK r, z : r = Tail(q) /\ z = Off(s, 1)
  OBVIOUS
<1> USE DEF Array!RaiseNextFlag, Array!Goto, Array!threadLocalVars, ArrayQueueInv
<1>1. Len(q) > 0 /\ q[1] = t /\ slot[t] = s
  BY FirstOnly
<1>2. Len(q) \in Nat /\ Len(q) <= Array!ThreadCount /\ Array!ThreadCount \in Nat
  BY QueueFits, Ring
<1>3. /\ r \in Seq(QueueThreads) /\ Len(r) = Len(q) - 1
      /\ \A i \in 1..Len(r) : r[i] = q[i + 1]
  BY <1>1, HeadTailProperties, EmptySeq
<1>4. /\ \A i \in 1..Len(r) : i + 1 \in 2..Len(q) /\ i - 1 \in 0..(Array!ThreadCount - 1)
      /\ \A i \in 2..Len(q) : i - 1 \in 1..Len(r) /\ q[i] = r[i - 1] /\ q[i] # t
  <2>1. \A i \in 1..Len(r) : i + 1 \in 2..Len(q) /\ i - 1 \in 0..(Array!ThreadCount - 1)
    BY <1>2, <1>3
  <2>2. ASSUME NEW i \in 2..Len(q)
        PROVE  i - 1 \in 1..Len(r) /\ q[i] = r[i - 1] /\ q[i] # t
    <3>1. i - 1 \in 1..Len(r) /\ (i - 1) + 1 = i /\ i # 1 /\ 1 \in 1..Len(q)
      BY <1>1, <1>2, <1>3
    <3> QED BY <1>1, <1>3, <3>1 DEF ArrayLined
  <2> QED BY <2>1, <2>2
<1>5. t \in Array!Holding /\ Array!Engaged' = Array!Engaged \ {t} /\ Array!Holding' = {}
  <2>1. \A u \in Array!Holding : u = t
    BY <1>1, FirstOnly DEF Array!Holding
  <2> QED BY <2>1 DEF Array!TypeOK, Array!Engaged, Array!Holding
<1>6. z \in Array!Slots /\ flags' = [flags EXCEPT ![z] = TRUE]
  BY <1>1, Ring
<1>turn. \A k \in 0..(Array!ThreadCount - 1) : Off(z, k) = Off(s, k + 1)
  BY Ring
<1>7. Array!TypeOK'
  BY <1>6 DEF Array!TypeOK, Array!ThreadLocalTypeOK
<1>8. ArrayLined(r)'
  <2>1. ASSUME NEW i \in 1..Len(r), NEW j \in 1..Len(r), r[i] = r[j] PROVE i = j
    <3>1. i + 1 \in 1..Len(q) /\ j + 1 \in 1..Len(q) /\ q[i + 1] = q[j + 1]
      BY <1>3, <1>4, <2>1
    <3>2. i + 1 = j + 1
      BY <3>1 DEF ArrayLined
    <3> QED BY <3>2
  <2>2. ASSUME NEW u \in QueueThreads
        PROVE  u \in Array!Engaged' <=> \E i \in 1..Len(r) : r[i] = u
    <3>1. u \in Array!Engaged' <=> \E i \in 2..Len(q) : q[i] = u
      BY <1>1, <1>2, <1>4, <1>5 DEF ArrayLined
    <3> QED BY <1>3, <1>4, <3>1
  <2> QED BY <2>1, <2>2 DEF ArrayLined
<1>9. SlotsFollow(r, z)'
  <2>1. ASSUME NEW i \in 1..Len(r) PROVE slot'[r[i]] = Off(z, i - 1)
    <3>1. slot[q[i + 1]] = Off(s, (i + 1) - 1) /\ (i + 1) - 1 = (i - 1) + 1
      BY <1>4 DEF SlotsFollow
    <3>2. Off(z, i - 1) = Off(s, (i - 1) + 1)
      BY <1>4, <1>turn
    <3> QED BY <1>3, <3>1, <3>2
  <2>2. counter % Array!ThreadCount = Off(z, Len(r))
    <3>1. Len(r) \in 0..(Array!ThreadCount - 1) /\ Len(r) + 1 = Len(q)
      BY <1>1, <1>2, <1>3
    <3>2. Off(z, Len(r)) = Off(s, Len(r) + 1)
      BY <3>1, <1>turn
    <3> QED BY <3>1, <3>2 DEF SlotsFollow
  <2> QED BY <2>1, <2>2 DEF SlotsFollow
<1>10. OneMayEnter(r, z)'
  <2>1. ASSUME NEW i \in 2..Len(r) PROVE alockPc'[r[i]] \in {"record", "spin"}
    <3>1. i \in 1..Len(r)
      OBVIOUS
    <3>2. r[i] = q[i + 1] /\ i + 1 \in 2..Len(q)
      BY <1>3, <1>4, <3>1
    <3> QED BY <1>4, <3>2 DEF Array!TypeOK, OneMayEnter
  <2>2. \A x \in Array!Slots : flags'[x] <=> x = z
    <3>1. \A x \in Array!Slots : ~ flags[x]
      BY <1>5 DEF OneMayEnter
    <3> QED BY <1>6, <3>1 DEF Array!TypeOK
  <2> QED BY <1>5, <2>1, <2>2 DEF OneMayEnter
<1>11. IdsInARow' /\ SlotsRemembered'
  BY DEF Array!TypeOK, IdsInARow, Drawn, SlotsRemembered
<1> QED BY <1>1, <1>3, <1>5, <1>6, <1>7, <1>8, <1>9, <1>10, <1>11

(* What one step does to the queue: somebody arrives at its end, its first *)
(* leaves, or it stays as it is.                                           *)
LEMMA ArrayStepQueueInv ==
  ASSUME EnoughSlots, NEW q \in Seq(QueueThreads), NEW s \in Array!Slots,
         ArrayQueueInv(q, s),
         [Array!Next]_Array!vars
  PROVE  \E r \in Seq(QueueThreads), z \in Array!Slots : ArrayQueueInv(r, z)'
<1>1. CASE UNCHANGED Array!vars
  <2>1. ArrayQueueInv(q, s)'
    BY <1>1
    DEF Array!vars, Array!lockVars, Array!threadLocalVars, ArrayQueueInv, Array!TypeOK,
        Array!ThreadLocalTypeOK, ArrayLined, SlotsFollow, OneMayEnter, IdsInARow, Drawn,
        SlotsRemembered, Array!Engaged, Array!Holding
  <2> QED BY <2>1
<1>2. CASE Array!Next
  <2> PICK t \in QueueThreads : Array!DrawSlot(t) \/ Array!Step(t)
    BY <1>2 DEF Array!Next
  <2>1. CASE Array!DrawSlot(t)       BY <2>1, DrawSlotInv
  <2>2. CASE Array!RecordSlot(t)     BY <2>2, RecordSlotInv
  <2>3. CASE Array!StopSpinning(t)   BY <2>3, StopSpinningInv
  <2>4. CASE Array!LowerFlag(t)      BY <2>4, LowerFlagInv
  <2>5. CASE Array!RecallSlot(t)     BY <2>5, RecallSlotInv
  <2>6. CASE Array!RaiseNextFlag(t)  BY <2>6, RaiseNextFlagInv
  <2> QED BY <2>1, <2>2, <2>3, <2>4, <2>5, <2>6 DEF Array!Step
<1> QED BY <1>1, <1>2

(* In every state the engaged threads stand in one queue, at slots that    *)
(* follow each other on the ring, and the token is at its head.            *)
THEOREM ArrayInvariance == ASSUME EnoughSlots PROVE Array!Spec => []ArrayInv
<1>1. Array!Init => ArrayInv
  BY ArrayInitQueueInv DEF ArrayInv
<1>2. ArrayInv /\ [Array!Next]_Array!vars => ArrayInv'
  BY ArrayStepQueueInv DEF ArrayInv
<1> QED BY <1>1, <1>2, PTL DEF Array!Spec

(* Slots, cells and the words stay within their ranges, whatever ids the   *)
(* threads of earlier tests have drawn.                                    *)
THEOREM ArrayTyping == ASSUME EnoughSlots PROVE Array!Spec => []Array!TypeOK
<1>1. ArrayInv => Array!TypeOK
  BY DEF ArrayInv, ArrayQueueInv
<1> QED BY <1>1, ArrayInvariance, PTL

(* At most one thread is between lock() and unlock().                      *)
THEOREM ArrayMutex == ASSUME EnoughSlots PROVE Array!Spec => []Array!MutualExclusion
<1>1. ArrayInv => Array!MutualExclusion
  BY FirstOnly DEF ArrayInv, Array!MutualExclusion, Array!Holding
<1> QED BY <1>1, ArrayInvariance, PTL

(* No two threads keep their slots in one cell of the ThreadLocal.         *)
THEOREM CellsApart == ASSUME EnoughSlots PROVE Array!Spec => []Array!CellsUnshared
<1>1. ArrayInv => Array!CellsUnshared
  BY OwnCells DEF ArrayInv, ArrayQueueInv, Array!CellsUnshared, Drawn
<1> QED BY <1>1, ArrayInvariance, PTL

(* The token is never lost or doubled, and no two threads wait for it at   *)
(* one slot, also after tail has wrapped.                                  *)
THEOREM TokenKept == ASSUME EnoughSlots PROVE Array!Spec => []Array!OneToken
<1>1. ASSUME NEW q \in Seq(QueueThreads), NEW s \in Array!Slots, ArrayQueueInv(q, s)
      PROVE  Array!OneToken
  <2> DEFINE Raised == {x \in Array!Slots : flags[x]}
  <2>1. Cardinality(Raised) + Cardinality(Array!Holding) = 1
    <3>1. CASE Array!Holding = {}
      <4>1. Raised = {s}
        BY <1>1, <3>1 DEF ArrayQueueInv, OneMayEnter
      <4>2. Cardinality(Raised) = 1 /\ Cardinality(Array!Holding) = 0
        BY <3>1, <4>1, FS_EmptySet, FS_Singleton
      <4> QED BY <4>2
    <3>2. CASE Array!Holding # {}
      <4>1. Raised = {}
        BY <1>1, <3>2 DEF ArrayQueueInv, OneMayEnter
      <4>2. Array!Holding = {q[1]}
        BY <1>1, <3>2, FirstOnly DEF Array!Holding
      <4>3. Cardinality(Raised) = 0 /\ Cardinality(Array!Holding) = 1
        BY <4>1, <4>2, FS_EmptySet, FS_Singleton
      <4> QED BY <4>3
    <3> QED BY <3>1, <3>2
  <2>2. ASSUME NEW t \in Array!Engaged, NEW u \in Array!Engaged, slot[t] = slot[u]
        PROVE  t = u
    <3>1. PICK i, j \in 1..Len(q) : q[i] = t /\ q[j] = u
      BY <1>1 DEF ArrayQueueInv, ArrayLined, Array!Engaged
    <3>2. Off(s, i - 1) = Off(s, j - 1)
      BY <1>1, <2>2, <3>1 DEF ArrayQueueInv, SlotsFollow
    <3>3. i - 1 \in 0..(Array!ThreadCount - 1) /\ j - 1 \in 0..(Array!ThreadCount - 1)
      BY <1>1, QueueFits, Ring DEF ArrayQueueInv
    <3>4. i - 1 = j - 1
      BY <3>2, <3>3, Ring
    <3> QED BY <3>1, <3>4
  <2> QED BY <2>1, <2>2, SameLibrary DEF Array!OneToken
<1>2. ArrayInv => Array!OneToken
  BY <1>1 DEF ArrayInv
<1> QED BY <1>2, ArrayInvariance, PTL


-----------------------------------------------------------------------------
(* The token gets to the i-th thread of the queue after i - 1 steps. *)
LEMMA PlaceOfSlot ==
  ASSUME EnoughSlots, NEW q \in Seq(QueueThreads), NEW s \in Array!Slots,
         ArrayQueueInv(q, s)
  PROVE  \A i \in 1..Len(q) : Array!Ahead(slot[q[i]]) = i - 1
<1>1. Array!TokenSlot = s
  <2>1. CASE Array!Holding = {}
    <3>1. \A x \in Array!Slots : flags[x] <=> x = s
      BY <2>1 DEF ArrayQueueInv, OneMayEnter
    <3>2. (CHOOSE x \in Array!Slots : flags[x]) = s
      BY <3>1
    <3> QED BY <2>1, <3>2 DEF Array!TokenSlot
  <2>2. CASE Array!Holding # {}
    <3>1. \A t \in Array!Holding : slot[t] = s
      BY FirstOnly DEF Array!Holding
    <3>2. (CHOOSE t \in Array!Holding : TRUE) \in Array!Holding
      BY <2>2
    <3> QED BY <2>2, <3>1, <3>2 DEF Array!TokenSlot
  <2> QED BY <2>1, <2>2
<1>2. ASSUME NEW i \in 1..Len(q) PROVE Array!Ahead(slot[q[i]]) = i - 1
  <2> DEFINE k == i - 1
             T == Array!ThreadCount
  <2>1. k \in 0..(T - 1) /\ T \in Nat \ {0} /\ s \in 0..(T - 1)
    BY QueueFits, Ring DEF ArrayQueueInv, Array!Slots
  <2>2. slot[q[i]] = Off(s, k)
    BY DEF ArrayQueueInv, SlotsFollow
  <2> HIDE DEF k, T
  <2>3. Off(s, k) = IF s + k < T THEN s + k ELSE s + k - T
    BY DEF Off, T
  <2>4. Array!Ahead(slot[q[i]]) = (Off(s, k) + T - s) % T
    BY <1>1, <2>2 DEF Array!Ahead, T
  <2>5. CASE s + k < T
    <3>1. Off(s, k) + T - s = T * 1 + k
      BY <2>1, <2>3, <2>5
    <3>2. (T * 1 + k) % T = k
      BY <2>1, RemainderOf
    <3> QED BY <2>4, <3>1, <3>2 DEF k
  <2>6. CASE ~ (s + k < T)
    <3>1. Off(s, k) + T - s = k
      BY <2>1, <2>3, <2>6
    <3>2. k % T = k
      BY <2>1
    <3> QED BY <2>4, <3>1, <3>2 DEF k
  <2> QED BY <2>5, <2>6
<1> QED BY <1>2

(* A sequence of numbers below its length that only rises counts up from 0: *)
(* there is no room before an element for fewer, nor behind it for more.    *)
LEMMA RisesByOne ==
  ASSUME NEW n \in Nat, NEW f \in [1..n -> 0..(n - 1)],
         \A i, j \in 1..n : i < j => f[i] < f[j],
         NEW i \in 1..n
  PROVE  f[i] = i - 1
<1>1. i \in Int /\ f[i] \in 0..(n - 1)
  OBVIOUS
<1>2. i - 1 <= f[i]
  <2> DEFINE g == [j \in 1..(i - 1) |-> f[j]]
  <2>1. \A j \in 1..(i - 1) : j \in 1..n /\ j < i
    BY <1>1
  <2>2. \A j \in 1..(i - 1) : f[j] \in 0..(f[i] - 1)
    BY <1>1, <2>1
  <2>3. \A j, k \in 1..(i - 1) : f[j] = f[k] => j = k
    BY <2>1
  <2>4. g \in Injection(1..(i - 1), 0..(f[i] - 1))
    BY <2>2, <2>3 DEF Injection, IsInjective
  <2>5. /\ IsFiniteSet(0..(f[i] - 1)) /\ Cardinality(0..(f[i] - 1)) = f[i]
        /\ Cardinality(1..(i - 1)) = i - 1
    <3>1. 0 \in Int /\ 1 \in Int /\ f[i] - 1 \in Int /\ i - 1 \in Int
      BY <1>1
    <3>2. /\ IsFiniteSet(0..(f[i] - 1))
          /\ Cardinality(0..(f[i] - 1)) = IF 0 > f[i] - 1 THEN 0 ELSE (f[i] - 1) - 0 + 1
          /\ Cardinality(1..(i - 1)) = IF 1 > i - 1 THEN 0 ELSE (i - 1) - 1 + 1
      BY <3>1, FS_Interval
    <3> QED BY <1>1, <3>2
  <2> QED BY <2>4, <2>5, FS_Injection
<1>3. f[i] <= i - 1
  <2> DEFINE g == [j \in (i + 1)..n |-> f[j]]
  <2>1. \A j \in (i + 1)..n : j \in 1..n /\ i < j
    BY <1>1
  <2>2. \A j \in (i + 1)..n : f[j] \in (f[i] + 1)..(n - 1)
    BY <1>1, <2>1
  <2>3. \A j, k \in (i + 1)..n : f[j] = f[k] => j = k
    BY <2>1
  <2>4. g \in Injection((i + 1)..n, (f[i] + 1)..(n - 1))
    BY <2>2, <2>3 DEF Injection, IsInjective
  <2>5. /\ IsFiniteSet((f[i] + 1)..(n - 1))
        /\ Cardinality((f[i] + 1)..(n - 1)) = n - 1 - f[i]
        /\ Cardinality((i + 1)..n) = n - i
    <3>1. f[i] + 1 \in Int /\ n - 1 \in Int /\ i + 1 \in Int /\ n \in Int
      BY <1>1
    <3>2. /\ IsFiniteSet((f[i] + 1)..(n - 1))
          /\ Cardinality((f[i] + 1)..(n - 1))
               = IF f[i] + 1 > n - 1 THEN 0 ELSE (n - 1) - (f[i] + 1) + 1
          /\ Cardinality((i + 1)..n) = IF i + 1 > n THEN 0 ELSE n - (i + 1) + 1
      BY <3>1, FS_Interval
    <3> QED BY <1>1, <3>2
  <2>6. n - i <= n - 1 - f[i]
    BY <2>4, <2>5, FS_Injection
  <2> QED BY <1>1, <2>6
<1> QED BY <1>1, <1>2, <1>3


(* Queue is the queue of the invariant: its slots rise by one, and those   *)
(* of no other sequence of the engaged threads rise.                       *)
LEMMA ArrayQueueIsLine ==
  ASSUME EnoughSlots, NEW q \in Seq(QueueThreads), NEW s \in Array!Slots,
         ArrayQueueInv(q, s)
  PROVE  Array!Queue = q
<1> PICK n : n = Len(q)
  OBVIOUS
<1> DEFINE Rises(r) == \A i, j \in 1..Len(r) :
                         i < j => Array!Ahead(slot[r[i]]) < Array!Ahead(slot[r[j]])
<1>1. /\ n \in Nat /\ q \in [1..n -> Array!Engaged] /\ Cardinality(Array!Engaged) = n
      /\ \A i, j \in 1..n : i # j => q[i] # q[j]
      /\ \A t \in Array!Engaged : \E i \in 1..n : q[i] = t
  <2>1. /\ n \in Nat /\ Cardinality(Array!Engaged) = n
        /\ \A i \in 1..n : q[i] \in Array!Engaged
    BY QueueFits DEF ArrayQueueInv
  <2>2. q \in [1..n -> QueueThreads]
    BY <2>1, LenProperties
  <2> QED BY <2>1, <2>2 DEF ArrayQueueInv, ArrayLined, Array!Engaged
<1>2. \A i \in 1..n : Array!Ahead(slot[q[i]]) = i - 1
  BY PlaceOfSlot
<1>3. q \in SetToSeqs(Array!Engaged) /\ Rises(q)
  <2>1. q \in SetToSeqs(Array!Engaged)
    BY <1>1 DEF SetToSeqs
  <2>2. Rises(q)
    BY <1>1, <1>2
  <2> QED BY <2>1, <2>2
<1>4. ASSUME NEW r \in SetToSeqs(Array!Engaged), Rises(r) PROVE r = q
  <2>1. r \in [1..n -> Array!Engaged]
    BY <1>1 DEF SetToSeqs
  <2>2. Len(r) = n
    BY <1>1, <2>1
  <2> PICK f : f = [i \in 1..n |-> Array!Ahead(slot[r[i]])]
    OBVIOUS
  <2>3. \A i \in 1..n : \E j \in 1..n : r[i] = q[j] /\ f[i] = j - 1
    BY <1>1, <1>2, <2>1
  <2>4. f \in [1..n -> 0..(n - 1)]
    <3>1. ASSUME NEW i \in 1..n PROVE f[i] \in 0..(n - 1)
      <4> PICK j \in 1..n : f[i] = j - 1
        BY <2>3
      <4> QED BY <1>1
    <3> QED BY <3>1
  <2>5. \A i, j \in 1..n : i < j => f[i] < f[j]
    BY <1>4, <2>2
  <2>6. ASSUME NEW i \in 1..n PROVE r[i] = q[i]
    <3>1. f[i] = i - 1
      BY <1>1, <2>4, <2>5, RisesByOne
    <3>2. PICK j \in 1..n : r[i] = q[j] /\ f[i] = j - 1
      BY <2>3
    <3>3. i = j
      BY <1>1, <3>1, <3>2
    <3> QED BY <3>2, <3>3
  <2> QED BY <1>1, <2>1, <2>6
<1> HIDE DEF Rises
<1>5. (CHOOSE r \in SetToSeqs(Array!Engaged) : Rises(r)) = q
  BY <1>3, <1>4
<1> QED BY <1>5, SameLibrary DEF Array!Queue, Rises

(* The same after a step. *)
LEMMA ArrayNextQueueIsLine ==
  EnoughSlots =>
    \A q \in Seq(QueueThreads), s \in Array!Slots : ArrayQueueInv(q, s)' => Array!Queue' = q
<1> DEFINE InLine ==
             \A q \in Seq(QueueThreads), s \in Array!Slots :
               ArrayQueueInv(q, s) => Array!Queue = q
<1>1. EnoughSlots => InLine
  BY ArrayQueueIsLine
<1>2. (EnoughSlots => InLine)'
  BY <1>1, PTL
<1> QED BY <1>2 DEF EnoughSlots, Array!ThreadCount, Array!Slots

(* fetch_add on tail takes the last place of the queue. *)
LEMMA ArrayArriveRefines ==
  ASSUME EnoughSlots, NEW q \in Seq(QueueThreads), NEW s \in Array!Slots,
         ArrayQueueInv(q, s),
         NEW t \in QueueThreads, Array!DrawSlot(t)
  PROVE  Array!Fifo!Arrive(t)
<1>1. /\ Append(q, t) \in Seq(QueueThreads) /\ ArrayQueueInv(Append(q, t), s)'
      /\ t \notin Array!Engaged /\ Array!Holding' = Array!Holding
  BY DrawSlotInv
<1>2. Array!Queue = q /\ Array!Queue' = Append(q, t)
  BY <1>1, ArrayQueueIsLine, ArrayNextQueueIsLine
<1>3. ~ \E i \in 1..Len(q) : q[i] = t
  BY <1>1 DEF ArrayQueueInv, ArrayLined
<1> QED BY <1>1, <1>2, <1>3 DEF Array!Fifo!Arrive, Array!Fifo!InQueue

(* The first of the queue takes the token down and enters. *)
LEMMA ArrayEnterRefines ==
  ASSUME EnoughSlots, NEW q \in Seq(QueueThreads), NEW s \in Array!Slots,
         ArrayQueueInv(q, s),
         NEW t \in QueueThreads, Array!LowerFlag(t)
  PROVE  Array!Fifo!Enter(t)
<1>1. /\ ArrayQueueInv(q, s)' /\ Len(q) > 0 /\ q[1] = t /\ Array!Holding = {}
      /\ Array!Holding' # {}
  BY LowerFlagInv
<1>2. Array!Queue = q /\ Array!Queue' = q
  BY <1>1, ArrayQueueIsLine, ArrayNextQueueIsLine
<1>3. q # <<>> /\ Head(q) = t
  BY <1>1, EmptySeq
<1> QED BY <1>1, <1>2, <1>3 DEF Array!Fifo!Enter

(* The owner raises the next flag and leaves the queue. *)
LEMMA ArrayLeaveRefines ==
  ASSUME EnoughSlots, NEW q \in Seq(QueueThreads), NEW s \in Array!Slots,
         ArrayQueueInv(q, s),
         NEW t \in QueueThreads, Array!RaiseNextFlag(t)
  PROVE  Array!Fifo!Leave(t)
<1>1. /\ Tail(q) \in Seq(QueueThreads) /\ Off(s, 1) \in Array!Slots
      /\ ArrayQueueInv(Tail(q), Off(s, 1))'
      /\ Len(q) > 0 /\ q[1] = t /\ Array!Holding # {} /\ Array!Holding' = {}
  BY RaiseNextFlagInv
<1>2. Array!Queue = q /\ Array!Queue' = Tail(q)
  BY <1>1, ArrayQueueIsLine, ArrayNextQueueIsLine
<1>3. Head(q) = t
  BY <1>1, EmptySeq
<1> QED BY <1>1, <1>2, <1>3 DEF Array!Fifo!Leave

(* Every other step leaves the queue and its first's state as they are. *)
LEMMA ArrayStepsUnseen ==
  ASSUME EnoughSlots, NEW q \in Seq(QueueThreads), NEW s \in Array!Slots,
         ArrayQueueInv(q, s),
         NEW t \in QueueThreads,
         Array!RecordSlot(t) \/ Array!StopSpinning(t) \/ Array!RecallSlot(t)
  PROVE  UNCHANGED Array!Fifo!vars
<1>1. ArrayQueueInv(q, s)' /\ Array!Holding' = Array!Holding
  BY RecordSlotInv, StopSpinningInv, RecallSlotInv
<1>2. Array!Queue = q /\ Array!Queue' = q
  BY <1>1, ArrayQueueIsLine, ArrayNextQueueIsLine
<1> QED BY <1>1, <1>2 DEF Array!Fifo!vars

(* Threads hold the lock one at a time and in the order of their draws     *)
(* from tail: each step of the array lock is an arrival, an entry or a     *)
(* departure of FifoMutex, or leaves its queue alone.                      *)
THEOREM ArrayServesInOrder == ASSUME EnoughSlots PROVE Array!Spec => Array!Fifo!Spec
<1>1. Array!Init => Array!Fifo!Init
  <2> SUFFICES ASSUME Array!Init PROVE Array!Fifo!Init
    OBVIOUS
  <2>1. Array!Queue = <<>>
    BY ArrayInitQueueInv, ArrayQueueIsLine
  <2>2. Array!Holding = {}
    BY DEF Array!Init, Array!Holding
  <2> QED BY <2>1, <2>2 DEF Array!Fifo!Init
<1>2. ArrayInv /\ [Array!Next]_Array!vars => [Array!Fifo!Next]_Array!Fifo!vars
  <2> SUFFICES ASSUME ArrayInv, [Array!Next]_Array!vars
               PROVE  Array!Fifo!Next \/ UNCHANGED Array!Fifo!vars
    OBVIOUS
  <2> PICK q \in Seq(QueueThreads), s \in Array!Slots : ArrayQueueInv(q, s)
    BY DEF ArrayInv
  <2>1. CASE UNCHANGED Array!vars
    BY <2>1
    DEF Array!vars, Array!lockVars, Array!threadLocalVars, Array!Fifo!vars, Array!Queue,
        Array!Holding, Array!Engaged, Array!Ahead, Array!TokenSlot
  <2>2. ASSUME NEW t \in QueueThreads, Array!DrawSlot(t) PROVE Array!Fifo!Next
    BY <2>2, ArrayArriveRefines DEF Array!Fifo!Next
  <2>3. ASSUME NEW t \in QueueThreads, Array!Step(t)
        PROVE  Array!Fifo!Next \/ UNCHANGED Array!Fifo!vars
    <3>1. CASE Array!LowerFlag(t)
      BY <3>1, ArrayEnterRefines DEF Array!Fifo!Next
    <3>2. CASE Array!RaiseNextFlag(t)
      BY <3>2, ArrayLeaveRefines DEF Array!Fifo!Next
    <3>3. CASE Array!RecordSlot(t) \/ Array!StopSpinning(t) \/ Array!RecallSlot(t)
      BY <3>3, ArrayStepsUnseen
    <3> QED BY <2>3, <3>1, <3>2, <3>3 DEF Array!Step
  <2> QED BY <2>1, <2>2, <2>3 DEF Array!Next
<1> QED BY <1>1, <1>2, ArrayInvariance, PTL DEF Array!Spec, Array!Fifo!Spec
-----------------------------------------------------------------------------
(* A lock that is not under test keeps its state. *)
LEMMA TicketSteps == LocksSpec => Spec
<1>1. LocksInit => Init
  BY DEF LocksInit
<1>2. [TestTwoCounterLock \/ TestMCSLock \/ TestALock]_locksVars => [Next]_vars
  BY DEF locksVars, TestTwoCounterLock, TestMCSLock, TestALock
<1> QED BY <1>1, <1>2, PTL DEF LocksSpec, Spec

LEMMA MCSSteps == LocksSpec => MCS!Spec
<1>1. LocksInit => MCS!Init
  BY DEF LocksInit
<1>2. [TestTwoCounterLock \/ TestMCSLock \/ TestALock]_locksVars => [MCS!Next]_MCS!vars
  BY DEF locksVars, mcsVars, TestTwoCounterLock, TestMCSLock, TestALock, MCS!vars
<1> QED BY <1>1, <1>2, PTL DEF LocksSpec, MCS!Spec

LEMMA ArraySteps == LocksSpec => Array!Spec
<1>1. LocksInit => Array!Init
  BY DEF LocksInit
<1>2. [TestTwoCounterLock \/ TestMCSLock \/ TestALock]_locksVars => [Array!Next]_Array!vars
  BY DEF locksVars, arrayVars, TestTwoCounterLock, TestMCSLock, TestALock,
         Array!vars, Array!threadLocalVars, Array!lockVars
<1> QED BY <1>1, <1>2, PTL DEF LocksSpec, Array!Spec

(* The variables of the three locks keep their types: in MCSLock no null   *)
(* pointer is dereferenced.                                                *)
THEOREM LocksTyping == ASSUME EnoughSlots PROVE LocksSpec => []LocksTypeOK
<1>1. TypeOK /\ MCS!TypeOK /\ Array!TypeOK => LocksTypeOK
  BY DEF LocksTypeOK
<1> QED BY <1>1, Typing, MCSTyping, ArrayTyping, TicketSteps, MCSSteps, ArraySteps, PTL

(* MCSLock: a thread that is not in lock() or unlock() left its node as    *)
(* new, for any number of threads.                                         *)
THEOREM NodesAsNew == LocksSpec => []IdleNodesAsNew
<1>1. MCS!IdleNodesAsNew => IdleNodesAsNew
  BY DEF IdleNodesAsNew
<1> QED BY <1>1, NodesLeftAsNew, MCSSteps, PTL

(* MCSLock: a link is missing or leads to the thread behind, and an        *)
(* unlock() that has seen tail move has somebody behind it.                *)
THEOREM LinksInQueueOrder == LocksSpec => []LinksFollowQueue
<1>1. MCS!LinksFollowQueue => LinksFollowQueue
  BY DEF LinksFollowQueue
<1> QED BY <1>1, LinksInOrder, MCSSteps, PTL

(* ALock: one flag is raised or one thread holds the lock, and no two      *)
(* threads wait at one slot, however often tail wraps.                     *)
THEOREM TokenIsOne == ASSUME EnoughSlots PROVE LocksSpec => []OneToken
<1>1. Array!OneToken => OneToken
  BY DEF OneToken
<1> QED BY <1>1, TokenKept, ArraySteps, PTL

(* ALock: whatever ids the threads of earlier tests have drawn, each       *)
(* thread has a cell of its own to remember its slot in.                   *)
THEOREM CellsNotShared == ASSUME EnoughSlots PROVE LocksSpec => []CellsUnshared
<1>1. Array!CellsUnshared => CellsUnshared
  BY DEF CellsUnshared
<1> QED BY <1>1, CellsApart, ArraySteps, PTL

-----------------------------------------------------------------------------
LEMMA QueueThreadsAreThreads == \A t \in QueueThreads : t \in Threads
BY LocksParameters

(* Whichever of the three locks is under test, threads enter in the order  *)
(* of the one atomic operation at the start of lock(), one at a time.      *)
THEOREM LocksServeInOrder == ASSUME EnoughSlots PROVE LocksSpec => LocksFifo!Spec
<1>1. LocksSpec => Fifo!Spec
  BY TicketSteps, ServesInOrder
<1>2. LocksSpec => MCS!Fifo!Spec
  BY MCSSteps, MCSServesInOrder
<1>3. LocksSpec => Array!Fifo!Spec
  BY ArraySteps, ArrayServesInOrder
<1> DEFINE Tested == lock \in {"TwoCounterLock", "MCSLock", "ALock"}
<1>4. /\ LocksInit => Tested
      /\ [TestTwoCounterLock \/ TestMCSLock \/ TestALock]_locksVars => lock' = lock
  BY DEF LocksInit, locksVars, TestTwoCounterLock, TestMCSLock, TestALock
<1>5. Tested /\ Fifo!Init /\ MCS!Fifo!Init /\ Array!Fifo!Init => LocksFifo!Init
  BY DEF Fifo!Init, MCS!Fifo!Init, Array!Fifo!Init, LocksFifo!Init
<1>6. /\ Tested /\ lock' = lock
      /\ [Fifo!Next]_Fifo!vars
      /\ [MCS!Fifo!Next]_MCS!Fifo!vars
      /\ [Array!Fifo!Next]_Array!Fifo!vars
      => [LocksFifo!Next]_LocksFifo!vars
  <2> SUFFICES ASSUME Tested, lock' = lock,
                      [Fifo!Next]_Fifo!vars,
                      [MCS!Fifo!Next]_MCS!Fifo!vars,
                      [Array!Fifo!Next]_Array!Fifo!vars
               PROVE  [LocksFifo!Next]_LocksFifo!vars
    OBVIOUS
  <2>1. CASE lock = "TwoCounterLock"
    BY <2>1
    DEF LocksFifo!Next, LocksFifo!Arrive, LocksFifo!Enter, LocksFifo!Leave,
        LocksFifo!InQueue, LocksFifo!vars, Fifo!Next, Fifo!Arrive, Fifo!Enter, Fifo!Leave,
        Fifo!InQueue, Fifo!vars
  <2>2. CASE lock = "MCSLock"
    BY <2>2, QueueThreadsAreThreads
    DEF LocksFifo!Next, LocksFifo!Arrive, LocksFifo!Enter,
        LocksFifo!Leave, LocksFifo!InQueue, LocksFifo!vars, MCS!Fifo!Next,
        MCS!Fifo!Arrive, MCS!Fifo!Enter, MCS!Fifo!Leave, MCS!Fifo!InQueue, MCS!Fifo!vars
  <2>3. CASE lock = "ALock"
    BY <2>3, QueueThreadsAreThreads
    DEF LocksFifo!Next, LocksFifo!Arrive, LocksFifo!Enter,
        LocksFifo!Leave, LocksFifo!InQueue, LocksFifo!vars, Array!Fifo!Next,
        Array!Fifo!Arrive, Array!Fifo!Enter, Array!Fifo!Leave,
        Array!Fifo!InQueue, Array!Fifo!vars
  <2> QED BY <2>1, <2>2, <2>3 DEF Tested
<1> HIDE DEF Tested
<1>7. Tested /\ lock' = lock => Tested'
  BY DEF Tested
<1> QED BY <1>1, <1>2, <1>3, <1>4, <1>5, <1>6, <1>7, PTL
        DEF LocksSpec, LocksFifo!Spec, Fifo!Spec, MCS!Fifo!Spec, Array!Fifo!Spec
=============================================================================
