--------------------------- MODULE TwoCounterLock ---------------------------
(***************************************************************************)
(* locks/TwoCounterLock.hpp, TwoCounterLock.java: the ticket lock.  Both   *)
(* counters are unsigned machine words (in Java signed ones, whose order   *)
(* is never looked at) that wrap around, so the lock depends on there      *)
(* being no more threads than values of the word.                          *)
(***************************************************************************)
EXTENDS Naturals, FiniteSets, SequencesExt

CONSTANTS
  Threads,
  MaxUsize      \* the largest value of a counter

ASSUME WordSize ==
  /\ MaxUsize \in Nat
  /\ IsFiniteSet(Threads)
  /\ Cardinality(Threads) <= MaxUsize + 1

Usize == 0..MaxUsize

(* Mutant: the counter stops at its largest value. *)
IncSaturates(x) == IF x = MaxUsize THEN x ELSE x + 1

(* x + 1 on a counter: fetch_add wraps. *)
Inc(x) == IF x = MaxUsize THEN 0 ELSE x + 1

VARIABLES
  currentTicket,        \* the ticket being served
  ticketCounter,        \* the next ticket to give out
  ticket,               \* the local variable of lock()
  pc

vars == <<currentTicket, ticketCounter, ticket, pc>>

TypeOK ==
  /\ currentTicket \in Usize
  /\ ticketCounter \in Usize
  /\ ticket \in [Threads -> Usize]
  /\ pc \in [Threads -> {"idle", "spin", "critical"}]

Init ==
  /\ currentTicket = 0
  /\ ticketCounter = 0
  /\ ticket = [t \in Threads |-> 0]
  /\ pc = [t \in Threads |-> "idle"]

(* Mutant: the ticket is read but not taken. *)
TakeTicketByLoad(t) ==
  /\ pc[t] = "idle"
  /\ ticket' = [ticket EXCEPT ![t] = ticketCounter]
  /\ pc' = [pc EXCEPT ![t] = "spin"]
  /\ UNCHANGED <<currentTicket, ticketCounter>>

TakeTicket(t) ==
  /\ pc[t] = "idle"
  /\ ticket' = [ticket EXCEPT ![t] = ticketCounter]
  /\ ticketCounter' = Inc(ticketCounter)
  /\ pc' = [pc EXCEPT ![t] = "spin"]
  /\ UNCHANGED currentTicket

StopSpinning(t) ==
  /\ pc[t] = "spin"
  /\ currentTicket = ticket[t]
  /\ pc' = [pc EXCEPT ![t] = "critical"]
  /\ UNCHANGED <<currentTicket, ticketCounter, ticket>>

Unlock(t) ==
  /\ pc[t] = "critical"
  /\ currentTicket' = Inc(currentTicket)
  /\ pc' = [pc EXCEPT ![t] = "idle"]
  /\ UNCHANGED <<ticketCounter, ticket>>

Step(t) == StopSpinning(t) \/ Unlock(t)

Next == \E t \in Threads : TakeTicket(t) \/ Step(t)

Spec == Init /\ [][Next]_vars

(* The scheduler runs every thread, and a critical section ends. *)
FairSpec == Spec /\ \A t \in Threads : WF_vars(Step(t))
-----------------------------------------------------------------------------
Engaged == {t \in Threads : pc[t] # "idle"}

(* How many tickets are served before k, wrapping around. *)
Ahead(k) == IF currentTicket <= k THEN k - currentTicket
                                  ELSE k + (MaxUsize + 1) - currentTicket

MutualExclusion ==
  \A t, u \in Threads : pc[t] = "critical" /\ pc[u] = "critical" => t = u

(* The tickets held are exactly the next Cardinality(Engaged) ones to be   *)
(* served, each held once, and the holder of the lock has the first: no    *)
(* ticket is lost, so nobody waits for a ticket that never comes up, and   *)
(* none is given out again while it is held, not even across the wrap.     *)
TicketsOutstanding ==
  /\ \A t \in Engaged : Ahead(ticket[t]) < Cardinality(Engaged)
  /\ \A t, u \in Engaged : ticket[t] = ticket[u] => t = u
  /\ \/ Ahead(ticketCounter) = Cardinality(Engaged)
     \/ Ahead(ticketCounter) = 0 /\ Cardinality(Engaged) = MaxUsize + 1
  /\ \A t \in Threads : pc[t] = "critical" => ticket[t] = currentTicket

(* Engaged threads in the order of their tickets. *)
Queue ==
  CHOOSE q \in SetToSeqs(Engaged) :
    \A i \in 1..Len(q) : Ahead(ticket[q[i]]) = i - 1

Fifo == INSTANCE FifoMutex WITH
          queue <- Queue,
          inside <- \E t \in Threads : pc[t] = "critical"

(* Threads enter in the order in which they drew their tickets, and every  *)
(* thread that drew one enters, across the wrap of both counters.          *)
ImplementsFifo == Fifo!FairSpec
=============================================================================
