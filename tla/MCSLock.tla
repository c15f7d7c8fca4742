------------------------------ MODULE MCSLock ------------------------------
(***************************************************************************)
(* locks/MCSLock.hpp, MCSLock.java: the MCS queue lock.  A thread spins on *)
(* its own node, which its predecessor, whom it tells by a link, unlocks.  *)
(* A thread uses one node for all its lock() calls (myNode, allocated once *)
(* and named after the thread here) and never resets it in lock(), so      *)
(* every unlock() must leave it as new; and an unlock() that finds no link *)
(* must tell a successor that is not there from one that has not linked.   *)
(***************************************************************************)
EXTENDS Naturals, FiniteSets, SequencesExt

CONSTANTS
  Threads,
  NoNode        \* nullptr

(* Assumed where a lock is checked or proved. *)
NoNodeDistinct == NoNode \notin Threads

VARIABLES
  locked,       \* QNode.locked
  next,         \* QNode.next
  tail,
  pred,         \* the local variable predecessor of lock()
  pc

vars == <<locked, next, tail, pred, pc>>

NodeOrNull == Threads \cup {NoNode}

(* Among the types: no null pointer is dereferenced. *)
TypeOK ==
  /\ locked \in [Threads -> BOOLEAN]
  /\ next \in [Threads -> NodeOrNull]
  /\ tail \in NodeOrNull
  /\ pred \in [Threads -> NodeOrNull]
  /\ pc \in [Threads -> {"idle", "queued", "link", "spin", "critical",
                         "giveUpTail", "awaitLink", "handOver", "unlink"}]
  /\ \A t \in Threads : /\ pc[t] = "link" => pred[t] # NoNode
                        /\ pc[t] = "handOver" => next[t] # NoNode

Init ==
  /\ locked = [t \in Threads |-> FALSE]
  /\ next = [t \in Threads |-> NoNode]
  /\ tail = NoNode
  /\ pred = [t \in Threads |-> NoNode]
  /\ pc = [t \in Threads |-> "idle"]

Goto(t, label) == pc' = [pc EXCEPT ![t] = label]

(* lock(): the exchange on tail. *)
Exchange(t) ==
  /\ pc[t] = "idle"
  /\ pred' = [pred EXCEPT ![t] = tail]
  /\ tail' = t
  /\ Goto(t, "queued")
  /\ UNCHANGED <<locked, next>>

NoPredecessor(t) ==
  /\ pc[t] = "queued" /\ pred[t] = NoNode
  /\ Goto(t, "critical")
  /\ UNCHANGED <<locked, next, tail, pred>>

SetLocked(t) ==
  /\ pc[t] = "queued" /\ pred[t] # NoNode
  /\ locked' = [locked EXCEPT ![t] = TRUE]
  /\ Goto(t, "link")
  /\ UNCHANGED <<next, tail, pred>>

Link(t) ==
  /\ pc[t] = "link"
  /\ next' = [next EXCEPT ![pred[t]] = t]
  /\ Goto(t, "spin")
  /\ UNCHANGED <<locked, tail, pred>>

StopSpinning(t) ==
  /\ pc[t] = "spin" /\ ~locked[t]
  /\ Goto(t, "critical")
  /\ UNCHANGED <<locked, next, tail, pred>>

(* unlock(): is there a link? *)
LookForNext(t) ==
  /\ pc[t] = "critical"
  /\ Goto(t, IF next[t] = NoNode THEN "giveUpTail" ELSE "handOver")
  /\ UNCHANGED <<locked, next, tail, pred>>

(* No link: compare_exchange_strong of tail from this node to null frees   *)
(* the lock, or fails because somebody has queued up and will link.        *)
GiveUpTail(t) ==
  /\ pc[t] = "giveUpTail"
  /\ IF tail = t
       THEN tail' = NoNode /\ Goto(t, "idle")
       ELSE Goto(t, "awaitLink") /\ UNCHANGED tail
  /\ UNCHANGED <<locked, next, pred>>

(* Mutant: unlock() does not wait for the link. *)
AwaitLinkNot(t) ==
  /\ pc[t] = "awaitLink"
  /\ Goto(t, "handOver")
  /\ UNCHANGED <<locked, next, tail, pred>>

AwaitLink(t) ==
  /\ pc[t] = "awaitLink" /\ next[t] # NoNode
  /\ Goto(t, "handOver")
  /\ UNCHANGED <<locked, next, tail, pred>>

HandOver(t) ==
  /\ pc[t] = "handOver"
  /\ locked' = [locked EXCEPT ![next[t]] = FALSE]
  /\ Goto(t, "unlink")
  /\ UNCHANGED <<next, tail, pred>>

(* Mutant: the link is left behind. *)
UnlinkNot(t) ==
  /\ pc[t] = "unlink"
  /\ Goto(t, "idle")
  /\ UNCHANGED <<locked, next, tail, pred>>

Unlink(t) ==
  /\ pc[t] = "unlink"
  /\ next' = [next EXCEPT ![t] = NoNode]
  /\ Goto(t, "idle")
  /\ UNCHANGED <<locked, tail, pred>>

Step(t) ==
  \/ NoPredecessor(t) \/ SetLocked(t) \/ Link(t) \/ StopSpinning(t)
  \/ LookForNext(t) \/ GiveUpTail(t) \/ AwaitLink(t) \/ HandOver(t) \/ Unlink(t)

Next == \E t \in Threads : Exchange(t) \/ Step(t)

Spec == Init /\ [][Next]_vars

(* The scheduler runs every thread, and a critical section ends. *)
FairSpec == Spec /\ \A t \in Threads : WF_vars(Step(t))
-----------------------------------------------------------------------------
Waiting == {t \in Threads : pc[t] \in {"queued", "link", "spin"}}

(* unlock() holds the lock until it gives up the tail or hands over. *)
Holding ==
  {t \in Threads : pc[t] \in {"critical", "giveUpTail", "awaitLink", "handOver"}}

Engaged == Waiting \cup Holding

MutualExclusion == \A t, u \in Holding : t = u

(* A thread that is not in lock() or unlock() left its node as new, though *)
(* others wrote to it in an order of their own: a link left behind would   *)
(* be taken for the next owner's successor.                                *)
IdleNodesAsNew ==
  \A t \in Threads : pc[t] = "idle" => ~locked[t] /\ next[t] = NoNode

(* Engaged threads, each after the one it found in tail, up to tail. *)
Queue ==
  CHOOSE q \in SetToSeqs(Engaged) :
    /\ \A i \in 1..(Len(q) - 1) : pred[q[i + 1]] = q[i]
    /\ q # <<>> => q[Len(q)] = tail

(* The links follow the order of arrival: a thread's link is missing or    *)
(* leads to the thread behind it, and an unlock() that has seen tail move  *)
(* has somebody behind it.                                                 *)
LinksFollowQueue ==
  /\ \A i \in 1..Len(Queue) :
       next[Queue[i]] # NoNode => i < Len(Queue) /\ next[Queue[i]] = Queue[i + 1]
  /\ \A t \in Holding : pc[t] \in {"awaitLink", "handOver"} => Len(Queue) > 1

Fifo == INSTANCE FifoMutex WITH
          queue <- Queue,
          inside <- Holding # {}

(* Threads enter in the order of their exchanges on tail, and every thread *)
(* that has made its exchange enters.                                      *)
ImplementsFifo == Fifo!FairSpec
=============================================================================
