------------------------------ MODULE CLHLock ------------------------------
(***************************************************************************)
(* locks/CLHLock.hpp, CLHLock.java: the CLH queue lock.  A thread spins on *)
(* the node of the thread before it and, when it unlocks, takes that node  *)
(* for its next lock(), leaving its own to the thread behind it.  The      *)
(* correctness of the lock is the correctness of this recycling: a node    *)
(* reused while somebody still spins on it re-locks that thread for good,  *)
(* and a node that two threads own lets both in.                           *)
(*                                                                         *)
(* myNode and myPredecessor are ThreadLocals; each thread is taken to have *)
(* its own cell here (ThreadLocal.tla says when that is so).  Accesses to  *)
(* QNode.locked are sequentially consistent in this module; TestCLHLock    *)
(* drops that.                                                             *)
(***************************************************************************)
EXTENDS Naturals, FiniteSets, SequencesExt

CONSTANTS
  Threads,
  Dummy,        \* the node the constructor allocates
  NoNode        \* nullptr, and the value of a cell that is not set

(* A thread allocates once, so the node it allocates is named after it. *)
Nodes == Threads \cup {Dummy}

ASSUME NodesDistinct == Dummy \notin Threads /\ NoNode \notin Nodes

VARIABLES
  locked,       \* QNode.locked
  tail,         \* CLHLock.tail
  myNode,
  myPred,
  pc            \* the next step of each thread

vars == <<locked, tail, myNode, myPred, pc>>

TypeOK ==
  /\ locked \in [Nodes -> BOOLEAN]
  /\ tail \in Nodes
  /\ myNode \in [Threads -> Nodes \cup {NoNode}]
  /\ myPred \in [Threads -> Nodes \cup {NoNode}]
  /\ pc \in [Threads -> {"idle", "exchange", "spin", "critical", "recycle"}]

Init ==
  /\ locked = [n \in Nodes |-> FALSE]
  /\ tail = Dummy
  /\ myNode = [t \in Threads |-> NoNode]
  /\ myPred = [t \in Threads |-> NoNode]
  /\ pc = [t \in Threads |-> "idle"]

(* Mutant: no allocation on the first lock(). *)
NodeForUnset(t) == myNode[t]

(* The node t's next lock() announces itself with: new QNode() the first   *)
(* time, then what unlock() left in myNode.                                *)
NodeFor(t) == IF myNode[t] = NoNode THEN t ELSE myNode[t]

(* Mutant: the node is not locked before it is published. *)
AnnounceUnlocked(t) ==
  /\ pc[t] = "idle"
  /\ myNode' = [myNode EXCEPT ![t] = NodeFor(t)]
  /\ pc' = [pc EXCEPT ![t] = "exchange"]
  /\ UNCHANGED <<locked, tail, myPred>>

Announce(t) ==
  /\ pc[t] = "idle"
  /\ myNode' = [myNode EXCEPT ![t] = NodeFor(t)]
  /\ locked' = [locked EXCEPT ![NodeFor(t)] = TRUE]
  /\ pc' = [pc EXCEPT ![t] = "exchange"]
  /\ UNCHANGED <<tail, myPred>>

Exchange(t) ==
  /\ pc[t] = "exchange"
  /\ myPred' = [myPred EXCEPT ![t] = tail]
  /\ tail' = myNode[t]
  /\ pc' = [pc EXCEPT ![t] = "spin"]
  /\ UNCHANGED <<locked, myNode>>

StopSpinning(t) ==
  /\ pc[t] = "spin"
  /\ ~locked[myPred[t]]
  /\ pc' = [pc EXCEPT ![t] = "critical"]
  /\ UNCHANGED <<locked, tail, myNode, myPred>>

(* Mutant: the wrong node is unlocked. *)
UnlockPredecessor(t) ==
  /\ pc[t] = "critical"
  /\ locked' = [locked EXCEPT ![myPred[t]] = FALSE]
  /\ pc' = [pc EXCEPT ![t] = "recycle"]
  /\ UNCHANGED <<tail, myNode, myPred>>

(* unlock(): the store that lets the next thread in ... *)
Unlock(t) ==
  /\ pc[t] = "critical"
  /\ locked' = [locked EXCEPT ![myNode[t]] = FALSE]
  /\ pc' = [pc EXCEPT ![t] = "recycle"]
  /\ UNCHANGED <<tail, myNode, myPred>>

(* Mutant: the thread keeps its own node. *)
RecycleOwn(t) ==
  /\ pc[t] = "recycle"
  /\ myPred' = [myPred EXCEPT ![t] = NoNode]
  /\ pc' = [pc EXCEPT ![t] = "idle"]
  /\ UNCHANGED <<locked, tail, myNode>>

(* ... and the exchange of nodes, which other threads may overtake. *)
Recycle(t) ==
  /\ pc[t] = "recycle"
  /\ myNode' = [myNode EXCEPT ![t] = myPred[t]]
  /\ myPred' = [myPred EXCEPT ![t] = NoNode]
  /\ pc' = [pc EXCEPT ![t] = "idle"]
  /\ UNCHANGED <<locked, tail>>

(* A call in progress; Announce is the caller's choice to call lock(). *)
Step(t) == Exchange(t) \/ StopSpinning(t) \/ Unlock(t) \/ Recycle(t)

Next == \E t \in Threads : Announce(t) \/ Step(t)

Spec == Init /\ [][Next]_vars

(* The scheduler runs every thread, and a critical section ends. *)
FairSpec == Spec /\ \A t \in Threads : WF_vars(Step(t))
-----------------------------------------------------------------------------
Engaged == {t \in Threads : pc[t] \in {"spin", "critical"}}

(* Nodes the lock still needs: somebody spins on them or will. *)
Referenced == {myPred[t] : t \in Engaged} \cup {tail}

(* The node t owns: the one it announced, or the one it will announce. *)
Own(t) == IF pc[t] = "recycle" THEN myPred[t] ELSE NodeFor(t)

(* At most one thread is between lock() and unlock(). *)
MutualExclusion ==
  \A t, u \in Threads : pc[t] = "critical" /\ pc[u] = "critical" => t = u

(* Recycling never hands one node to two threads, and never gives a thread *)
(* a node that somebody spins on or that the next arrival will spin on.    *)
NodesRecycledSafely ==
  /\ \A t, u \in Threads : t # u => Own(t) # Own(u)
  /\ \A t \in Threads \ Engaged : Own(t) \notin Referenced

(* Engaged threads, each after the thread whose node it spins on. *)
Queue ==
  CHOOSE q \in SetToSeqs(Engaged) :
    \A i \in 1..(Len(q) - 1) : myPred[q[i + 1]] = myNode[q[i]]

Fifo == INSTANCE FifoMutex WITH
          queue <- Queue,
          inside <- \E t \in Threads : pc[t] = "critical"

(* Threads enter in the order of their exchanges on tail, and every thread *)
(* that has made its exchange enters.                                      *)
ImplementsFifo == Fifo!FairSpec

(* lock() and unlock() seen from outside: waiting from the exchange on     *)
(* tail, holding until the store that lets the next thread in.             *)
Status(t) == CASE pc[t] = "spin"     -> "waiting"
               [] pc[t] = "critical" -> "critical"
               [] OTHER              -> "idle"

Contract == INSTANCE Mutex WITH status <- [t \in Threads |-> Status(t)]

(* The strengthening that makes mutual exclusion inductive: an engaged     *)
(* thread's own node is locked and referenced, a critical thread's         *)
(* predecessor is not locked, no two threads share a predecessor, and      *)
(* there is only one node that nobody owns.                                *)
EngagedNodes ==
  /\ \A t \in Engaged : locked[myNode[t]] /\ myNode[t] \in Referenced
  /\ \A t \in Engaged : myPred[t] # tail /\ myPred[t] # NoNode
  /\ \A t, u \in Engaged : t # u => myPred[t] # myPred[u]
  /\ \A t \in Threads : pc[t] = "critical" => ~locked[myPred[t]]

OneSpareNode ==
  \A m, n \in Nodes :
    (\A t \in Threads : Own(t) # m /\ Own(t) # n) => m = n

PcNodes ==
  \A t \in Threads :
    /\ pc[t] # "idle" => myNode[t] # NoNode
    /\ pc[t] = "exchange" => locked[myNode[t]]
    /\ pc[t] = "recycle" => myPred[t] # NoNode

IInv ==
  /\ TypeOK
  /\ PcNodes
  /\ NodesRecycledSafely
  /\ EngagedNodes
  /\ OneSpareNode
=============================================================================
