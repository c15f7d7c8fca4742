--------------------------- MODULE CLHLock_proofs ---------------------------
(***************************************************************************)
(* The CLH lock, for any set of threads: mutual exclusion, the ownership   *)
(* of its nodes, the contracts it implements; and the exact count of the   *)
(* test that uses it, for any number of threads and of rounds.             *)
(***************************************************************************)
EXTENDS TestCLHLock, TLAPS, FiniteSetTheorems, SequenceTheorems

(* The constructor's state: every node is unlocked, and only Dummy has no  *)
(* owner.                                                                  *)
LEMMA InitIInv == Init => IInv
  BY NodesDistinct
  DEF Init, IInv, TypeOK, PcNodes, NodesRecycledSafely, EngagedNodes,
      OneSpareNode, Engaged, Referenced, Own, NodeFor, Nodes

(* Two critical threads' predecessors would both be nobody's node.         *)
LEMMA IInvMutex == IInv => MutualExclusion
<1> SUFFICES ASSUME IInv,
                    NEW t \in Threads, NEW u \in Threads,
                    pc[t] = "critical", pc[u] = "critical", t # u
             PROVE  FALSE
  BY DEF MutualExclusion
<1> DEFINE Spare(n) == \A v \in Threads : Own(v) # n
<1>1. ASSUME NEW x \in Threads, pc[x] = "critical"
      PROVE  Spare(myPred[x]) /\ myPred[x] \in Nodes
  <2>1. x \in Engaged /\ ~locked[myPred[x]] /\ myPred[x] \in Referenced
    BY <1>1 DEF IInv, EngagedNodes, Engaged, Referenced
  <2>2. ASSUME NEW v \in Threads, Own(v) = myPred[x] PROVE FALSE
    <3>1. CASE v \in Engaged
      <4>1. Own(v) = myNode[v]
        BY <3>1 DEF Own, NodeFor, Engaged, IInv, PcNodes
      <4> QED BY <2>1, <2>2, <3>1, <4>1 DEF IInv, EngagedNodes
    <3>2. CASE v \notin Engaged
      BY <2>1, <2>2, <3>2 DEF IInv, NodesRecycledSafely
    <3> QED BY <3>1, <3>2
  <2>3. myPred[x] \in Nodes
    BY <2>1 DEF IInv, EngagedNodes, TypeOK
  <2> QED BY <2>2, <2>3
<1>2. myPred[t] = myPred[u]
  BY <1>1 DEF IInv, OneSpareNode
<1>3. t \in Engaged /\ u \in Engaged
  BY DEF Engaged
<1> QED BY <1>2, <1>3 DEF IInv, EngagedNodes

(* Announcing locks a node that is t's own, hence one nobody refers to.    *)
LEMMA AnnounceIInv ==
  ASSUME IInv, NEW t \in Threads, Announce(t) PROVE IInv'
<1> USE DEF IInv
<1>1. NodeFor(t) \in Nodes /\ Own(t) = NodeFor(t) /\ t \notin Engaged
  BY DEF Announce, TypeOK, NodeFor, Nodes, Own, Engaged
<1>2. TypeOK' /\ PcNodes'
  BY <1>1, NodesDistinct DEF Announce, TypeOK, PcNodes, Nodes, NodeFor
<1>3. Engaged' = Engaged /\ Referenced' = Referenced
  BY DEF Announce, Engaged, Referenced, TypeOK
<1>4. \A v \in Threads : Own(v)' = Own(v)
  BY NodesDistinct DEF Announce, Own, NodeFor, TypeOK, Nodes
<1>5. NodesRecycledSafely' /\ OneSpareNode'
  BY <1>3, <1>4 DEF NodesRecycledSafely, OneSpareNode
<1>6. \A v \in Engaged : myNode'[v] = myNode[v] /\ myPred'[v] = myPred[v]
  BY <1>1 DEF Announce, Engaged, TypeOK
<1>7. \A v \in Engaged : myNode[v] \in Referenced /\ myPred[v] \in Referenced
  BY DEF Referenced, EngagedNodes
<1>8. NodeFor(t) \notin Referenced
  BY <1>1 DEF NodesRecycledSafely, Engaged
<1>9. \A v \in Engaged : /\ locked'[myNode[v]] = locked[myNode[v]]
                         /\ locked'[myPred[v]] = locked[myPred[v]]
  BY <1>7, <1>8, NodesDistinct
  DEF Announce, TypeOK, Engaged, PcNodes, EngagedNodes
<1>10. EngagedNodes'
  <2>1. /\ \A v \in Engaged' : locked'[myNode'[v]] /\ myNode'[v] \in Referenced'
        /\ \A v \in Engaged' : myPred'[v] # tail' /\ myPred'[v] # NoNode
        /\ \A u, v \in Engaged' : u # v => myPred'[u] # myPred'[v]
    BY <1>3, <1>6, <1>7, <1>9 DEF EngagedNodes, Announce
  <2>2. \A v \in Threads : pc'[v] = "critical" => v \in Engaged /\ pc[v] = "critical"
    BY DEF Announce, Engaged, TypeOK
  <2>3. \A v \in Threads : pc'[v] = "critical" => ~locked'[myPred'[v]]
    BY <1>6, <1>9, <2>2 DEF EngagedNodes
  <2> QED BY <2>1, <2>3 DEF EngagedNodes
<1> QED BY <1>2, <1>5, <1>10

(* The exchange adds t's node, which nobody refers to, to the referenced   *)
(* nodes, and gives t the only reference to the old tail.                  *)
LEMMA ExchangeIInv ==
  ASSUME IInv, NEW t \in Threads, Exchange(t) PROVE IInv'
<1> USE DEF IInv
<1>1. t \notin Engaged /\ Own(t) = myNode[t] /\ myNode[t] \in Nodes
  BY DEF Exchange, Engaged, Own, NodeFor, PcNodes, TypeOK
<1>2. myNode[t] \notin Referenced
  BY <1>1 DEF NodesRecycledSafely
<1>3. TypeOK' /\ PcNodes'
  BY <1>1 DEF Exchange, TypeOK, PcNodes
<1>4. Engaged' = Engaged \cup {t}
  BY DEF Exchange, Engaged, TypeOK
<1>5. /\ myPred'[t] = tail
      /\ \A v \in Engaged : myPred'[v] = myPred[v]
      /\ tail' = myNode[t]
      /\ myNode' = myNode /\ locked' = locked
  BY <1>1 DEF Exchange, TypeOK
<1>6. Referenced' = Referenced \cup {myNode[t]}
  BY <1>4, <1>5 DEF Referenced
<1>7. \A v \in Threads : Own(v)' = Own(v)
  BY DEF Exchange, Own, NodeFor, TypeOK
<1>8. NodesRecycledSafely' /\ OneSpareNode'
  BY <1>1, <1>4, <1>6, <1>7 DEF NodesRecycledSafely, OneSpareNode
<1>9. EngagedNodes'
  <2>1. \A v \in Engaged' : locked'[myNode'[v]] /\ myNode'[v] \in Referenced'
    BY <1>4, <1>5, <1>6 DEF EngagedNodes, PcNodes, Exchange
  <2>2. \A v \in Engaged' : myPred'[v] # tail' /\ myPred'[v] # NoNode
    BY <1>2, <1>4, <1>5, NodesDistinct DEF EngagedNodes, Referenced, TypeOK
  <2>3. \A u, v \in Engaged' : u # v => myPred'[u] # myPred'[v]
    BY <1>1, <1>4, <1>5 DEF EngagedNodes
  <2>4. \A v \in Threads : pc'[v] = "critical" => ~locked'[myPred'[v]]
    BY <1>5 DEF EngagedNodes, Exchange, TypeOK, Engaged
  <2> QED BY <2>1, <2>2, <2>3, <2>4 DEF EngagedNodes
<1> QED BY <1>3, <1>8, <1>9

(* Leaving the spin loop only records that the predecessor let t in.       *)
LEMMA StopSpinningIInv ==
  ASSUME IInv, NEW t \in Threads, StopSpinning(t) PROVE IInv'
<1> USE DEF IInv
<1>1. TypeOK' /\ PcNodes'
  BY DEF StopSpinning, TypeOK, PcNodes
<1>2. Engaged' = Engaged
  BY DEF StopSpinning, Engaged, TypeOK
<1>3. Referenced' = Referenced
  BY <1>2 DEF StopSpinning, Referenced
<1>4. \A v \in Threads : Own(v)' = Own(v)
  BY DEF StopSpinning, Own, NodeFor, TypeOK
<1>5. NodesRecycledSafely' /\ OneSpareNode'
  BY <1>2, <1>3, <1>4 DEF NodesRecycledSafely, OneSpareNode
<1>6. EngagedNodes'
  BY <1>2, <1>3 DEF StopSpinning, EngagedNodes, TypeOK
<1> QED BY <1>1, <1>5, <1>6

(* unlock() turns the spare node, on which t spun, into t's own, and t's   *)
(* own into the spare node on which the next thread spins.                 *)
LEMMA UnlockIInv ==
  ASSUME IInv, NEW t \in Threads, Unlock(t) PROVE IInv'
<1> USE DEF IInv
<1>1. /\ t \in Engaged /\ ~locked[myPred[t]]
      /\ myPred[t] \in Nodes /\ myPred[t] \in Referenced
      /\ myNode[t] \in Nodes /\ Own(t) = myNode[t]
  BY DEF Unlock, Engaged, EngagedNodes, TypeOK, Referenced, PcNodes, Own, NodeFor
<1>2. TypeOK' /\ PcNodes'
  BY <1>1, NodesDistinct DEF Unlock, TypeOK, PcNodes, NodesRecycledSafely, Own, NodeFor
<1>3. Engaged' = Engaged \ {t}
  BY DEF Unlock, Engaged, TypeOK
<1>4. Referenced' = Referenced \ {myPred[t]}
  BY <1>1, <1>3 DEF Unlock, Referenced, EngagedNodes
<1>5. \A v \in Threads : Own(v)' = IF v = t THEN myPred[t] ELSE Own(v)
  BY DEF Unlock, Own, NodeFor, TypeOK
<1>6. \A v \in Threads : Own(v) # myPred[t]
  <2> SUFFICES ASSUME NEW v \in Threads, Own(v) = myPred[t] PROVE FALSE
    OBVIOUS
  <2>1. CASE v \in Engaged
    <3>1. Own(v) = myNode[v]
      BY <2>1 DEF Own, NodeFor, Engaged, PcNodes
    <3> QED BY <1>1, <2>1, <3>1 DEF EngagedNodes
  <2>2. CASE v \notin Engaged
    BY <1>1, <2>2 DEF NodesRecycledSafely
  <2> QED BY <2>1, <2>2
<1>7. NodesRecycledSafely'
  <2>1. \A u, v \in Threads : u # v => Own(u)' # Own(v)'
    BY <1>5, <1>6 DEF NodesRecycledSafely
  <2>2. \A v \in Threads \ Engaged' : Own(v)' \notin Referenced'
    BY <1>3, <1>4, <1>5 DEF NodesRecycledSafely
  <2> QED BY <2>1, <2>2 DEF NodesRecycledSafely
<1>8. OneSpareNode'
  <2> SUFFICES ASSUME NEW m \in Nodes, NEW n \in Nodes,
                      \A v \in Threads : Own(v)' # m /\ Own(v)' # n
               PROVE  m = n
    BY DEF OneSpareNode
  <2>1. m # myPred[t] /\ n # myPred[t]
    BY <1>5
  <2>2. \A v \in Threads \ {t} : Own(v) # m /\ Own(v) # n
    BY <1>5
  <2>3. ASSUME NEW x \in Nodes, x # myPred[t],
               \A v \in Threads \ {t} : Own(v) # x
        PROVE  x = myNode[t]
    <3>1. CASE Own(t) = x
      BY <1>1, <3>1
    <3>2. CASE Own(t) # x
      BY <1>1, <1>6, <2>3, <3>2 DEF OneSpareNode
    <3> QED BY <3>1, <3>2
  <2> QED BY <2>1, <2>2, <2>3
<1>9. EngagedNodes'
  <2>1. \A v \in Engaged' :
          locked'[myNode'[v]] /\ myNode'[v] \in Referenced'
    <3> SUFFICES ASSUME NEW v \in Engaged, v # t
                 PROVE  locked'[myNode'[v]] /\ myNode'[v] \in Referenced'
      BY <1>3
    <3>1. v \in Threads /\ Own(v) = myNode[v] /\ locked[myNode[v]]
      BY DEF Own, NodeFor, Engaged, PcNodes, EngagedNodes
    <3>2. myNode[v] # myNode[t] /\ myNode[v] # myPred[t]
      BY <1>1, <1>6, <3>1 DEF NodesRecycledSafely
    <3> QED BY <1>4, <3>1, <3>2 DEF Unlock, EngagedNodes, TypeOK
  <2>2. /\ \A v \in Engaged' : myPred'[v] # tail' /\ myPred'[v] # NoNode
        /\ \A u, v \in Engaged' : u # v => myPred'[u] # myPred'[v]
    BY <1>3 DEF Unlock, EngagedNodes
  <2>3. \A v \in Threads : pc'[v] = "critical" => ~locked'[myPred'[v]]
    <3> SUFFICES ASSUME NEW v \in Threads, pc'[v] = "critical"
                 PROVE  ~locked'[myPred'[v]]
      OBVIOUS
    <3>1. pc[v] = "critical" /\ v # t
      BY DEF Unlock, TypeOK
    <3>2. ~locked[myPred[v]] /\ myPred[v] \in Nodes
      BY <3>1 DEF EngagedNodes, Engaged, TypeOK
    <3> QED BY <1>1, <3>2 DEF Unlock, TypeOK
  <2> QED BY <2>1, <2>2, <2>3 DEF EngagedNodes
<1> QED BY <1>2, <1>7, <1>8, <1>9

(* Taking the predecessor's node changes nothing that others can see.      *)
LEMMA RecycleIInv ==
  ASSUME IInv, NEW t \in Threads, Recycle(t) PROVE IInv'
<1> USE DEF IInv
<1>1. TypeOK' /\ PcNodes'
  BY DEF Recycle, TypeOK, PcNodes
<1>2. Engaged' = Engaged /\ t \notin Engaged
  BY DEF Recycle, Engaged, TypeOK
<1>3. \A v \in Engaged : myNode'[v] = myNode[v] /\ myPred'[v] = myPred[v]
  BY <1>2 DEF Recycle, Engaged, TypeOK
<1>4. Referenced' = Referenced
  BY <1>2, <1>3 DEF Recycle, Referenced
<1>5. \A v \in Threads : Own(v)' = Own(v)
  BY DEF Recycle, Own, NodeFor, TypeOK, PcNodes
<1>6. NodesRecycledSafely' /\ OneSpareNode'
  BY <1>2, <1>4, <1>5 DEF NodesRecycledSafely, OneSpareNode
<1>7. \A v \in Threads : pc'[v] = "critical" => v \in Engaged /\ pc[v] = "critical"
  BY DEF Recycle, Engaged, TypeOK
<1>8. EngagedNodes'
  BY <1>2, <1>3, <1>4, <1>7 DEF Recycle, EngagedNodes
<1> QED BY <1>1, <1>6, <1>8

(* One step of any thread preserves the invariant. *)
LEMMA NextIInv == IInv /\ [Next]_vars => IInv'
<1> SUFFICES ASSUME IInv, [Next]_vars PROVE IInv'
  OBVIOUS
<1>1. CASE UNCHANGED vars
  BY <1>1 DEF vars, IInv, TypeOK, PcNodes, NodesRecycledSafely, EngagedNodes,
              OneSpareNode, Engaged, Referenced, Own, NodeFor
<1>2. CASE Next
  <2> PICK t \in Threads : Announce(t) \/ Step(t)
    BY <1>2 DEF Next
  <2>1. CASE Announce(t)      BY <2>1, AnnounceIInv
  <2>2. CASE Exchange(t)      BY <2>2, ExchangeIInv
  <2>3. CASE StopSpinning(t)  BY <2>3, StopSpinningIInv
  <2>4. CASE Unlock(t)        BY <2>4, UnlockIInv
  <2>5. CASE Recycle(t)       BY <2>5, RecycleIInv
  <2> QED BY <2>1, <2>2, <2>3, <2>4, <2>5 DEF Step
<1> QED BY <1>1, <1>2

(* Type correctness and the ownership discipline of the nodes hold in      *)
(* every state of the lock.                                                *)
THEOREM Invariance == Spec => []IInv
<1>1. Init => IInv
  BY InitIInv
<1>2. IInv /\ [Next]_vars => IInv'
  BY NextIInv
<1> QED BY <1>1, <1>2, PTL DEF Spec

(* At most one thread is between lock() and unlock(): "lock" and "unlock"  *)
(* of locks/CLHLock.hpp exclude each other's critical sections.            *)
THEOREM Mutex == Spec => []MutualExclusion
<1>1. IInv => MutualExclusion
  BY IInvMutex
<1> QED BY <1>1, Invariance, PTL

(* CLHLock is a MutexType: every step is a Request, an Acquire or a        *)
(* Release of the contract, or leaves the callers where they were.         *)
THEOREM ImplementsMutex == Spec => Contract!Spec
<1> DEFINE status == [t \in Threads |-> Status(t)]
<1>1. Init => Contract!Init
  BY DEF Init, Contract!Init, Status
<1>2. ASSUME IInv, MutualExclusion', [Next]_vars
      PROVE  [Contract!Next]_status
  <2>1. CASE UNCHANGED vars
    BY <2>1 DEF vars, Status
  <2>2. ASSUME NEW t \in Threads, Announce(t) \/ Recycle(t)
        PROVE  UNCHANGED status
    BY <1>2, <2>2 DEF Announce, Recycle, Status, IInv, TypeOK
  <2>3. ASSUME NEW t \in Threads, Exchange(t)
        PROVE  Contract!Request(t)
    BY <1>2, <2>3 DEF Exchange, Status, IInv, TypeOK, Contract!Request
  <2>4. ASSUME NEW t \in Threads, StopSpinning(t)
        PROVE  Contract!Acquire(t)
    <3>1. pc[t] = "spin" /\ pc' = [pc EXCEPT ![t] = "critical"]
      BY <2>4 DEF StopSpinning
    <3>2. \A u \in Threads : pc[u] # "critical"
      BY <1>2, <3>1 DEF MutualExclusion, IInv, TypeOK
    <3>3. status[t] = "waiting" /\ \A u \in Threads : status[u] # "critical"
      BY <3>1, <3>2 DEF Status
    <3>4. status' = [status EXCEPT ![t] = "critical"]
      BY <1>2, <3>1 DEF Status, IInv, TypeOK
    <3> QED BY <3>3, <3>4 DEF Contract!Acquire
  <2>5. ASSUME NEW t \in Threads, Unlock(t)
        PROVE  Contract!Release(t)
    BY <1>2, <2>5 DEF Unlock, Status, IInv, TypeOK, Contract!Release
  <2> HIDE DEF status
  <2> QED BY <1>2, <2>1, <2>2, <2>3, <2>4, <2>5 DEF Next, Step, Contract!Next
<1>3. Spec => [][Contract!Next]_status
  BY <1>2, Invariance, Mutex, PTL DEF Spec
<1> QED BY <1>1, <1>3, PTL DEF Spec, Contract!Spec


(* Recycling never hands one node to two threads, and never gives a thread *)
(* a node that somebody spins on or that the next arrival will spin on.    *)
THEOREM Recycling == Spec => []NodesRecycledSafely
<1>1. IInv => NodesRecycledSafely
  BY DEF IInv
<1> QED BY <1>1, Invariance, PTL

-----------------------------------------------------------------------------
(* The engaged threads stand in the queue q, each once. *)
Lined(q) ==
  /\ \A i, j \in 1..Len(q) : q[i] = q[j] => i = j
  /\ \A t \in Threads : t \in Engaged <=> \E i \in 1..Len(q) : q[i] = t

(* Each spins on the node of the one before it; tail is the last one's.    *)
Chained(q) ==
  /\ \A i \in 2..Len(q) : myPred[q[i]] = myNode[q[i - 1]] /\ pc[q[i]] = "spin"
  /\ Len(q) > 0 => tail = myNode[q[Len(q)]]

LineInv(q) == IInv /\ Lined(q) /\ Chained(q)

LEMMA InitLineInv == Init => <<>> \in Seq(Threads) /\ LineInv(<<>>)
<1> SUFFICES ASSUME Init PROVE <<>> \in Seq(Threads) /\ LineInv(<<>>)
  OBVIOUS
<1>1. Engaged = {} /\ Len(<<>>) = 0 /\ <<>> \in Seq(Threads)
  BY DEF Init, Engaged
<1>2. Lined(<<>>) /\ Chained(<<>>)
  BY <1>1 DEF Lined, Chained
<1> QED BY <1>1, <1>2, InitIInv DEF LineInv

(* The exchange puts t behind the last of the queue. *)
LEMMA ExchangeLine ==
  ASSUME NEW q \in Seq(Threads), LineInv(q), NEW t \in Threads, Exchange(t)
  PROVE  /\ Append(q, t) \in Seq(Threads) /\ LineInv(Append(q, t))'
         /\ t \notin Engaged
<1> PICK r : r = Append(q, t)
  OBVIOUS
<1> USE DEF Exchange, LineInv, IInv, TypeOK
<1>1. t \notin Engaged /\ Engaged' = Engaged \cup {t}
  BY DEF Engaged
<1>2. /\ Len(q) \in Nat /\ \A i \in 1..Len(q) : q[i] \in Threads /\ q[i] # t
  BY <1>1, LenProperties, ElementOfSeq DEF Lined
<1>3. /\ r \in Seq(Threads) /\ Len(r) = Len(q) + 1
      /\ \A i \in 1..Len(q) : r[i] = q[i]
      /\ r[Len(q) + 1] = t
  BY AppendProperties
<1>4. 1..Len(r) = 1..Len(q) \cup {Len(q) + 1} /\ Len(r) - 1 = Len(q)
  BY <1>2, <1>3
<1>5. Lined(r)'
  <2>1. \A i, j \in 1..Len(r) : r[i] = r[j] => i = j
    BY <1>2, <1>3, <1>4 DEF Lined
  <2>2. ASSUME NEW u \in Threads
        PROVE  u \in Engaged' <=> \E i \in 1..Len(r) : r[i] = u
    <3>1. u \in Engaged' <=> u = t \/ \E i \in 1..Len(q) : q[i] = u
      BY <1>1 DEF Lined
    <3> QED BY <1>3, <1>4, <3>1
  <2> QED BY <2>1, <2>2 DEF Lined
<1>6. Chained(r)'
  <2>1. ASSUME NEW i \in 2..Len(r)
        PROVE  myPred'[r[i]] = myNode'[r[i - 1]] /\ pc'[r[i]] = "spin"
    <3>1. CASE i = Len(r)
      <4>1. r[i] = t /\ i - 1 = Len(q) /\ Len(q) \in 1..Len(q)
        BY <1>2, <1>3, <1>4, <3>1
      <4>2. r[i - 1] = q[Len(q)] /\ Len(q) > 0
        BY <1>3, <4>1
      <4> QED BY <4>1, <4>2 DEF Chained
    <3>2. CASE i \in 2..Len(q)
      <4>1. r[i] = q[i] /\ r[i - 1] = q[i - 1] /\ q[i] # t
        BY <1>2, <1>3, <3>2
      <4> QED BY <1>2, <3>2, <4>1 DEF Chained
    <3> QED BY <1>2, <1>3, <3>1, <3>2
  <2>2. tail' = myNode'[r[Len(r)]]
    BY <1>3
  <2> QED BY <2>1, <2>2 DEF Chained
<1>7. IInv'
  BY ExchangeIInv
<1> QED BY <1>1, <1>3, <1>5, <1>6, <1>7

(* Only the first may leave the spin loop: the others' predecessors have   *)
(* locked nodes.                                                           *)
LEMMA StopSpinningLine ==
  ASSUME NEW q \in Seq(Threads), LineInv(q), NEW t \in Threads, StopSpinning(t)
  PROVE  LineInv(q)' /\ Len(q) > 0 /\ q[1] = t
<1> USE DEF StopSpinning, LineInv
<1>1. t \in Engaged /\ Engaged' = Engaged
  BY DEF Engaged, IInv, TypeOK
<1>2. Len(q) \in Nat /\ \A i \in 1..Len(q) : q[i] \in Engaged
  BY LenProperties, ElementOfSeq DEF Lined
<1>3. PICK i \in 1..Len(q) : q[i] = t
  BY <1>1 DEF Lined
<1>4. i = 1
  <2> SUFFICES ASSUME i \in 2..Len(q) PROVE FALSE
    BY <1>2
  <2>1. myPred[t] = myNode[q[i - 1]] /\ q[i - 1] \in Engaged
    BY <1>2, <1>3 DEF Chained
  <2> QED BY <2>1 DEF IInv, EngagedNodes
<1>5. Len(q) > 0 /\ q[1] = t
  BY <1>2, <1>3, <1>4
<1>6. Lined(q)'
  BY <1>1 DEF Lined
<1>7. Chained(q)'
  <2>1. \A j \in 2..Len(q) : q[j] # t
    BY <1>2, <1>5 DEF Lined
  <2> QED BY <1>2, <2>1 DEF Chained, IInv, TypeOK
<1> QED BY <1>5, <1>6, <1>7, StopSpinningIInv

(* The thread that unlocks is the first, and leaves. *)
LEMMA UnlockLine ==
  ASSUME NEW q \in Seq(Threads), LineInv(q), NEW t \in Threads, Unlock(t)
  PROVE  /\ Tail(q) \in Seq(Threads) /\ LineInv(Tail(q))'
         /\ Len(q) > 0 /\ q[1] = t
<1> PICK r : r = Tail(q)
  OBVIOUS
<1> USE DEF Unlock, LineInv
<1>1. t \in Engaged /\ Engaged' = Engaged \ {t}
  BY DEF Engaged, IInv, TypeOK
<1>2. Len(q) \in Nat /\ \A i \in 1..Len(q) : q[i] \in Threads
  BY LenProperties, ElementOfSeq
<1>3. Len(q) > 0 /\ q[1] = t
  <2>1. PICK i \in 1..Len(q) : q[i] = t
    BY <1>1 DEF Lined
  <2> QED BY <1>2, <2>1 DEF Chained
<1>4. /\ r \in Seq(Threads) /\ Len(r) = Len(q) - 1
      /\ \A i \in 1..Len(r) : r[i] = q[i + 1]
  BY <1>3, HeadTailProperties, EmptySeq
<1>5. /\ \A i \in 1..Len(r) : i + 1 \in 2..Len(q)
      /\ \A i \in 2..Len(q) : i - 1 \in 1..Len(r) /\ q[i] = r[i - 1] /\ q[i] # t
  <2>1. \A i \in 1..Len(r) : i + 1 \in 2..Len(q)
    BY <1>2, <1>4
  <2>2. ASSUME NEW i \in 2..Len(q)
        PROVE  i - 1 \in 1..Len(r) /\ q[i] = r[i - 1] /\ q[i] # t
    <3>1. i - 1 \in 1..Len(r) /\ (i - 1) + 1 = i /\ i # 1 /\ 1 \in 1..Len(q)
      BY <1>2, <1>3, <1>4
    <3> QED BY <1>3, <1>4, <3>1 DEF Lined
  <2> QED BY <2>1, <2>2
<1>6. Lined(r)'
  <2>1. ASSUME NEW i \in 1..Len(r), NEW j \in 1..Len(r), r[i] = r[j] PROVE i = j
    <3>1. i + 1 \in 1..Len(q) /\ j + 1 \in 1..Len(q) /\ q[i + 1] = q[j + 1]
      BY <1>2, <1>4, <1>5, <2>1
    <3>2. i + 1 = j + 1
      BY <3>1 DEF Lined
    <3> QED BY <3>2
  <2>2. ASSUME NEW u \in Threads
        PROVE  u \in Engaged' <=> \E i \in 1..Len(r) : r[i] = u
    <3>1. u \in Engaged' <=> \E i \in 2..Len(q) : q[i] = u
      BY <1>1, <1>2, <1>3, <1>5 DEF Lined
    <3> QED BY <1>4, <1>5, <3>1
  <2> QED BY <2>1, <2>2 DEF Lined
<1>7. Chained(r)'
  <2>1. ASSUME NEW i \in 2..Len(r)
        PROVE  myPred'[r[i]] = myNode'[r[i - 1]] /\ pc'[r[i]] = "spin"
    <3>1. i \in 1..Len(r) /\ i - 1 \in 1..Len(r) /\ (i - 1) + 1 = i /\ (i + 1) - 1 = i
      BY <1>4
    <3>2. r[i] = q[i + 1] /\ r[i - 1] = q[i] /\ i + 1 \in 2..Len(q)
      BY <1>4, <1>5, <3>1
    <3> QED BY <1>5, <3>1, <3>2 DEF Chained, IInv, TypeOK
  <2>2. ASSUME Len(r) > 0 PROVE tail' = myNode'[r[Len(r)]]
    <3>1. r[Len(r)] = q[Len(q)]
      BY <1>2, <1>4, <2>2
    <3> QED BY <1>3, <3>1 DEF Chained
  <2> QED BY <2>1, <2>2 DEF Chained
<1> QED BY <1>3, <1>4, <1>6, <1>7, UnlockIInv

(* What a thread does with its nodes when it is not engaged, nobody sees.  *)
LEMMA OutsideLine ==
  ASSUME NEW q \in Seq(Threads), LineInv(q), NEW t \in Threads,
         Announce(t) \/ Recycle(t)
  PROVE  LineInv(q)' /\ Engaged' = Engaged
<1> USE DEF Announce, Recycle, LineInv
<1>1. Engaged' = Engaged /\ t \notin Engaged
  BY DEF Engaged, IInv, TypeOK
<1>2. Len(q) \in Nat /\ \A i \in 1..Len(q) : q[i] \in Threads /\ q[i] # t
  BY <1>1, LenProperties, ElementOfSeq DEF Lined
<1>3. Lined(q)'
  BY <1>1 DEF Lined
<1>4. Chained(q)'
  <2>1. \A u \in Threads : u # t => /\ myNode'[u] = myNode[u] /\ myPred'[u] = myPred[u]
                                    /\ pc'[u] = pc[u]
    BY DEF IInv, TypeOK
  <2>2. \A i \in 2..Len(q) : i \in 1..Len(q) /\ i - 1 \in 1..Len(q)
    BY <1>2
  <2>3. tail' = tail /\ (Len(q) > 0 => Len(q) \in 1..Len(q))
    BY <1>2
  <2> QED BY <1>2, <2>1, <2>2, <2>3 DEF Chained
<1> QED BY <1>1, <1>3, <1>4, AnnounceIInv, RecycleIInv


(* Of natural numbers there is a least one; so a counterexample is minimal. *)
LEMMA LeastElement ==
  ASSUME NEW S \in SUBSET Nat, S # {}
  PROVE  \E n \in S : \A m \in S : n <= m
<1>1. PICK n \in S : \A m \in S : <<m, n>> \notin OpToRel(<, Nat)
  BY NatLessThanWellFounded, WFMin
<1>2. ASSUME NEW m \in S PROVE n <= m
  <2>1. <<m, n>> \notin OpToRel(<, Nat)
    BY <1>1
  <2> QED BY <2>1 DEF OpToRel
<1> QED BY <1>2

(* Queue is the queue of the invariant: from the thread whose node is tail *)
(* by the predecessors' nodes, no other sequence fits.                     *)
LEMMA QueueIsLine ==
  ASSUME NEW q \in Seq(Threads), LineInv(q)
  PROVE  Queue = q
<1> PICK n : n = Len(q)
  OBVIOUS
<1> DEFINE Fits(r) == \A i \in 1..(Len(r) - 1) : myPred[r[i + 1]] = myNode[r[i]]
<1>1. n \in Nat /\ q \in [1..n -> Threads]
  BY LenProperties
<1>2. q \in [1..n -> Engaged] /\ \A i, j \in 1..n : i # j => q[i] # q[j]
  BY <1>1 DEF LineInv, Lined
<1>3. Cardinality(Engaged) = n /\ IsFiniteSet(Engaged)
  <2>1. q \in Bijection(1..n, Engaged)
    BY <1>1, <1>2 DEF LineInv, Lined, Bijection, Injection, Surjection, Engaged, IsInjective
  <2>2. IsFiniteSet(1..n)
    BY <1>1, FS_Interval
  <2> QED BY <1>1, <2>1, <2>2, FS_CountingElements, FS_Bijection DEF ExistsBijection
<1>4. q \in SetToSeqs(Engaged)
  BY <1>2, <1>3 DEF SetToSeqs
<1>5. Fits(q)
  <2>1. \A i \in 1..(n - 1) : i + 1 \in 2..n /\ (i + 1) - 1 = i
    BY <1>1
  <2> QED BY <2>1 DEF LineInv, Chained
<1>6. ASSUME NEW r \in SetToSeqs(Engaged), Fits(r) PROVE r = q
  <2>1. r \in [1..n -> Engaged] /\ \A i, j \in 1..n : i # j => r[i] # r[j]
    BY <1>3, <1>6 DEF SetToSeqs
  <2>2. Len(r) = n
    BY <1>1, <2>1
  <2>3. \A t \in Engaged : \E i \in 1..n : r[i] = t
    <3>1. r \in Injection(1..n, Engaged)
      BY <2>1 DEF Injection, IsInjective
    <3>2. Cardinality(1..n) = n
      <4>1. 1 \in Int /\ n \in Int
        BY <1>1
      <4>2. Cardinality(1..n) = IF 1 > n THEN 0 ELSE n - 1 + 1
        BY <4>1, FS_Interval
      <4> QED BY <1>1, <4>2
    <3>3. r \in Surjection(1..n, Engaged)
      BY <1>3, <3>1, <3>2, FS_Injection
    <3> QED BY <3>3 DEF Surjection
  <2> DEFINE Differ == {k \in 0..(n - 1) : r[n - k] # q[n - k]}
  <2>4. ASSUME Differ # {} PROVE FALSE
    <3>1. PICK k \in Differ : \A m \in Differ : k <= m
      <4>1. Differ \in SUBSET Nat
        BY <1>1
      <4> HIDE DEF Differ
      <4> QED BY <2>4, <4>1, LeastElement
    <3>2. k \in 0..(n - 1) /\ k \in Int /\ r[n - k] # q[n - k]
      OBVIOUS
    <3> HIDE DEF Differ
    <3>3. n > 0 /\ n \in Int /\ n \in 1..n
      BY <1>1, <3>2
    <3>4. k # 0
      <4>1. tail = myNode[q[n]] /\ q[n] \in Engaged
        BY <1>2, <3>3 DEF LineInv, Chained
      <4>2. PICK i \in 1..n : r[i] = q[n]
        BY <2>3, <4>1
      <4>3. i = n
        <5> SUFFICES ASSUME i # n PROVE FALSE
          OBVIOUS
        <5>1. i \in 1..(n - 1) /\ i + 1 \in 1..n
          BY <3>3
        <5>2. myPred[r[i + 1]] = tail /\ r[i + 1] \in Engaged
          BY <1>6, <2>1, <2>2, <4>1, <4>2, <5>1
        <5> QED BY <5>2 DEF LineInv, IInv, EngagedNodes
      <4> QED BY <3>2, <3>3, <4>2, <4>3
    <3>5. k - 1 \in 0..(n - 1) /\ k - 1 \notin Differ
      BY <3>1, <3>2, <3>4
    <3>6. r[n - (k - 1)] = q[n - (k - 1)]
      BY <3>5 DEF Differ
    <3>7. n - k \in 1..(n - 1) /\ n - k \in 1..n /\ n - (k - 1) = (n - k) + 1
      BY <3>2, <3>3, <3>4
    <3>8. /\ myNode[r[n - k]] = myPred[r[(n - k) + 1]]
          /\ myNode[q[n - k]] = myPred[q[(n - k) + 1]]
      BY <1>5, <1>6, <2>2, <3>7
    <3>9. myNode[r[n - k]] = myNode[q[n - k]]
      BY <3>6, <3>7, <3>8
    <3>10. r[n - k] \in Engaged /\ q[n - k] \in Engaged
      BY <1>2, <2>1, <3>7
    <3>11. \A t \in Engaged : t \in Threads /\ Own(t) = myNode[t]
      BY DEF LineInv, IInv, PcNodes, Engaged, Own, NodeFor
    <3> QED BY <3>2, <3>9, <3>10, <3>11 DEF LineInv, IInv, NodesRecycledSafely
  <2>5. ASSUME NEW i \in 1..n PROVE r[i] = q[i]
    <3>1. n - i \in 0..(n - 1) /\ n - (n - i) = i
      BY <1>1
    <3> QED BY <2>4, <3>1
  <2> QED BY <1>2, <2>1, <2>5
<1> HIDE DEF Fits
<1>7. (CHOOSE r \in SetToSeqs(Engaged) : Fits(r)) = q
  BY <1>4, <1>5, <1>6
<1> QED BY <1>7 DEF Queue, Fits

(* The same after a step. *)
LEMMA NextQueueIsLine == \A q \in Seq(Threads) : LineInv(q)' => Queue' = q
<1>1. \A q \in Seq(Threads) : LineInv(q) => Queue = q
  BY QueueIsLine
<1>2. (\A q \in Seq(Threads) : LineInv(q) => Queue = q)'
  BY <1>1, PTL
<1> QED BY <1>2

(* The exchange on tail is an arrival, the end of the spin loop an entry,  *)
(* the store that lets the next thread in a departure; the rest is unseen. *)
LEMMA StepRefines ==
  ASSUME NEW q \in Seq(Threads), LineInv(q), NEW t \in Threads
  PROVE  /\ Exchange(t) => Fifo!Arrive(t)
         /\ StopSpinning(t) => Fifo!Enter(t)
         /\ Unlock(t) => Fifo!Leave(t)
         /\ Announce(t) \/ Recycle(t) => UNCHANGED Fifo!vars
<1>1. Queue = q
  BY QueueIsLine
<1>2. pc \in [Threads -> {"idle", "exchange", "spin", "critical", "recycle"}] /\ IInv
  BY DEF LineInv, IInv, TypeOK
<1> DEFINE Inside == \E u \in Threads : pc[u] = "critical"
<1>3. ASSUME Exchange(t) PROVE Fifo!Arrive(t)
  <2>1. /\ Append(q, t) \in Seq(Threads) /\ LineInv(Append(q, t))'
        /\ t \notin Engaged
    BY <1>3, ExchangeLine
  <2>2. Queue' = Append(q, t)
    BY <2>1, NextQueueIsLine
  <2>3. ~ \E i \in 1..Len(q) : q[i] = t
    BY <2>1 DEF LineInv, Lined
  <2>4. UNCHANGED Inside
    BY <1>2, <1>3 DEF Exchange
  <2> QED BY <1>1, <2>2, <2>3, <2>4 DEF Fifo!Arrive, Fifo!InQueue
<1>4. ASSUME StopSpinning(t) PROVE Fifo!Enter(t)
  <2>1. LineInv(q)' /\ Len(q) > 0 /\ q[1] = t
    BY <1>4, StopSpinningLine
  <2>2. Queue' = q /\ q # <<>> /\ Head(q) = t
    BY <2>1, NextQueueIsLine, EmptySeq
  <2>3. ~ Inside
    <3> SUFFICES ASSUME NEW u \in Threads, pc[u] = "critical" PROVE FALSE
      OBVIOUS
    <3>1. PICK i \in 1..Len(q) : q[i] = u
      BY DEF LineInv, Lined, Engaged
    <3>2. Len(q) \in Nat
      BY LenProperties
    <3> QED BY <1>4, <2>1, <3>1, <3>2 DEF StopSpinning, LineInv, Chained
  <2>4. Inside' = TRUE
    BY <1>2, <1>4 DEF StopSpinning
  <2> QED BY <1>1, <2>2, <2>3, <2>4 DEF Fifo!Enter
<1>5. ASSUME Unlock(t) PROVE Fifo!Leave(t)
  <2>1. Tail(q) \in Seq(Threads) /\ LineInv(Tail(q))' /\ Len(q) > 0 /\ q[1] = t
    BY <1>5, UnlockLine
  <2>2. Queue' = Tail(q) /\ Head(q) = t
    <3>1. Queue' = Tail(q)
      BY <2>1, NextQueueIsLine
    <3>2. Head(q) = t
      BY <2>1, EmptySeq
    <3> QED BY <3>1, <3>2
  <2>3. Inside
    BY <1>5 DEF Unlock
  <2>4. Inside' = FALSE
    BY <1>2, <1>5, IInvMutex DEF Unlock, MutualExclusion
  <2> QED BY <1>1, <2>2, <2>3, <2>4 DEF Fifo!Leave
<1>6. ASSUME Announce(t) \/ Recycle(t) PROVE UNCHANGED Fifo!vars
  <2>1. Queue' = q
    BY <1>6, OutsideLine, NextQueueIsLine
  <2>2. UNCHANGED Inside
    BY <1>2, <1>6 DEF Announce, Recycle
  <2> QED BY <1>1, <2>1, <2>2 DEF Fifo!vars
<1> QED BY <1>3, <1>4, <1>5, <1>6


(* Threads hold the CLH lock one at a time and in the order of their       *)
(* exchanges on tail, however nodes are recycled in between.               *)
THEOREM ServesInOrder == Spec => Fifo!Spec
<1> DEFINE InLine == \E q \in Seq(Threads) : LineInv(q)
<1>1. Init => InLine
  BY InitLineInv
<1>2. InLine /\ [Next]_vars => InLine'
  <2> SUFFICES ASSUME NEW q \in Seq(Threads), LineInv(q), [Next]_vars
               PROVE  \E r \in Seq(Threads) : LineInv(r)'
    OBVIOUS
  <2>1. CASE UNCHANGED vars
    <3>1. IInv' /\ Engaged' = Engaged
      BY <2>1, NextIInv DEF LineInv, vars, Engaged
    <3>2. LineInv(q)'
      BY <2>1, <3>1 DEF vars, LineInv, Lined, Chained
    <3> QED BY <3>2
  <2>2. CASE Next
    <3> PICK t \in Threads : Announce(t) \/ Step(t)
      BY <2>2 DEF Next
    <3>1. CASE Exchange(t)                 BY <3>1, ExchangeLine
    <3>2. CASE StopSpinning(t)             BY <3>2, StopSpinningLine
    <3>3. CASE Unlock(t)                   BY <3>3, UnlockLine
    <3>4. CASE Announce(t) \/ Recycle(t)   BY <3>4, OutsideLine
    <3> QED BY <3>1, <3>2, <3>3, <3>4 DEF Step
  <2> QED BY <2>1, <2>2
<1>3. Init => Fifo!Init
  <2> SUFFICES ASSUME Init PROVE Fifo!Init
    OBVIOUS
  <2>1. Queue = <<>>
    BY InitLineInv, QueueIsLine
  <2>2. ~ \E t \in Threads : pc[t] = "critical"
    BY DEF Init
  <2> QED BY <2>1, <2>2 DEF Fifo!Init
<1>4. InLine /\ [Next]_vars => [Fifo!Next]_Fifo!vars
  <2> SUFFICES ASSUME NEW q \in Seq(Threads), LineInv(q), [Next]_vars
               PROVE  Fifo!Next \/ UNCHANGED Fifo!vars
    OBVIOUS
  <2>1. CASE UNCHANGED vars
    BY <2>1 DEF vars, Fifo!vars, Queue, Engaged
  <2>2. CASE Next
    BY <2>2, StepRefines DEF Next, Step, Fifo!Next
  <2> QED BY <2>1, <2>2
<1> HIDE DEF InLine
<1> QED BY <1>1, <1>2, <1>3, <1>4, PTL DEF Spec, Fifo!Spec

-----------------------------------------------------------------------------
(* The test: the rounds the threads have done, one by one. *)
Rounds == {r \in Threads \X (1..CountTo) : r[2] <= done[r[1]]}

TestTypeOK ==
  /\ counter \in Nat
  /\ loaded \in [Threads -> Nat]
  /\ done \in [Threads -> 0..CountTo]
  /\ body \in [Threads -> {"before", "loaded", "stored"}]

(* The counter is the number of rounds done; who has loaded it holds the   *)
(* lock, so that it has not changed since; and a round begun is one of     *)
(* CountTo.                                                                *)
CountInv ==
  /\ counter = Cardinality(Rounds)
  /\ \A t \in Threads :
       /\ body[t] # "before" => pc[t] = "critical"
       /\ body[t] = "loaded" => loaded[t] = counter
       /\ done[t] = CountTo => pc[t] \in {"idle", "recycle"} \/ body[t] = "stored"

TestIInv == IInv /\ TestTypeOK /\ CountInv

(* Every step of the test is a step of the lock or leaves the lock alone.  *)
LEMMA TestStepsAreSteps == [TestNext]_<<vars, testVars>> => [Next]_vars
<1> SUFFICES ASSUME [TestNext]_<<vars, testVars>> PROVE [Next]_vars
  OBVIOUS
<1>1. ASSUME NEW t \in Threads, TestStep(t) PROVE [Next]_vars
  BY <1>1
  DEF TestStep, CallLock, InLock, LoadCounter, StoreCounter, CallUnlock, InUnlock,
      Next, Step
<1> QED BY <1>1 DEF TestNext, Joined

(* The store after the load adds one round to the count. *)
LEMMA StoreCountInv ==
  ASSUME IsFiniteSet(Threads), TestIInv, NEW t \in Threads, StoreCounter(t)
  PROVE  TestTypeOK' /\ CountInv'
<1> USE DEF StoreCounter, TestIInv, TestTypeOK
<1>1. pc[t] = "critical" /\ loaded[t] = counter /\ UNCHANGED pc
  BY DEF CountInv, vars
<1>2. done[t] \in Nat /\ done[t] < CountTo /\ CountTo \in Nat
  BY <1>1, TestParameters DEF CountInv
<1>3. body' = [body EXCEPT ![t] = "stored"]
  BY <1>1
<1>4. TestTypeOK'
  BY <1>2, <1>3
<1>5. IsFiniteSet(Rounds) /\ Cardinality(Rounds) \in Nat
  <2>1. IsFiniteSet(1..CountTo)
    BY <1>2, FS_Interval
  <2>2. IsFiniteSet(Threads \X (1..CountTo))
    BY <2>1, FS_Product
  <2> QED BY <2>2, FS_Subset, FS_CardinalityType DEF Rounds
<1>6. /\ <<t, done[t] + 1>> \notin Rounds
      /\ Rounds' = Rounds \cup {<<t, done[t] + 1>>}
  BY <1>2 DEF Rounds
<1>7. counter' = Cardinality(Rounds')
  <2>1. Cardinality(Rounds \cup {<<t, done[t] + 1>>}) = Cardinality(Rounds) + 1
    BY <1>5, <1>6, FS_AddElement
  <2>2. Cardinality(Rounds') = Cardinality(Rounds) + 1
    BY <1>6, <2>1
  <2>3. counter = Cardinality(Rounds) /\ counter' = counter + 1
    BY <1>1 DEF CountInv
  <2> QED BY <2>2, <2>3
<1>8. \A u \in Threads : u # t => body[u] = "before"
  BY <1>1, IInvMutex DEF CountInv, MutualExclusion
<1>9. \A u \in Threads :
        /\ body'[u] # "before" => pc'[u] = "critical"
        /\ body'[u] = "loaded" => loaded'[u] = counter'
        /\ done'[u] = CountTo => pc'[u] \in {"idle", "recycle"} \/ body'[u] = "stored"
  BY <1>1, <1>3, <1>8 DEF CountInv
<1> QED BY <1>4, <1>7, <1>9 DEF CountInv

(* The other steps of the test do not touch the counter. *)
LEMMA OtherCountInv ==
  ASSUME ~PlainFlag, TestIInv, NEW t \in Threads,
         CallLock(t) \/ InLock(t) \/ LoadCounter(t) \/ CallUnlock(t) \/ InUnlock(t)
  PROVE  TestTypeOK' /\ CountInv'
<1> USE DEF TestIInv, TestTypeOK, CountInv
<1>1. pc \in [Threads -> {"idle", "exchange", "spin", "critical", "recycle"}]
  BY DEF IInv, TypeOK
<1>2. counter' = counter /\ done' = done /\ Rounds' = Rounds
  BY DEF CallLock, InLock, LoadCounter, CallUnlock, InUnlock, testVars, Rounds
<1> HIDE DEF CountInv
<1>3. CASE CallLock(t)
  BY <1>1, <1>2, <1>3 DEF CallLock, Announce, testVars, CountInv
<1>4. CASE InLock(t)
  BY <1>1, <1>2, <1>4 DEF InLock, Exchange, StopSpinning, testVars, CountInv
<1>5. CASE LoadCounter(t)
  BY <1>1, <1>2, <1>5 DEF LoadCounter, vars, CountInv
<1>6. CASE CallUnlock(t)
  <2>1. body[t] = "stored" /\ body' = [body EXCEPT ![t] = "before"]
    BY <1>6 DEF CallUnlock
  <2>2. pc[t] = "critical" /\ pc' = [pc EXCEPT ![t] = "recycle"] /\ loaded' = loaded
    BY <1>6 DEF CallUnlock, Unlock
  <2> QED BY <1>1, <1>2, <2>1, <2>2 DEF CountInv
<1>7. CASE InUnlock(t)
  BY <1>1, <1>2, <1>7 DEF InUnlock, Recycle, testVars, CountInv
<1> QED BY <1>3, <1>4, <1>5, <1>6, <1>7

(* TestLocks.cpp, "return target == counter": with a flag whose store      *)
(* nothing overtakes, no increment is lost, for any number of threads and  *)
(* of rounds.                                                              *)
THEOREM NoIncrementLost ==
  ASSUME IsFiniteSet(Threads), ~PlainFlag PROVE TestSpec => []CounterExact
<1>1. TestInit => TestIInv
  <2> SUFFICES ASSUME TestInit PROVE TestIInv
    OBVIOUS
  <2>1. IInv
    BY InitIInv DEF TestInit
  <2>2. TestTypeOK
    BY TestParameters DEF TestInit, TestTypeOK
  <2>3. CountInv
    <3>1. Rounds = {}
      BY TestParameters DEF TestInit, Rounds
    <3> QED BY <3>1, FS_EmptySet DEF TestInit, Init, CountInv
  <2> QED BY <2>1, <2>2, <2>3 DEF TestIInv
<1>2. TestIInv /\ [TestNext]_<<vars, testVars>> => TestIInv'
  <2> SUFFICES ASSUME TestIInv, [TestNext]_<<vars, testVars>> PROVE TestIInv'
    OBVIOUS
  <2>1. IInv'
    BY TestStepsAreSteps, NextIInv DEF TestIInv
  <2>2. ASSUME NEW t \in Threads, TestStep(t) PROVE TestTypeOK' /\ CountInv'
    BY <2>2, StoreCountInv, OtherCountInv DEF TestStep
  <2>3. CASE UNCHANGED <<vars, testVars>>
    <3>1. /\ pc' = pc /\ counter' = counter /\ loaded' = loaded
          /\ done' = done /\ body' = body
      BY <2>3 DEF vars, testVars
    <3>2. Rounds' = Rounds
      BY <3>1 DEF Rounds
    <3>3. TestTypeOK'
      BY <3>1 DEF TestIInv, TestTypeOK
    <3>4. CountInv'
      BY <3>1, <3>2 DEF TestIInv, CountInv
    <3> QED BY <2>1, <3>3, <3>4 DEF TestIInv
  <2> QED BY <2>1, <2>2, <2>3 DEF TestIInv, TestNext, Joined
<1>3. TestIInv => CounterExact
  <2> SUFFICES ASSUME TestIInv, AllDone PROVE counter = CountTo * Cardinality(Threads)
    BY DEF CounterExact
  <2>1. Rounds = Threads \X (1..CountTo)
    BY DEF Rounds, AllDone
  <2>2. IsFiniteSet(1..CountTo) /\ Cardinality(1..CountTo) = CountTo
    <3>1. 1 \in Int /\ CountTo \in Int
      BY TestParameters
    <3>2. /\ IsFiniteSet(1..CountTo)
          /\ Cardinality(1..CountTo) = IF 1 > CountTo THEN 0 ELSE CountTo - 1 + 1
      BY <3>1, FS_Interval
    <3> QED BY <3>2, TestParameters
  <2>3. Cardinality(Rounds) = Cardinality(Threads) * CountTo
    BY <2>1, <2>2, FS_Product
  <2>4. Cardinality(Threads) \in Nat /\ CountTo \in Nat
    BY FS_CardinalityType, TestParameters
  <2> QED BY <2>3, <2>4 DEF TestIInv, CountInv
<1> QED BY <1>1, <1>2, <1>3, PTL DEF TestSpec
=============================================================================
