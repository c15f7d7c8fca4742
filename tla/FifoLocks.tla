----------------------------- MODULE FifoLocks -----------------------------
(***************************************************************************)
(* The locks that promise service in order of arrival, TwoCounterLock,     *)
(* MCSLock and ALock, one of them under test as in the table of            *)
(* bench/BenchLocks.cpp: every test has a lock and threads of its own, so  *)
(* that the locks not under test keep their initial state.  (CLHLock is in *)
(* TestCLHLock.)  Of the tests before, only ThreadId::idCounter is left.   *)
(***************************************************************************)
EXTENDS TwoCounterLock

CONSTANTS
  QueueThreads,         \* the threads that use an MCSLock or an ALock
  NoNode,               \* MCSLock's nullptr
  MaxThreads,           \* how many slots ALock has, and cells its ThreadLocal
  MaxTail               \* the largest value of ALock's tail

VARIABLES
  lock,                 \* the lock under test
  locked, next, tail, pred, mcsPc,
  idCounter, id, setArr, dataArr, counter, flags, slot, alockPc

MCS == INSTANCE MCSLock WITH Threads <- QueueThreads, pc <- mcsPc

Array ==
  INSTANCE ALock WITH
    Threads <- QueueThreads, Values <- 0..(MaxThreads - 1), Default <- 0, MaxUsize <- MaxTail,
    tail <- counter, pc <- alockPc

ASSUME LocksParameters ==
  QueueThreads \subseteq Threads /\ MCS!NoNodeDistinct /\ Array!Sizes

mcsVars == <<locked, next, tail, pred, mcsPc>>
arrayVars == <<idCounter, id, setArr, dataArr, counter, flags, slot, alockPc>>
locksVars == <<lock, vars, mcsVars, arrayVars>>

LocksInit ==
  /\ lock \in {"TwoCounterLock", "MCSLock", "ALock"}
  /\ Init /\ MCS!Init /\ Array!Init
  /\ lock # "ALock" => idCounter = 1    \* only ALock looks at ids

TestTwoCounterLock ==
  lock = "TwoCounterLock" /\ Next /\ UNCHANGED <<lock, mcsVars, arrayVars>>

TestMCSLock == lock = "MCSLock" /\ MCS!Next /\ UNCHANGED <<lock, vars, arrayVars>>

TestALock == lock = "ALock" /\ Array!Next /\ UNCHANGED <<lock, vars, mcsVars>>

LocksSpec ==
  /\ LocksInit /\ [][TestTwoCounterLock \/ TestMCSLock \/ TestALock]_locksVars
  /\ \A t \in Threads : WF_vars(Step(t))
  /\ \A t \in QueueThreads : WF_mcsVars(MCS!Step(t)) /\ WF_arrayVars(Array!Step(t))
-----------------------------------------------------------------------------
LocksTypeOK == TypeOK /\ MCS!TypeOK /\ Array!TypeOK

(* MCSLock: a thread that is not in a call left its node as new. *)
IdleNodesAsNew == MCS!IdleNodesAsNew

(* MCSLock: the links between nodes follow the order of arrival. *)
LinksFollowQueue == MCS!LinksFollowQueue

(* ALock: one flag is raised or one thread holds the lock, and no two      *)
(* threads wait at one slot.                                               *)
OneToken == Array!OneToken

(* ALock: no two threads keep their slots in one cell, whatever ids the    *)
(* threads of earlier tests have drawn.                                    *)
CellsUnshared == Array!CellsUnshared

LocksFifo ==
  INSTANCE FifoMutex WITH
    queue <- CASE lock = "TwoCounterLock" -> Queue
               [] lock = "MCSLock"        -> MCS!Queue
               [] lock = "ALock"          -> Array!Queue,
    inside <- CASE lock = "TwoCounterLock" -> \E t \in Threads : pc[t] = "critical"
                [] lock = "MCSLock"        -> MCS!Holding # {}
                [] lock = "ALock"          -> Array!Holding # {}

(* Whichever the lock, threads enter in the order of the one atomic        *)
(* operation at the start of lock(), one at a time, and all of them enter. *)
LocksImplementFifo == LocksFifo!FairSpec
=============================================================================
