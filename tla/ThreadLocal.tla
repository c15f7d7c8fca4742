---------------------------- MODULE ThreadLocal ----------------------------
(***************************************************************************)
(* threadlocal/ThreadId.hpp and ThreadLocal.hpp: a fixed array of cells,   *)
(* one per thread, chosen by a thread's id modulo the size of the array.   *)
(* Ids are drawn in the order in which threads first need one and are      *)
(* never reused; the object does not know how many threads use it.         *)
(*                                                                         *)
(* The operations are given as parts of actions for the modules that use   *)
(* the object; one thread's set() and get() touch its own cell, or, when   *)
(* two threads share one, are taken as single steps.                       *)
(***************************************************************************)
EXTENDS Naturals, FiniteSets

CONSTANTS
  Threads,
  MaxThreads,   \* the template parameter
  Values,       \* T
  Default       \* T()

(* What an object's constants are; assumed by the modules that have one. *)
ThreadLocalParameters ==
  /\ IsFiniteSet(Threads)
  /\ MaxThreads \in Nat \ {0}
  /\ Default \in Values

VARIABLES
  idCounter,    \* ThreadId::idCounter
  id,           \* each thread's thread_local ThreadId::id, 0 until drawn
  setArr, dataArr

threadLocalVars == <<idCounter, id, setArr, dataArr>>

Cells == 0..(MaxThreads - 1)

ThreadLocalTypeOK ==
  /\ idCounter \in Nat \ {0}
  /\ id \in [Threads -> Nat]
  /\ setArr \in [Cells -> BOOLEAN]
  /\ dataArr \in [Cells -> Values]

(* Threads that ended before these were started have drawn earlier ids. *)
ThreadLocalInit ==
  /\ idCounter \in 1..MaxThreads
  /\ id = [t \in Threads |-> 0]
  /\ setArr = [c \in Cells |-> FALSE]
  /\ dataArr = [c \in Cells |-> Default]

(* ThreadId::get: one fetch_add, the first time only. *)
DrawId(t) ==
  IF id[t] = 0
    THEN id' = [id EXCEPT ![t] = idCounter] /\ idCounter' = idCounter + 1
    ELSE UNCHANGED <<id, idCounter>>

(* Mutant: the last cell is never used. *)
CellShort(i) == i % (MaxThreads - 1)

(* getIdx, of an id that has been drawn. *)
Cell(i) == i % MaxThreads

Set(t, v) ==
  /\ DrawId(t)
  /\ setArr' = [setArr EXCEPT ![Cell(id'[t])] = TRUE]
  /\ dataArr' = [dataArr EXCEPT ![Cell(id'[t])] = v]

(* get() marks a cell that is not set and resets it to T(). *)
Get(t, v) ==
  /\ DrawId(t)
  /\ LET c == Cell(id'[t])
     IN  /\ v = (IF setArr[c] THEN dataArr[c] ELSE Default)
         /\ setArr' = [setArr EXCEPT ![c] = TRUE]
         /\ dataArr' = [dataArr EXCEPT ![c] = v]
-----------------------------------------------------------------------------
(* Threads that have drawn an id never share a cell. *)
CellsUnshared ==
  \A t, u \in Threads :
    id[t] # 0 /\ id[u] # 0 /\ Cell(id[t]) = Cell(id[u]) => t = u
=============================================================================
