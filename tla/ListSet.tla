------------------------------ MODULE ListSet ------------------------------
(***************************************************************************)
(* What FineGrainedSet, OptimisticSet and LazySet have in common: a linked *)
(* list of nodes in the order of their keys (the elements' hash codes)     *)
(* between a head and a tail node, a mutex per node, and add, remove and   *)
(* contains written as callbacks of a function find, which brings a locked *)
(* pair of adjacent nodes.  Elements may share a key.                      *)
(*                                                                         *)
(* Nodes are numbered in the order of their allocation and not reused: a   *)
(* node somebody still refers to is kept by shared_ptr or the collector.   *)
(***************************************************************************)
EXTENDS Naturals, FiniteSets

CONSTANTS
  Threads, NoThread,
  Elements, NoElement,
  Key,          \* the hash code of each element
  TopKey,       \* the tail's key, SIZE_MAX; the head's is 0
  MaxNodes      \* bound on the number of nodes add() allocates

(* Elements that collide on TopKey are left out: in OptimisticSet they let *)
(* the validation run off the list.                                        *)
ASSUME Parameters ==
  /\ NoThread \notin Threads /\ NoElement \notin Elements
  /\ IsFiniteSet(Threads)
  /\ TopKey \in Nat \ {0} /\ MaxNodes \in Nat
  /\ Key \in [Elements -> 0..TopKey]
  /\ \A d, e \in Elements : Key[d] = TopKey /\ Key[e] = TopKey => d = e

VARIABLES
  kind,         \* the class the set is an object of
  version,      \* "C++" or "Java"
  allocated,    \* how many nodes add() has allocated
  next, value, deleted, mutex,  \* the fields of the nodes
  call,         \* the call each thread is in, as in SetContract
  pred, cur,    \* find's predecessor and current
  other, ahead, \* find's further locals: see FineGrainedSet, OptimisticSet
  pc

heap == <<allocated, next, value, deleted>>
locals == <<pred, cur, other, ahead>>
vars == <<kind, version, heap, mutex, call, locals, pc>>

Head == 0
Tail == MaxNodes + 1
NoNode == MaxNodes + 2
Nodes == 0..Tail

KeyOf(n) ==
  CASE n = Head -> 0
    [] n = Tail -> TopKey
    [] OTHER    -> Key[value[n]]

Ops == {"add", "remove", "contains"}
NoCall == [op |-> "none"]
Calls == [op : Ops, elem : Elements, answer : {"pending", "yes", "no"}]

Init ==
  /\ kind \in {"FineGrained", "Optimistic", "Lazy"}
  /\ version \in {"C++", "Java"}
  /\ allocated = 0
  /\ next = [n \in Nodes |-> IF n = Head THEN Tail ELSE NoNode]
  /\ value = [n \in Nodes |-> NoElement]
  /\ deleted = [n \in Nodes |-> FALSE]
  /\ mutex = [n \in Nodes |-> NoThread]
  /\ call = [t \in Threads |-> NoCall]
  /\ pred = [t \in Threads |-> Head]
  /\ cur = [t \in Threads |-> Head]
  /\ other = [t \in Threads |-> Head]
  /\ ahead = [t \in Threads |-> Head]
  /\ pc = [t \in Threads |-> "idle"]

Goto(t, label) == pc' = [pc EXCEPT ![t] = label]

(* Calls of add() are made while there are nodes left for all of them. *)
Adding == {t \in Threads : call[t].op = "add" /\ call[t].answer = "pending"}

Call(t, op, e) ==
  /\ pc[t] = "idle"
  /\ op = "add" => allocated + Cardinality(Adding) < MaxNodes
  /\ call' = [call EXCEPT ![t] = [op |-> op, elem |-> e, answer |-> "pending"]]
  /\ Goto(t, "start")
  /\ UNCHANGED <<kind, version, heap, mutex, locals>>

Start(t) == \E op \in Ops, e \in Elements : Call(t, op, e)

(* The condition of the loop in find. *)
WalksOn(t) ==
  LET e == call[t].elem
      n == cur[t]
  IN  next[n] # NoNode /\ KeyOf(n) <= Key[e] /\ (Key[e] # KeyOf(n) \/ e # value[n])

(* The walk of OptimisticSet and LazySet, which holds no lock. *)
StartWalk(t) ==
  /\ pc[t] = "start"
  /\ pred' = [pred EXCEPT ![t] = Head]
  /\ cur' = [cur EXCEPT ![t] = next[Head]]
  /\ Goto(t, "walk")
  /\ UNCHANGED <<kind, version, heap, mutex, call, other, ahead>>

Walk(t) ==
  /\ pc[t] = "walk" /\ WalksOn(t)
  /\ pred' = [pred EXCEPT ![t] = cur[t]]
  /\ cur' = [cur EXCEPT ![t] = next[cur[t]]]
  /\ UNCHANGED <<kind, version, heap, mutex, call, other, ahead, pc>>

(* std::lock takes both or neither. *)
LockBoth(t) ==
  /\ pc[t] = "walk" /\ ~WalksOn(t) /\ version = "C++"
  /\ mutex[pred[t]] = NoThread /\ mutex[cur[t]] = NoThread
  /\ mutex' = [mutex EXCEPT ![pred[t]] = t, ![cur[t]] = t]
  /\ Goto(t, "locked")
  /\ UNCHANGED <<kind, version, heap, call, locals>>

(* The Java code locks one after the other. *)
LockPred(t) ==
  /\ pc[t] = "walk" /\ ~WalksOn(t) /\ version = "Java"
  /\ mutex[pred[t]] = NoThread
  /\ mutex' = [mutex EXCEPT ![pred[t]] = t]
  /\ Goto(t, "lockcur")
  /\ UNCHANGED <<kind, version, heap, call, locals>>

LockCur(t) ==
  /\ pc[t] = "lockcur" /\ mutex[cur[t]] = NoThread
  /\ mutex' = [mutex EXCEPT ![cur[t]] = t]
  /\ Goto(t, "locked")
  /\ UNCHANGED <<kind, version, heap, call, locals>>

(* Mutant: only the predecessor's lock is given back. *)
UnlockedPred(t) == [mutex EXCEPT ![pred[t]] = NoThread]

Unlocked(t) == [n \in Nodes |-> IF mutex[n] = t THEN NoThread ELSE mutex[n]]

(* The variables of an attempt go out of scope. *)
Forget(t) ==
  /\ pred' = [pred EXCEPT ![t] = Head]
  /\ cur' = [cur EXCEPT ![t] = Head]
  /\ other' = [other EXCEPT ![t] = Head]
  /\ ahead' = [ahead EXCEPT ![t] = Head]

(* A pair that is not, or no longer, what find looks for. *)
Retry(t) ==
  /\ mutex' = Unlocked(t)
  /\ Forget(t)
  /\ Goto(t, "start")
  /\ UNCHANGED <<kind, version, heap, call>>
-----------------------------------------------------------------------------
(* The callbacks.  Found: the element is the locked current node's. *)
Found(t) == value[cur[t]] = call[t].elem

Answer(t, a) == call' = [call EXCEPT ![t].answer = a]

(* contains(), getEqual(), and add() and remove() that change nothing. *)
Decide(t) ==
  /\ pc[t] = "found"
  /\ CASE call[t].op = "contains" -> Answer(t, IF Found(t) THEN "yes" ELSE "no")
       [] call[t].op = "add"      -> Found(t) /\ Answer(t, "no")
       [] call[t].op = "remove"   -> ~Found(t) /\ Answer(t, "no")
  /\ Goto(t, "return")
  /\ UNCHANGED <<kind, version, heap, mutex, locals>>

(* add() of a new element: visible to the others from the last store on. *)
Link(t) ==
  /\ pc[t] = "found" /\ call[t].op = "add" /\ ~Found(t)
  /\ LET n == allocated + 1
     IN  /\ allocated' = n
         /\ value' = [value EXCEPT ![n] = call[t].elem]
         /\ next' = [next EXCEPT ![n] = next[pred[t]], ![pred[t]] = n]
  /\ Answer(t, "yes")
  /\ Goto(t, "return")
  /\ UNCHANGED <<kind, version, deleted, mutex, locals>>

(* Mutant: the node is not marked. *)
MarkNot(t) ==
  /\ pc[t] = "found" /\ call[t].op = "remove" /\ Found(t) /\ kind = "Lazy"
  /\ Goto(t, "unlink")
  /\ UNCHANGED <<kind, version, heap, mutex, call, locals>>

(* LazySet's remove() marks the node before it unlinks it. *)
Mark(t) ==
  /\ pc[t] = "found" /\ call[t].op = "remove" /\ Found(t) /\ kind = "Lazy"
  /\ deleted' = [deleted EXCEPT ![cur[t]] = TRUE]
  /\ Goto(t, "unlink")
  /\ UNCHANGED <<kind, version, allocated, next, value, mutex, call, locals>>

Unlink(t) ==
  /\ \/ pc[t] = "found" /\ call[t].op = "remove" /\ Found(t) /\ kind # "Lazy"
     \/ pc[t] = "unlink"
  /\ next' = [next EXCEPT ![pred[t]] = next[cur[t]]]
  /\ Answer(t, "yes")
  /\ Goto(t, "return")
  /\ UNCHANGED <<kind, version, allocated, value, deleted, mutex, locals>>

(* The locks are given back, current's first, and the call returns. *)
Return(t) ==
  /\ pc[t] = "return"
  /\ mutex' = Unlocked(t)
  /\ call' = [call EXCEPT ![t] = NoCall]
  /\ Forget(t)
  /\ Goto(t, "idle")
  /\ UNCHANGED <<kind, version, heap>>

OptimisticStep(t) ==
  StartWalk(t) \/ Walk(t) \/ LockBoth(t) \/ LockPred(t) \/ LockCur(t)

Callback(t) == Decide(t) \/ Link(t) \/ Mark(t) \/ Unlink(t) \/ Return(t)
=============================================================================
