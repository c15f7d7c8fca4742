---------------------------- MODULE SetContract ----------------------------
(***************************************************************************)
(* What SetType (sets/SetTypes.hpp) and SlimSet.java promise threads that  *)
(* share a set: a call takes effect in one step between its start and its  *)
(* return, and answers what a set answers then.  getEqual finds what       *)
(* contains finds, so "contains" stands for both.                          *)
(***************************************************************************)
CONSTANTS
  Threads,
  Elements

VARIABLES
  set,
  call          \* call[t]: the call t is in, [op, elem, answer], or NoCall

vars == <<set, call>>

Ops == {"add", "remove", "contains"}

NoCall == [op |-> "none"]

Start(t, op, e) ==
  /\ call[t] = NoCall
  /\ call' = [call EXCEPT ![t] = [op |-> op, elem |-> e, answer |-> "pending"]]
  /\ UNCHANGED set

Pending(t) == call[t] # NoCall /\ call[t].answer = "pending"

Answer(c) == IF (c.elem \in set) = (c.op # "add") THEN "yes" ELSE "no"

TakeEffect(t) ==
  /\ Pending(t)
  /\ LET c == call[t]
     IN  /\ call' = [call EXCEPT ![t].answer = Answer(c)]
         /\ set' = CASE c.op = "add"    -> set \cup {c.elem}
                     [] c.op = "remove" -> set \ {c.elem}
                     [] OTHER           -> set

Return(t) ==
  /\ call[t] # NoCall /\ call[t].answer # "pending"
  /\ call' = [call EXCEPT ![t] = NoCall]
  /\ UNCHANGED set

Init == set = {} /\ call = [t \in Threads |-> NoCall]

Next ==
  \E t \in Threads :
    \/ \E op \in Ops, e \in Elements : Start(t, op, e)
    \/ TakeEffect(t)
    \/ Return(t)

Spec == Init /\ [][Next]_vars

(* While calls are pending one of them takes effect, and returns; a single *)
(* call may be overtaken forever: nothing makes the mutexes fair.          *)
LiveSpec ==
  /\ Spec
  /\ WF_vars(\E t \in Threads : TakeEffect(t))
  /\ \A t \in Threads : WF_vars(Return(t))
=============================================================================
