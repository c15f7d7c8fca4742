----------------------------- MODULE BenchSets -----------------------------
(***************************************************************************)
(* The three list sets with their clients: threads that call whatever they *)
(* like, or the workers of benchSet (bench/BenchSets.cpp, BenchSetByLocks, *)
(* the same loop in bench/test/TestSets.cpp).  No worker touches another's *)
(* tokens, but their tokens are neighbours in the list.                    *)
(***************************************************************************)
EXTENDS ListSets, BenchWorker

CONSTANT AnyNodes   \* bound on the nodes for threads that call what they like

VARIABLES
  client,           \* "any" or "workers"
  made              \* how many calls a worker has made

benchVars == <<vars, client, made>>

BenchInit ==
  /\ Init
  /\ client \in {"any", "workers"}
  /\ client = "workers" => version = "C++"
  /\ made = [t \in Threads |-> 0]

ASSUME ClientParameters ==
  DOMAIN threadId = Threads /\ \A t \in Threads : Tokens(t) \subseteq Elements

AnyCall(t) ==
  /\ client = "any"
  /\ \E op \in Ops, e \in Elements :
       /\ op = "add" => allocated + Cardinality(Adding) < AnyNodes
       /\ Call(t, op, e)
  /\ UNCHANGED <<client, made>>

(* theSet.add(token), contains(token), remove(token), contains(token). *)
WorkerCall(t) ==
  /\ client = "workers" /\ made[t] < CallsPerWorker
  /\ Call(t, <<"add", "contains", "remove", "contains">>[Phase(made[t]) + 1],
          Token(t, Round(made[t])))
  /\ UNCHANGED <<client, made>>

BenchStep(t) ==
  /\ Step(t)
  /\ made' = IF client = "workers" /\ pc[t] = "return" THEN [made EXCEPT ![t] = @ + 1] ELSE made
  /\ UNCHANGED client

AllDone == \A t \in Threads : pc[t] = "idle" /\ made[t] = CallsPerWorker

(* worker.get() of the last one returns. *)
Joined == AllDone /\ UNCHANGED benchVars

BenchNext ==
  \/ \E t \in Threads : AnyCall(t) \/ WorkerCall(t) \/ BenchStep(t)
  \/ Joined

(* The scheduler runs every thread, and a worker makes all its calls. *)
BenchSpec ==
  /\ BenchInit /\ [][BenchNext]_benchVars
  /\ \A t \in Threads : WF_benchVars(BenchStep(t)) /\ WF_benchVars(WorkerCall(t))
-----------------------------------------------------------------------------
(* Every answer a worker gets is the one it would get alone, although the  *)
(* others link and unlink the nodes next to its own: what TestSets.cpp     *)
(* asserts of each call, and only the last contains() finds nothing.       *)
WorkersUndisturbed ==
  client = "workers" =>
    \A t \in Threads :
      pc[t] = "return" => call[t].answer = IF Phase(made[t]) = 3 THEN "no" ELSE "yes"

(* Every worker gets through all its calls, although its attempts may fail *)
(* because of the others' successes; in the end the set is empty and no    *)
(* mutex is held, and main() goes on.                                      *)
WorkersEnd ==
  <>(client = "workers" =>
       AllDone /\ Inner = {} /\ \A n \in Nodes : mutex[n] = NoThread)
=============================================================================
