----------------------------- MODULE BenchMaps -----------------------------
(***************************************************************************)
(* The hash tables with their clients: threads that call whatever they     *)
(* like, or the workers of benchMap, which are those of TestMaps.cpp too,  *)
(* and of benchSet on a LockHashSet.  The workers' threads never touch     *)
(* each other's tokens, but their tokens share buckets.                    *)
(***************************************************************************)
EXTENDS HashMaps, BenchWorker

CONSTANTS
  AnyKeys, AnyValues,   \* what threads use that call whatever they like
  Garbage               \* what a variable holds that was never written

VARIABLES
  client,               \* "any" or "workers"
  made,                 \* how many calls a worker has made
  out                   \* a worker's variable of that name

clientVars == <<client, made, out>>
benchVars == <<vars, clientVars>>

BenchInit ==
  /\ Init
  /\ client \in {"any", "workers"}
  /\ client = "workers" => version = "C++"
  /\ made = [t \in Threads |-> 0]
  /\ out = [t \in Threads |-> Garbage]

(* The value put under a token is the token; here it is told apart from    *)
(* the answers that are no value by being a string.                        *)
Value(token) == ToString(token)

ASSUME ClientParameters ==
  /\ DOMAIN threadId = Threads
  /\ AnyKeys \subseteq Keys /\ AnyValues \subseteq Values /\ AnyValues # {}
  /\ \A t \in Threads : \A token \in Tokens(t) : token \in Keys /\ Value(token) \in Values

(* An element of LockHashSet has no value: one stands for it. *)
ValuesOf(c) == IF c = "LockHashSet" THEN {CHOOSE v \in AnyValues : TRUE} ELSE AnyValues

AnyCall(t) ==
  /\ client = "any"
  /\ \E op \in Ops, k \in AnyKeys, v \in ValuesOf(kind) \cup {NoValue} : Call(t, op, k, v)
  /\ UNCHANGED clientVars

(* theMap.put(token, token), get(token, out), del(token), get(token, out). *)
WorkerCall(t) ==
  /\ client = "workers" /\ made[t] < CallsPerWorker
  /\ LET token == Token(t, Round(made[t]))
     IN  Call(t, <<"put", "get", "del", "get">>[Phase(made[t]) + 1], token,
              IF Phase(made[t]) = 0 THEN Value(token) ELSE NoValue)
  /\ UNCHANGED clientVars

(* get() writes its output only if the key is there. *)
Record(t) ==
  /\ made' = [made EXCEPT ![t] = @ + 1]
  /\ out' = [out EXCEPT ![t] =
               IF call[t].op = "get" /\ call[t].answer # NoValue THEN call[t].answer ELSE @]

BenchStep(t) ==
  /\ Step(t)
  /\ IF client = "workers" /\ pc[t] = "return" THEN Record(t) ELSE UNCHANGED <<made, out>>
  /\ UNCHANGED client

(* What a worker is told in a phase if nobody else uses its token. *)
AnswerAlone(phase, token) ==
  CASE phase \in {0, 2} -> "true"
    [] phase = 1        -> Value(token)
    [] phase = 3        -> NoValue

AllDone == \A t \in Threads : pc[t] = "idle" /\ made[t] = CallsPerWorker

(* worker.get() of the last one returns. *)
Joined == AllDone /\ UNCHANGED benchVars

BenchNext ==
  \/ \E t \in Threads : AnyCall(t) \/ WorkerCall(t) \/ BenchStep(t)
  \/ Joined

(* The scheduler runs every thread, and a worker makes all its calls. *)
BenchSpec ==
  /\ BenchInit /\ [][BenchNext]_benchVars
  /\ \A t \in Threads : WF_benchVars(BenchStep(t)) /\ WF_benchVars(WorkerCall(t))
-----------------------------------------------------------------------------
(* Every answer a worker gets is the one it would get alone, although the  *)
(* others change the chains it walks: put() and del() return true, get()   *)
(* finds the token between them and not after, as TestMaps.cpp asserts;    *)
(* and after a get(), "out", which the worker then reads, holds a token of *)
(* its own.                                                                *)
WorkersUndisturbed ==
  client = "workers" =>
    \A t \in Threads :
      /\ pc[t] = "return" =>
           call[t].answer = AnswerAlone(Phase(made[t]), call[t].key)
      /\ made[t] >= 2 => out[t] \in {Value(k) : k \in Tokens(t)}

(* Every worker gets through all its calls: as the others' calls come to   *)
(* an end, none waits for a bucket's mutex forever; in the end the table   *)
(* is as empty as before, no mutex is held, and main() goes on.            *)
WorkersEnd ==
  <>(client = "workers" =>
       AllDone /\ Entries = {} /\ \A b \in Buckets : mutex[b] = NoThread)
=============================================================================
