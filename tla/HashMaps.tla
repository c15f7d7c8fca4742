------------------------------ MODULE HashMaps ------------------------------
(***************************************************************************)
(* The hash tables: LockHashMap (C++ and Java), LockHashSet (C++), and     *)
(* SetBasedMap (C++ and Java).  The first two have a mutex and a chain of  *)
(* nodes per bucket; a bucket of SetBasedMap is a set of nodes that are    *)
(* equal when their keys are, one of those of ListSets, which is used here *)
(* by its contract: a call of it is one step.  A set's elements are        *)
(* modelled as pairs too, the value being what equality ignores.           *)
(*                                                                         *)
(* A chain is accessed with its mutex held only, so it is modelled as a    *)
(* sequence and "current" as a position in it.                             *)
(***************************************************************************)
EXTENDS Integers, Sequences, SequencesExt

CONSTANTS
  Threads, NoThread,
  Keys, Values, NoValue,
  Hash,         \* the hash code of each key, an int
  HashSpace,    \* 2^64: C++ hash codes are converted to usize
  NumBuckets

ASSUME Parameters ==
  /\ NoThread \notin Threads /\ NoValue \notin Values
  /\ ({"pending", "exception", "true", "false"} \cap (Values \cup {NoValue})) = {}
  /\ Hash \in [Keys -> Int]
  /\ HashSpace \in Nat \ {0}
  /\ NumBuckets \in Nat /\ NumBuckets > 1   \* the index is taken modulo NumBuckets - 1

VARIABLES
  kind,         \* the class the object is of
  version,      \* "C++" or "Java"
  chain,        \* chain[b]: the nodes of bucket b
  mutex,        \* mutex[b]: the thread that holds the bucket's mutex
  call,         \* the call each thread is in, as in MapContract
  current,      \* current[t]: t's position in its chain
  pc

vars == <<kind, version, chain, mutex, call, current, pc>>

Buckets == 0..(NumBuckets - 1)
Nodes == [key : Keys, value : Values]

Ops == {"put", "get", "del"}
NoCall == [op |-> "none"]
Answers == Values \cup {NoValue, "pending", "exception", "true", "false"}
Calls == [op : Ops, key : Keys, value : Values \cup {NoValue}, answer : Answers]

(* The remainder of Java's % has the sign of the hash code. *)
Truncated(n, d) == IF n >= 0 THEN n % d ELSE -((-n) % d)

BucketIndex(k) ==
  IF version = "Java" THEN Truncated(Hash[k], NumBuckets - 1)
                      ELSE (Hash[k] % HashSpace) % (NumBuckets - 1)

Bucket(t) == BucketIndex(call[t].key)
Chain(t) == chain[Bucket(t)]

Init ==
  /\ kind \in {"LockHashMap", "LockHashSet", "SetBasedMap"}
  /\ version \in {"C++", "Java"}
  /\ kind = "LockHashSet" => version = "C++"
  /\ chain = [b \in Buckets |-> <<>>]
  /\ mutex = [b \in Buckets |-> NoThread]
  /\ call = [t \in Threads |-> NoCall]
  /\ current = [t \in Threads |-> 0]
  /\ pc = [t \in Threads |-> "idle"]

Goto(t, label) == pc' = [pc EXCEPT ![t] = label]

Call(t, op, k, v) ==
  /\ pc[t] = "idle"
  /\ op = "put" <=> v \in Values
  /\ call' = [call EXCEPT ![t] = [op |-> op, key |-> k, value |-> v, answer |-> "pending"]]
  /\ Goto(t, "index")
  /\ UNCHANGED <<kind, version, chain, mutex, current>>

Start(t) == \E op \in Ops, k \in Keys, v \in Values \cup {NoValue} : Call(t, op, k, v)

(* buckets[index] with a negative index: ArrayIndexOutOfBoundsException. *)
OutOfBounds(t) ==
  /\ pc[t] = "index" /\ Bucket(t) \notin Buckets
  /\ call' = [call EXCEPT ![t].answer = "exception"]
  /\ Goto(t, "return")
  /\ UNCHANGED <<kind, version, chain, mutex, current>>

(* Mutant of Lock: a lock that readers share, taken by every call. *)
LockShared(t) ==
  /\ pc[t] = "index" /\ Bucket(t) \in Buckets /\ kind # "SetBasedMap"
  /\ mutex' = [mutex EXCEPT ![Bucket(t)] = t]
  /\ current' = [current EXCEPT ![t] = 1]
  /\ Goto(t, "walk")
  /\ UNCHANGED <<kind, version, chain, call>>

(* nodeHead.lock.lock(), and the first node of the chain. *)
Lock(t) ==
  /\ pc[t] = "index" /\ Bucket(t) \in Buckets /\ kind # "SetBasedMap"
  /\ mutex[Bucket(t)] = NoThread
  /\ mutex' = [mutex EXCEPT ![Bucket(t)] = t]
  /\ current' = [current EXCEPT ![t] = 1]
  /\ Goto(t, "walk")
  /\ UNCHANGED <<kind, version, chain, call>>

HasKey(node, t) == node.key = call[t].key
(* Mutant of AtNode: the loop ends when there is no next node. *)
AtNodeWithNext(t) == current[t] < Len(Chain(t))

AtNode(t) == current[t] <= Len(Chain(t))

(* current = current->next *)
Walk(t) ==
  /\ pc[t] = "walk" /\ AtNode(t) /\ ~HasKey(Chain(t)[current[t]], t)
  /\ current' = [current EXCEPT ![t] = @ + 1]
  /\ UNCHANGED <<kind, version, chain, mutex, call, pc>>

Bool(b) == IF b THEN "true" ELSE "false"

(* What op returns when it has found a value under its key, or NoValue.    *)
(* get() returns or writes the value, or tells that there is none (null,   *)
(* nullopt, false); of C++'s bools put()'s says whether the key is new, but *)
(* for LockHashMap's, which is always true; Java's LockHashMap returns the *)
(* old value, its SetBasedMap drops the set's answer and returns null.     *)
Reply(op, found) ==
  CASE op = "get"                                             -> found
    [] op # "get" /\ version = "Java" /\ kind = "LockHashMap" -> found
    [] op # "get" /\ version = "Java" /\ kind # "LockHashMap" -> NoValue
    [] op = "put" /\ version = "C++" -> Bool(kind = "LockHashMap" \/ found = NoValue)
    [] op = "del" /\ version = "C++" -> Bool(found # NoValue)

Answer(t, found) == call' = [call EXCEPT ![t].answer = Reply(call[t].op, found)]

(* Mutant of AfterFound: del() takes the rest of the chain along. *)
AfterFoundCut(t, i) ==
  CASE call[t].op = "put" /\ kind = "LockHashMap" -> [Chain(t) EXCEPT ![i].value = call[t].value]
    [] call[t].op = "del"                         -> SubSeq(Chain(t), 1, i - 1)
    [] OTHER                                      -> Chain(t)

(* What a call does to the chain with the node it looked for at position i: *)
(* only LockHashMap's put() changes the node's value.                       *)
AfterFound(t, i) ==
  CASE call[t].op = "put" /\ kind = "LockHashMap" -> [Chain(t) EXCEPT ![i].value = call[t].value]
    [] call[t].op = "del"                         -> RemoveAt(Chain(t), i)
    [] OTHER                                      -> Chain(t)

AfterMissed(t) ==
  IF call[t].op = "put" THEN Append(Chain(t), [key |-> call[t].key, value |-> call[t].value])
                        ELSE Chain(t)

Found(t, i) ==
  /\ Answer(t, Chain(t)[i].value)
  /\ chain' = [chain EXCEPT ![Bucket(t)] = AfterFound(t, i)]

Missed(t) ==
  /\ Answer(t, NoValue)
  /\ chain' = [chain EXCEPT ![Bucket(t)] = AfterMissed(t)]

(* The walk ends, at the key's node or past the last one; the variables it *)
(* walked with go out of scope.                                            *)
Finish(t) ==
  /\ pc[t] = "walk"
  /\ \/ AtNode(t) /\ HasKey(Chain(t)[current[t]], t) /\ Found(t, current[t])
     \/ ~AtNode(t) /\ Missed(t)
  /\ current' = [current EXCEPT ![t] = 0]
  /\ Goto(t, "unlock")
  /\ UNCHANGED <<kind, version, mutex>>

(* Mutant: get() returns with the mutex held when the key is not there. *)
UnlockNot(t) ==
  /\ pc[t] = "unlock"
  /\ mutex' = IF call[t].op = "get" /\ call[t].answer = NoValue THEN mutex
              ELSE [mutex EXCEPT ![Bucket(t)] = NoThread]
  /\ Goto(t, "return")
  /\ UNCHANGED <<kind, version, chain, call, current>>

(* The destructor of headLock; "finally" in Java. *)
Unlock(t) ==
  /\ pc[t] = "unlock"
  /\ mutex' = [mutex EXCEPT ![Bucket(t)] = NoThread]
  /\ Goto(t, "return")
  /\ UNCHANGED <<kind, version, chain, call, current>>

(* SetBasedMap: add, getEqual or remove of the bucket's set. *)
SetCall(t) ==
  /\ pc[t] = "index" /\ Bucket(t) \in Buckets /\ kind = "SetBasedMap"
  /\ \/ \E i \in 1..Len(Chain(t)) : HasKey(Chain(t)[i], t) /\ Found(t, i)
     \/ (\A i \in 1..Len(Chain(t)) : ~HasKey(Chain(t)[i], t)) /\ Missed(t)
  /\ Goto(t, "return")
  /\ UNCHANGED <<kind, version, mutex, current>>

Return(t) ==
  /\ pc[t] = "return"
  /\ call' = [call EXCEPT ![t] = NoCall]
  /\ Goto(t, "idle")
  /\ UNCHANGED <<kind, version, chain, mutex, current>>

Step(t) ==
  OutOfBounds(t) \/ Lock(t) \/ Walk(t) \/ Finish(t) \/ Unlock(t) \/ SetCall(t) \/ Return(t)

Next == \E t \in Threads : Start(t) \/ Step(t)

Spec == Init /\ [][Next]_vars

(* The scheduler runs every thread; a mutex that is free only now and then *)
(* may be taken by others forever.                                         *)
FairSpec == Spec /\ \A t \in Threads : WF_vars(Step(t))
-----------------------------------------------------------------------------
TypeOK ==
  /\ kind \in {"LockHashMap", "LockHashSet", "SetBasedMap"}
  /\ version \in {"C++", "Java"}
  /\ chain \in [Buckets -> Seq(Nodes)]
  /\ mutex \in [Buckets -> Threads \cup {NoThread}]
  /\ call \in [Threads -> Calls \cup {NoCall}]
  /\ current \in [Threads -> Nat]
  /\ pc \in [Threads -> {"idle", "index", "walk", "unlock", "return"}]

(* A key has one node in the table, in its own bucket, so that a call that *)
(* stops at the first match, or removes one node, leaves no other behind.  *)
OneNodePerKey ==
  \A b \in Buckets : \A i, j \in 1..Len(chain[b]) :
    /\ BucketIndex(chain[b][i].key) = b
    /\ chain[b][i].key = chain[b][j].key => i = j

NotStale(t) ==
  /\ pc[t] \in {"walk", "unlock"} => mutex[Bucket(t)] = t
  /\ pc[t] = "walk" =>
       /\ current[t] <= Len(Chain(t)) + 1
       /\ \A i \in 1..(current[t] - 1) : ~HasKey(Chain(t)[i], t)

(* A thread in a chain holds its mutex, and the nodes it has passed are    *)
(* still there and not the key's: what it knows of the chain is not stale. *)
WalkNotStale == \A t \in Threads : NotStale(t)

Entries == UNION {ToSet(chain[b]) : b \in Buckets}

ValueOf(k) ==
  IF \E n \in Entries : n.key = k THEN (CHOOSE n \in Entries : n.key = k).value ELSE NoValue

(* What the caller learns from the answers of this class and version. *)
Report(op) ==
  CASE op = "get" -> "value"
    [] op # "get" /\ version = "Java" -> IF kind = "LockHashMap" THEN "value" ELSE "null"
    [] op = "put" /\ version = "C++" -> IF kind = "LockHashMap" THEN "true" ELSE "was absent"
    [] op = "del" /\ version = "C++" -> "was there"

Contract ==
  INSTANCE MapContract WITH
    overwrites <- kind = "LockHashMap",
    refused <- {k \in Keys : BucketIndex(k) \notin Buckets},
    reports <- [op \in Ops |-> Report(op)],
    map <- [k \in Keys |-> ValueOf(k)]

(* The tables are linearizable maps: every call takes effect at one        *)
(* instant, whatever other threads do to the same bucket, and what it      *)
(* returns is what its class and version tell of the value under its key   *)
(* at that instant: the value, whether there was one, or nothing (the true *)
(* of C++ LockHashMap's put(), the null of Java SetBasedMap's put() and    *)
(* remove()).  And while calls are pending one gets through.               *)
ImplementsMap == Contract!LiveSpec
=============================================================================
