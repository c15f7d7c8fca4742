-------------------------- MODULE HashMaps_proofs --------------------------
(***************************************************************************)
(* The tables of HashMaps with any threads, keys, hash codes and number of *)
(* buckets: the chains stay free of duplicates, what a thread learns of a  *)
(* chain stays true while it is in it, and every step is a step of         *)
(* MapContract or leaves its state alone.  Then the workers of benchMap:   *)
(* which of their tokens are there follows from how many of their calls    *)
(* have taken effect.                                                      *)
(***************************************************************************)
EXTENDS BenchMaps, TLAPS, SequenceTheorems

(* A call is pending until it takes effect, and it walks in a bucket that  *)
(* is there.                                                               *)
InProgress(t) ==
  /\ pc[t] = "idle" => call[t] = NoCall
  /\ pc[t] # "idle" => /\ call[t] \in Calls
                       /\ call[t].op = "put" => call[t].value \in Values
  /\ pc[t] \in {"index", "walk"} => call[t].answer = "pending"
  /\ pc[t] \in {"unlock", "return"} => call[t].answer # "pending"
  /\ pc[t] \in {"walk", "unlock"} => kind # "SetBasedMap" /\ Bucket(t) \in Buckets
  /\ pc[t] = "walk" => current[t] >= 1

IInv ==
  /\ TypeOK
  /\ OneNodePerKey
  /\ \A t \in Threads : InProgress(t) /\ NotStale(t)

(* What RemoveAt leaves of a sequence. *)
LEMMA RemoveAtProperties ==
  ASSUME NEW S, NEW s \in Seq(S), NEW i \in 1..Len(s)
  PROVE  /\ RemoveAt(s, i) \in Seq(S)
         /\ Len(RemoveAt(s, i)) = Len(s) - 1
         /\ \A j \in 1..(Len(s) - 1) :
              RemoveAt(s, i)[j] = s[IF j < i THEN j ELSE j + 1]
<1> DEFINE front == SubSeq(s, 1, i - 1)
           back  == SubSeq(s, i + 1, Len(s))
<1>1. Len(s) \in Nat /\ \A j \in 1..Len(s) : s[j] \in S
  BY LenProperties, ElementOfSeq
<1>2. /\ front \in Seq(S)
      /\ Len(front) = i - 1
      /\ \A j \in 1..(i - 1) : front[j] = s[j]
  <2>1. \A j \in 1..(i - 1) : s[j] \in S
    BY <1>1
  <2>2. 1 \in Int /\ i - 1 \in Int /\ i - 1 >= 0
    BY <1>1
  <2> HIDE DEF front
  <2>3. /\ SubSeq(s, 1, i - 1) \in Seq(S)
        /\ Len(SubSeq(s, 1, i - 1)) = IF 1 <= i - 1 THEN (i - 1) - 1 + 1 ELSE 0
        /\ \A j \in 1..((i - 1) - 1 + 1) : SubSeq(s, 1, i - 1)[j] = s[1 + j - 1]
    BY <2>1, <2>2, SubSeqProperties
  <2> QED BY <2>2, <2>3 DEF front
<1>3. /\ back \in Seq(S)
      /\ Len(back) = Len(s) - i
      /\ \A j \in 1..(Len(s) - i) : back[j] = s[i + j]
  <2>1. \A j \in (i + 1)..Len(s) : s[j] \in S
    BY <1>1
  <2>2. i + 1 \in Int /\ Len(s) \in Int /\ i <= Len(s)
    BY <1>1
  <2> HIDE DEF back
  <2>3. /\ SubSeq(s, i + 1, Len(s)) \in Seq(S)
        /\ Len(SubSeq(s, i + 1, Len(s))) = IF i + 1 <= Len(s) THEN Len(s) - (i + 1) + 1 ELSE 0
        /\ \A j \in 1..(Len(s) - (i + 1) + 1) : SubSeq(s, i + 1, Len(s))[j] = s[(i + 1) + j - 1]
    BY <2>1, <2>2, SubSeqProperties
  <2> QED BY <2>2, <2>3 DEF back
<1>4. RemoveAt(s, i) = front \o back
  BY DEF RemoveAt
<1> HIDE DEF front, back
<1>5. /\ front \o back \in Seq(S)
      /\ Len(front \o back) = Len(front) + Len(back)
      /\ \A j \in 1..(Len(front) + Len(back)) :
           (front \o back)[j] = IF j <= Len(front) THEN front[j] ELSE back[j - Len(front)]
  BY <1>2, <1>3, ConcatProperties
<1>6. ASSUME NEW j \in 1..(Len(s) - 1)
      PROVE  (front \o back)[j] = s[IF j < i THEN j ELSE j + 1]
  <2>1. CASE j < i
    BY <1>1, <1>2, <1>3, <1>5, <2>1
  <2>2. CASE ~(j < i)
    <3>1. j - (i - 1) \in 1..(Len(s) - i) /\ i + (j - (i - 1)) = j + 1
      BY <1>1, <2>2
    <3>2. (front \o back)[j] = back[j - (i - 1)]
      BY <1>1, <1>2, <1>3, <1>5, <2>2
    <3> QED BY <1>3, <2>2, <3>1, <3>2
  <2> QED BY <2>1, <2>2
<1> QED BY <1>1, <1>2, <1>3, <1>4, <1>5, <1>6

(* A chain that may be bucket b's. *)
WellFormed(b, s) ==
  /\ s \in Seq(Nodes)
  /\ \A i, j \in 1..Len(s) :
       /\ BucketIndex(s[i].key) = b
       /\ s[i].key = s[j].key => i = j

LEMMA ChainsWellFormed ==
  ASSUME TypeOK, OneNodePerKey, NEW b \in Buckets PROVE WellFormed(b, chain[b])
BY DEF TypeOK, OneNodePerKey, WellFormed

(* A call that replaces its bucket's chain by a well-formed one leaves     *)
(* every chain well-formed.                                                *)
LEMMA ChainReplaced ==
  ASSUME TypeOK, OneNodePerKey, NEW b \in Buckets, NEW s, WellFormed(b, s),
         chain' = [chain EXCEPT ![b] = s], UNCHANGED version
  PROVE  chain' \in [Buckets -> Seq(Nodes)] /\ OneNodePerKey'
<1>1. chain' \in [Buckets -> Seq(Nodes)]
  BY DEF TypeOK, WellFormed
<1>2. \A k : BucketIndex(k)' = BucketIndex(k)
  BY DEF BucketIndex
<1>3. \A c \in Buckets : chain'[c] = IF c = b THEN s ELSE chain[c]
  BY DEF TypeOK
<1> QED BY <1>1, <1>2, <1>3 DEF OneNodePerKey, WellFormed

(* The nodes of a chain are nodes, and positions in it are integers. *)
LEMMA NodeAt ==
  ASSUME TypeOK, NEW b \in Buckets, NEW i \in 1..Len(chain[b])
  PROVE  chain[b][i] \in Nodes /\ Len(chain[b]) \in Nat /\ i \in Nat
<1>1. chain[b] \in Seq(Nodes)
  BY DEF TypeOK
<1> QED BY <1>1, ElementOfSeq, LenProperties

(* What put(), get() and del() make of the chain when they find the key.   *)
LEMMA FoundWellFormed ==
  ASSUME IInv, NEW t \in Threads, pc[t] # "idle", Bucket(t) \in Buckets,
         NEW i \in 1..Len(Chain(t)), HasKey(Chain(t)[i], t)
  PROVE  WellFormed(Bucket(t), AfterFound(t, i))
<1> DEFINE b == Bucket(t)
           s == Chain(t)
<1>1. WellFormed(b, s)
  BY ChainsWellFormed DEF IInv, Chain
<1>2. s \in Seq(Nodes) /\ Len(s) \in Nat /\ s[i] \in Nodes /\ i \in 1..Len(s)
  BY NodeAt, <1>1 DEF IInv, Chain, WellFormed
<1>3. CASE call[t].op = "put" /\ kind = "LockHashMap"
  <2> DEFINE node == [s[i] EXCEPT !.value = call[t].value]
             r    == [s EXCEPT ![i] = node]
  <2>1. node \in Nodes /\ node.key = s[i].key
    BY <1>2, <1>3 DEF IInv, InProgress, Nodes
  <2>2. AfterFound(t, i) = r
    BY <1>3 DEF AfterFound
  <2> HIDE DEF node, s
  <2>3. /\ r \in Seq(Nodes) /\ Len(r) = Len(s)
        /\ \A j \in 1..Len(s) : r[j] = IF j = i THEN node ELSE s[j]
    BY <1>2, <2>1, ExceptSeq
  <2>4. \A j \in 1..Len(s) : r[j].key = s[j].key
    BY <2>1, <2>3
  <2> HIDE DEF r, b
  <2>5. WellFormed(b, r)
    BY <1>1, <2>3, <2>4 DEF WellFormed
  <2> QED BY <2>2, <2>5 DEF b
<1>4. CASE call[t].op = "del"
  <2> DEFINE r == RemoveAt(s, i)
  <2>1. AfterFound(t, i) = r
    BY <1>4 DEF AfterFound
  <2> HIDE DEF s
  <2>2. /\ r \in Seq(Nodes) /\ Len(r) = Len(s) - 1
        /\ \A j \in 1..(Len(s) - 1) : r[j] = s[IF j < i THEN j ELSE j + 1]
    BY <1>2, RemoveAtProperties
  <2> HIDE DEF r, b
  <2>3. ASSUME NEW j \in 1..Len(r) PROVE r[j] = s[IF j < i THEN j ELSE j + 1]
    BY <1>2, <2>2
  <2>4. ASSUME NEW j \in 1..Len(r) PROVE (IF j < i THEN j ELSE j + 1) \in 1..Len(s)
    BY <1>2, <2>2
  <2>5. ASSUME NEW j \in 1..Len(r), NEW k \in 1..Len(r), r[j].key = r[k].key PROVE j = k
    <3>1. (IF j < i THEN j ELSE j + 1) = (IF k < i THEN k ELSE k + 1)
      BY <1>1, <2>3, <2>4, <2>5 DEF WellFormed
    <3> QED BY <1>2, <2>2, <3>1
  <2>6. ASSUME NEW j \in 1..Len(r) PROVE BucketIndex(r[j].key) = b
    BY <1>1, <2>3, <2>4 DEF WellFormed
  <2>7. WellFormed(b, r)
    BY <2>2, <2>5, <2>6 DEF WellFormed
  <2> QED BY <2>1, <2>7 DEF b
<1>5. CASE call[t].op # "del" /\ ~(call[t].op = "put" /\ kind = "LockHashMap")
  BY <1>1, <1>5 DEF AfterFound
<1> QED BY <1>3, <1>4, <1>5

(* ... and when they do not. *)
LEMMA MissedWellFormed ==
  ASSUME IInv, NEW t \in Threads, pc[t] # "idle", Bucket(t) \in Buckets,
         \A i \in 1..Len(Chain(t)) : ~HasKey(Chain(t)[i], t)
  PROVE  WellFormed(Bucket(t), AfterMissed(t))
<1> DEFINE b == Bucket(t)
           s == Chain(t)
           node == [key |-> call[t].key, value |-> call[t].value]
<1>1. WellFormed(b, s)
  BY ChainsWellFormed DEF IInv, Chain
<1>2. s \in Seq(Nodes) /\ Len(s) \in Nat
  BY <1>1, LenProperties DEF WellFormed
<1>3. CASE call[t].op = "put"
  <2>1. node \in Nodes /\ BucketIndex(node.key) = b
    BY <1>3 DEF IInv, InProgress, Calls, Nodes, Bucket
  <2>2. \A i \in 1..Len(s) : s[i].key # node.key
    BY DEF HasKey
  <2>3. AfterMissed(t) = Append(s, node)
    BY <1>3 DEF AfterMissed
  <2> HIDE DEF s, node, b
  <2>4. /\ Append(s, node) \in Seq(Nodes) /\ Len(Append(s, node)) = Len(s) + 1
        /\ \A i \in 1..Len(s) : Append(s, node)[i] = s[i]
        /\ Append(s, node)[Len(s) + 1] = node
    BY <1>2, <2>1, AppendProperties
  <2>5. WellFormed(b, Append(s, node))
    BY <1>1, <1>2, <2>1, <2>2, <2>4 DEF WellFormed
  <2> QED BY <2>3, <2>5 DEF b
<1>4. CASE call[t].op # "put"
  BY <1>1, <1>4 DEF AfterMissed
<1> QED BY <1>3, <1>4
-----------------------------------------------------------------------------
(* What a thread knows survives the steps of others that leave its bucket  *)
(* alone.                                                                  *)
LEMMA OthersKeep ==
  ASSUME NEW u \in Threads, InProgress(u), NotStale(u),
         UNCHANGED <<kind, version>>,
         call'[u] = call[u], pc'[u] = pc[u], current'[u] = current[u],
         pc[u] \in {"walk", "unlock"} => /\ mutex'[Bucket(u)] = mutex[Bucket(u)]
                                        /\ chain'[Bucket(u)] = chain[Bucket(u)]
  PROVE  InProgress(u)' /\ NotStale(u)'
<1>1. Bucket(u)' = Bucket(u)
  BY DEF Bucket, BucketIndex
<1>2. InProgress(u)'
  BY <1>1 DEF InProgress
<1>3. pc[u] = "walk" => Chain(u)' = Chain(u)
  BY <1>1 DEF Chain
<1>4. \A node : HasKey(node, u)' = HasKey(node, u)
  BY DEF HasKey
<1>5. NotStale(u)'
  BY <1>1, <1>3, <1>4 DEF NotStale
<1> QED BY <1>2, <1>5

(* The answer of a call is noted, and nothing else of it changes. *)
LEMMA Answered ==
  ASSUME IInv, NEW t \in Threads, pc[t] # "idle", NEW v \in Answers,
         call' = [call EXCEPT ![t].answer = v]
  PROVE  /\ call' \in [Threads -> Calls \cup {NoCall}]
         /\ call'[t] \in Calls /\ call'[t].answer = v
         /\ call'[t].op = call[t].op /\ call'[t].key = call[t].key /\ call'[t].value = call[t].value
         /\ \A u \in Threads \ {t} : call'[u] = call[u]
<1>1. call[t] \in Calls /\ call \in [Threads -> Calls \cup {NoCall}]
  BY DEF IInv, InProgress, TypeOK
<1> DEFINE c == [call[t] EXCEPT !.answer = v]
<1>2. c \in Calls /\ c.answer = v /\ c.op = call[t].op /\ c.key = call[t].key /\ c.value = call[t].value
  BY <1>1 DEF Calls
<1>3. call' = [call EXCEPT ![t] = c]
  OBVIOUS
<1> HIDE DEF c
<1>4. call'[t] = c /\ \A u \in Threads \ {t} : call'[u] = call[u]
  BY <1>1, <1>3
<1>5. call' \in [Threads -> Calls \cup {NoCall}]
  BY <1>1, <1>2, <1>3
<1> QED BY <1>2, <1>4, <1>5

(* As long as the chains stay, so does their shape. *)
LEMMA ChainsKept ==
  ASSUME OneNodePerKey, UNCHANGED <<version, chain>> PROVE OneNodePerKey'
BY DEF OneNodePerKey, BucketIndex

LEMMA InitIInv == Init => IInv
<1> SUFFICES ASSUME Init PROVE IInv
  OBVIOUS
<1>1. TypeOK
  BY EmptySeq DEF Init, TypeOK
<1>2. \A b \in Buckets : Len(chain[b]) = 0
  BY DEF Init
<1>3. OneNodePerKey
  BY <1>2 DEF OneNodePerKey
<1> QED BY <1>1, <1>3 DEF Init, IInv, InProgress, NotStale

(* A call is made. *)
LEMMA StartIInv ==
  ASSUME IInv, NEW t \in Threads, Start(t) PROVE IInv'
<1>1. call' = [call EXCEPT ![t] = call'[t]] /\ call'[t] \in Calls /\ call'[t].answer = "pending"
      /\ (call'[t].op = "put" => call'[t].value \in Values)
  BY DEF Start, Call, IInv, TypeOK, Calls, Answers
<1>2. TypeOK'
  BY <1>1 DEF Start, Call, Goto, IInv, TypeOK
<1>3. OneNodePerKey'
  BY ChainsKept DEF Start, Call, IInv
<1>4. InProgress(t)' /\ NotStale(t)'
  BY <1>1 DEF Start, Call, Goto, IInv, TypeOK, InProgress, NotStale
<1>5. ASSUME NEW u \in Threads, u # t PROVE InProgress(u)' /\ NotStale(u)'
  BY <1>1, <1>5, OthersKeep DEF Start, Call, Goto, IInv, TypeOK
<1> QED BY <1>2, <1>3, <1>4, <1>5 DEF IInv

(* A negative index in Java: the call ends, and nothing else changes. *)
LEMMA OutOfBoundsIInv ==
  ASSUME IInv, NEW t \in Threads, OutOfBounds(t) PROVE IInv'
<1>1. /\ pc[t] = "index" /\ call[t] \in Calls /\ call[t].op = "put" => call[t].value \in Values
  BY DEF OutOfBounds, IInv, InProgress
<1>2. /\ call'[t] \in Calls /\ call'[t].answer = "exception"
      /\ call'[t].op = call[t].op /\ call'[t].value = call[t].value
  BY <1>1, Answered DEF OutOfBounds, Answers, IInv
<1>3. TypeOK'
  BY <1>2 DEF OutOfBounds, Goto, IInv, TypeOK
<1>4. OneNodePerKey'
  BY ChainsKept DEF OutOfBounds, IInv
<1>5. InProgress(t)' /\ NotStale(t)'
  BY <1>1, <1>2 DEF OutOfBounds, Goto, IInv, TypeOK, InProgress, NotStale
<1>6. ASSUME NEW u \in Threads, u # t PROVE InProgress(u)' /\ NotStale(u)'
  BY <1>6, OthersKeep DEF OutOfBounds, Goto, IInv, TypeOK
<1> QED BY <1>3, <1>4, <1>5, <1>6 DEF IInv

(* The bucket's mutex was nobody's, so nobody else is in its chain. *)
LEMMA LockIInv ==
  ASSUME IInv, NEW t \in Threads, Lock(t) PROVE IInv'
<1>1. TypeOK'
  BY DEF Lock, Goto, IInv, TypeOK
<1>2. OneNodePerKey'
  BY ChainsKept DEF Lock, IInv
<1>3. Bucket(t)' = Bucket(t) /\ Chain(t)' = Chain(t)
  BY DEF Lock, Bucket, BucketIndex, Chain
<1>4. Len(Chain(t)) \in Nat
  BY LenProperties DEF Lock, IInv, TypeOK, Chain
<1>5. InProgress(t)' /\ NotStale(t)'
  BY <1>3, <1>4 DEF Lock, Goto, IInv, TypeOK, InProgress, NotStale
<1>6. ASSUME NEW u \in Threads, u # t PROVE InProgress(u)' /\ NotStale(u)'
  <2>1. pc[u] \in {"walk", "unlock"} => Bucket(u) # Bucket(t)
    BY Parameters DEF Lock, IInv, NotStale
  <2> QED BY <1>6, <2>1, OthersKeep DEF Lock, Goto, IInv, TypeOK
<1> QED BY <1>1, <1>2, <1>5, <1>6 DEF IInv

(* The node passed is another key's. *)
LEMMA WalkIInv ==
  ASSUME IInv, NEW t \in Threads, Walk(t) PROVE IInv'
<1>1. TypeOK'
  BY DEF Walk, IInv, TypeOK
<1>2. OneNodePerKey'
  BY ChainsKept DEF Walk, IInv
<1>3. Bucket(t)' = Bucket(t) /\ Chain(t)' = Chain(t)
  BY DEF Walk, Bucket, BucketIndex, Chain
<1>4. Len(Chain(t)) \in Nat /\ current[t] \in Nat /\ current'[t] = current[t] + 1
  BY LenProperties DEF Walk, IInv, InProgress, TypeOK, Chain
<1>5. InProgress(t)'
  BY <1>3, <1>4 DEF Walk, IInv, InProgress
<1>6. \A node : HasKey(node, t)' = HasKey(node, t)
  BY DEF Walk, HasKey
<1>7. NotStale(t)'
  BY <1>3, <1>4, <1>6 DEF Walk, AtNode, IInv, NotStale
<1>8. ASSUME NEW u \in Threads, u # t PROVE InProgress(u)' /\ NotStale(u)'
  BY <1>8, OthersKeep DEF Walk, IInv, TypeOK
<1> QED BY <1>1, <1>2, <1>5, <1>7, <1>8 DEF IInv

(* Whatever a call finds, what it returns is an answer. *)
LEMMA ReplyIsAnswer ==
  ASSUME TypeOK, NEW op \in Ops, NEW v \in Values \cup {NoValue}
  PROVE  Reply(op, v) \in Answers \ {"pending"}
<1>1. v \in Answers \ {"pending"} /\ NoValue \in Answers \ {"pending"}
  BY Parameters DEF Answers
<1>2. \A b \in BOOLEAN : Bool(b) \in Answers \ {"pending"}
  BY DEF Bool, Answers
<1>3. CASE op = "get"
  BY <1>1, <1>3 DEF Reply
<1>4. CASE op # "get" /\ version = "Java"
  BY <1>1, <1>4 DEF Reply
<1>5. CASE op = "put" /\ version = "C++"
  <2>1. Reply(op, v) = Bool(kind = "LockHashMap" \/ v = NoValue)
    BY <1>5 DEF Reply
  <2> QED BY <1>2, <2>1
<1>6. CASE op = "del" /\ version = "C++"
  <2>1. Reply(op, v) = Bool(v # NoValue)
    BY <1>6 DEF Reply
  <2> QED BY <1>2, <2>1
<1> QED BY <1>3, <1>4, <1>5, <1>6 DEF Ops, TypeOK

(* A call looks its key up in its own bucket's chain, and answers. *)
TakesEffect(t) ==
  \/ \E i \in 1..Len(Chain(t)) : HasKey(Chain(t)[i], t) /\ Found(t, i)
  \/ (\A i \in 1..Len(Chain(t)) : ~HasKey(Chain(t)[i], t)) /\ Missed(t)

(* It leaves the chains well-formed and the other buckets alone. *)
LEMMA EffectKeeps ==
  ASSUME IInv, NEW t \in Threads, pc[t] # "idle", Bucket(t) \in Buckets,
         TakesEffect(t), UNCHANGED version
  PROVE  /\ OneNodePerKey' /\ chain' \in [Buckets -> Seq(Nodes)]
         /\ \A b \in Buckets \ {Bucket(t)} : chain'[b] = chain[b]
         /\ \E v \in Answers \ {"pending"} : call' = [call EXCEPT ![t].answer = v]
<1>0. call[t].op \in Ops
  BY DEF IInv, InProgress, Calls
<1>1. CASE \E i \in 1..Len(Chain(t)) : HasKey(Chain(t)[i], t) /\ Found(t, i)
  <2>1. PICK i \in 1..Len(Chain(t)) : HasKey(Chain(t)[i], t) /\ Found(t, i)
    BY <1>1
  <2>2. Reply(call[t].op, Chain(t)[i].value) \in Answers \ {"pending"}
    <3>1. Chain(t)[i].value \in Values
      BY NodeAt DEF IInv, Chain, Nodes
    <3> QED BY <1>0, <3>1, ReplyIsAnswer DEF IInv
  <2>3. WellFormed(Bucket(t), AfterFound(t, i))
    BY <2>1, FoundWellFormed
  <2>4. chain' = [chain EXCEPT ![Bucket(t)] = AfterFound(t, i)]
    BY <2>1 DEF Found
  <2>5. OneNodePerKey' /\ chain' \in [Buckets -> Seq(Nodes)]
    BY <2>3, <2>4, ChainReplaced DEF IInv
  <2>6. \A b \in Buckets \ {Bucket(t)} : chain'[b] = chain[b]
    BY <2>4 DEF IInv, TypeOK
  <2>7. call' = [call EXCEPT ![t].answer = Reply(call[t].op, Chain(t)[i].value)]
    BY <2>1 DEF Found, Answer
  <2> QED BY <2>2, <2>5, <2>6, <2>7
<1>2. CASE (\A i \in 1..Len(Chain(t)) : ~HasKey(Chain(t)[i], t)) /\ Missed(t)
  <2>1. Reply(call[t].op, NoValue) \in Answers \ {"pending"}
    BY <1>0, ReplyIsAnswer DEF IInv
  <2>2. WellFormed(Bucket(t), AfterMissed(t))
    BY <1>2, MissedWellFormed
  <2>3. chain' = [chain EXCEPT ![Bucket(t)] = AfterMissed(t)]
    BY <1>2 DEF Missed
  <2>4. OneNodePerKey' /\ chain' \in [Buckets -> Seq(Nodes)]
    BY <2>2, <2>3, ChainReplaced DEF IInv
  <2>5. \A b \in Buckets \ {Bucket(t)} : chain'[b] = chain[b]
    BY <2>3 DEF IInv, TypeOK
  <2>6. call' = [call EXCEPT ![t].answer = Reply(call[t].op, NoValue)]
    BY <1>2 DEF Missed, Answer
  <2> QED BY <2>1, <2>4, <2>5, <2>6
<1> QED BY <1>1, <1>2 DEF TakesEffect

(* The walk of a call that finishes has passed every node that is not the  *)
(* key's, so what it found is what there is.                               *)
LEMMA FinishTakesEffect ==
  ASSUME IInv, NEW t \in Threads, Finish(t) PROVE TakesEffect(t)
<1>1. Len(Chain(t)) \in Nat /\ current[t] \in Nat /\ current[t] >= 1
  BY LenProperties DEF Finish, IInv, TypeOK, InProgress, Chain
<1>2. CASE AtNode(t) /\ HasKey(Chain(t)[current[t]], t) /\ Found(t, current[t])
  BY <1>1, <1>2 DEF AtNode, TakesEffect
<1>3. CASE ~AtNode(t) /\ Missed(t)
  <2>1. \A i \in 1..Len(Chain(t)) : i \in 1..(current[t] - 1)
    BY <1>1, <1>3 DEF AtNode
  <2>2. \A i \in 1..(current[t] - 1) : ~HasKey(Chain(t)[i], t)
    BY DEF Finish, IInv, NotStale
  <2> QED BY <1>3, <2>1, <2>2 DEF TakesEffect
<1> QED BY <1>2, <1>3 DEF Finish

(* No other thread is in the bucket's chain. *)
LEMMA FinishIInv ==
  ASSUME IInv, NEW t \in Threads, Finish(t) PROVE IInv'
<1>1. pc[t] = "walk" /\ Bucket(t) \in Buckets /\ kind # "SetBasedMap" /\ mutex[Bucket(t)] = t
  BY DEF Finish, IInv, InProgress, NotStale
<1>2. TakesEffect(t)
  BY FinishTakesEffect
<1>3. /\ OneNodePerKey' /\ chain' \in [Buckets -> Seq(Nodes)]
      /\ \A b \in Buckets \ {Bucket(t)} : chain'[b] = chain[b]
      /\ \E v \in Answers \ {"pending"} : call' = [call EXCEPT ![t].answer = v]
  BY <1>1, <1>2, EffectKeeps DEF Finish
<1>4. /\ call' \in [Threads -> Calls \cup {NoCall}]
      /\ call'[t] \in Calls /\ call'[t].answer # "pending"
      /\ call'[t].op = call[t].op /\ call'[t].key = call[t].key /\ call'[t].value = call[t].value
      /\ \A u \in Threads \ {t} : call'[u] = call[u]
  BY <1>1, <1>3, Answered
<1>5. TypeOK'
  BY <1>3, <1>4 DEF Finish, Goto, IInv, TypeOK
<1>6. Bucket(t)' = Bucket(t)
  BY <1>4 DEF Finish, Bucket, BucketIndex
<1>7. InProgress(t)' /\ NotStale(t)'
  BY <1>1, <1>4, <1>6 DEF Finish, Goto, IInv, TypeOK, InProgress, NotStale
<1>8. ASSUME NEW u \in Threads, u # t PROVE InProgress(u)' /\ NotStale(u)'
  <2>1. pc[u] \in {"walk", "unlock"} => Bucket(u) # Bucket(t) /\ Bucket(u) \in Buckets
    BY <1>1, <1>8 DEF IInv, InProgress, NotStale
  <2> QED BY <1>3, <1>4, <1>8, <2>1, OthersKeep DEF Finish, Goto, IInv, TypeOK
<1> QED BY <1>3, <1>5, <1>7, <1>8 DEF IInv

(* The threads in other chains hold other mutexes. *)
LEMMA UnlockIInv ==
  ASSUME IInv, NEW t \in Threads, Unlock(t) PROVE IInv'
<1>1. TypeOK'
  BY DEF Unlock, Goto, IInv, TypeOK
<1>2. OneNodePerKey'
  BY ChainsKept DEF Unlock, IInv
<1>3. InProgress(t)' /\ NotStale(t)'
  BY DEF Unlock, Goto, IInv, TypeOK, InProgress, NotStale
<1>4. ASSUME NEW u \in Threads, u # t PROVE InProgress(u)' /\ NotStale(u)'
  <2>1. pc[u] \in {"walk", "unlock"} => Bucket(u) # Bucket(t) /\ Bucket(u) \in Buckets
    BY <1>4 DEF Unlock, IInv, InProgress, NotStale
  <2> QED BY <1>4, <2>1, OthersKeep DEF Unlock, Goto, IInv, TypeOK
<1> QED BY <1>1, <1>2, <1>3, <1>4 DEF IInv

(* Nobody walks in a SetBasedMap. *)
LEMMA SetCallIInv ==
  ASSUME IInv, NEW t \in Threads, SetCall(t) PROVE IInv'
<1>1. pc[t] = "index" /\ Bucket(t) \in Buckets /\ kind = "SetBasedMap"
  BY DEF SetCall
<1>2. TakesEffect(t)
  BY DEF SetCall, TakesEffect
<1>3. /\ OneNodePerKey' /\ chain' \in [Buckets -> Seq(Nodes)]
      /\ \E v \in Answers \ {"pending"} : call' = [call EXCEPT ![t].answer = v]
  BY <1>1, <1>2, EffectKeeps DEF SetCall
<1>4. /\ call' \in [Threads -> Calls \cup {NoCall}]
      /\ call'[t] \in Calls /\ call'[t].answer # "pending"
      /\ call'[t].op = call[t].op /\ call'[t].value = call[t].value
      /\ \A u \in Threads \ {t} : call'[u] = call[u]
  BY <1>1, <1>3, Answered
<1>5. TypeOK'
  BY <1>3, <1>4 DEF SetCall, Goto, IInv, TypeOK
<1>6. InProgress(t)' /\ NotStale(t)'
  BY <1>1, <1>4 DEF SetCall, Goto, IInv, TypeOK, InProgress, NotStale
<1>7. ASSUME NEW u \in Threads, u # t PROVE InProgress(u)' /\ NotStale(u)'
  <2>1. pc[u] \notin {"walk", "unlock"}
    BY <1>1 DEF IInv, InProgress
  <2> QED BY <1>4, <1>7, <2>1, OthersKeep DEF SetCall, Goto, IInv, TypeOK
<1> QED BY <1>3, <1>5, <1>6, <1>7 DEF IInv

(* The call's record is cleared. *)
LEMMA ReturnIInv ==
  ASSUME IInv, NEW t \in Threads, Return(t) PROVE IInv'
<1>1. TypeOK'
  BY DEF Return, Goto, IInv, TypeOK
<1>2. OneNodePerKey'
  BY ChainsKept DEF Return, IInv
<1>3. InProgress(t)' /\ NotStale(t)'
  BY DEF Return, Goto, IInv, TypeOK, InProgress, NotStale
<1>4. ASSUME NEW u \in Threads, u # t PROVE InProgress(u)' /\ NotStale(u)'
  BY <1>4, OthersKeep DEF Return, Goto, IInv, TypeOK
<1> QED BY <1>1, <1>2, <1>3, <1>4 DEF IInv

LEMMA StutterIInv == ASSUME IInv, UNCHANGED vars PROVE IInv'
<1>1. TypeOK'
  BY DEF vars, IInv, TypeOK
<1>2. OneNodePerKey'
  BY ChainsKept DEF vars, IInv
<1>3. ASSUME NEW u \in Threads PROVE InProgress(u)' /\ NotStale(u)'
  BY OthersKeep DEF vars, IInv
<1> QED BY <1>1, <1>2, <1>3 DEF IInv

LEMMA NextIInv == IInv /\ [Next]_vars => IInv'
<1> SUFFICES ASSUME IInv, [Next]_vars PROVE IInv'
  OBVIOUS
<1>1. ASSUME NEW t \in Threads, Start(t) PROVE IInv'
  BY <1>1, StartIInv
<1>2. ASSUME NEW t \in Threads, OutOfBounds(t) PROVE IInv'
  BY <1>2, OutOfBoundsIInv
<1>3. ASSUME NEW t \in Threads, Lock(t) PROVE IInv'
  BY <1>3, LockIInv
<1>4. ASSUME NEW t \in Threads, Walk(t) PROVE IInv'
  BY <1>4, WalkIInv
<1>5. ASSUME NEW t \in Threads, Finish(t) PROVE IInv'
  BY <1>5, FinishIInv
<1>6. ASSUME NEW t \in Threads, Unlock(t) PROVE IInv'
  BY <1>6, UnlockIInv
<1>7. ASSUME NEW t \in Threads, SetCall(t) PROVE IInv'
  BY <1>7, SetCallIInv
<1>8. ASSUME NEW t \in Threads, Return(t) PROVE IInv'
  BY <1>8, ReturnIInv
<1>9. ASSUME UNCHANGED vars PROVE IInv'
  BY <1>9, StutterIInv
<1> QED BY <1>1, <1>2, <1>3, <1>4, <1>5, <1>6, <1>7, <1>8, <1>9 DEF Next, Step

(* The calls of any number of threads, on tables of any size, leave the    *)
(* invariant standing.                                                     *)
THEOREM Invariance == Spec => []IInv
<1>1. Init => IInv
  BY InitIInv
<1>2. IInv /\ [Next]_vars => IInv'
  BY NextIInv
<1> QED BY <1>1, <1>2, PTL DEF Spec

(* A key never has two nodes, nor one in another key's bucket. *)
THEOREM UniqueNodes == Spec => []OneNodePerKey
<1>1. IInv => OneNodePerKey
  BY DEF IInv
<1> QED BY <1>1, Invariance, PTL

(* A call holds its bucket's mutex from before its walk to its end, and    *)
(* the nodes it has passed stay as it saw them.                            *)
THEOREM WalksNotStale == Spec => []WalkNotStale
<1>1. IInv => WalkNotStale
  BY DEF IInv, WalkNotStale
<1> QED BY <1>1, Invariance, PTL
-----------------------------------------------------------------------------
(* The node of k with value v is in the chain s, or in the table ch. *)
InChain(s, k, v) == \E i \in 1..Len(s) : s[i].key = k /\ s[i].value = v
Has(ch, k, v) == \E b \in Buckets : InChain(ch[b], k, v)

EntriesOf(ch) == UNION {ToSet(ch[b]) : b \in Buckets}
ValueIn(ch, k) ==
  IF \E n \in EntriesOf(ch) : n.key = k THEN (CHOOSE n \in EntriesOf(ch) : n.key = k).value
                                        ELSE NoValue

LEMMA ValueOfIsValueIn ==
  \A k : ValueOf(k) = ValueIn(chain, k) /\ ValueOf(k)' = ValueIn(chain', k)
BY DEF ValueOf, Entries, ValueIn, EntriesOf

(* The value found under a key is that of its node. *)
LEMMA ValueInTable ==
  ASSUME NEW ch \in [Buckets -> Seq(Nodes)], NEW k,
         \A v, w : Has(ch, k, v) /\ Has(ch, k, w) => v = w
  PROVE  /\ \A v : Has(ch, k, v) => ValueIn(ch, k) = v
         /\ (\A v : ~Has(ch, k, v)) => ValueIn(ch, k) = NoValue
<1>1. ASSUME NEW n \in EntriesOf(ch), n.key = k PROVE Has(ch, k, n.value)
  <2>1. PICK b \in Buckets : n \in ToSet(ch[b])
    BY DEF EntriesOf
  <2>2. PICK i \in DOMAIN ch[b] : n = ch[b][i]
    BY <2>1 DEF ToSet
  <2>3. i \in 1..Len(ch[b])
    BY LenProperties
  <2> QED BY <1>1, <2>2, <2>3 DEF Has, InChain
<1>2. ASSUME NEW v, Has(ch, k, v) PROVE \E n \in EntriesOf(ch) : n.key = k
  <2>1. PICK b \in Buckets : \E i \in 1..Len(ch[b]) : ch[b][i].key = k
    BY <1>2 DEF Has, InChain
  <2>2. PICK i \in 1..Len(ch[b]) : ch[b][i].key = k
    BY <2>1
  <2>3. ch[b][i] \in ToSet(ch[b])
    BY LenProperties DEF ToSet
  <2> QED BY <2>2, <2>3 DEF EntriesOf
<1>3. ASSUME NEW v, Has(ch, k, v) PROVE ValueIn(ch, k) = v
  <2> DEFINE n == CHOOSE m \in EntriesOf(ch) : m.key = k
  <2>1. n \in EntriesOf(ch) /\ n.key = k
    BY <1>2, <1>3
  <2>2. Has(ch, k, n.value)
    BY <1>1, <2>1
  <2> QED BY <1>2, <1>3, <2>2 DEF ValueIn
<1>4. ASSUME \A v : ~Has(ch, k, v) PROVE ValueIn(ch, k) = NoValue
  BY <1>1, <1>4 DEF ValueIn
<1> QED BY <1>3, <1>4

(* In a table with one node per key a key has one value. *)
LEMMA OneValue ==
  ASSUME OneNodePerKey, NEW k, NEW v, NEW w, Has(chain, k, v), Has(chain, k, w)
  PROVE  v = w
<1>1. PICK b \in Buckets : \E i \in 1..Len(chain[b]) :
        chain[b][i].key = k /\ chain[b][i].value = v
  BY DEF Has, InChain
<1>2. PICK c \in Buckets : \E j \in 1..Len(chain[c]) :
        chain[c][j].key = k /\ chain[c][j].value = w
  BY DEF Has, InChain
<1>3. b = c
  BY <1>1, <1>2 DEF OneNodePerKey
<1> QED BY <1>1, <1>2, <1>3 DEF OneNodePerKey

LEMMA OneValueNext ==
  ASSUME OneNodePerKey', NEW k, NEW v, NEW w, Has(chain', k, v), Has(chain', k, w)
  PROVE  v = w
<1>1. PICK b \in Buckets : \E i \in 1..Len(chain'[b]) :
        chain'[b][i].key = k /\ chain'[b][i].value = v
  BY DEF Has, InChain
<1>2. PICK c \in Buckets : \E j \in 1..Len(chain'[c]) :
        chain'[c][j].key = k /\ chain'[c][j].value = w
  BY DEF Has, InChain
<1>3. b = c
  BY <1>1, <1>2 DEF OneNodePerKey
<1> QED BY <1>1, <1>2, <1>3 DEF OneNodePerKey

(* What the steps of a call do to the value of a key, from what they do to *)
(* one chain.                                                              *)
LEMMA ValueBefore ==
  ASSUME IInv, NEW k
  PROVE  /\ \A v : Has(chain, k, v) => ValueOf(k) = v
         /\ (\A v : ~Has(chain, k, v)) => ValueOf(k) = NoValue
BY OneValue, ValueInTable, ValueOfIsValueIn DEF IInv, TypeOK

LEMMA ValueAfter ==
  ASSUME OneNodePerKey', chain' \in [Buckets -> Seq(Nodes)], NEW k
  PROVE  /\ \A v : Has(chain', k, v) => ValueOf(k)' = v
         /\ (\A v : ~Has(chain', k, v)) => ValueOf(k)' = NoValue
BY OneValueNext, ValueInTable, ValueOfIsValueIn

LEMMA ValueKept ==
  ASSUME IInv, OneNodePerKey', NEW b \in Buckets, NEW r \in Seq(Nodes),
         chain' = [chain EXCEPT ![b] = r], NEW k,
         \A v : InChain(r, k, v) <=> InChain(chain[b], k, v)
  PROVE  ValueOf(k)' = ValueOf(k)
<1>1. chain' \in [Buckets -> Seq(Nodes)] /\ \A c \in Buckets : chain'[c] = IF c = b THEN r ELSE chain[c]
  BY DEF IInv, TypeOK
<1>2. \A v : Has(chain', k, v) <=> Has(chain, k, v)
  BY <1>1 DEF Has
<1> QED BY <1>1, <1>2, ValueBefore, ValueAfter

LEMMA ValueSet ==
  ASSUME IInv, OneNodePerKey', NEW b \in Buckets, NEW r \in Seq(Nodes),
         chain' = [chain EXCEPT ![b] = r], NEW k, NEW v, InChain(r, k, v)
  PROVE  ValueOf(k)' = v
<1>1. chain' \in [Buckets -> Seq(Nodes)] /\ chain'[b] = r
  BY DEF IInv, TypeOK
<1>2. Has(chain', k, v)
  BY <1>1 DEF Has
<1> QED BY <1>1, <1>2, ValueAfter

LEMMA ValueGone ==
  ASSUME IInv, OneNodePerKey', NEW b \in Buckets, NEW r \in Seq(Nodes),
         chain' = [chain EXCEPT ![b] = r], NEW k, BucketIndex(k) = b, \A v : ~InChain(r, k, v)
  PROVE  ValueOf(k)' = NoValue
<1>1. chain' \in [Buckets -> Seq(Nodes)] /\ \A c \in Buckets : chain'[c] = IF c = b THEN r ELSE chain[c]
  BY DEF IInv, TypeOK
<1>2. ASSUME NEW c \in Buckets \ {b}, NEW v PROVE ~InChain(chain[c], k, v)
  BY <1>2 DEF InChain, IInv, OneNodePerKey
<1>3. \A v : ~Has(chain', k, v)
  BY <1>1, <1>2 DEF Has
<1> QED BY <1>1, <1>3, ValueAfter
-----------------------------------------------------------------------------
(* What MapContract's Effect makes of the value of a call's key. *)
NewValue(t) ==
  IF call[t].op = "put" /\ (kind = "LockHashMap" \/ ValueOf(call[t].key) = NoValue)
  THEN call[t].value
  ELSE IF call[t].op = "del" THEN NoValue ELSE ValueOf(call[t].key)

AnswersAndSets(t) ==
  /\ call' = [call EXCEPT ![t].answer = Reply(call[t].op, ValueOf(call[t].key))]
  /\ \A k : ValueOf(k)' = IF k = call[t].key THEN NewValue(t) ELSE ValueOf(k)

(* A call that finds the key's node. *)
LEMMA FoundAnswers ==
  ASSUME IInv, OneNodePerKey', NEW t \in Threads, pc[t] # "idle", Bucket(t) \in Buckets,
         NEW i \in 1..Len(Chain(t)), HasKey(Chain(t)[i], t), Found(t, i)
  PROVE  AnswersAndSets(t)
<1> DEFINE b == Bucket(t)
           s == Chain(t)
           r == AfterFound(t, i)
           key == call[t].key
<1>1. WellFormed(b, s) /\ WellFormed(b, r) /\ s = chain[b] /\ BucketIndex(key) = b
  BY ChainsWellFormed, FoundWellFormed DEF IInv, Chain, Bucket
<1>2. s \in Seq(Nodes) /\ r \in Seq(Nodes) /\ Len(s) \in Nat /\ s[i] \in Nodes /\ i \in 1..Len(s)
  BY <1>1, NodeAt, LenProperties DEF IInv, WellFormed
<1>3. s[i].key = key
  BY DEF HasKey
<1>4. ValueOf(key) = s[i].value
  <2> HIDE DEF s, key, b
  <2>1. InChain(chain[b], key, s[i].value)
    BY <1>1, <1>2, <1>3 DEF InChain
  <2>2. Has(chain, key, s[i].value)
    BY <2>1 DEF Has, b
  <2> QED BY <2>2, ValueBefore
<1>5. ValueOf(key) # NoValue
  BY <1>2, <1>4, Parameters DEF Nodes
<1>6. call' = [call EXCEPT ![t].answer = Reply(call[t].op, ValueOf(key))]
  BY <1>4 DEF Found, Answer
<1>7. chain' = [chain EXCEPT ![b] = r]
  BY DEF Found
<1>8. CASE call[t].op = "put" /\ kind = "LockHashMap"
  <2> DEFINE node == [s[i] EXCEPT !.value = call[t].value]
  <2>1. node \in Nodes /\ node.key = key /\ node.value = call[t].value
    BY <1>2, <1>3, <1>8 DEF IInv, InProgress, Nodes
  <2>2. r = [s EXCEPT ![i] = node]
    BY <1>8 DEF AfterFound
  <2> HIDE DEF node, s, r, key, b
  <2>3. Len(r) = Len(s) /\ \A j \in 1..Len(s) : r[j] = IF j = i THEN node ELSE s[j]
    BY <1>2, <2>1, <2>2, ExceptSeq
  <2>4. InChain(r, key, call[t].value)
    BY <1>2, <2>1, <2>3 DEF InChain
  <2>5. \A k : k # key => \A v : InChain(r, k, v) <=> InChain(s, k, v)
    BY <1>2, <1>3, <2>1, <2>3 DEF InChain
  <2>6. \A k : k = key => ValueOf(k)' = call[t].value
    BY <1>2, <1>7, <2>4, ValueSet DEF b
  <2>7. \A k : k # key => ValueOf(k)' = ValueOf(k)
    BY <1>1, <1>2, <1>7, <2>5, ValueKept DEF b
  <2> QED BY <1>6, <1>8, <2>6, <2>7 DEF AnswersAndSets, NewValue, key
<1>9. CASE call[t].op = "del"
  <2>1. r = RemoveAt(s, i)
    BY <1>9 DEF AfterFound
  <2> HIDE DEF s, r, key, b
  <2>2. /\ Len(r) = Len(s) - 1
        /\ \A j \in 1..(Len(s) - 1) : r[j] = s[IF j < i THEN j ELSE j + 1]
    BY <1>2, <2>1, RemoveAtProperties
  <2>3. ASSUME NEW j \in 1..Len(s), j # i
        PROVE  \E h \in 1..Len(r) : r[h] = s[j]
    <3>1. CASE j < i
      BY <1>2, <2>2, <2>3, <3>1
    <3>2. CASE j > i
      <4>1. j - 1 \in 1..(Len(s) - 1) /\ ~(j - 1 < i) /\ (j - 1) + 1 = j
        BY <1>2, <3>2
      <4>2. r[j - 1] = s[j]
        BY <2>2, <4>1
      <4> QED BY <2>2, <4>1, <4>2
    <3> QED BY <1>2, <2>3, <3>1, <3>2
  <2>4. ASSUME NEW h \in 1..Len(r)
        PROVE  \E j \in 1..Len(s) : j # i /\ r[h] = s[j]
    <3>1. (IF h < i THEN h ELSE h + 1) \in 1..Len(s) /\ (IF h < i THEN h ELSE h + 1) # i
      BY <1>2, <2>2
    <3>2. r[h] = s[IF h < i THEN h ELSE h + 1]
      BY <1>2, <2>2
    <3> QED BY <3>1, <3>2
  <2>5. \A j \in 1..Len(s) : s[j].key = key => j = i
    BY <1>1, <1>2, <1>3 DEF WellFormed
  <2>6. \A v : ~InChain(r, key, v)
    BY <2>4, <2>5 DEF InChain
  <2>7. \A k : k # key => \A v : InChain(r, k, v) <=> InChain(s, k, v)
    <3>1. ASSUME NEW k, k # key, NEW v, InChain(r, k, v) PROVE InChain(s, k, v)
      BY <2>4, <3>1 DEF InChain
    <3>2. ASSUME NEW k, k # key, NEW v, InChain(s, k, v) PROVE InChain(r, k, v)
      <4>1. PICK j \in 1..Len(s) : s[j].key = k /\ s[j].value = v
        BY <3>2 DEF InChain
      <4>2. PICK h \in 1..Len(r) : r[h] = s[j]
        BY <1>3, <2>3, <3>2, <4>1
      <4> QED BY <4>1, <4>2 DEF InChain
    <3> QED BY <3>1, <3>2
  <2>8. \A k : k = key => ValueOf(k)' = NoValue
    BY <1>1, <1>2, <1>7, <2>6, ValueGone DEF b
  <2>9. \A k : k # key => ValueOf(k)' = ValueOf(k)
    BY <1>1, <1>2, <1>7, <2>7, ValueKept DEF b
  <2> QED BY <1>6, <1>9, <2>8, <2>9 DEF AnswersAndSets, NewValue, key
<1>10. CASE call[t].op # "del" /\ ~(call[t].op = "put" /\ kind = "LockHashMap")
  <2>1. r = s
    BY <1>10 DEF AfterFound
  <2> HIDE DEF s, r, key, b
  <2>2. \A k : ValueOf(k)' = ValueOf(k)
    BY <1>1, <1>2, <1>7, <2>1, ValueKept DEF b
  <2> QED BY <1>5, <1>6, <1>10, <2>2 DEF AnswersAndSets, NewValue, key
<1> QED BY <1>8, <1>9, <1>10

(* A call that misses it. *)
LEMMA MissedAnswers ==
  ASSUME IInv, OneNodePerKey', NEW t \in Threads, pc[t] # "idle", Bucket(t) \in Buckets,
         \A i \in 1..Len(Chain(t)) : ~HasKey(Chain(t)[i], t), Missed(t)
  PROVE  AnswersAndSets(t)
<1> DEFINE b == Bucket(t)
           s == Chain(t)
           r == AfterMissed(t)
           key == call[t].key
<1>1. WellFormed(b, s) /\ WellFormed(b, r) /\ s = chain[b] /\ BucketIndex(key) = b
  BY ChainsWellFormed, MissedWellFormed DEF IInv, Chain, Bucket
<1>2. s \in Seq(Nodes) /\ r \in Seq(Nodes) /\ Len(s) \in Nat
  BY <1>1, LenProperties DEF WellFormed
<1>3. \A i \in 1..Len(s) : s[i].key # key
  BY DEF HasKey
<1>4. ValueOf(key) = NoValue
  <2>1. ASSUME NEW c \in Buckets, NEW i \in 1..Len(chain[c]) PROVE chain[c][i].key # key
    BY <1>1, <1>3 DEF IInv, OneNodePerKey
  <2> QED BY <2>1, ValueBefore DEF Has, InChain
<1>5. call' = [call EXCEPT ![t].answer = Reply(call[t].op, ValueOf(key))]
  BY <1>4 DEF Missed, Answer
<1>6. chain' = [chain EXCEPT ![b] = r]
  BY DEF Missed
<1>7. CASE call[t].op = "put"
  <2> DEFINE node == [key |-> key, value |-> call[t].value]
  <2>1. node \in Nodes
    BY <1>7 DEF IInv, InProgress, Calls, Nodes
  <2>2. r = Append(s, node) /\ node.key = key /\ node.value = call[t].value
    BY <1>7 DEF AfterMissed
  <2> HIDE DEF node, s, r, key, b
  <2>3. /\ Len(r) = Len(s) + 1
        /\ \A j \in 1..Len(s) : r[j] = s[j]
        /\ r[Len(s) + 1] = node
    BY <1>2, <2>1, <2>2, AppendProperties
  <2>4. InChain(r, key, call[t].value)
    BY <1>2, <2>2, <2>3 DEF InChain
  <2>5. \A k : k # key => \A v : InChain(r, k, v) <=> InChain(s, k, v)
    BY <1>2, <2>2, <2>3 DEF InChain
  <2>6. \A k : k = key => ValueOf(k)' = call[t].value
    BY <1>2, <1>6, <2>4, ValueSet DEF b
  <2>7. \A k : k # key => ValueOf(k)' = ValueOf(k)
    BY <1>1, <1>2, <1>6, <2>5, ValueKept DEF b
  <2> QED BY <1>4, <1>5, <1>7, <2>6, <2>7 DEF AnswersAndSets, NewValue, key
<1>8. CASE call[t].op # "put"
  <2>1. r = s
    BY <1>8 DEF AfterMissed
  <2> HIDE DEF s, r, key, b
  <2>2. \A k : ValueOf(k)' = ValueOf(k)
    BY <1>1, <1>2, <1>6, <2>1, ValueKept DEF b
  <2> QED BY <1>4, <1>5, <1>8, <2>2 DEF AnswersAndSets, NewValue, key
<1> QED BY <1>7, <1>8

(* What a call returns is what its class and version report. *)
LEMMA ReplyReports ==
  ASSUME TypeOK, NEW op \in Ops, NEW v
  PROVE  /\ Report(op) \in Contract!Reports
         /\ Reply(op, v) = Contract!Reply(Report(op), v)
<1>1. CASE op = "get"
  BY <1>1 DEF Report, Reply, Contract!Reply, Contract!Reports
<1>2. CASE op # "get" /\ version = "Java" /\ kind = "LockHashMap"
  BY <1>2 DEF Report, Reply, Contract!Reply, Contract!Reports
<1>3. CASE op # "get" /\ version = "Java" /\ kind # "LockHashMap"
  BY <1>3 DEF Report, Reply, Contract!Reply, Contract!Reports
<1>4. CASE op = "put" /\ version = "C++"
  <2>1. Report(op) = IF kind = "LockHashMap" THEN "true" ELSE "was absent"
    BY <1>4 DEF Report
  <2>2. Reply(op, v) = Bool(kind = "LockHashMap" \/ v = NoValue)
    BY <1>4 DEF Reply
  <2> QED BY <2>1, <2>2 DEF Bool, Contract!Bool, Contract!Reply, Contract!Reports
<1>5. CASE op = "del" /\ version = "C++"
  <2>1. Report(op) = "was there"
    BY <1>5 DEF Report
  <2>2. Reply(op, v) = Bool(v # NoValue)
    BY <1>5 DEF Reply
  <2> QED BY <2>1, <2>2 DEF Bool, Contract!Bool, Contract!Reply, Contract!Reports
<1> QED BY <1>1, <1>2, <1>3, <1>4, <1>5 DEF Ops, TypeOK

LEMMA ReportsKept ==
  ASSUME UNCHANGED <<kind, version>> PROVE (\A op : Report(op)' = Report(op))
BY DEF Report

(* The step in which a call takes effect is the contract's. *)
LEMMA EffectRefines ==
  ASSUME IInv, NEW t \in Threads, pc[t] \in {"index", "walk"}, Bucket(t) \in Buckets,
         TakesEffect(t), UNCHANGED <<kind, version>>
  PROVE  Contract!TakeEffect(t)
<1>1. OneNodePerKey'
  BY EffectKeeps
<1>2. AnswersAndSets(t)
  BY <1>1, FoundAnswers, MissedAnswers DEF TakesEffect
<1>3. call[t] \in Calls /\ call[t].answer = "pending"
  BY DEF IInv, InProgress
<1>4. Contract!Pending(t)
  BY <1>3 DEF Contract!Pending, Contract!NoCall, Calls, Ops
<1> DEFINE map == [k \in Keys |-> ValueOf(k)]
           reports == [op \in Ops |-> Report(op)]
           key == call[t].key
<1>5. key \in Keys /\ BucketIndex(key) \in Buckets
  BY <1>3 DEF Calls, Bucket
<1>6. \A k : BucketIndex(k)' = BucketIndex(k)
  BY DEF BucketIndex
<1>7. map' = Contract!Effect(call[t])
  <2>1. map[key] = ValueOf(key)
    BY <1>5
  <2>2. map' = [map EXCEPT ![key] = NewValue(t)]
    BY <1>2, <1>5 DEF AnswersAndSets
  <2>3. map = [map EXCEPT ![key] = ValueOf(key)]
    BY <1>5
  <2>4. CASE call[t].op = "put" /\ (kind = "LockHashMap" \/ ValueOf(key) = NoValue)
    BY <2>1, <2>2, <2>4 DEF NewValue, Contract!Effect
  <2>5. CASE call[t].op = "del"
    BY <2>1, <2>2, <2>5 DEF NewValue, Contract!Effect
  <2>6. CASE call[t].op # "del" /\ ~(call[t].op = "put" /\ (kind = "LockHashMap" \/ ValueOf(key) = NoValue))
    BY <2>1, <2>2, <2>3, <2>6 DEF NewValue, Contract!Effect
  <2> QED BY <2>4, <2>5, <2>6
<1>8. call' = [call EXCEPT ![t].answer = Contract!Reply(reports[call[t].op], map[key])]
  <2>1. call[t].op \in Ops
    BY <1>3 DEF Calls
  <2>2. Reply(call[t].op, ValueOf(key)) = Contract!Reply(Report(call[t].op), ValueOf(key))
    BY <2>1, ReplyReports DEF IInv
  <2>3. map[key] = ValueOf(key) /\ reports[call[t].op] = Report(call[t].op)
    BY <1>5, <2>1
  <2> HIDE DEF map, reports
  <2> QED BY <1>2, <2>2, <2>3 DEF AnswersAndSets
<1>9. reports' = reports
  BY ReportsKept
<1> QED BY <1>4, <1>5, <1>6, <1>7, <1>8, <1>9 DEF Contract!TakeEffect

(* The steps that leave the map and the calls alone. *)
LEMMA StutterRefines ==
  ASSUME UNCHANGED <<kind, version, chain, call>> PROVE UNCHANGED Contract!vars
<1>1. \A k : BucketIndex(k)' = BucketIndex(k) /\ ValueOf(k)' = ValueOf(k)
  BY DEF BucketIndex, ValueOf, Entries
<1> QED BY <1>1, ReportsKept DEF Contract!vars

LEMMA InitRefines == Init => Contract!Init
<1> SUFFICES ASSUME Init PROVE Contract!Init
  OBVIOUS
<1>1. IInv
  BY InitIInv
<1>2. \A b \in Buckets : Len(chain[b]) = 0
  BY DEF Init
<1>3. \A k, v : ~Has(chain, k, v)
  BY <1>2 DEF Has, InChain
<1>4. \A k : ValueOf(k) = NoValue
  BY <1>1, <1>3, ValueBefore
<1>5. (kind = "LockHashMap") \in BOOLEAN
  OBVIOUS
<1>6. [op \in Ops |-> Report(op)] \in [Contract!Ops -> Contract!Reports]
  <2>1. \A op \in Ops : Report(op) \in Contract!Reports
    BY <1>1, ReplyReports DEF IInv
  <2> QED BY <2>1 DEF Ops, Contract!Ops
<1> QED BY <1>4, <1>5, <1>6 DEF Init, Contract!Init, NoCall, Contract!NoCall

LEMMA StartRefines ==
  ASSUME IInv, NEW t \in Threads, Start(t) PROVE Contract!Next
<1>1. PICK op \in Ops, k \in Keys, v \in Values \cup {NoValue} :
        /\ op = "put" <=> v \in Values
        /\ call' = [call EXCEPT ![t] = [op |-> op, key |-> k, value |-> v, answer |-> "pending"]]
  BY DEF Start, Call
<1>2. call[t] = Contract!NoCall
  BY DEF Start, Call, IInv, InProgress, NoCall, Contract!NoCall
<1>3. \A key : BucketIndex(key)' = BucketIndex(key) /\ ValueOf(key)' = ValueOf(key)
  BY DEF Start, Call, BucketIndex, ValueOf, Entries
<1>4. Contract!Start(t, op, k, v)
  BY <1>1, <1>2, <1>3, ReportsKept DEF Start, Call, Contract!Start
<1> QED BY <1>4 DEF Contract!Next, Ops, Contract!Ops

(* Java's exception is the contract's refusal. *)
LEMMA OutOfBoundsRefines ==
  ASSUME IInv, NEW t \in Threads, OutOfBounds(t) PROVE Contract!TakeEffect(t)
<1>1. call[t] \in Calls /\ call[t].answer = "pending"
  BY DEF OutOfBounds, IInv, InProgress
<1>2. Contract!Pending(t)
  BY <1>1 DEF Contract!Pending, Contract!NoCall, Calls, Ops
<1>3. call[t].key \in Keys /\ BucketIndex(call[t].key) \notin Buckets
  BY <1>1 DEF OutOfBounds, Calls, Bucket
<1>4. \A k : BucketIndex(k)' = BucketIndex(k) /\ ValueOf(k)' = ValueOf(k)
  BY DEF OutOfBounds, BucketIndex, ValueOf, Entries
<1> QED BY <1>2, <1>3, <1>4, ReportsKept DEF OutOfBounds, Contract!TakeEffect

LEMMA ReturnRefines ==
  ASSUME IInv, NEW t \in Threads, Return(t) PROVE Contract!Return(t)
<1>1. call[t] \in Calls /\ call[t].answer # "pending"
  BY DEF Return, IInv, InProgress
<1>2. call[t] # Contract!NoCall
  BY <1>1 DEF Contract!NoCall, Calls, Ops
<1>3. \A k : BucketIndex(k)' = BucketIndex(k) /\ ValueOf(k)' = ValueOf(k)
  BY DEF Return, BucketIndex, ValueOf, Entries
<1> QED BY <1>1, <1>2, <1>3, ReportsKept DEF Return, NoCall, Contract!NoCall, Contract!Return

LEMMA NextRefines == IInv /\ [Next]_vars => [Contract!Next]_(Contract!vars)
<1> SUFFICES ASSUME IInv, [Next]_vars PROVE [Contract!Next]_(Contract!vars)
  OBVIOUS
<1>1. ASSUME NEW t \in Threads, Start(t) PROVE Contract!Next
  BY <1>1, StartRefines
<1>2. ASSUME NEW t \in Threads, OutOfBounds(t) PROVE Contract!Next
  BY <1>2, OutOfBoundsRefines DEF Contract!Next
<1>3. ASSUME NEW t \in Threads, Lock(t) \/ Walk(t) \/ Unlock(t) PROVE UNCHANGED Contract!vars
  BY <1>3, StutterRefines DEF Lock, Walk, Unlock
<1>4. ASSUME NEW t \in Threads, Finish(t) PROVE Contract!Next
  <2>1. TakesEffect(t)
    BY <1>4, FinishTakesEffect
  <2>2. pc[t] = "walk" /\ Bucket(t) \in Buckets /\ UNCHANGED <<kind, version>>
    BY <1>4 DEF Finish, IInv, InProgress
  <2>3. Contract!TakeEffect(t)
    BY <2>1, <2>2, EffectRefines
  <2> QED BY <2>3 DEF Contract!Next
<1>5. ASSUME NEW t \in Threads, SetCall(t) PROVE Contract!Next
  <2>1. TakesEffect(t)
    BY <1>5 DEF SetCall, TakesEffect
  <2>2. pc[t] = "index" /\ Bucket(t) \in Buckets /\ UNCHANGED <<kind, version>>
    BY <1>5 DEF SetCall
  <2>3. Contract!TakeEffect(t)
    BY <2>1, <2>2, EffectRefines
  <2> QED BY <2>3 DEF Contract!Next
<1>6. ASSUME NEW t \in Threads, Return(t) PROVE Contract!Next
  BY <1>6, ReturnRefines DEF Contract!Next
<1>7. ASSUME UNCHANGED vars PROVE UNCHANGED Contract!vars
  BY <1>7, StutterRefines DEF vars
<1> QED BY <1>1, <1>2, <1>3, <1>4, <1>5, <1>6, <1>7 DEF Next, Step

(* LockHashMap, LockHashSet and SetBasedMap are linearizable maps: each    *)
(* call takes effect at one instant between its start and its return, and  *)
(* its answer is the one its class and version give for the map's value    *)
(* under its key at that instant (Report):  from Java's LockHashMap the    *)
(* value, from Java's SetBasedMap null, in C++ a bool, and for get() in    *)
(* both the value found.                                                   *)
THEOREM Linearizable == Spec => Contract!Spec
<1>1. Init => Contract!Init
  BY InitRefines
<1>2. IInv /\ [Next]_vars => [Contract!Next]_(Contract!vars)
  BY NextRefines
<1> QED BY <1>1, <1>2, Invariance, PTL DEF Spec, Contract!Spec
-----------------------------------------------------------------------------
(* Whether the token of round i is there after the first n calls. *)
Stored(n, i) ==
  \/ n < 4 * WorkSize /\ i = Round(n) /\ Phase(n) \in {1, 2}
  \/ /\ n >= 4 * WorkSize
     /\ \/ Phase(n) = 0 /\ i < Round(n)
        \/ Phase(n) = 1
        \/ Phase(n) = 2 /\ i >= Round(n)

LEMMA Quotient ==
  ASSUME NEW d \in Nat \ {0}, NEW q \in Nat, NEW r \in 0..(d - 1)
  PROVE  (d * q + r) \div d = q /\ (d * q + r) % d = r
OBVIOUS

LEMMA QuotientOfNext ==
  ASSUME NEW d \in Nat \ {0}, NEW n \in Nat
  PROVE  /\ n \div d \in Nat /\ n % d \in 0..(d - 1)
         /\ n = d * (n \div d) + (n % d)
         /\ n % d < d - 1 => (n + 1) \div d = n \div d /\ (n + 1) % d = (n % d) + 1
         /\ n % d = d - 1 => (n + 1) \div d = n \div d + 1 /\ (n + 1) % d = 0
<1>1. PICK q \in Nat, r \in 0..(d - 1) : q = n \div d /\ r = n % d /\ n = d * q + r
  OBVIOUS
<1>2. ASSUME r < d - 1 PROVE (n + 1) \div d = q /\ (n + 1) % d = r + 1
  <2>1. n + 1 = d * q + (r + 1) /\ r + 1 \in 0..(d - 1)
    BY <1>1, <1>2
  <2> QED BY <1>1, <2>1, Quotient
<1>3. ASSUME r = d - 1 PROVE (n + 1) \div d = q + 1 /\ (n + 1) % d = 0
  <2>1. PICK p \in Nat : p = q + 1
    BY <1>1
  <2>2. n + 1 = d * p + 0 /\ 0 \in 0..(d - 1)
    BY <1>1, <1>3, <2>1
  <2> QED BY <2>1, <2>2, Quotient
<1>4. n \div d \in Nat /\ n % d \in 0..(d - 1) /\ n = d * (n \div d) + (n % d)
  BY <1>1, Zenon
<1>5. n % d < d - 1 => (n + 1) \div d = n \div d /\ (n + 1) % d = (n % d) + 1
  BY <1>1, <1>2, Zenon
<1>6. n % d = d - 1 => (n + 1) \div d = n \div d + 1 /\ (n + 1) % d = 0
  BY <1>1, <1>3, Zenon
<1> QED BY <1>4, <1>5, <1>6

LEMMA TokensDiffer ==
  ASSUME NEW t \in DOMAIN threadId, NEW u \in DOMAIN threadId,
         NEW i \in Nat, NEW j \in Nat, Token(t, i) = Token(u, j)
  PROVE  t = u /\ i = j
<1>1. /\ NThreads \in Nat \ {0} /\ threadId[t] \in 0..(NThreads - 1)
      /\ threadId[u] \in 0..(NThreads - 1)
      /\ NThreads * i + threadId[t] = NThreads * j + threadId[u]
  <2>1. NThreads \in Nat /\ threadId[t] \in 0..(NThreads - 1) /\ threadId[u] \in 0..(NThreads - 1)
    BY WorkerParameters
  <2> QED BY <2>1 DEF Token
<1>2. /\ (NThreads * i + threadId[t]) \div NThreads = i
      /\ (NThreads * i + threadId[t]) % NThreads = threadId[t]
      /\ (NThreads * j + threadId[u]) \div NThreads = j
      /\ (NThreads * j + threadId[u]) % NThreads = threadId[u]
  BY <1>1, Quotient
<1>3. i = j /\ threadId[t] = threadId[u]
  BY <1>1, <1>2
<1> QED BY <1>3, WorkerParameters

(* A worker's call number n, of those it makes. *)
LEMMA PhaseAndRound ==
  ASSUME NEW n \in 0..(CallsPerWorker - 1)
  PROVE  Phase(n) \in 0..3 /\ Round(n) \in 0..(WorkSize - 1)
<1>1. WorkSize \in Nat \ {0} /\ n \in Nat /\ n < 8 * WorkSize
  BY WorkerParameters DEF CallsPerWorker
<1>2. CASE n < 4 * WorkSize
  <2>1. n \div 4 \in Nat /\ n % 4 \in 0..3 /\ n = 4 * (n \div 4) + (n % 4)
    BY <1>1, QuotientOfNext
  <2> QED BY <1>1, <1>2, <2>1 DEF Phase, Round
<1>3. CASE ~(n < 4 * WorkSize)
  <2> DEFINE q == n \div WorkSize
  <2>1. q \in Nat /\ n % WorkSize \in 0..(WorkSize - 1) /\ n = WorkSize * q + (n % WorkSize)
    BY <1>1, QuotientOfNext
  <2>2. Phase(n) = q - 4 /\ Round(n) = n % WorkSize
    BY <1>3 DEF Phase, Round
  <2> HIDE DEF q
  <2>3. q < 8
    <3> SUFFICES ASSUME q >= 8 PROVE FALSE
      BY <2>1
    <3>1. PICK e \in Nat : q = 8 + e
      BY <2>1
    <3>2. PICK k \in Nat : WorkSize * (8 + e) = 8 * WorkSize + k
      BY <1>1
    <3>3. n = (8 * WorkSize + k) + (n % WorkSize)
      BY <2>1, <3>1, <3>2
    <3> HIDE DEF q
    <3>4. PICK m \in Nat : m = n % WorkSize
      BY <2>1
    <3> QED BY <1>1, <3>3, <3>4
  <2>4. q >= 4
    <3> SUFFICES ASSUME q \in 0..3 PROVE FALSE
      BY <2>1
    <3>1. q = 0 \/ q = 1 \/ q = 2 \/ q = 3
      OBVIOUS
    <3> QED BY <1>1, <1>3, <2>1, <3>1
  <2> QED BY <2>1, <2>2, <2>3, <2>4
<1> QED BY <1>2, <1>3

(* What the call finds of its token, and what it leaves of all of them. *)
LEMMA CallNumber ==
  ASSUME NEW n \in 0..(CallsPerWorker - 1), NEW i \in 0..(WorkSize - 1)
  PROVE  /\ Stored(n, Round(n)) <=> Phase(n) \in {1, 2}
         /\ Stored(n + 1, i) <=> IF i = Round(n) THEN Phase(n) \in {0, 1} ELSE Stored(n, i)
<1>1. /\ WorkSize \in Nat \ {0} /\ n \in Nat /\ n < 8 * WorkSize
      /\ Phase(n) \in 0..3 /\ Round(n) \in 0..(WorkSize - 1)
  BY WorkerParameters, PhaseAndRound DEF CallsPerWorker
<1>2. CASE n + 1 < 4 * WorkSize
  <2>1. /\ n \div 4 \in Nat /\ n % 4 \in 0..3 /\ n = 4 * (n \div 4) + (n % 4)
        /\ n % 4 < 3 => (n + 1) \div 4 = n \div 4 /\ (n + 1) % 4 = (n % 4) + 1
        /\ n % 4 = 3 => (n + 1) \div 4 = n \div 4 + 1 /\ (n + 1) % 4 = 0
    BY <1>1
  <2>2. n < 4 * WorkSize
    BY <1>1, <1>2
  <2> QED BY <1>1, <1>2, <2>1, <2>2 DEF Stored, Phase, Round
<1>3. CASE n + 1 = 4 * WorkSize
  <2>1. n = 4 * (WorkSize - 1) + 3 /\ WorkSize - 1 \in Nat /\ 3 \in 0..(4 - 1)
    BY <1>1, <1>3
  <2>2. n \div 4 = WorkSize - 1 /\ n % 4 = 3
    BY <2>1, Quotient
  <2>3. PICK q \in Nat : q = 4
    OBVIOUS
  <2>4. n + 1 = WorkSize * q + 0 /\ 0 \in 0..(WorkSize - 1)
    BY <1>1, <1>3, <2>3
  <2>5. (n + 1) \div WorkSize = 4 /\ (n + 1) % WorkSize = 0
    BY <1>1, <2>3, <2>4, Quotient
  <2>6. Phase(n) = 3 /\ Round(n) = WorkSize - 1 /\ Phase(n + 1) = 0 /\ Round(n + 1) = 0
    BY <1>1, <1>3, <2>2, <2>5 DEF Phase, Round
  <2> QED BY <1>1, <1>3, <2>6 DEF Stored
<1>4. CASE n >= 4 * WorkSize
  <2> DEFINE q == n \div WorkSize
             r == n % WorkSize
  <2>1. /\ q \in Nat /\ r \in 0..(WorkSize - 1) 
        /\ r < WorkSize - 1 => (n + 1) \div WorkSize = q /\ (n + 1) % WorkSize = r + 1
        /\ r = WorkSize - 1 => (n + 1) \div WorkSize = q + 1 /\ (n + 1) % WorkSize = 0
    BY <1>1, QuotientOfNext
  <2>2. Phase(n) = q - 4 /\ Round(n) = r
    BY <1>1, <1>4 DEF Phase, Round
  <2>3. Phase(n + 1) = (n + 1) \div WorkSize - 4 /\ Round(n + 1) = (n + 1) % WorkSize
    BY <1>1, <1>4 DEF Phase, Round
  <2>4. ~(n < 4 * WorkSize) /\ ~(n + 1 < 4 * WorkSize)
    BY <1>1, <1>4
  <2> HIDE DEF q, r
  <2>5. CASE r < WorkSize - 1
    <3>1. Phase(n + 1) = Phase(n) /\ Round(n + 1) = Round(n) + 1
      BY <2>1, <2>2, <2>3, <2>5
    <3> QED BY <1>1, <2>4, <3>1 DEF Stored
  <2>6. CASE r = WorkSize - 1
    <3>1. Phase(n + 1) = Phase(n) + 1 /\ Round(n + 1) = 0 /\ Round(n) = WorkSize - 1
      BY <1>1, <2>1, <2>2, <2>3, <2>6
    <3> QED BY <1>1, <2>4, <3>1 DEF Stored
  <2> QED BY <1>1, <2>1, <2>5, <2>6
<1> QED BY <1>1, <1>2, <1>3, <1>4
-----------------------------------------------------------------------------
(* BenchMaps' clients make calls as any threads may. *)
ClientOK ==
  /\ made \in [Threads -> Nat]
  /\ out \in [Threads -> Values \cup {Garbage}]

(* How many calls of a worker have taken effect. *)
Effective(t) == IF pc[t] \in {"unlock", "return"} THEN made[t] + 1 ELSE made[t]

(* A call is the one the worker's program says, its answer is the one it   *)
(* would get alone, and so are the values of the worker's tokens.          *)
WorkerCallOK(t) ==
  pc[t] # "idle" =>
    LET n == made[t]
    IN  /\ n < CallsPerWorker
        /\ call[t].key = Token(t, Round(n))
        /\ call[t].op = <<"put", "get", "del", "get">>[Phase(n) + 1]
        /\ Phase(n) = 0 => call[t].value = Value(call[t].key)
        /\ pc[t] \in {"unlock", "return"} =>
             call[t].answer = AnswerAlone(Phase(n), call[t].key)

TokensOK(t) ==
  \A i \in 0..(WorkSize - 1) :
    ValueOf(Token(t, i)) = IF Stored(Effective(t), i) THEN Value(Token(t, i)) ELSE NoValue

OutputOK(t) == made[t] >= 2 => out[t] \in {Value(token) : token \in Tokens(t)}

WorkerOK(t) == made[t] <= CallsPerWorker /\ WorkerCallOK(t) /\ TokensOK(t) /\ OutputOK(t)

WorkersInv ==
  ClientOK /\ (client = "workers" => version = "C++" /\ \A t \in Threads : WorkerOK(t))

(* The calls of the workers' program. *)
LEMMA ProgramCall ==
  ASSUME NEW t \in Threads, NEW n \in 0..(CallsPerWorker - 1)
  PROVE  LET token == Token(t, Round(n))
             op == <<"put", "get", "del", "get">>[Phase(n) + 1]
         IN  /\ token \in Tokens(t) /\ token \in Keys /\ Value(token) \in Values
             /\ op \in Ops
             /\ op = "put" <=> Phase(n) = 0
             /\ op = "del" <=> Phase(n) = 2
             /\ op = "get" <=> Phase(n) \in {1, 3}
<1>1. Phase(n) \in 0..3 /\ Round(n) \in 0..(WorkSize - 1)
  BY PhaseAndRound
<1>2. Token(t, Round(n)) \in Tokens(t)
  BY <1>1 DEF Tokens
<1> DEFINE op == <<"put", "get", "del", "get">>[Phase(n) + 1]
<1>3. /\ op \in Ops
      /\ op = "put" <=> Phase(n) = 0
      /\ op = "del" <=> Phase(n) = 2
      /\ op = "get" <=> Phase(n) \in {1, 3}
  <2>1. CASE Phase(n) = 0
    BY <2>1 DEF Ops
  <2>2. CASE Phase(n) = 1
    BY <2>2 DEF Ops
  <2>3. CASE Phase(n) = 2
    BY <2>3 DEF Ops
  <2>4. CASE Phase(n) = 3
    BY <2>4 DEF Ops
  <2> QED BY <1>1, <2>1, <2>2, <2>3, <2>4
<1> QED BY <1>2, <1>3, ClientParameters

LEMMA ClientSteps ==
  ASSUME ClientOK, [BenchNext]_benchVars PROVE [Next]_vars
<1>1. ASSUME NEW t \in Threads, AnyCall(t) PROVE Start(t)
  <2>1. PICK op \in Ops, k \in AnyKeys, v \in ValuesOf(kind) \cup {NoValue} : Call(t, op, k, v)
    BY <1>1 DEF AnyCall
  <2>2. ValuesOf(kind) \subseteq Values
    BY ClientParameters DEF ValuesOf
  <2> QED BY <2>1, <2>2, ClientParameters DEF Start
<1>2. ASSUME NEW t \in Threads, WorkerCall(t) PROVE Start(t)
  <2> DEFINE n == made[t]
             token == Token(t, Round(n))
             op == <<"put", "get", "del", "get">>[Phase(n) + 1]
             v == IF Phase(n) = 0 THEN Value(token) ELSE NoValue
  <2>1. n \in 0..(CallsPerWorker - 1)
    BY <1>2, WorkerParameters DEF WorkerCall, ClientOK, CallsPerWorker
  <2>2. Call(t, op, token, v)
    BY <1>2 DEF WorkerCall
  <2>3. op \in Ops /\ token \in Keys /\ v \in Values \cup {NoValue}
    BY <2>1, ProgramCall
  <2> HIDE DEF op, token, v, n
  <2> QED BY <2>2, <2>3 DEF Start
<1>3. ASSUME NEW t \in Threads, BenchStep(t) PROVE Step(t)
  BY <1>3 DEF BenchStep
<1> QED BY <1>1, <1>2, <1>3 DEF BenchNext, Joined, benchVars, Next

LEMMA InBounds ==
  ASSUME version = "C++", NEW t \in Threads, call[t] \in Calls
  PROVE  Bucket(t) \in Buckets
<1>1. call[t].key \in Keys
  BY DEF Calls
<1> DEFINE h == Hash[call[t].key] % HashSpace
<1>2. h \in Nat
  BY <1>1, Parameters
<1>3. Bucket(t) = h % (NumBuckets - 1)
  BY DEF Bucket, BucketIndex
<1> HIDE DEF h
<1>4. h % (NumBuckets - 1) \in 0..(NumBuckets - 2)
  BY <1>2, Parameters
<1> QED BY <1>3, <1>4, Parameters DEF Buckets

LEMMA InitWorkers == BenchInit => WorkersInv
<1> SUFFICES ASSUME BenchInit PROVE WorkersInv
  OBVIOUS
<1>1. ClientOK
  BY DEF BenchInit, ClientOK
<1>2. WorkSize \in Nat \ {0} /\ 0 \in 0..CallsPerWorker
  BY WorkerParameters DEF CallsPerWorker
<1>3. \A k \in Keys : ValueOf(k) = NoValue
  <2>1. [k \in Keys |-> ValueOf(k)] = [k \in Keys |-> NoValue]
    BY InitRefines DEF BenchInit, Contract!Init
  <2> QED BY <2>1
<1>4. ASSUME NEW t \in Threads PROVE WorkerOK(t)
  <2>1. made[t] = 0 /\ pc[t] = "idle" /\ Effective(t) = 0
    BY DEF BenchInit, Init, Effective
  <2>2. ASSUME NEW i \in 0..(WorkSize - 1) PROVE ~Stored(Effective(t), i)
    BY <1>2, <2>1 DEF Stored, Phase
  <2>3. \A i \in 0..(WorkSize - 1) : Token(t, i) \in Keys
    BY ClientParameters DEF Tokens
  <2> QED BY <1>2, <1>3, <2>1, <2>2, <2>3 DEF WorkerOK, WorkerCallOK, TokensOK, OutputOK
<1> QED BY <1>1, <1>4 DEF BenchInit, WorkersInv

(* A worker whose call and whose tokens nobody touches. *)
LEMMA OthersUndisturbed ==
  ASSUME NEW u \in Threads, WorkerOK(u),
         call'[u] = call[u], pc'[u] = pc[u], made'[u] = made[u], out'[u] = out[u],
         \A i \in 0..(WorkSize - 1) : ValueOf(Token(u, i))' = ValueOf(Token(u, i))
  PROVE  WorkerOK(u)'
<1>1. Effective(u)' = Effective(u)
  BY DEF Effective
<1>2. TokensOK(u)'
  BY <1>1 DEF TokensOK, WorkerOK
<1> QED BY <1>2 DEF WorkerOK, WorkerCallOK, OutputOK

(* A step that leaves the values alone and what the call has come to. *)
LEMMA QuietStep ==
  ASSUME NEW u \in Threads, WorkerOK(u),
         call'[u] = call[u], pc[u] # "idle",
         pc'[u] \in {"unlock", "return"} <=> pc[u] \in {"unlock", "return"},
         made'[u] = made[u], out'[u] = out[u],
         \A i \in 0..(WorkSize - 1) : ValueOf(Token(u, i))' = ValueOf(Token(u, i))
  PROVE  WorkerOK(u)'
<1>1. Effective(u)' = Effective(u)
  BY DEF Effective
<1>2. TokensOK(u)'
  BY <1>1 DEF TokensOK, WorkerOK
<1> QED BY <1>2 DEF WorkerOK, WorkerCallOK, OutputOK

LEMMA ValuesKept ==
  ASSUME UNCHANGED chain PROVE \A k : ValueOf(k)' = ValueOf(k)
BY DEF ValueOf, Entries

Workers == client = "workers" /\ version = "C++" /\ \A t \in Threads : WorkerOK(t)

(* The next call of a worker's program. *)
LEMMA WorkerCallOfProgram ==
  ASSUME IInv, ClientOK, Workers, NEW t \in Threads, WorkerCall(t)
  PROVE  \A u \in Threads : WorkerOK(u)'
<1> DEFINE n == made[t]
           op == <<"put", "get", "del", "get">>[Phase(n) + 1]
           v == IF Phase(n) = 0 THEN Value(Token(t, Round(n))) ELSE NoValue
<1>1. /\ pc[t] = "idle" /\ pc'[t] = "index" /\ n < CallsPerWorker
      /\ UNCHANGED <<chain, made, out>>
      /\ call' = [call EXCEPT ![t] = [op |-> op, key |-> Token(t, Round(n)),
                                      value |-> v, answer |-> "pending"]]
      /\ \A u \in Threads \ {t} : pc'[u] = pc[u] /\ call'[u] = call[u]
  BY DEF WorkerCall, Call, Goto, clientVars, IInv, TypeOK
<1>2. call'[t] = [op |-> op, key |-> Token(t, Round(n)), value |-> v, answer |-> "pending"]
  BY <1>1 DEF IInv, TypeOK
<1>3. /\ call'[t].op = op /\ call'[t].key = Token(t, Round(n)) /\ call'[t].value = v
      /\ made'[t] = n /\ out'[t] = out[t]
  BY <1>1, <1>2
<1>4. \A k : ValueOf(k)' = ValueOf(k)
  BY <1>1, ValuesKept
<1>5. WorkerOK(t)'
  <2>1. Effective(t)' = Effective(t)
    BY <1>1 DEF Effective
  <2>2. TokensOK(t)'
    BY <1>4, <2>1 DEF TokensOK, WorkerOK, Workers
  <2>3. WorkerCallOK(t)'
    BY <1>1, <1>3 DEF WorkerCallOK
  <2> QED BY <1>1, <1>3, <2>2, <2>3 DEF WorkerOK, OutputOK, Workers
<1>6. ASSUME NEW u \in Threads \ {t} PROVE WorkerOK(u)'
  BY <1>1, <1>4, <1>6, OthersUndisturbed DEF Workers
<1> QED BY <1>5, <1>6

(* What put(), get(), del() and get() tell a worker of a token that is     *)
(* there for the second and the third of them.                             *)
LEMMA ReplyAlone ==
  ASSUME version = "C++", NEW op, NEW phase \in 0..3, NEW token, Value(token) \in Values,
         op = "put" <=> phase = 0, op = "del" <=> phase = 2, op = "get" <=> phase \in {1, 3},
         NEW v, v = IF phase \in {1, 2} THEN Value(token) ELSE NoValue
  PROVE  Reply(op, v) = AnswerAlone(phase, token)
<1>1. Value(token) # NoValue
  BY Parameters
<1>2. CASE phase = 0
  BY <1>2 DEF Reply, Bool, AnswerAlone
<1>3. CASE phase = 1
  BY <1>3 DEF Reply, AnswerAlone
<1>4. CASE phase = 2
  BY <1>1, <1>4 DEF Reply, Bool, AnswerAlone
<1>5. CASE phase = 3
  BY <1>5 DEF Reply, AnswerAlone
<1> QED BY <1>2, <1>3, <1>4, <1>5

(* A call takes effect: it finds and leaves what its number says. *)
LEMMA WorkerEffect ==
  ASSUME IInv, ClientOK, Workers, NEW t \in Threads, pc[t] \in {"index", "walk"},
         AnswersAndSets(t), pc'[t] \in {"unlock", "return"}, UNCHANGED <<made, out>>,
         \A u \in Threads \ {t} : pc'[u] = pc[u]
  PROVE  \A u \in Threads : WorkerOK(u)'
<1> DEFINE n == made[t]
           key == Token(t, Round(n))
           op == <<"put", "get", "del", "get">>[Phase(n) + 1]
<1>1. /\ n \in 0..(CallsPerWorker - 1) /\ call[t].key = key /\ call[t].op = op
      /\ Phase(n) = 0 => call[t].value = Value(key)
  BY WorkerParameters DEF Workers, WorkerOK, WorkerCallOK, ClientOK, CallsPerWorker
<1>2. /\ Phase(n) \in 0..3 /\ Round(n) \in 0..(WorkSize - 1)
      /\ key \in Tokens(t) /\ key \in Keys /\ Value(key) \in Values
      /\ op = "put" <=> Phase(n) = 0
      /\ op = "del" <=> Phase(n) = 2
      /\ op = "get" <=> Phase(n) \in {1, 3}
  BY <1>1, PhaseAndRound, ProgramCall
<1> HIDE DEF key, op
<1>3. Effective(t) = n /\ Effective(t)' = n + 1
  BY DEF Effective
<1>4. ValueOf(key) = IF Phase(n) \in {1, 2} THEN Value(key) ELSE NoValue
  <2>1. ValueOf(key) = IF Stored(n, Round(n)) THEN Value(key) ELSE NoValue
    BY <1>2, <1>3 DEF key, Workers, WorkerOK, TokensOK
  <2> QED BY <1>1, <1>2, <2>1, CallNumber
<1>5. NewValue(t) = IF Phase(n) \in {0, 1} THEN Value(key) ELSE NoValue
  BY <1>1, <1>2, <1>4 DEF NewValue
<1>6. /\ call'[t].answer = Reply(op, ValueOf(key)) /\ call'[t].key = key /\ call'[t].op = op
      /\ call'[t].value = call[t].value
      /\ \A u \in Threads \ {t} : call'[u] = call[u]
  <2>1. call[t] \in Calls /\ call \in [Threads -> Calls \cup {NoCall}]
    BY DEF IInv, InProgress, TypeOK
  <2>2. call'[t] = [call[t] EXCEPT !.answer = Reply(op, ValueOf(key))]
    BY <1>1, <2>1 DEF AnswersAndSets
  <2> QED BY <1>1, <2>1, <2>2 DEF AnswersAndSets, Calls
<1>7. WorkerOK(t)'
  <2>1. WorkerCallOK(t)'
    <3>1. made'[t] = n /\ n < CallsPerWorker
      BY DEF Workers, WorkerOK, WorkerCallOK
    <3>2. call'[t].answer = AnswerAlone(Phase(n), key)
      <4>1. Reply(op, ValueOf(key)) = AnswerAlone(Phase(n), key)
        BY <1>2, <1>4, ReplyAlone DEF Workers
      <4> QED BY <1>6, <4>1
    <3>3. Phase(n) = 0 => call'[t].value = Value(key)
      BY <1>1, <1>6
    <3> HIDE DEF n
    <3> QED BY <1>6, <3>1, <3>2, <3>3, Zenon DEF WorkerCallOK, key, op
  <2>2. ASSUME NEW i \in 0..(WorkSize - 1)
        PROVE  ValueOf(Token(t, i))' = IF Stored(n + 1, i) THEN Value(Token(t, i)) ELSE NoValue
    <3>1. CASE i = Round(n)
      <4>1. ValueOf(Token(t, i))' = NewValue(t)
        BY <1>1, <3>1 DEF AnswersAndSets, key
      <4> QED BY <1>1, <1>5, <3>1, <4>1, CallNumber DEF key
    <3>2. CASE i # Round(n)
      <4>1. Token(t, i) # key
        BY <1>2, <3>2, TokensDiffer, ClientParameters DEF key
      <4>2. ValueOf(Token(t, i))' = ValueOf(Token(t, i))
        BY <1>1, <4>1 DEF AnswersAndSets
      <4>3. ValueOf(Token(t, i)) = IF Stored(n, i) THEN Value(Token(t, i)) ELSE NoValue
        BY <1>3 DEF Workers, WorkerOK, TokensOK
      <4>4. Stored(n + 1, i) <=> Stored(n, i)
        BY <1>1, <3>2, CallNumber
      <4> QED BY <4>2, <4>3, <4>4
    <3> QED BY <3>1, <3>2
  <2>3. TokensOK(t)'
    BY <1>3, <2>2 DEF TokensOK
  <2> QED BY <2>1, <2>3 DEF WorkerOK, OutputOK, Workers
<1>8. ASSUME NEW u \in Threads \ {t} PROVE WorkerOK(u)'
  <2>1. ASSUME NEW i \in 0..(WorkSize - 1) PROVE ValueOf(Token(u, i))' = ValueOf(Token(u, i))
    <3>1. Token(u, i) # key
      BY <1>2, <1>8, TokensDiffer, ClientParameters DEF key
    <3> QED BY <1>1, <3>1 DEF AnswersAndSets
  <2> QED BY <1>6, <1>8, <2>1, OthersUndisturbed DEF Workers
<1> QED BY <1>7, <1>8

(* A call returns, and a get() has written to out if it found its token:   *)
(* the first one, at the latest.                                           *)
LEMMA WorkerReturn ==
  ASSUME IInv, ClientOK, Workers, NEW t \in Threads, Return(t), Record(t)
  PROVE  ClientOK' /\ \A u \in Threads : WorkerOK(u)'
<1> DEFINE n == made[t]
           key == Token(t, Round(n))
           op == <<"put", "get", "del", "get">>[Phase(n) + 1]
<1>1. /\ n \in 0..(CallsPerWorker - 1) /\ call[t].key = key /\ call[t].op = op
      /\ call[t].answer = AnswerAlone(Phase(n), key)
      /\ pc[t] = "return" /\ pc'[t] = "idle"
  BY WorkerParameters DEF Workers, WorkerOK, WorkerCallOK, ClientOK, CallsPerWorker,
                          Return, Goto, IInv, TypeOK
<1>2. /\ key \in Tokens(t) /\ Value(key) \in Values /\ Phase(n) \in 0..3
      /\ op = "get" <=> Phase(n) \in {1, 3}
  BY <1>1, PhaseAndRound, ProgramCall
<1> HIDE DEF key, op
<1>3. /\ made' = [made EXCEPT ![t] = n + 1] /\ n \in Nat
      /\ \/ Phase(n) = 1 /\ out' = [out EXCEPT ![t] = Value(key)]
         \/ Phase(n) # 1 /\ out' = out
  <2>1. Value(key) # NoValue
    BY <1>2, Parameters
  <2>2. out = [out EXCEPT ![t] = out[t]]
    BY DEF ClientOK
  <2>3. call[t].op = "get" /\ call[t].answer # NoValue <=> Phase(n) = 1
    BY <1>1, <1>2, <2>1 DEF AnswerAlone
  <2>4. Phase(n) = 1 => call[t].answer = Value(key)
    BY <1>1 DEF AnswerAlone
  <2>5. n \in Nat
    BY DEF ClientOK
  <2> QED BY <2>2, <2>3, <2>4, <2>5 DEF Record
<1>4. ClientOK'
  BY <1>2, <1>3 DEF ClientOK
<1>5. /\ made'[t] = n + 1 /\ pc'[t] = "idle"
      /\ \A u \in Threads \ {t} : /\ made'[u] = made[u] /\ out'[u] = out[u]
                                  /\ pc'[u] = pc[u] /\ call'[u] = call[u]
  BY <1>1, <1>3 DEF ClientOK, Return, Goto, IInv, TypeOK
<1>6. \A k : ValueOf(k)' = ValueOf(k)
  BY ValuesKept DEF Return
<1>7. WorkerOK(t)'
  <2>1. Effective(t)' = Effective(t)
    BY <1>1, <1>5 DEF Effective
  <2>2. TokensOK(t)'
    BY <1>6, <2>1 DEF TokensOK, WorkerOK, Workers
  <2>3. n + 1 >= 2 => out'[t] \in {Value(token) : token \in Tokens(t)}
    <3>1. CASE Phase(n) = 1
      BY <1>2, <1>3, <3>1 DEF ClientOK
    <3>2. CASE Phase(n) # 1
      <4>1. n # 1
        <5>1. Phase(1) = 1
          BY WorkerParameters DEF Phase
        <5> QED BY <3>2, <5>1
      <4>2. n + 1 >= 2 => n >= 2
        BY <1>3, <4>1
      <4> QED BY <1>3, <3>2, <4>2 DEF Workers, WorkerOK, OutputOK
    <3> QED BY <3>1, <3>2
  <2>4. made'[t] <= CallsPerWorker
    BY <1>1, <1>5, WorkerParameters DEF CallsPerWorker
  <2> QED BY <1>5, <2>2, <2>3, <2>4 DEF WorkerOK, WorkerCallOK, OutputOK
<1>8. ASSUME NEW u \in Threads \ {t} PROVE WorkerOK(u)'
  BY <1>5, <1>6, <1>8, OthersUndisturbed DEF Workers
<1> QED BY <1>4, <1>7, <1>8

LEMMA WorkerStep ==
  ASSUME IInv, ClientOK, Workers, NEW t \in Threads, BenchStep(t)
  PROVE  ClientOK' /\ \A u \in Threads : WorkerOK(u)'
<1>1. CASE Return(t)
  <2>1. Record(t)
    BY <1>1 DEF BenchStep, Workers, Return
  <2> QED BY <1>1, <2>1, WorkerReturn
<1>2. CASE ~Return(t)
  <2>1. pc[t] # "return" /\ Step(t)
    <3>1. Step(t)
      BY DEF BenchStep
    <3> QED BY <1>2, <3>1 DEF Step, OutOfBounds, Lock, Walk, Finish, Unlock, SetCall
  <2>2. UNCHANGED <<made, out>>
    BY <2>1 DEF BenchStep
  <2>3. ClientOK'
    BY <2>2 DEF ClientOK
  <2>4. CASE OutOfBounds(t)
    <3>1. call[t] \in Calls
      BY <2>4 DEF OutOfBounds, IInv, InProgress
    <3> QED BY <2>4, <3>1, InBounds DEF OutOfBounds, Workers
  <2>5. CASE Lock(t) \/ Walk(t) \/ Unlock(t)
    <3>1. /\ UNCHANGED <<chain, call>> /\ pc[t] # "idle"
          /\ pc'[t] \in {"unlock", "return"} <=> pc[t] \in {"unlock", "return"}
          /\ \A u \in Threads \ {t} : pc'[u] = pc[u]
      BY <2>5 DEF Lock, Walk, Unlock, Goto, IInv, TypeOK
    <3>2. \A k : ValueOf(k)' = ValueOf(k)
      BY <3>1, ValuesKept
    <3>3. WorkerOK(t)'
      BY <2>2, <3>1, <3>2, QuietStep DEF Workers
    <3>4. ASSUME NEW u \in Threads \ {t} PROVE WorkerOK(u)'
      BY <2>2, <3>1, <3>2, <3>4, OthersUndisturbed DEF Workers
    <3> QED BY <2>3, <3>3, <3>4
  <2>6. CASE Finish(t) \/ SetCall(t)
    <3>1. TakesEffect(t)
      BY <2>6, FinishTakesEffect DEF SetCall, TakesEffect
    <3>2. /\ pc[t] \in {"index", "walk"} /\ pc'[t] \in {"unlock", "return"}
          /\ Bucket(t) \in Buckets /\ UNCHANGED <<kind, version>>
          /\ \A u \in Threads \ {t} : pc'[u] = pc[u]
      BY <2>6 DEF Finish, SetCall, Goto, IInv, TypeOK, InProgress
    <3>3. OneNodePerKey'
      BY <3>1, <3>2, EffectKeeps
    <3>4. AnswersAndSets(t)
      BY <3>1, <3>2, <3>3, FoundAnswers, MissedAnswers DEF TakesEffect
    <3> QED BY <2>2, <2>3, <3>2, <3>4, WorkerEffect
  <2> QED BY <1>2, <2>1, <2>4, <2>5, <2>6 DEF Step
<1> QED BY <1>1, <1>2

LEMMA NextWorkers ==
  ASSUME IInv, WorkersInv, [BenchNext]_benchVars PROVE WorkersInv'
<1>1. UNCHANGED client /\ (client = "workers" => UNCHANGED version)
  BY DEF BenchNext, Joined, benchVars, vars, clientVars, AnyCall, WorkerCall, BenchStep, Call,
         Step, OutOfBounds, Lock, Walk, Finish, Unlock, SetCall, Return
<1>2. CASE client # "workers"
  <2>1. UNCHANGED <<made, out>>
    BY <1>2 DEF BenchNext, Joined, benchVars, clientVars, AnyCall, WorkerCall, BenchStep
  <2> QED BY <1>1, <1>2, <2>1 DEF WorkersInv, ClientOK
<1>3. CASE client = "workers"
  <2>1. ClientOK /\ Workers
    BY <1>3 DEF WorkersInv, Workers
  <2>2. ASSUME NEW t \in Threads, AnyCall(t) PROVE FALSE
    BY <1>3, <2>2 DEF AnyCall
  <2>3. ASSUME NEW t \in Threads, WorkerCall(t) PROVE WorkersInv'
    <3>1. ClientOK'
      BY <2>1, <2>3 DEF WorkerCall, clientVars, ClientOK
    <3> QED BY <1>1, <2>1, <2>3, <3>1, WorkerCallOfProgram DEF WorkersInv, Workers
  <2>4. ASSUME NEW t \in Threads, BenchStep(t) PROVE WorkersInv'
    BY <1>1, <2>1, <2>4, WorkerStep DEF WorkersInv, Workers
  <2>5. ASSUME UNCHANGED benchVars PROVE WorkersInv'
    <3>1. UNCHANGED <<call, pc, made, out, chain>>
      BY <2>5 DEF benchVars, vars, clientVars
    <3>2. \A k : ValueOf(k)' = ValueOf(k)
      BY <3>1, ValuesKept
    <3>3. \A u \in Threads : WorkerOK(u)'
      BY <2>1, <3>1, <3>2, OthersUndisturbed DEF Workers
    <3> QED BY <1>1, <2>1, <3>1, <3>3 DEF WorkersInv, Workers, ClientOK
  <2> QED BY <2>2, <2>3, <2>4, <2>5 DEF BenchNext, Joined
<1> QED BY <1>2, <1>3

LEMMA ClientInvariance == BenchSpec => [](IInv /\ WorkersInv)
<1>1. BenchInit => IInv /\ WorkersInv
  BY InitIInv, InitWorkers DEF BenchInit
<1>2. IInv /\ WorkersInv /\ [BenchNext]_benchVars => (IInv /\ WorkersInv)'
  <2> SUFFICES ASSUME IInv, WorkersInv, [BenchNext]_benchVars PROVE IInv' /\ WorkersInv'
    OBVIOUS
  <2>1. [Next]_vars
    BY ClientSteps DEF WorkersInv
  <2> QED BY <2>1, NextIInv, NextWorkers
<1> QED BY <1>1, <1>2, PTL DEF BenchSpec

(* What is proved of any threads holds of the tables' clients. *)
THEOREM ClientsAreThreads == BenchSpec => Spec
<1>1. BenchInit => Init
  BY DEF BenchInit
<1>2. (IInv /\ WorkersInv) /\ [BenchNext]_benchVars => [Next]_vars
  BY ClientSteps DEF WorkersInv
<1> QED BY <1>1, <1>2, ClientInvariance, PTL DEF BenchSpec, Spec

(* Workers with tokens of their own get the answers they would get alone,  *)
(* however many of them share a table, and a get() that is to find its     *)
(* token has left it in out; but for reading out before the first get().   *)
THEOREM AnswersAsIfAlone == BenchSpec => []WorkersUndisturbed
<1>1. IInv /\ WorkersInv => WorkersUndisturbed
  BY DEF WorkersInv, WorkerOK, WorkerCallOK, OutputOK, WorkersUndisturbed
<1> QED BY <1>1, ClientInvariance, PTL
=============================================================================
