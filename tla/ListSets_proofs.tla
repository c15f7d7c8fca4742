-------------------------- MODULE ListSets_proofs --------------------------
(***************************************************************************)
(* The three list sets, in both versions, for any finite set of threads    *)
(* and lists of any length: the list keeps its shape, a callback runs on a *)
(* locked, adjacent pair of nodes, and add, remove and contains take       *)
(* effect at one instant.  What is in the list is read off Reach, which    *)
(* InListIsFrom turns into the least set of nodes closed under the links;  *)
(* IInv then says what links, marks and mutexes have to do with each       *)
(* other, and there is one lemma per action on what it makes of IInv.      *)
(* At the end, the workers of benchSet: which of their tokens are there    *)
(* follows from how many of their calls have taken effect.                 *)
(***************************************************************************)
EXTENDS BenchSets, TLAPS, FiniteSetTheorems

(* What Reach computes, without recursion: the ends of the paths of at     *)
(* most i links that start at the head.                                    *)
Paths(k) == {p \in [0..k -> Nodes \cup {NoNode}] :
               /\ p[0] = Head
               /\ \A j \in 0..(k - 1) : p[j] \in Nodes /\ p[j + 1] = next[p[j]]}

Ends == [i \in Nat |-> {n \in Nodes \cup {NoNode} :
                          \E k \in 0..i : \E p \in Paths(k) : p[k] = n}]

Onwards(near) == near \cup {next[n] : n \in near \cap Nodes}

LEMMA EndsStep ==
  ASSUME next \in [Nodes -> Nodes \cup {NoNode}], NEW i \in Nat, i # 0
  PROVE  Ends[i] = Onwards(Ends[i - 1])
<1>1. ASSUME NEW n \in Ends[i] PROVE n \in Onwards(Ends[i - 1])
  <2>0. PICK k \in 0..i : \E p \in Paths(k) : p[k] = n
    BY <1>1 DEF Ends
  <2>1. PICK p \in Paths(k) : p[k] = n
    BY <2>0
  <2>2. n \in Nodes \cup {NoNode}
    BY <1>1 DEF Ends
  <2>3. CASE k # i
    <3>1. k \in 0..(i - 1) /\ i - 1 \in Nat
      BY <2>3
    <3> QED BY <2>1, <2>2, <3>1 DEF Ends, Onwards
  <2>4. CASE k = i
    <3> DEFINE q == [j \in 0..(i - 1) |-> p[j]]
    <3>1. q \in Paths(i - 1)
      BY <2>4 DEF Paths
    <3>2. p[i - 1] \in Nodes /\ p[i] = next[p[i - 1]] /\ i - 1 \in Nat
      BY <2>4 DEF Paths
    <3>3. q[i - 1] = p[i - 1] /\ i - 1 \in 0..(i - 1)
      BY <3>2
    <3>4. p[i - 1] \in Ends[i - 1]
      BY <3>1, <3>2, <3>3 DEF Ends
    <3> QED BY <2>1, <2>4, <3>2, <3>4 DEF Onwards
  <2> QED BY <2>3, <2>4
<1>2. ASSUME NEW n \in Onwards(Ends[i - 1]) PROVE n \in Ends[i]
  <2>0. i - 1 \in Nat
    OBVIOUS
  <2>1. CASE n \in Ends[i - 1]
    <3>1. PICK k \in 0..(i - 1) : \E p \in Paths(k) : p[k] = n
      BY <2>0, <2>1 DEF Ends
    <3>2. k \in 0..i /\ n \in Nodes \cup {NoNode}
      BY <2>0, <2>1 DEF Ends
    <3> QED BY <3>1, <3>2 DEF Ends
  <2>2. CASE n \notin Ends[i - 1]
    <3>1. PICK m \in Ends[i - 1] \cap Nodes : n = next[m]
      BY <1>2, <2>2 DEF Onwards
    <3>11. PICK k \in 0..(i - 1) : \E p \in Paths(k) : p[k] = m
      BY <2>0, <3>1 DEF Ends
    <3>2. PICK p \in Paths(k) : p[k] = m
      BY <3>11
    <3> DEFINE q == [j \in 0..(k + 1) |-> IF j = k + 1 THEN n ELSE p[j]]
    <3>3. n \in Nodes \cup {NoNode} /\ k \in Nat /\ k + 1 \in 0..i
      BY <3>1, <3>2
    <3>4. /\ p[0] = Head /\ p \in [0..k -> Nodes \cup {NoNode}]
          /\ \A j \in 0..(k - 1) : p[j] \in Nodes /\ p[j + 1] = next[p[j]]
      BY DEF Paths
    <3>5. \A j \in 0..k : q[j] \in Nodes /\ q[j + 1] = next[q[j]]
      BY <3>1, <3>2, <3>3, <3>4
    <3>6. q \in [0..(k + 1) -> Nodes \cup {NoNode}] /\ q[0] = Head
      BY <3>3, <3>4
    <3>7. q[k + 1] = n
      BY <3>3
    <3>8. q \in Paths(k + 1)
      <4>1. (k + 1) - 1 = k
        BY <3>3
      <4> HIDE DEF q
      <4> QED BY <3>5, <3>6, <4>1 DEF Paths
    <3> QED BY <3>3, <3>7, <3>8 DEF Ends
  <2> QED BY <2>1, <2>2
<1> QED BY <1>1, <1>2

LEMMA ReachEquation ==
  ASSUME next \in [Nodes -> Nodes \cup {NoNode}]
  PROVE  /\ Reach[0] = {Head}
         /\ \A i \in Nat \ {0} : Reach[i] = Onwards(Reach[i - 1])
<1> DEFINE IsReach(f) ==
             f = [i \in Nat |->
                    IF i = 0 THEN {Head}
                    ELSE LET near == f[i - 1]
                         IN  near \cup {next[n] : n \in near \cap Nodes}]
<1>1. Ends[0] = {Head}
  <2>1. Ends[0] \subseteq {Head}
    BY DEF Ends, Paths
  <2>2. Head \in Nodes
    BY Parameters DEF Head, Nodes, Tail
  <2>3. [j \in 0..0 |-> Head] \in Paths(0)
    BY <2>2 DEF Paths
  <2>4. [j \in 0..0 |-> Head][0] = Head /\ 0 \in 0..0
    OBVIOUS
  <2> QED BY <2>1, <2>2, <2>3, <2>4 DEF Ends
<1>2. IsReach(Ends)
  <2>1. \A i \in Nat \ {0} : Ends[i] = Onwards(Ends[i - 1])
    BY EndsStep
  <2> QED BY <1>1, <2>1 DEF Ends, Onwards
<1>3. IsReach(CHOOSE f : IsReach(f))
  <2> HIDE DEF IsReach
  <2> QED BY <1>2
<1>4. Reach = CHOOSE f : IsReach(f)
  BY DEF Reach
<1>5. IsReach(Reach)
  BY <1>3, <1>4
<1> HIDE DEF IsReach
<1> QED BY <1>5 DEF IsReach, Onwards
-----------------------------------------------------------------------------
(* The least set of nodes that contains o and is closed under links.  The  *)
(* links are a parameter, so that those before and after a step compare.   *)
LinksWithin(links, S) == \A m \in S : links[m] \in S \cup {NoNode}

From(links, o) ==
  {n \in Nodes : \A S \in SUBSET Nodes : o \in S /\ LinksWithin(links, S) => n \in S}

LEMMA FromProperties ==
  ASSUME NEW links \in [Nodes -> Nodes \cup {NoNode}], NEW o \in Nodes
  PROVE  /\ From(links, o) \in SUBSET Nodes
         /\ o \in From(links, o)
         /\ LinksWithin(links, From(links, o))
         /\ \A S \in SUBSET Nodes :
              o \in S /\ LinksWithin(links, S) => From(links, o) \subseteq S
<1>1. ASSUME NEW m \in From(links, o), links[m] # NoNode
      PROVE  links[m] \in From(links, o)
  <2>1. m \in Nodes /\ links[m] \in Nodes
    BY <1>1 DEF From
  <2>2. ASSUME NEW S \in SUBSET Nodes, o \in S, LinksWithin(links, S)
        PROVE  links[m] \in S
    BY <1>1, <2>2 DEF From, LinksWithin
  <2> QED BY <2>1, <2>2 DEF From
<1>2. LinksWithin(links, From(links, o))
  BY <1>1 DEF LinksWithin
<1> QED BY <1>2 DEF From

LEMMA LeastElement ==
  ASSUME NEW S \in SUBSET Nat, S # {}
  PROVE  \E n \in S : \A m \in S : n <= m
<1>1. PICK n \in S : \A m \in S : <<m, n>> \notin OpToRel(<, Nat)
  BY NatLessThanWellFounded, WFMin
<1>2. ASSUME NEW m \in S PROVE n <= m
  <2>1. <<m, n>> \notin OpToRel(<, Nat)
    BY <1>1
  <2> QED BY <2>1 DEF OpToRel
<1> QED BY <1>2

LEMMA InductiveSet ==
  ASSUME NEW S \in SUBSET Nat, 0 \in S, \A n \in S : n + 1 \in S
  PROVE  S = Nat
<1> SUFFICES ASSUME Nat \ S # {} PROVE FALSE
  OBVIOUS
<1>1. PICK n \in Nat \ S : \A m \in Nat \ S : n <= m
  BY LeastElement
<1>2. n # 0 /\ n - 1 \in Nat /\ n - 1 \notin Nat \ S /\ (n - 1) + 1 = n
  BY <1>1
<1> QED BY <1>1, <1>2

(* The head, the tail, and what add() allocated. *)
Live == {Head, Tail} \cup 1..allocated

LinksTyped ==
  /\ allocated \in 0..MaxNodes
  /\ next \in [Nodes -> Nodes \cup {NoNode}]
  /\ LinksWithin(next, Live)

LEMMA NodeNumbers ==
  ASSUME allocated \in 0..MaxNodes
  PROVE  /\ MaxNodes \in Nat /\ Head = 0 /\ Head \in Nodes /\ Tail \in Nodes
         /\ NoNode \notin Nodes /\ Head # Tail
         /\ Live \in SUBSET Nodes /\ IsFiniteSet(Live)
         /\ Cardinality(Live) <= allocated + 2
<1>1. /\ MaxNodes \in Nat /\ Head = 0 /\ Head \in Nodes /\ Tail \in Nodes
      /\ NoNode \notin Nodes /\ Head # Tail /\ Live \in SUBSET Nodes
  BY Parameters DEF Head, Tail, NoNode, Nodes, Live
<1>2. IsFiniteSet(1..allocated) /\ Cardinality(1..allocated) = allocated
  BY FS_Interval
<1>3. /\ IsFiniteSet((1..allocated) \cup {Head})
      /\ Cardinality((1..allocated) \cup {Head}) = allocated + 1
  <2>1. Head \notin 1..allocated
    BY <1>1
  <2> QED BY <1>2, <2>1, FS_AddElement
<1>4. /\ IsFiniteSet(((1..allocated) \cup {Head}) \cup {Tail})
      /\ Cardinality(((1..allocated) \cup {Head}) \cup {Tail}) <= allocated + 2
  BY <1>3, FS_AddElement
<1>5. Live = ((1..allocated) \cup {Head}) \cup {Tail}
  BY DEF Live
<1> QED BY <1>1, <1>4, <1>5

(* Reach has found all there is after as many steps as there are nodes.    *)
LEMMA InListIsFrom == LinksTyped => InList = From(next, Head)
<1> SUFFICES ASSUME LinksTyped PROVE InList = From(next, Head)
  OBVIOUS
<1> DEFINE N(i) == Reach[i] \cap Nodes
<1> USE DEF LinksTyped
<1>1. /\ N(0) = {Head}
      /\ \A i \in Nat :
           N(i + 1) = N(i) \cup ({next[n] : n \in N(i)} \cap Nodes)
  <2>1. N(0) = {Head}
    BY ReachEquation, NodeNumbers
  <2>2. ASSUME NEW i \in Nat
        PROVE  N(i + 1) = N(i) \cup ({next[n] : n \in N(i)} \cap Nodes)
    <3>1. Reach[i + 1] = Onwards(Reach[(i + 1) - 1])
      BY ReachEquation
    <3>2. Reach[i + 1] = Onwards(Reach[i])
      BY <3>1
    <3> QED BY <3>2 DEF Onwards
  <2> QED BY <2>1, <2>2
<1> HIDE DEF N
<1>2. ASSUME NEW S \in SUBSET Nodes, Head \in S, LinksWithin(next, S), NEW i \in Nat
      PROVE  N(i) \subseteq S
  <2> DEFINE I == {k \in Nat : N(k) \subseteq S}
  <2>1. ASSUME NEW k \in I PROVE k + 1 \in I
    <3>1. N(k) \subseteq S /\ k \in Nat
      BY <2>1
    <3>2. \A n \in N(k) : next[n] \in Nodes => next[n] \in S
      BY <3>1, <1>2, NodeNumbers DEF LinksWithin
    <3>3. N(k + 1) \subseteq S
      BY <1>1, <3>1, <3>2
    <3> QED BY <3>1, <3>3
  <2>2. 0 \in I /\ I \in SUBSET Nat
    BY <1>1, <1>2
  <2>3. I = Nat
    <3> HIDE DEF I
    <3> QED BY <2>1, <2>2, InductiveSet
  <2> QED BY <2>3
<1>3. ASSUME NEW i \in Nat, NEW j \in 0..i PROVE N(j) \subseteq N(i)
  <2> DEFINE I == {k \in Nat : \A l \in 0..k : N(l) \subseteq N(k)}
  <2>1. ASSUME NEW k \in I PROVE k + 1 \in I
    <3>1. N(k) \subseteq N(k + 1) /\ k \in Nat
      BY <1>1, <2>1
    <3>2. ASSUME NEW l \in 0..(k + 1) PROVE N(l) \subseteq N(k + 1)
      <4>1. l \in 0..k \/ l = k + 1
        BY <3>1
      <4> QED BY <2>1, <3>1, <4>1
    <3> QED BY <3>1, <3>2
  <2>2. 0 \in I /\ I \in SUBSET Nat
    OBVIOUS
  <2>3. I = Nat
    <3> HIDE DEF I
    <3> QED BY <2>1, <2>2, InductiveSet
  <2> QED BY <2>3
<1>4. ASSUME NEW i \in Nat
      PROVE  /\ N(i) \subseteq Live /\ IsFiniteSet(N(i))
             /\ Cardinality(N(i)) \in Nat /\ Cardinality(N(i)) <= allocated + 2
  <2>1. N(i) \subseteq Live
    BY <1>2, NodeNumbers DEF Live
  <2>2. Cardinality(Live) \in Nat
    BY NodeNumbers, FS_CardinalityType
  <2>3. IsFiniteSet(N(i)) /\ Cardinality(N(i)) <= Cardinality(Live)
    BY <2>1, NodeNumbers, FS_Subset
  <2> QED BY <2>1, <2>2, <2>3, NodeNumbers, FS_CardinalityType
<1>5. PICK j \in 0..(allocated + 1) : N(j + 1) = N(j)
  <2> SUFFICES ASSUME \A j \in 0..(allocated + 1) : N(j + 1) # N(j) PROVE FALSE
    OBVIOUS
  <2> DEFINE I == {k \in Nat : k <= allocated + 2 => Cardinality(N(k)) >= k + 1}
  <2>1. ASSUME NEW k \in I PROVE k + 1 \in I
    <3> SUFFICES ASSUME k + 1 <= allocated + 2 PROVE Cardinality(N(k + 1)) >= (k + 1) + 1
      OBVIOUS
    <3>1. k \in 0..(allocated + 1) /\ k + 1 \in Nat /\ Cardinality(N(k)) >= k + 1
      OBVIOUS
    <3>2. N(k) \subseteq N(k + 1) /\ N(k + 1) # N(k)
      BY <3>1, <1>1
    <3>3. /\ IsFiniteSet(N(k + 1)) /\ Cardinality(N(k)) \in Nat
          /\ Cardinality(N(k + 1)) \in Nat
      BY <3>1, <1>4
    <3>4. /\ Cardinality(N(k)) <= Cardinality(N(k + 1))
          /\ Cardinality(N(k)) # Cardinality(N(k + 1))
      BY <3>2, <3>3, FS_Subset
    <3> QED BY <3>1, <3>3, <3>4
  <2>2. 0 \in I /\ I \in SUBSET Nat
    <3>1. Cardinality(N(0)) = 1
      BY <1>1, FS_Singleton
    <3> QED BY <3>1
  <2>3. I = Nat
    <3> HIDE DEF I
    <3> QED BY <2>1, <2>2, InductiveSet
  <2>4. Cardinality(N(allocated + 2)) >= (allocated + 2) + 1
    BY <2>3
  <2> QED BY <2>4, <1>4
<1>6. Head \in N(j) /\ LinksWithin(next, N(j)) /\ N(j) \in SUBSET Nodes
  <2>1. Head \in N(j)
    BY <1>1, <1>3
  <2>2. N(j) \subseteq Nodes
    BY DEF N
  <2>3. ASSUME NEW n \in N(j) PROVE next[n] \in N(j) \cup {NoNode}
    BY <1>1, <1>5, <2>2, <2>3
  <2> QED BY <2>1, <2>2, <2>3 DEF LinksWithin
<1>7. InList = N(j)
  <2>1. N(allocated + 1) \subseteq N(j) /\ N(j) \subseteq N(allocated + 1)
    BY <1>2, <1>3, <1>6
  <2> QED BY <2>1 DEF InList, N
<1>8. From(next, Head) \subseteq InList
  BY <1>6, <1>7, FromProperties, NodeNumbers
<1>9. InList \subseteq From(next, Head)
  <2>1. \A S \in SUBSET Nodes : Head \in S /\ LinksWithin(next, S) => N(j) \subseteq S
    BY <1>2
  <2> QED BY <1>6, <1>7, <2>1 DEF From
<1> QED BY <1>8, <1>9
-----------------------------------------------------------------------------
(* What add() and remove() do to what links lead to: n is put behind p, or *)
(* the node behind p is taken out.                                         *)
Linked(links, new, p, n) ==
  /\ links \in [Nodes -> Nodes \cup {NoNode}] /\ new \in [Nodes -> Nodes \cup {NoNode}]
  /\ p \in Nodes /\ n \in Nodes /\ p # n /\ links[p] \in Nodes
  /\ new[n] = links[p] /\ new[p] = n
  /\ \A m \in Nodes \ {n, p} : new[m] = links[m]

Dropped(links, new, p, c) ==
  /\ links \in [Nodes -> Nodes \cup {NoNode}] /\ new \in [Nodes -> Nodes \cup {NoNode}]
  /\ p \in Nodes /\ c \in Nodes /\ c = links[p] /\ c # p /\ links[c] \in Nodes \ {c}
  /\ new[p] = links[c]
  /\ \A m \in Nodes \ {p} : new[m] = links[m]

LEMMA LinkedNodes ==
  ASSUME NEW links, NEW new, NEW p, NEW n, Linked(links, new, p, n),
         NEW o \in Nodes, n \notin From(links, o), NoNode \notin Nodes
  PROVE  /\ p \in From(links, o) => From(new, o) = From(links, o) \cup {n}
         /\ p \notin From(links, o) => From(new, o) = From(links, o)
<1> USE DEF Linked
<1> DEFINE old == From(links, o)
           now == From(new, o)
<1>1. /\ old \in SUBSET Nodes /\ o \in old /\ LinksWithin(links, old)
      /\ \A S \in SUBSET Nodes : o \in S /\ LinksWithin(links, S) => old \subseteq S
  BY FromProperties
<1>3. /\ now \in SUBSET Nodes /\ o \in now /\ LinksWithin(new, now)
      /\ \A S \in SUBSET Nodes : o \in S /\ LinksWithin(new, S) => now \subseteq S
  BY FromProperties
<1>4. /\ \A m \in Nodes \ {p, n} : new[m] = links[m]
      /\ new[p] = n
      /\ new[n] = links[p]
  OBVIOUS
<1> HIDE DEF old, now
<1>5. CASE p \notin old
  <2>1. LinksWithin(new, old) /\ LinksWithin(links, now \cap old)
    BY <1>1, <1>3, <1>4, <1>5 DEF LinksWithin, old
  <2>2. now \subseteq old
    BY <1>1, <1>3, <2>1
  <2>3. old \subseteq now \cap old
    BY <1>1, <1>3, <2>1
  <2> QED BY <1>5, <2>2, <2>3 DEF old, now
<1>6. CASE p \in old
  <2>1. p # n /\ links[p] \in old
    BY <1>1, <1>6 DEF LinksWithin, old
  <2>2. LinksWithin(new, old \cup {n})
    BY <1>1, <1>4, <2>1 DEF LinksWithin, old
  <2>3. now \subseteq old \cup {n}
    BY <1>1, <1>3, <2>2
  <2>4. ASSUME NEW m \in now \cap old PROVE links[m] \in (now \cap old) \cup {NoNode}
    <3>1. CASE m # p
      BY <1>1, <1>3, <1>4, <2>4, <3>1 DEF LinksWithin, old
    <3>2. CASE m = p
      <4>1. n \in now
        BY <1>3, <1>4, <2>4, <3>2 DEF LinksWithin
      <4>2. links[p] \in now
        BY <1>3, <1>4, <2>1, <4>1 DEF LinksWithin
      <4> QED BY <2>1, <3>2, <4>2
    <3> QED BY <3>1, <3>2
  <2>5. LinksWithin(links, now \cap old)
    BY <2>4 DEF LinksWithin
  <2>6. old \subseteq now
    BY <1>1, <1>3, <2>5
  <2>7. n \in now
    BY <1>3, <1>4, <1>6, <2>6 DEF LinksWithin
  <2> QED BY <1>6, <2>3, <2>6, <2>7 DEF old, now
<1> QED BY <1>5, <1>6

LEMMA UnlinkedNodes ==
  ASSUME NEW links, NEW new, NEW p, NEW c, Dropped(links, new, p, c),
         NEW o \in Nodes, NoNode \notin Nodes
  PROVE  From(new, o) \subseteq From(links, o)
<1> USE DEF Dropped
<1> DEFINE old == From(links, o)
<1>1. old \in SUBSET Nodes /\ o \in old /\ LinksWithin(links, old)
  BY FromProperties
<1> HIDE DEF old
<1>3. ASSUME NEW m \in old PROVE new[m] \in old \cup {NoNode}
  BY <1>1, <1>3 DEF LinksWithin
<1>4. From(new, o) \subseteq old
  BY <1>1, <1>3, FromProperties DEF LinksWithin
<1> QED BY <1>4 DEF old

LEMMA UnlinkedList ==
  ASSUME NEW links, NEW new, NEW p, NEW c, Dropped(links, new, p, c),
         NEW o \in Nodes, NoNode \notin Nodes, p \in From(links, o), c # o,
         \A m \in From(links, o) : links[m] = c => m = p
  PROVE  From(new, o) = From(links, o) \ {c}
<1> USE DEF Dropped
<1> DEFINE old == From(links, o)
           now == From(new, o)
<1>1. /\ old \in SUBSET Nodes /\ o \in old /\ LinksWithin(links, old)
      /\ \A S \in SUBSET Nodes : o \in S /\ LinksWithin(links, S) => old \subseteq S
  BY FromProperties
<1>3. /\ now \in SUBSET Nodes /\ o \in now /\ LinksWithin(new, now)
      /\ \A S \in SUBSET Nodes : o \in S /\ LinksWithin(new, S) => now \subseteq S
  BY FromProperties
<1>4. (\A m \in Nodes \ {p} : new[m] = links[m]) /\ new[p] = links[c] /\ p \in Nodes
  BY <1>1
<1>5. c \in old /\ links[c] \in old
  BY <1>1 DEF LinksWithin
<1>6. ASSUME NEW m \in old \ {c} PROVE new[m] \in (old \ {c}) \cup {NoNode}
  <2>1. CASE m = p
    BY <1>4, <1>5, <2>1
  <2>2. CASE m # p
    <3>1. links[m] \in old \cup {NoNode} /\ links[m] # c
      BY <1>1, <2>2 DEF LinksWithin
    <3> QED BY <1>1, <1>4, <2>2, <3>1
  <2> QED BY <2>1, <2>2
<1>7. LinksWithin(new, old \ {c}) /\ o \in old \ {c} /\ old \ {c} \in SUBSET Nodes
  BY <1>1, <1>6 DEF LinksWithin
<1> HIDE DEF old, now
<1>8. now \subseteq old \ {c}
  BY <1>3, <1>7
<1> DEFINE S == {m \in old : m \in now \/ (m = c /\ p \in now)}
<1>9. ASSUME NEW m \in S PROVE links[m] \in S \cup {NoNode}
  <2>0. m \in old /\ m \in Nodes /\ links[m] \in old \cup {NoNode}
    BY <1>1, <1>9 DEF LinksWithin
  <2>1. CASE m = c
    <3>1. p \in now
      BY <1>8, <1>9, <2>1
    <3>2. links[c] \in now
      BY <1>3, <1>4, <3>1 DEF LinksWithin
    <3> QED BY <1>5, <2>1, <3>2
  <2>2. CASE m # c /\ m = p
    BY <1>5, <1>9, <2>2
  <2>3. CASE m # c /\ m # p
    <3>1. m \in now /\ new[m] = links[m]
      BY <1>4, <1>9, <2>0, <2>3
    <3>2. links[m] \in now \cup {NoNode}
      BY <1>3, <3>1 DEF LinksWithin
    <3> QED BY <2>0, <3>2
  <2> QED BY <2>1, <2>2, <2>3
<1>10. LinksWithin(links, S) /\ o \in S /\ S \in SUBSET Nodes
  BY <1>1, <1>3, <1>9 DEF LinksWithin
<1>11. old \subseteq S
  <2> HIDE DEF S
  <2> QED BY <1>1, <1>10
<1>12. now = old \ {c}
  BY <1>8, <1>11
<1> QED BY <1>12 DEF old, now
-----------------------------------------------------------------------------
(* The order of the list: by keys, and by age where keys are the same.     *)
Before(m, n) == KeyOf(m) < KeyOf(n) \/ (KeyOf(m) = KeyOf(n) /\ m < n)
AtOrBefore(m, n) == m = n \/ Before(m, n)

(* Links, of nodes in the list and of nodes taken out, go forwards; only   *)
(* the tail has none.                                                      *)
Shape ==
  /\ LinksTyped
  /\ next[Tail] = NoNode
  /\ \A n \in Live \ {Tail} : next[n] \in Live /\ Before(n, next[n])
  /\ \A n \in Nodes : value[n] \in Elements <=> n \in 1..allocated

(* A link skips nothing that is in the list.  The link of a node taken out *)
(* may skip what came in later, but nothing of the key it leads to.        *)
Ordered ==
  /\ Tail \in InList
  /\ \A m \in InList \ {Tail}, n \in InList : Before(m, n) => AtOrBefore(next[m], n)
  /\ \A m \in Live \ {Tail}, n \in InList :
       Before(m, n) /\ KeyOf(next[m]) = KeyOf(n) /\ next[m] # Tail => AtOrBefore(next[m], n)
  /\ \A m, n \in Inner : value[m] = value[n] => m = n

(* LazySet: what was taken out is marked, and what is marked is about to   *)
(* be taken out.                                                           *)
Marks ==
  /\ \A n \in Nodes : deleted[n] => n \in 1..allocated
  /\ kind = "Lazy" => \A n \in (1..allocated) \ InList : deleted[n]
  /\ \A n \in InList : deleted[n] => \E t \in Threads : pc[t] = "unlink" /\ cur[t] = n

(* There is a node for every add() that may still need one. *)
Room == allocated + Cardinality(Adding) <= MaxNodes

InCall(t) ==
  /\ pc[t] = "idle" => call[t] = NoCall
  /\ pc[t] # "idle" =>
       call[t] \in Calls /\ (pc[t] = "return" <=> call[t].answer # "pending")
  /\ pc[t] = "unlink" =>
       kind = "Lazy" /\ call[t].op = "remove" /\ Found(t) /\ deleted[cur[t]]
  /\ pc[t] \in {"first", "handover"} => kind = "FineGrained"
  /\ pc[t] \in {"lockcur", "locked"} => kind # "FineGrained"
  /\ pc[t] \in {"check", "look"} => kind = "Optimistic"

Walking(t) ==
  pc[t] \in {"walk", "handover", "lockcur", "locked", "check", "look", "found", "unlink"}

(* find has passed only nodes that are not what it looks for; its element, *)
(* if it is in the list, comes after predecessor, and not before current   *)
(* unless current's key is another.                                        *)
WalkInv(t) ==
  Walking(t) =>
    /\ pred[t] \in Live \ {Tail} /\ cur[t] \in Live /\ Before(pred[t], cur[t])
    /\ KeyOf(pred[t]) <= Key[call[t].elem] /\ value[pred[t]] # call[t].elem
    /\ \A n \in InList : value[n] = call[t].elem => Before(pred[t], n)
    /\ cur[t] # Tail =>
         \A n \in InList :
           Before(pred[t], n) /\ KeyOf(cur[t]) = KeyOf(n) => AtOrBefore(cur[t], n)
    /\ pc[t] \notin {"walk", "handover"} => ~WalksOn(t)

(* The locks find holds; and where it knows that its pair is in the list.  *)
HandInHand(t) == pc[t] = "walk" /\ kind = "FineGrained"

PairInv(t) ==
  /\ pc[t] = "first" => pred[t] = Head /\ mutex[Head] = t
  /\ pc[t] \in {"lockcur", "handover"} => mutex[pred[t]] = t
  /\ pc[t] \in {"locked", "check", "look", "found", "unlink"} \/ HandInHand(t) =>
       mutex[pred[t]] = t /\ mutex[cur[t]] = t
  /\ pc[t] = "handover" =>
       /\ other[t] \in Live /\ Before(other[t], pred[t])
       /\ version = "C++" => mutex[other[t]] = t
  /\ pc[t] \in {"handover", "found", "unlink"} \/ HandInHand(t) =>
       pred[t] \in InList /\ next[pred[t]] = cur[t]

(* The second walk of OptimisticSet, which starts when predecessor is      *)
(* locked: if predecessor is out of the list, no link leads to it.         *)
CheckInv(t) ==
  /\ pc[t] = "look" => version = "Java"
  /\ pc[t] \in {"check", "look"} =>
       /\ other[t] \in Live
       /\ pred[t] \in From(next, other[t]) => pred[t] \in InList
       /\ ahead[t] # NoNode =>
            ahead[t] \in Live /\ (pred[t] \in From(next, ahead[t]) => pred[t] \in InList)
  /\ pc[t] = "check" /\ ahead[t] = NoNode => other[t] = Tail

ThreadInv(t) == InCall(t) /\ WalkInv(t) /\ PairInv(t) /\ CheckInv(t)

IInv ==
  /\ TypeOK /\ Shape /\ Ordered /\ Marks /\ Room
  /\ \A t \in Threads : ThreadInv(t)
-----------------------------------------------------------------------------
LEMMA InListIsFromNext == LinksTyped' => InList' = From(next', Head)
<1>1. (LinksTyped => InList = From(next, Head))'
  BY InListIsFrom, PTL
<1> QED BY <1>1 DEF From, LinksWithin

LEMMA ListNodes ==
  ASSUME Shape
  PROVE  /\ InList = From(next, Head) /\ InList \subseteq Live /\ Head \in InList
         /\ \A n \in InList \ {Tail} : next[n] \in InList
         /\ Live \subseteq Nodes /\ Head \in Live /\ Tail \in Live /\ NoNode \notin Nodes
<1>1. InList = From(next, Head) /\ Head \in Nodes
  BY InListIsFrom, NodeNumbers DEF Shape, LinksTyped
<1>2. /\ Head \in InList /\ LinksWithin(next, InList)
      /\ \A S \in SUBSET Nodes : Head \in S /\ LinksWithin(next, S) => InList \subseteq S
  BY <1>1, FromProperties DEF Shape, LinksTyped
<1>3. Head \in Live /\ Tail \in Live /\ Live \in SUBSET Nodes /\ NoNode \notin Nodes
  BY NodeNumbers DEF Live, Shape, LinksTyped
<1>4. InList \subseteq Live
  BY <1>2, <1>3 DEF Shape, LinksTyped
<1>5. \A n \in InList \ {Tail} : next[n] \in InList
  BY <1>2, <1>3, <1>4 DEF LinksWithin, Shape
<1> QED BY <1>1, <1>2, <1>3, <1>4, <1>5

LEMMA Numbers ==
  ASSUME Shape
  PROVE  /\ allocated \in Nat /\ allocated < Tail /\ Tail \in Nat /\ Head = 0
         /\ Head # Tail /\ TopKey \in Nat \ {0}
         /\ \A n \in Live : n \in Nat /\ KeyOf(n) \in 0..TopKey
         /\ KeyOf(Head) = 0 /\ KeyOf(Tail) = TopKey
         /\ value[Head] \notin Elements /\ value[Tail] \notin Elements
         /\ \A n \in 1..allocated :
              /\ n \in Live /\ n # Head /\ n # Tail
              /\ value[n] \in Elements /\ KeyOf(n) = Key[value[n]]
         /\ \A n \in Live \ {Tail} : n <= allocated
         /\ \A n \in Live \ {Head, Tail} : n \in 1..allocated
<1>1. /\ MaxNodes \in Nat /\ Head = 0 /\ Head # Tail /\ allocated \in 0..MaxNodes
      /\ Tail = MaxNodes + 1 /\ Tail \in Nodes /\ Head \in Nodes
  BY NodeNumbers DEF Shape, LinksTyped, Tail
<1>2. /\ allocated \in Nat /\ allocated < Tail /\ Tail \in Nat
      /\ Head \notin 1..allocated /\ Tail \notin 1..allocated
  BY <1>1
<1>3. ASSUME NEW n \in 1..allocated
      PROVE  /\ n \in Live /\ n # Head /\ n # Tail
             /\ value[n] \in Elements /\ KeyOf(n) = Key[value[n]]
             /\ KeyOf(n) \in 0..TopKey
  <2>1. n \in Nodes
    BY <1>1 DEF Nodes
  <2>2. n \in Live /\ n # Head /\ n # Tail
    BY <1>2 DEF Live
  <2>3. value[n] \in Elements /\ KeyOf(n) = Key[value[n]]
    BY <2>1, <2>2 DEF Shape, KeyOf
  <2> QED BY <2>2, <2>3, Parameters
<1>4. KeyOf(Head) = 0 /\ KeyOf(Tail) = TopKey /\ TopKey \in Nat \ {0}
  BY <1>1, Parameters DEF KeyOf
<1>5. value[Head] \notin Elements /\ value[Tail] \notin Elements
  BY <1>1, <1>2 DEF Shape
<1>6. \A n \in Live : n = Head \/ n = Tail \/ n \in 1..allocated
  BY DEF Live
<1>7. \A n \in Live : n \in Nat /\ KeyOf(n) \in 0..TopKey
  BY <1>1, <1>2, <1>3, <1>4, <1>6
<1> QED BY <1>1, <1>2, <1>3, <1>4, <1>5, <1>6, <1>7

(* Before is a strict total order of the nodes, head first and tail last.  *)
StrictOrder ==
  /\ \A n \in Live : ~Before(n, n)
  /\ \A m, n \in Live : m = n \/ Before(m, n) \/ Before(n, m)
  /\ \A m, n \in Live : Before(m, n) => ~Before(n, m) /\ KeyOf(m) <= KeyOf(n)
  /\ \A l, m, n \in Live : Before(l, m) /\ Before(m, n) => Before(l, n)
  /\ \A n \in Live : AtOrBefore(Head, n) /\ AtOrBefore(n, Tail)

LEMMA BeforeIsStrictOrder == Shape => StrictOrder
<1> SUFFICES ASSUME Shape PROVE StrictOrder
  OBVIOUS
<1> DEFINE K(n) == KeyOf(n)
<1>1. \A n \in Live : n \in Nat /\ K(n) \in Nat /\ K(n) <= TopKey
  BY Numbers
<1>2. /\ allocated < Tail /\ Tail \in Nat /\ Head = 0 /\ allocated \in Nat /\ TopKey \in Nat
      /\ K(Head) = 0 /\ K(Tail) = TopKey /\ Head \in Live /\ Tail \in Live
      /\ \A n \in Live \ {Tail} : n <= allocated
  BY Numbers, ListNodes
<1> HIDE DEF K
<1>3. \A m, n : Before(m, n) <=> K(m) < K(n) \/ (K(m) = K(n) /\ m < n)
  BY DEF Before, K
<1>4. \A m, n \in Live : m = n \/ Before(m, n) \/ Before(n, m)
  BY <1>1, <1>3
<1>5. \A m, n \in Live : Before(m, n) => ~Before(n, m) /\ K(m) <= K(n) /\ m # n
  BY <1>1, <1>3
<1>6. \A l, m, n \in Live : Before(l, m) /\ Before(m, n) => Before(l, n)
  BY <1>1, <1>3
<1>7. \A n \in Live : AtOrBefore(Head, n) /\ AtOrBefore(n, Tail)
  BY <1>1, <1>2, <1>3 DEF AtOrBefore
<1> QED BY <1>4, <1>5, <1>6, <1>7 DEF K, StrictOrder

LEMMA BeforeIsTotal ==
  ASSUME Shape
  PROVE  /\ \A n \in Live : ~Before(n, n)
         /\ \A m, n \in Live : m = n \/ Before(m, n) \/ Before(n, m)
         /\ \A m, n \in Live : Before(m, n) => ~Before(n, m) /\ KeyOf(m) <= KeyOf(n)
         /\ \A l, m, n \in Live : Before(l, m) /\ Before(m, n) => Before(l, n)
         /\ \A n \in Live : AtOrBefore(Head, n) /\ AtOrBefore(n, Tail)
BY BeforeIsStrictOrder DEF StrictOrder

LEMMA BeforeIsStrictOrderNext == Shape' => StrictOrder'
BY BeforeIsStrictOrder, PTL

(* A node in the list has one node in the list before it. *)
LEMMA OnePredecessor ==
  ASSUME Shape, Ordered, NEW m \in InList \ {Tail}, NEW n \in InList \ {Tail},
         next[m] = next[n]
  PROVE  m = n
<1>1. ASSUME NEW a \in InList \ {Tail}, NEW b \in InList \ {Tail}, Before(a, b),
             next[a] = next[b]
      PROVE  FALSE
  <2>1. AtOrBefore(next[a], b) /\ a \in Live /\ b \in Live
    BY <1>1, ListNodes DEF Ordered
  <2>2. Before(b, next[b]) /\ next[b] \in Live
    BY <2>1 DEF Shape
  <2> QED BY <1>1, <2>1, <2>2, BeforeIsTotal DEF AtOrBefore
<1>2. m \in Live /\ n \in Live
  BY ListNodes
<1> QED BY <1>1, <1>2, BeforeIsTotal
-----------------------------------------------------------------------------
(* Steps that leave the nodes' links alone. *)
LEMMA SameHeap ==
  ASSUME Shape, UNCHANGED <<allocated, next, value>>
  PROVE  /\ Shape' /\ InList' = InList /\ Live' = Live /\ Inner' = Inner
         /\ \A n : KeyOf(n)' = KeyOf(n)
         /\ \A m, n : (Before(m, n)' <=> Before(m, n)) /\ (AtOrBefore(m, n)' <=> AtOrBefore(m, n))
<1>1. Live' = Live
  BY DEF Live
<1>2. \A n : KeyOf(n)' = KeyOf(n)
  BY DEF KeyOf
<1>3. \A m, n : (Before(m, n)' <=> Before(m, n)) /\ (AtOrBefore(m, n)' <=> AtOrBefore(m, n))
  BY <1>2 DEF Before, AtOrBefore
<1>4. LinksTyped'
  BY <1>1 DEF Shape, LinksTyped, LinksWithin
<1>5. InList' = InList
  BY <1>4, ListNodes, InListIsFromNext
<1>6. Shape'
  BY <1>1, <1>3, <1>4 DEF Shape
<1> QED BY <1>1, <1>2, <1>3, <1>5, <1>6 DEF Inner

(* What a step of another leaves as it is for thread t. *)
Undisturbed(t) ==
  /\ pc'[t] = pc[t] /\ call'[t] = call[t]
  /\ pred'[t] = pred[t] /\ cur'[t] = cur[t] /\ other'[t] = other[t] /\ ahead'[t] = ahead[t]
  /\ \A n \in Nodes : mutex[n] = t => mutex'[n] = t
  /\ \A n \in Nodes : deleted[n] => deleted'[n]
  /\ UNCHANGED <<kind, version>>

LEMMA OthersUndisturbed ==
  ASSUME Shape, NEW t \in Threads, ThreadInv(t), Undisturbed(t),
         UNCHANGED <<allocated, next, value>>
  PROVE  ThreadInv(t)'
<1>1. /\ InList' = InList /\ Live' = Live
      /\ \A n : KeyOf(n)' = KeyOf(n)
      /\ \A m, n : (Before(m, n)' <=> Before(m, n)) /\ (AtOrBefore(m, n)' <=> AtOrBefore(m, n))
  BY SameHeap
<1>2. Head \in Live /\ Live \subseteq Nodes
  BY ListNodes
<1>3. (Found(t)' <=> Found(t)) /\ (WalksOn(t)' <=> WalksOn(t))
  BY <1>1 DEF Found, WalksOn, Undisturbed
<1>4. Walking(t) => pred[t] \in Live /\ cur[t] \in Live
  BY DEF ThreadInv, WalkInv
<1>5. InCall(t)'
  BY <1>2, <1>3, <1>4 DEF ThreadInv, InCall, Undisturbed, Walking
<1>6. WalkInv(t)'
  BY <1>1, <1>3 DEF ThreadInv, WalkInv, Undisturbed, Walking
<1>7. PairInv(t)'
  BY <1>1, <1>2, <1>4 DEF ThreadInv, PairInv, Undisturbed, Walking, HandInHand
<1>8. CheckInv(t)'
  BY <1>1 DEF ThreadInv, CheckInv, Undisturbed, From, LinksWithin
<1> QED BY <1>5, <1>6, <1>7, <1>8 DEF ThreadInv

(* A step of u that leaves the heap alone. *)
LEMMA QuietStep ==
  ASSUME IInv, NEW u \in Threads, UNCHANGED <<kind, version, heap>>, pc[u] # "unlink",
         \A t \in Threads \ {u} : Undisturbed(t),
         TypeOK', Room', ThreadInv(u)'
  PROVE  IInv'
<1> USE DEF IInv
<1>1. /\ Shape' /\ InList' = InList /\ Live' = Live /\ Inner' = Inner
      /\ \A n : KeyOf(n)' = KeyOf(n)
      /\ \A m, n : (Before(m, n)' <=> Before(m, n)) /\ (AtOrBefore(m, n)' <=> AtOrBefore(m, n))
  BY SameHeap DEF heap
<1>2. Ordered'
  BY <1>1 DEF Ordered, heap
<1>3. Marks'
  <2>0. \A n \in Nodes : deleted'[n] => n \in 1..allocated'
    BY DEF Marks, heap
  <2>1. kind' = "Lazy" => \A n \in (1..allocated') \ InList' : deleted'[n]
    BY <1>1 DEF Marks, heap
  <2>2. ASSUME NEW n \in InList', deleted'[n]
        PROVE  \E t \in Threads : pc'[t] = "unlink" /\ cur'[t] = n
    <3>1. PICK t \in Threads : pc[t] = "unlink" /\ cur[t] = n
      BY <1>1, <2>2 DEF Marks, heap
    <3> QED BY <3>1 DEF Undisturbed
  <2> QED BY <2>0, <2>1, <2>2 DEF Marks
<1>4. ASSUME NEW t \in Threads PROVE ThreadInv(t)'
  BY <1>4, OthersUndisturbed DEF heap
<1> QED BY <1>1, <1>2, <1>3, <1>4
-----------------------------------------------------------------------------
(* find's way through the list. *)
Passed(t, m) ==
  /\ m \in Live \ {Tail}
  /\ KeyOf(m) <= Key[call[t].elem] /\ value[m] # call[t].elem
  /\ \A n \in InList : value[n] = call[t].elem => Before(m, n)

LEMMA PassedHead ==
  ASSUME IInv, NEW t \in Threads, call[t] \in Calls
  PROVE  Passed(t, Head) /\ call[t].elem \in Elements /\ Key[call[t].elem] \in 0..TopKey
<1>1. call[t].elem \in Elements /\ Key[call[t].elem] \in 0..TopKey
  BY Parameters DEF Calls
<1>2. Head \in Live \ {Tail} /\ KeyOf(Head) = 0 /\ value[Head] \notin Elements
  BY Numbers, ListNodes DEF IInv
<1>3. \A n \in InList : n # Head => Before(Head, n)
  BY ListNodes, BeforeIsTotal DEF IInv, AtOrBefore
<1> QED BY <1>1, <1>2, <1>3 DEF Passed

LEMMA PassedCurrent ==
  ASSUME IInv, NEW t \in Threads, Walking(t), WalksOn(t)
  PROVE  Passed(t, cur[t])
<1> DEFINE e == call[t].elem
           m == cur[t]
<1>1. call[t] \in Calls /\ WalkInv(t)
  BY DEF IInv, ThreadInv, InCall, Walking
<1>2. m \in Live \ {Tail} /\ KeyOf(m) <= Key[e] /\ e \in Elements /\ Key[e] \in 0..TopKey
  BY <1>1, PassedHead DEF WalksOn, WalkInv, IInv, Shape
<1>3. value[m] # e
  <2>1. SUFFICES ASSUME value[m] = e PROVE FALSE
    OBVIOUS
  <2>2. m # Head /\ m \in 1..allocated
    BY <1>2, <2>1, Numbers DEF IInv
  <2>3. KeyOf(m) = Key[e]
    BY <2>1, <2>2, Numbers DEF IInv
  <2> QED BY <2>1, <2>3 DEF WalksOn
<1>4. ASSUME NEW n \in InList, value[n] = e PROVE Before(m, n)
  <2>1. Before(pred[t], n)
    BY <1>1, <1>4 DEF WalkInv
  <2>2. n \in Live /\ n # Head /\ n # Tail
    BY <1>2, <1>4, ListNodes, Numbers DEF IInv
  <2>3. KeyOf(n) = Key[e] /\ m # n
    BY <1>3, <1>4, <2>2, Numbers DEF IInv
  <2>4. CASE KeyOf(m) = Key[e]
    <3>1. AtOrBefore(m, n)
      BY <1>1, <1>2, <2>1, <2>3, <2>4 DEF WalkInv
    <3> QED BY <2>3, <3>1 DEF AtOrBefore
  <2>5. CASE KeyOf(m) # Key[e]
    <3>1. KeyOf(m) \in Nat
      BY <1>2, Numbers DEF IInv
    <3> QED BY <1>2, <2>3, <2>5, <3>1 DEF Before
  <2> QED BY <2>4, <2>5
<1> QED BY <1>2, <1>3, <1>4 DEF Passed

LEMMA NextNode ==
  ASSUME IInv, NEW m \in Live \ {Tail}
  PROVE  /\ next[m] \in Live /\ Before(m, next[m])
         /\ next[m] # Tail =>
              \A n \in InList :
                Before(m, n) /\ KeyOf(next[m]) = KeyOf(n) => AtOrBefore(next[m], n)
BY DEF IInv, Shape, Ordered

(* Where a step takes find one node on: to the head, or to current. *)
LEMMA Advance ==
  ASSUME IInv, NEW t \in Threads, NEW m, Passed(t, m), UNCHANGED <<heap, call>>,
         pred'[t] = m, cur'[t] = next[m], pc'[t] \in {"walk", "handover"}
  PROVE  WalkInv(t)'
<1>1. /\ InList' = InList /\ Live' = Live
      /\ \A n : KeyOf(n)' = KeyOf(n)
      /\ \A a, b : (Before(a, b)' <=> Before(a, b)) /\ (AtOrBefore(a, b)' <=> AtOrBefore(a, b))
  BY SameHeap DEF heap, IInv
<1>2. /\ m \in Live \ {Tail} /\ next[m] \in Live /\ Before(m, next[m])
      /\ next[m] # Tail =>
              \A n \in InList :
                Before(m, n) /\ KeyOf(next[m]) = KeyOf(n) => AtOrBefore(next[m], n)
  BY NextNode DEF Passed
<1> QED BY <1>1, <1>2 DEF Passed, WalkInv, heap

LEMMA RoomKept == ASSUME Room, UNCHANGED <<allocated, call>> PROVE Room'
<1>1. Adding' = Adding
  BY DEF Adding
<1> QED BY <1>1 DEF Room

(* Steps of the walks without locks. *)
LEMMA StartWalkIInv ==
  ASSUME IInv, NEW u \in Threads, StartWalk(u), kind # "FineGrained"
  PROVE  IInv'
<1> USE DEF StartWalk, Goto, IInv
<1>1. call[u] \in Calls
  BY DEF ThreadInv, InCall
<1>2. next[Head] \in Live /\ Live \subseteq Nodes /\ Head \in Nodes
  BY <1>1, PassedHead, NextNode, ListNodes DEF Passed
<1>3. TypeOK'
  BY <1>2 DEF TypeOK, heap, locals
<1>4. Room'
  BY RoomKept DEF heap
<1>5. pc'[u] = "walk" /\ pred'[u] = Head /\ cur'[u] = next[Head]
  BY DEF TypeOK
<1>6. \A t \in Threads \ {u} : Undisturbed(t)
  BY DEF Undisturbed, TypeOK, heap
<1>7. ThreadInv(u)'
  <2>1. WalkInv(u)'
    BY <1>1, <1>5, PassedHead, Advance
  <2>2. InCall(u)' /\ PairInv(u)' /\ CheckInv(u)'
    BY <1>1, <1>5 DEF ThreadInv, InCall, PairInv, HandInHand, CheckInv
  <2> QED BY <2>1, <2>2 DEF ThreadInv
<1> QED BY <1>3, <1>4, <1>6, <1>7, QuietStep

LEMMA WalkIInv ==
  ASSUME IInv, NEW u \in Threads, Walk(u), kind # "FineGrained"
  PROVE  IInv'
<1> USE DEF Walk, Goto, IInv
<1>1. call[u] \in Calls /\ Passed(u, cur[u])
  BY PassedCurrent DEF ThreadInv, InCall, Walking
<1>2. next[cur[u]] \in Live /\ Live \subseteq Nodes
  BY <1>1, NextNode, ListNodes DEF Passed
<1>3. TypeOK'
  BY <1>2 DEF TypeOK, heap
<1>4. Room'
  BY RoomKept DEF heap
<1>5. pc'[u] = "walk" /\ pred'[u] = cur[u] /\ cur'[u] = next[cur[u]]
  BY DEF TypeOK
<1>6. \A t \in Threads \ {u} : Undisturbed(t)
  BY DEF Undisturbed, TypeOK, heap
<1>7. ThreadInv(u)'
  <2>1. WalkInv(u)'
    BY <1>1, <1>5, Advance
  <2>2. InCall(u)' /\ PairInv(u)' /\ CheckInv(u)'
    BY <1>1, <1>5 DEF ThreadInv, InCall, PairInv, HandInHand, CheckInv
  <2> QED BY <2>1, <2>2 DEF ThreadInv
<1> QED BY <1>3, <1>4, <1>6, <1>7, QuietStep
-----------------------------------------------------------------------------
(* find stays where it is. *)
LEMMA StayPut ==
  ASSUME IInv, NEW t \in Threads, Walking(t), UNCHANGED <<heap, call>>,
         pred'[t] = pred[t], cur'[t] = cur[t],
         pc'[t] \in {"walk", "handover"} \/ ~WalksOn(t)
  PROVE  WalkInv(t)'
<1>1. /\ InList' = InList /\ Live' = Live
      /\ \A n : KeyOf(n)' = KeyOf(n)
      /\ \A a, b : (Before(a, b)' <=> Before(a, b)) /\ (AtOrBefore(a, b)' <=> AtOrBefore(a, b))
  BY SameHeap DEF heap, IInv
<1>2. WalksOn(t)' <=> WalksOn(t)
  BY <1>1 DEF WalksOn, heap
<1> QED BY <1>1, <1>2 DEF IInv, ThreadInv, WalkInv, heap

(* The pair find works on: two nodes, predecessor first. *)
LEMMA PairOfTwo ==
  ASSUME IInv, NEW t \in Threads, Walking(t)
  PROVE  /\ call[t] \in Calls /\ pred[t] \in Live \ {Tail} /\ cur[t] \in Live
         /\ pred[t] # cur[t] /\ pred[t] \in Nodes /\ cur[t] \in Nodes
<1>1. /\ call[t] \in Calls /\ pred[t] \in Live \ {Tail} /\ cur[t] \in Live
      /\ Before(pred[t], cur[t])
  BY DEF IInv, ThreadInv, InCall, Walking, WalkInv
<1> QED BY <1>1, ListNodes, BeforeIsTotal DEF IInv

LEMMA LockBothIInv ==
  ASSUME IInv, NEW u \in Threads, LockBoth(u), kind # "FineGrained"
  PROVE  IInv'
<1> USE DEF LockBoth, Goto, IInv
<1>1. /\ pred[u] \in Nodes /\ cur[u] \in Nodes /\ call[u] \in Calls
      /\ Walking(u) /\ NoThread \notin Threads
  BY PairOfTwo, Parameters DEF Walking
<1>2. TypeOK' /\ pc'[u] = "locked"
  BY <1>1 DEF TypeOK, heap, locals
<1>3. Room'
  BY RoomKept DEF heap
<1>4. mutex'[pred[u]] = u /\ mutex'[cur[u]] = u
  BY <1>1 DEF TypeOK
<1>5. \A t \in Threads \ {u} : Undisturbed(t)
  BY <1>1 DEF Undisturbed, TypeOK, heap, locals
<1>6. ThreadInv(u)'
  <2>1. WalkInv(u)'
    BY <1>1, StayPut DEF locals
  <2>2. InCall(u)' /\ PairInv(u)' /\ CheckInv(u)'
    BY <1>1, <1>2, <1>4
    DEF ThreadInv, InCall, PairInv, HandInHand, CheckInv, locals
  <2> QED BY <2>1, <2>2 DEF ThreadInv
<1> QED BY <1>2, <1>3, <1>5, <1>6, QuietStep

LEMMA LockPredIInv ==
  ASSUME IInv, NEW u \in Threads, LockPred(u), kind # "FineGrained"
  PROVE  IInv'
<1> USE DEF LockPred, Goto, IInv
<1>1. /\ pred[u] \in Nodes /\ cur[u] \in Nodes /\ call[u] \in Calls
      /\ Walking(u) /\ NoThread \notin Threads
  BY PairOfTwo, Parameters DEF Walking
<1>2. TypeOK' /\ pc'[u] = "lockcur"
  BY <1>1 DEF TypeOK, heap, locals
<1>3. Room'
  BY RoomKept DEF heap
<1>4. mutex'[pred[u]] = u
  BY <1>1 DEF TypeOK
<1>5. \A t \in Threads \ {u} : Undisturbed(t)
  BY <1>1 DEF Undisturbed, TypeOK, heap, locals
<1>6. ThreadInv(u)'
  <2>1. WalkInv(u)'
    BY <1>1, StayPut DEF locals
  <2>2. InCall(u)' /\ PairInv(u)' /\ CheckInv(u)'
    BY <1>1, <1>2, <1>4
    DEF ThreadInv, InCall, PairInv, HandInHand, CheckInv, locals
  <2> QED BY <2>1, <2>2 DEF ThreadInv
<1> QED BY <1>2, <1>3, <1>5, <1>6, QuietStep

LEMMA LockCurIInv ==
  ASSUME IInv, NEW u \in Threads, LockCur(u)
  PROVE  IInv'
<1> USE DEF LockCur, Goto, IInv
<1>1. /\ pred[u] \in Nodes /\ cur[u] \in Nodes /\ call[u] \in Calls
      /\ Walking(u) /\ NoThread \notin Threads
  BY PairOfTwo, Parameters DEF Walking
<1>2. TypeOK' /\ pc'[u] = "locked"
  BY <1>1 DEF TypeOK, heap, locals
<1>3. Room'
  BY RoomKept DEF heap
<1>4. mutex[pred[u]] = u /\ kind # "FineGrained" /\ ~WalksOn(u)
  BY <1>1 DEF ThreadInv, PairInv, InCall, WalkInv
<1>5. mutex'[pred[u]] = u /\ mutex'[cur[u]] = u
  BY <1>1, <1>4 DEF TypeOK
<1>6. \A t \in Threads \ {u} : Undisturbed(t)
  BY <1>1 DEF Undisturbed, TypeOK, heap, locals
<1>7. ThreadInv(u)'
  <2>1. WalkInv(u)'
    BY <1>1, <1>4, StayPut DEF locals
  <2>2. InCall(u)' /\ PairInv(u)' /\ CheckInv(u)'
    BY <1>1, <1>2, <1>4, <1>5
    DEF ThreadInv, InCall, PairInv, HandInHand, CheckInv, locals
  <2> QED BY <2>1, <2>2 DEF ThreadInv
<1> QED BY <1>2, <1>3, <1>6, <1>7, QuietStep

(* A thread that gives up its locks and starts over, or returns. *)
LEMMA UnlockedOwn ==
  ASSUME TypeOK, NEW u \in Threads
  PROVE  /\ Unlocked(u) \in [Nodes -> Threads \cup {NoThread}]
         /\ \A t \in Threads \ {u}, n \in Nodes : mutex[n] = t => Unlocked(u)[n] = t
BY DEF TypeOK, Unlocked

LEMMA RetryIInv ==
  ASSUME IInv, NEW u \in Threads, Retry(u), pc[u] \in {"locked", "check"}
  PROVE  IInv'
<1> USE DEF Retry, Forget, Goto, IInv
<1>1. call[u] \in Calls /\ call[u].answer = "pending" /\ Head \in Nodes
  BY ListNodes DEF ThreadInv, InCall
<1>2. TypeOK' /\ pc'[u] = "start"
  BY <1>1, UnlockedOwn DEF TypeOK, heap
<1>3. Room'
  BY RoomKept DEF heap
<1>4. \A t \in Threads \ {u} : Undisturbed(t)
  BY UnlockedOwn DEF Undisturbed, TypeOK, heap
<1>5. ThreadInv(u)'
  BY <1>1, <1>2 DEF ThreadInv, InCall, WalkInv, Walking, PairInv, HandInHand, CheckInv
<1> QED BY <1>2, <1>3, <1>4, <1>5, QuietStep

(* LazySet: a predecessor without a mark is in the list. *)
LEMMA SeeUnmarkedIInv ==
  ASSUME IInv, NEW u \in Threads, SeeUnmarked(u), kind = "Lazy"
  PROVE  IInv'
<1> USE DEF SeeUnmarked, Unmarked, Goto, IInv
<1>1. /\ pred[u] \in Live \ {Tail} /\ call[u] \in Calls /\ call[u].answer = "pending"
      /\ Walking(u) /\ pred[u] \in Nodes /\ cur[u] \in Nodes
  BY PairOfTwo DEF Walking, ThreadInv, InCall
<1>2. TypeOK' /\ pc'[u] = "found"
  BY DEF TypeOK, heap, locals
<1>3. Room'
  BY RoomKept DEF heap
<1>4. mutex[pred[u]] = u /\ mutex[cur[u]] = u /\ ~WalksOn(u)
  BY <1>1 DEF ThreadInv, PairInv, WalkInv
<1>5. pred[u] \in InList
  <2>1. CASE pred[u] = Head
    BY <2>1, ListNodes
  <2>2. CASE pred[u] # Head
    <3>1. pred[u] \in 1..allocated
      BY <1>1, <2>2, Numbers
    <3> QED BY <3>1 DEF Marks
  <2> QED BY <2>1, <2>2
<1>6. InList' = InList
  BY SameHeap DEF heap
<1>7. \A t \in Threads \ {u} : Undisturbed(t)
  BY <1>1 DEF Undisturbed, TypeOK, heap, locals
<1>8. ThreadInv(u)'
  <2>1. WalkInv(u)'
    BY <1>1, <1>4, StayPut DEF locals
  <2>2. InCall(u)' /\ PairInv(u)' /\ CheckInv(u)'
    BY <1>1, <1>2, <1>4, <1>5, <1>6
    DEF ThreadInv, InCall, PairInv, HandInHand, CheckInv, locals, heap
  <2> QED BY <2>1, <2>2 DEF ThreadInv
<1> QED BY <1>2, <1>3, <1>7, <1>8, QuietStep
-----------------------------------------------------------------------------
(* OptimisticSet's second walk. *)
LEMMA FromNext ==
  ASSUME NEW links \in [Nodes -> Nodes \cup {NoNode}], NEW m \in Nodes, links[m] \in Nodes
  PROVE  From(links, links[m]) \subseteq From(links, m)
<1>1. /\ From(links, m) \in SUBSET Nodes /\ m \in From(links, m)
      /\ LinksWithin(links, From(links, m))
  BY FromProperties
<1>2. links[m] \in From(links, m) \cup {NoNode}
  BY <1>1 DEF LinksWithin
<1>3. CASE links[m] = NoNode
  <2>1. NoNode \notin Nodes
    BY Parameters DEF NoNode, Nodes, Tail
  <2> QED BY <1>3, <2>1
<1>4. CASE links[m] \in From(links, m)
  BY <1>1, <1>4, FromProperties
<1> QED BY <1>2, <1>3, <1>4

(* Two elements with the tail's key would lead it off the list. *)
LEMMA ChecksWithinList ==
  ASSUME IInv, NEW u \in Threads, pc[u] = "check", ChecksOn(u)
  PROVE  other[u] # Tail /\ ahead[u] # NoNode
<1> DEFINE e == call[u].elem
           p == pred[u]
<1>1. /\ p \in Live \ {Tail} /\ KeyOf(p) <= Key[e] /\ value[p] # e
      /\ e \in Elements /\ Key[e] \in 0..TopKey /\ other[u] \in Live
  BY PairOfTwo, PassedHead DEF Walking, IInv, ThreadInv, WalkInv, CheckInv
<1>2. KeyOf(p) \in 0..TopKey /\ KeyOf(p) # TopKey /\ TopKey \in Nat
  <2>1. KeyOf(p) \in 0..TopKey /\ TopKey \in Nat /\ TopKey # 0 /\ KeyOf(Head) = 0
    BY <1>1, Numbers DEF IInv
  <2>2. SUFFICES ASSUME KeyOf(p) = TopKey PROVE FALSE
    BY <2>1
  <2>3. Key[e] = TopKey /\ p # Head
    BY <1>1, <2>1, <2>2
  <2>4. value[p] \in Elements /\ KeyOf(p) = Key[value[p]]
    BY <1>1, <2>3, Numbers DEF IInv
  <2> QED BY <1>1, <2>2, <2>3, <2>4, Parameters
<1>3. other[u] # Tail
  <2>1. KeyOf(Tail) = TopKey
    BY Numbers DEF IInv
  <2> QED BY <1>2, <2>1 DEF ChecksOn
<1> QED BY <1>3 DEF IInv, ThreadInv, CheckInv

(* What the steps of the second walk have in common. *)
LEMMA CheckStep ==
  ASSUME IInv, NEW u \in Threads, pc[u] \in {"locked", "check", "look"}, kind = "Optimistic",
         UNCHANGED <<kind, version, heap, mutex, call, pred, cur>>,
         pc' = [pc EXCEPT ![u] = pc'[u]], pc'[u] \in {"check", "look"},
         other' = [other EXCEPT ![u] = other'[u]], other'[u] \in Live,
         ahead' = [ahead EXCEPT ![u] = ahead'[u]], ahead'[u] \in Live \cup {NoNode},
         pred[u] \in From(next, other'[u]) => pred[u] \in InList,
         ahead'[u] # NoNode => (pred[u] \in From(next, ahead'[u]) => pred[u] \in InList),
         pc'[u] = "look" => version = "Java",
         pc'[u] = "check" /\ ahead'[u] = NoNode => other'[u] = Tail
  PROVE  IInv'
<1> USE DEF IInv
<1>1. Walking(u) /\ call[u] \in Calls /\ Live \subseteq Nodes /\ call[u].answer = "pending"
  BY PairOfTwo, ListNodes DEF Walking, ThreadInv, InCall
<1>2. TypeOK'
  BY <1>1 DEF TypeOK, heap
<1>3. Room'
  BY RoomKept DEF heap
<1>4. mutex[pred[u]] = u /\ mutex[cur[u]] = u /\ ~WalksOn(u)
  BY <1>1 DEF ThreadInv, PairInv, WalkInv
<1>5. InList' = InList /\ Live' = Live
  BY SameHeap DEF heap
<1>6. \A t \in Threads \ {u} : Undisturbed(t)
  BY DEF Undisturbed, TypeOK, heap
<1>7. ThreadInv(u)'
  <2>1. WalkInv(u)'
    BY <1>1, <1>4, StayPut
  <2>2. InCall(u)' /\ PairInv(u)'
    BY <1>1, <1>4 DEF ThreadInv, InCall, PairInv, HandInHand
  <2>3. CheckInv(u)'
    BY <1>5 DEF CheckInv, From, LinksWithin, heap
  <2> QED BY <2>1, <2>2, <2>3 DEF ThreadInv
<1> QED BY <1>2, <1>3, <1>6, <1>7, QuietStep

LEMMA StartCheckIInv ==
  ASSUME IInv, NEW u \in Threads, StartCheck(u), kind = "Optimistic"
  PROVE  IInv'
<1> USE DEF StartCheck, Goto
<1>1. /\ Head \in Live \ {Tail} /\ Head \in Nodes /\ next[Head] \in Live
      /\ Live \subseteq Nodes /\ InList = From(next, Head) /\ NoNode \notin Nodes
  BY ListNodes, NextNode, Numbers DEF IInv
<1>2. /\ pc'[u] = "check" /\ other'[u] = Head /\ ahead'[u] = next[Head]
      /\ next \in [Nodes -> Nodes \cup {NoNode}]
  BY DEF IInv, TypeOK
<1>3. From(next, next[Head]) \subseteq InList
  BY <1>1, <1>2, FromNext
<1> QED BY <1>1, <1>2, <1>3, CheckStep

LEMMA CheckIInv ==
  ASSUME IInv, NEW u \in Threads, Check(u), kind = "Optimistic"
  PROVE  IInv'
<1> USE DEF Check, Goto
<1>1. /\ ahead[u] \in Live /\ Live \subseteq Nodes /\ NoNode \notin Nodes
      /\ pred[u] \in From(next, ahead[u]) => pred[u] \in InList
      /\ next \in [Nodes -> Nodes \cup {NoNode}]
  BY ChecksWithinList, ListNodes DEF IInv, ThreadInv, CheckInv, TypeOK
<1>2. /\ pc' = [pc EXCEPT ![u] = pc'[u]] /\ pc'[u] = "check"
      /\ other'[u] = ahead[u] /\ ahead'[u] = next[ahead[u]]
  BY DEF IInv, TypeOK
<1>3. CASE ahead[u] = Tail
  <2>1. next[ahead[u]] = NoNode
    BY <1>3 DEF IInv, Shape
  <2> QED BY <1>1, <1>2, <1>3, <2>1, CheckStep
<1>4. CASE ahead[u] # Tail
  <2>1. next[ahead[u]] \in Live
    BY <1>1, <1>4, NextNode
  <2>2. From(next, next[ahead[u]]) \subseteq From(next, ahead[u])
    BY <1>1, <2>1, FromNext
  <2> QED BY <1>1, <1>2, <2>1, <2>2, CheckStep
<1> QED BY <1>3, <1>4

LEMMA CheckJavaIInv ==
  ASSUME IInv, NEW u \in Threads, CheckJava(u), kind = "Optimistic"
  PROVE  IInv'
<1> USE DEF CheckJava, Goto
<1>1. /\ other[u] \in Live \ {Tail} /\ ahead[u] \in Live
      /\ Live \subseteq Nodes /\ NoNode \notin Nodes
      /\ pred[u] \in From(next, other[u]) => pred[u] \in InList
      /\ pred[u] \in From(next, ahead[u]) => pred[u] \in InList
      /\ next \in [Nodes -> Nodes \cup {NoNode}]
  BY ChecksWithinList, ListNodes DEF IInv, ThreadInv, CheckInv, TypeOK
<1>2. pc'[u] = "look" /\ other'[u] = next[other[u]] /\ ahead' = [ahead EXCEPT ![u] = ahead'[u]]
  BY DEF IInv, TypeOK
<1>3. next[other[u]] \in Live
  BY <1>1, NextNode
<1>4. From(next, next[other[u]]) \subseteq From(next, other[u])
  BY <1>1, <1>3, FromNext
<1> QED BY <1>1, <1>2, <1>3, <1>4, CheckStep

LEMMA LookAheadIInv ==
  ASSUME IInv, NEW u \in Threads, LookAhead(u), kind = "Optimistic"
  PROVE  IInv'
<1> USE DEF LookAhead, Goto
<1>1. /\ other[u] \in Live /\ Live \subseteq Nodes /\ NoNode \notin Nodes
      /\ pred[u] \in From(next, other[u]) => pred[u] \in InList
      /\ next \in [Nodes -> Nodes \cup {NoNode}]
  BY ListNodes DEF IInv, ThreadInv, CheckInv, TypeOK
<1>2. pc'[u] = "check" /\ other' = [other EXCEPT ![u] = other'[u]] /\ ahead'[u] = next[other[u]]
  BY DEF IInv, TypeOK
<1>3. CASE other[u] = Tail
  <2>1. next[other[u]] = NoNode
    BY <1>3 DEF IInv, Shape
  <2> QED BY <1>1, <1>2, <1>3, <2>1, CheckStep
<1>4. CASE other[u] # Tail
  <2>1. next[other[u]] \in Live
    BY <1>1, <1>4, NextNode
  <2>2. From(next, next[other[u]]) \subseteq From(next, other[u])
    BY <1>1, <2>1, FromNext
  <2> QED BY <1>1, <1>2, <2>1, <2>2, CheckStep
<1> QED BY <1>3, <1>4

LEMMA EndCheckIInv ==
  ASSUME IInv, NEW u \in Threads, EndCheck(u), kind = "Optimistic"
  PROVE  IInv'
<1> USE DEF EndCheck, Valid, Goto, IInv
<1>1. /\ call[u] \in Calls /\ call[u].answer = "pending" /\ Walking(u)
      /\ pred[u] \in Nodes /\ cur[u] \in Nodes /\ Head \in Nodes
  BY PairOfTwo, ListNodes DEF Walking, ThreadInv, InCall
<1>2. TypeOK' /\ pc'[u] = "found"
  BY <1>1 DEF TypeOK, heap
<1>3. Room'
  BY RoomKept DEF heap
<1>4. mutex[pred[u]] = u /\ mutex[cur[u]] = u /\ ~WalksOn(u)
  BY <1>1 DEF ThreadInv, PairInv, WalkInv
<1>5. pred[u] \in InList
  BY <1>1, FromProperties DEF ThreadInv, CheckInv, TypeOK
<1>6. InList' = InList
  BY SameHeap DEF heap
<1>7. \A t \in Threads \ {u} : Undisturbed(t)
  BY DEF Undisturbed, TypeOK, heap
<1>8. ThreadInv(u)'
  <2>1. WalkInv(u)'
    BY <1>1, <1>4, StayPut
  <2>2. InCall(u)' /\ PairInv(u)' /\ CheckInv(u)'
    BY <1>1, <1>2, <1>4, <1>5, <1>6
    DEF ThreadInv, InCall, PairInv, HandInHand, CheckInv, heap
  <2> QED BY <2>1, <2>2 DEF ThreadInv
<1> QED BY <1>2, <1>3, <1>7, <1>8, QuietStep
-----------------------------------------------------------------------------
(* FineGrainedSet's walk, hand over hand. *)
LEMMA LockHeadIInv ==
  ASSUME IInv, NEW u \in Threads, LockHead(u), kind = "FineGrained"
  PROVE  IInv'
<1> USE DEF LockHead, Goto, IInv
<1>1. /\ call[u] \in Calls /\ call[u].answer = "pending" /\ Head \in Nodes
      /\ NoThread \notin Threads
  BY ListNodes, Parameters DEF ThreadInv, InCall
<1>2. TypeOK' /\ pc'[u] = "first"
  BY <1>1 DEF TypeOK, heap
<1>3. Room'
  BY RoomKept DEF heap
<1>4. mutex'[Head] = u /\ pred'[u] = Head
  BY <1>1 DEF TypeOK
<1>5. \A t \in Threads \ {u} : Undisturbed(t)
  BY <1>1 DEF Undisturbed, TypeOK, heap
<1>6. ThreadInv(u)'
  BY <1>1, <1>2, <1>4
  DEF ThreadInv, InCall, WalkInv, Walking, PairInv, HandInHand, CheckInv
<1> QED BY <1>2, <1>3, <1>5, <1>6, QuietStep

LEMMA LockFirstIInv ==
  ASSUME IInv, NEW u \in Threads, LockFirst(u), kind = "FineGrained"
  PROVE  IInv'
<1> USE DEF LockFirst, Goto, IInv
<1>1. /\ call[u] \in Calls /\ call[u].answer = "pending" /\ NoThread \notin Threads
      /\ mutex[Head] = u /\ pred[u] = Head
  BY Parameters DEF ThreadInv, InCall, PairInv
<1>2. /\ Head \in InList /\ Head \in Live \ {Tail} /\ next[Head] \in Live
      /\ Before(Head, next[Head]) /\ Live \subseteq Nodes
  BY ListNodes, NextNode, Numbers
<1>3. next[Head] # Head
  BY <1>2, BeforeIsTotal
<1>4. TypeOK' /\ pc'[u] = "walk" /\ pred'[u] = Head /\ cur'[u] = next[Head]
  BY <1>1, <1>2 DEF TypeOK, heap
<1>5. Room'
  BY RoomKept DEF heap
<1>6. mutex'[Head] = u /\ mutex'[next[Head]] = u
  BY <1>1, <1>2, <1>3 DEF TypeOK
<1>7. \A t \in Threads \ {u} : Undisturbed(t)
  BY <1>1, <1>2 DEF Undisturbed, TypeOK, heap
<1>8. ThreadInv(u)'
  <2>1. WalkInv(u)'
    BY <1>1, <1>4, PassedHead, Advance
  <2>2. InList' = InList
    BY SameHeap DEF heap
  <2>3. InCall(u)' /\ PairInv(u)' /\ CheckInv(u)'
    BY <1>1, <1>2, <1>4, <1>6, <2>2
    DEF ThreadInv, InCall, PairInv, HandInHand, CheckInv, heap
  <2> QED BY <2>1, <2>3 DEF ThreadInv
<1> QED BY <1>4, <1>5, <1>7, <1>8, QuietStep

LEMMA StepOnIInv ==
  ASSUME IInv, NEW u \in Threads, StepOn(u), kind = "FineGrained"
  PROVE  IInv'
<1> USE DEF StepOn, Goto, IInv
<1>1. /\ call[u] \in Calls /\ Passed(u, cur[u]) /\ call[u].answer = "pending"
      /\ pred[u] \in Live \ {Tail} /\ pred[u] # cur[u] /\ Before(pred[u], cur[u])
  BY PassedCurrent, PairOfTwo DEF ThreadInv, InCall, WalkInv, Walking
<1>2. /\ next[cur[u]] \in Live /\ Live \subseteq Nodes /\ cur[u] \in Live \ {Tail}
      /\ NoThread \notin Threads
  BY <1>1, NextNode, ListNodes, Parameters DEF Passed
<1>3. /\ mutex[pred[u]] = u /\ mutex[cur[u]] = u
      /\ pred[u] \in InList /\ next[pred[u]] = cur[u]
  BY DEF ThreadInv, PairInv, HandInHand
<1>4. cur[u] \in InList
  BY <1>1, <1>3, ListNodes
<1>5. /\ TypeOK' /\ pc'[u] = "handover" /\ other'[u] = pred[u]
      /\ pred'[u] = cur[u] /\ cur'[u] = next[cur[u]]
  BY <1>1, <1>2 DEF TypeOK, heap
<1>6. Room'
  BY RoomKept DEF heap
<1>7. mutex'[cur[u]] = u /\ (version = "C++" => mutex'[pred[u]] = u)
  BY <1>1, <1>2, <1>3 DEF TypeOK
<1>8. \A t \in Threads \ {u} : Undisturbed(t)
  BY <1>1, <1>2, <1>3 DEF Undisturbed, TypeOK, heap
<1>9. ThreadInv(u)'
  <2>1. WalkInv(u)'
    BY <1>1, <1>5, Advance
  <2>2. /\ InList' = InList /\ Live' = Live
        /\ \A a, b : Before(a, b)' <=> Before(a, b)
    BY SameHeap DEF heap
  <2>3. InCall(u)' /\ CheckInv(u)'
    BY <1>1, <1>5 DEF ThreadInv, InCall, CheckInv
  <2>4. PairInv(u)'
    BY <1>1, <1>4, <1>5, <1>7, <2>2 DEF PairInv, HandInHand, heap
  <2> QED BY <2>1, <2>3, <2>4 DEF ThreadInv
<1> QED BY <1>5, <1>6, <1>8, <1>9, QuietStep

LEMMA HandOverIInv ==
  ASSUME IInv, NEW u \in Threads, HandOver(u), kind = "FineGrained"
  PROVE  IInv'
<1> USE DEF HandOver, Goto, IInv
<1>1. /\ call[u] \in Calls /\ call[u].answer = "pending" /\ Walking(u)
      /\ pred[u] \in Live \ {Tail} /\ cur[u] \in Live /\ Before(pred[u], cur[u])
      /\ pred[u] \in Nodes /\ cur[u] \in Nodes /\ Head \in Nodes /\ NoThread \notin Threads
  BY PairOfTwo, ListNodes, Parameters DEF ThreadInv, InCall, WalkInv, Walking
<1>2. /\ mutex[pred[u]] = u /\ pred[u] \in InList /\ next[pred[u]] = cur[u]
      /\ other[u] \in Live /\ Before(other[u], pred[u])
      /\ version = "C++" => mutex[other[u]] = u
  BY DEF ThreadInv, PairInv
<1>3. other[u] # pred[u] /\ pred[u] # cur[u]
  BY <1>1, <1>2, BeforeIsTotal
<1>4. TypeOK' /\ pc'[u] = "walk"
  BY <1>1 DEF TypeOK, heap
<1>5. Room'
  BY RoomKept DEF heap
<1>6. mutex'[pred[u]] = u /\ mutex'[cur[u]] = u
  BY <1>1, <1>2, <1>3
<1>7. \A t \in Threads \ {u} : Undisturbed(t)
  BY <1>1, <1>2 DEF Undisturbed, TypeOK, heap
<1>8. ThreadInv(u)'
  <2>1. WalkInv(u)'
    BY <1>1, <1>4, StayPut
  <2>2. InList' = InList
    BY SameHeap DEF heap
  <2>3. InCall(u)' /\ PairInv(u)' /\ CheckInv(u)'
    BY <1>1, <1>2, <1>4, <1>6, <2>2
    DEF ThreadInv, InCall, PairInv, HandInHand, CheckInv, heap
  <2> QED BY <2>1, <2>3 DEF ThreadInv
<1> QED BY <1>4, <1>5, <1>7, <1>8, QuietStep

LEMMA FindLockedIInv ==
  ASSUME IInv, NEW u \in Threads, FindLocked(u), kind = "FineGrained"
  PROVE  IInv'
<1> USE DEF FindLocked, Goto, IInv
<1>1. /\ call[u] \in Calls /\ call[u].answer = "pending" /\ Walking(u)
      /\ pred[u] \in Nodes /\ cur[u] \in Nodes
  BY PairOfTwo DEF ThreadInv, InCall, Walking
<1>2. /\ mutex[pred[u]] = u /\ mutex[cur[u]] = u
      /\ pred[u] \in InList /\ next[pred[u]] = cur[u]
  BY DEF ThreadInv, PairInv, HandInHand
<1>3. TypeOK' /\ pc'[u] = "found"
  BY DEF TypeOK, heap, locals
<1>4. Room'
  BY RoomKept DEF heap
<1>5. \A t \in Threads \ {u} : Undisturbed(t)
  BY DEF Undisturbed, TypeOK, heap, locals
<1>6. ThreadInv(u)'
  <2>1. WalkInv(u)'
    BY <1>1, StayPut DEF locals
  <2>2. InList' = InList
    BY SameHeap DEF heap
  <2>3. InCall(u)' /\ PairInv(u)' /\ CheckInv(u)'
    BY <1>1, <1>2, <1>3, <2>2
    DEF ThreadInv, InCall, PairInv, HandInHand, CheckInv, heap, locals
  <2> QED BY <2>1, <2>3 DEF ThreadInv
<1> QED BY <1>3, <1>4, <1>5, <1>6, QuietStep
-----------------------------------------------------------------------------
(* Calls and answers. *)
LEMMA AddingFinite ==
  /\ Adding \in SUBSET Threads /\ IsFiniteSet(Adding) /\ Cardinality(Adding) \in Nat
<1>1. Adding \in SUBSET Threads
  BY DEF Adding
<1>2. IsFiniteSet(Adding)
  BY <1>1, FS_Subset, Parameters
<1> QED BY <1>1, <1>2, FS_CardinalityType

LEMMA RoomShrinks ==
  ASSUME Room, allocated \in Nat, allocated' = allocated, Adding' \subseteq Adding
  PROVE  Room'
<1>1. /\ Cardinality(Adding) \in Nat /\ Cardinality(Adding') \in Nat
      /\ Cardinality(Adding') <= Cardinality(Adding) /\ MaxNodes \in Nat
  BY AddingFinite, FS_Subset, FS_CardinalityType, Parameters
<1> QED BY <1>1 DEF Room

LEMMA StartIInv ==
  ASSUME IInv, NEW u \in Threads, Start(u)
  PROVE  IInv'
<1> USE DEF IInv
<1>1. PICK op \in Ops, e \in Elements : Call(u, op, e)
  BY DEF Start
<1> USE <1>1 DEF Call, Goto
<1>2. call'[u] = [op |-> op, elem |-> e, answer |-> "pending"] /\ pc'[u] = "start"
  BY DEF TypeOK
<1>3. call'[u] \in Calls /\ TypeOK'
  BY <1>2 DEF TypeOK, Calls, heap, locals
<1>4. Room'
  <2>1. /\ allocated \in Nat /\ MaxNodes \in Nat /\ IsFiniteSet(Adding)
        /\ Cardinality(Adding) \in Nat
    BY AddingFinite, Parameters DEF TypeOK
  <2>2. CASE op = "add"
    <3>1. Adding' = Adding \cup {u}
      BY <1>2, <2>2 DEF Adding, TypeOK
    <3>2. /\ Cardinality(Adding') \in Nat /\ Cardinality(Adding') <= Cardinality(Adding) + 1
      BY <2>1, <3>1, FS_AddElement
    <3> QED BY <2>1, <2>2, <3>2 DEF Room, heap
  <2>3. CASE op # "add"
    <3>1. Adding' \subseteq Adding
      BY <1>2, <2>3 DEF Adding, TypeOK
    <3> QED BY <2>1, <3>1, RoomShrinks DEF heap
  <2> QED BY <2>2, <2>3
<1>5. \A t \in Threads \ {u} : Undisturbed(t)
  BY DEF Undisturbed, TypeOK, heap, locals
<1>6. ThreadInv(u)'
  BY <1>2, <1>3 DEF ThreadInv, InCall, WalkInv, Walking, PairInv, HandInHand, CheckInv
<1> QED BY <1>3, <1>4, <1>5, <1>6, QuietStep

(* An answer ends find's work. *)
LEMMA Answered ==
  ASSUME IInv, NEW u \in Threads, call[u] \in Calls, NEW a \in {"yes", "no"}, Answer(u, a)
  PROVE  /\ call' \in [Threads -> Calls \cup {NoCall}] /\ call'[u] \in Calls
         /\ call'[u].answer = a /\ call'[u].op = call[u].op /\ call'[u].elem = call[u].elem
         /\ \A t \in Threads \ {u} : call'[t] = call[t]
         /\ Adding' = Adding \ {u}
<1>1. /\ call'[u] = [call[u] EXCEPT !.answer = a]
      /\ \A t \in Threads \ {u} : call'[t] = call[t]
      /\ DOMAIN call' = Threads /\ call' = [t \in Threads |-> call'[t]]
  BY DEF Answer, IInv, TypeOK
<1>2. /\ call'[u] \in Calls /\ call'[u].answer = a
      /\ call'[u].op = call[u].op /\ call'[u].elem = call[u].elem
  BY <1>1 DEF Calls
<1>3. \A t \in Threads : call'[t] \in Calls \cup {NoCall}
  BY <1>1, <1>2 DEF IInv, TypeOK
<1>4. Adding' = Adding \ {u}
  BY <1>1, <1>2 DEF Adding
<1> QED BY <1>1, <1>2, <1>3, <1>4

LEMMA DecideIInv ==
  ASSUME IInv, NEW u \in Threads, Decide(u)
  PROVE  IInv'
<1> USE DEF Decide, Goto, IInv
<1>1. call[u] \in Calls /\ call[u].op \in {"contains", "add", "remove"}
  BY DEF ThreadInv, InCall, Calls, Ops
<1>2. PICK a \in {"yes", "no"} : Answer(u, a)
  BY <1>1
<1>3. /\ call' \in [Threads -> Calls \cup {NoCall}] /\ call'[u] \in Calls
      /\ call'[u].answer # "pending"
      /\ \A t \in Threads \ {u} : call'[t] = call[t]
      /\ Adding' \subseteq Adding
  BY <1>1, <1>2, Answered
<1>4. TypeOK' /\ pc'[u] = "return"
  BY <1>3 DEF TypeOK, heap, locals
<1>5. Room'
  BY <1>3, RoomShrinks DEF heap, TypeOK
<1>6. \A t \in Threads \ {u} : Undisturbed(t)
  BY <1>3 DEF Undisturbed, TypeOK, heap, locals
<1>7. ThreadInv(u)'
  BY <1>3, <1>4 DEF ThreadInv, InCall, WalkInv, Walking, PairInv, HandInHand, CheckInv
<1> QED BY <1>4, <1>5, <1>6, <1>7, QuietStep

LEMMA ReturnIInv ==
  ASSUME IInv, NEW u \in Threads, Return(u)
  PROVE  IInv'
<1> USE DEF Return, Forget, Goto, IInv
<1>1. Head \in Nodes /\ NoCall.op = "none"
  BY ListNodes DEF NoCall
<1>2. TypeOK' /\ pc'[u] = "idle" /\ call'[u] = NoCall
  BY <1>1, UnlockedOwn DEF TypeOK, heap
<1>3. Room'
  <2>1. Adding' \subseteq Adding
    BY <1>1 DEF Adding, TypeOK
  <2> QED BY <2>1, RoomShrinks DEF heap, TypeOK
<1>4. \A t \in Threads \ {u} : Undisturbed(t)
  BY UnlockedOwn DEF Undisturbed, TypeOK, heap
<1>5. ThreadInv(u)'
  BY <1>2 DEF ThreadInv, InCall, WalkInv, Walking, PairInv, HandInHand, CheckInv
<1> QED BY <1>2, <1>3, <1>4, <1>5, QuietStep

(* LazySet's mark, which nobody but the thread that sets it meets in the   *)
(* list.                                                                   *)
LEMMA MarkIInv ==
  ASSUME IInv, NEW u \in Threads, Mark(u)
  PROVE  IInv'
<1> USE DEF Mark, Goto, IInv
<1>1. /\ call[u] \in Calls /\ call[u].answer = "pending" /\ Walking(u)
      /\ pred[u] \in Nodes /\ cur[u] \in Nodes
      /\ mutex[pred[u]] = u /\ mutex[cur[u]] = u
      /\ pred[u] \in InList /\ next[pred[u]] = cur[u] /\ ~WalksOn(u)
  BY PairOfTwo DEF ThreadInv, InCall, Walking, PairInv, WalkInv
<1>2. TypeOK' /\ pc'[u] = "unlink" /\ deleted' = [n \in Nodes |-> deleted[n] \/ n = cur[u]]
  BY <1>1 DEF TypeOK, locals
<1>3. Room'
  BY RoomKept
<1>4. \A t \in Threads \ {u} : Undisturbed(t)
  BY <1>1, <1>2 DEF Undisturbed, TypeOK, locals
<1>5. /\ Shape' /\ InList' = InList /\ Live' = Live /\ Inner' = Inner
      /\ \A n : KeyOf(n)' = KeyOf(n)
      /\ \A a, b : (Before(a, b)' <=> Before(a, b)) /\ (AtOrBefore(a, b)' <=> AtOrBefore(a, b))
  BY SameHeap
<1>6. Ordered'
  BY <1>5 DEF Ordered
<1>7. Marks'
  <2>1. InList \subseteq Nodes /\ 1..allocated \subseteq Nodes
    <3>1. InList \subseteq Nodes
      BY ListNodes
    <3>2. 1..allocated \subseteq Live /\ Live \subseteq Nodes
      BY ListNodes DEF Live
    <3> QED BY <3>1, <3>2
  <2>0. \A n \in Nodes : deleted'[n] => n \in 1..allocated'
    <3>1. cur[u] \in Nodes /\ value[cur[u]] \in Elements
      BY <1>1 DEF Found, Calls
    <3> QED BY <3>1, <1>2 DEF Marks, Shape
  <2>2. kind' = "Lazy" => \A n \in (1..allocated') \ InList' : deleted'[n]
    BY <1>2, <1>5, <2>1 DEF Marks
  <2>3. ASSUME NEW n \in InList', deleted'[n]
        PROVE  \E t \in Threads : pc'[t] = "unlink" /\ cur'[t] = n
    <3>1. CASE n = cur[u]
      BY <1>2, <3>1 DEF locals
    <3>2. CASE n # cur[u]
      <4>1. PICK t \in Threads : pc[t] = "unlink" /\ cur[t] = n
        BY <1>2, <1>5, <2>1, <2>3, <3>2 DEF Marks
      <4> QED BY <3>2, <4>1, <1>4 DEF Undisturbed
    <3> QED BY <3>1, <3>2
  <2> QED BY <2>0, <2>2, <2>3 DEF Marks
<1>8. ThreadInv(u)'
  <2>1. WalksOn(u)' <=> WalksOn(u)
    BY <1>5 DEF WalksOn, locals
  <2>2. WalkInv(u)'
    BY <1>1, <1>2, <1>5, <2>1 DEF ThreadInv, WalkInv, locals, Walking
  <2>3. InCall(u)'
    BY <1>1, <1>2 DEF InCall, Found, locals
  <2>4. PairInv(u)' /\ CheckInv(u)'
    BY <1>1, <1>2, <1>5 DEF PairInv, HandInHand, CheckInv, locals
  <2> QED BY <2>2, <2>3, <2>4 DEF ThreadInv
<1>9. ASSUME NEW t \in Threads PROVE ThreadInv(t)'
  BY <1>4, <1>8, OthersUndisturbed
<1> QED BY <1>2, <1>3, <1>5, <1>6, <1>7, <1>9
-----------------------------------------------------------------------------
(* add() and remove() change the list between a locked pair of its nodes.  *)
Locked(t) == pc[t] \in {"found", "unlink"}

LEMMA LockedPair ==
  ASSUME IInv, NEW t \in Threads, Locked(t)
  PROVE  /\ call[t] \in Calls /\ call[t].answer = "pending"
         /\ call[t].elem \in Elements /\ Key[call[t].elem] \in 0..TopKey
         /\ pred[t] \in InList \ {Tail} /\ pred[t] \in Live /\ pred[t] \in Nodes
         /\ cur[t] \in InList /\ cur[t] \in Live /\ cur[t] \in Nodes
         /\ next[pred[t]] = cur[t] /\ Before(pred[t], cur[t])
         /\ mutex[pred[t]] = t /\ mutex[cur[t]] = t
<1>1. /\ call[t] \in Calls /\ call[t].answer = "pending"
      /\ pred[t] \in Live \ {Tail} /\ cur[t] \in Live /\ Before(pred[t], cur[t])
      /\ pred[t] \in InList /\ next[pred[t]] = cur[t]
      /\ mutex[pred[t]] = t /\ mutex[cur[t]] = t
  BY DEF Locked, IInv, ThreadInv, InCall, WalkInv, Walking, PairInv
<1>2. call[t].elem \in Elements /\ Key[call[t].elem] \in 0..TopKey
  BY <1>1, PassedHead
<1> QED BY <1>1, <1>2, ListNodes DEF IInv

(* If current is not the element's node, it is beyond where that would be, *)
(* and the element is not in the list.                                     *)
LEMMA NotFound ==
  ASSUME IInv, NEW t \in Threads, Locked(t), ~Found(t)
  PROVE  /\ cur[t] = Tail \/ Key[call[t].elem] < KeyOf(cur[t])
         /\ \A n \in InList : value[n] # call[t].elem
<1> DEFINE e == call[t].elem
<1>1. /\ e \in Elements /\ Key[e] \in 0..TopKey /\ TopKey \in Nat
      /\ cur[t] \in Live /\ KeyOf(cur[t]) \in 0..TopKey /\ Shape
  BY LockedPair, Numbers DEF IInv
<1>2. cur[t] = Tail \/ Key[e] < KeyOf(cur[t])
  <2>1. ~WalksOn(t)
    BY DEF Locked, IInv, ThreadInv, WalkInv, Walking
  <2>2. CASE next[cur[t]] = NoNode
    <3>1. NoNode \notin Nodes /\ Live \subseteq Nodes
      BY <1>1, ListNodes
    <3> QED BY <1>1, <2>2, <3>1 DEF Shape
  <2>3. CASE next[cur[t]] # NoNode
    <3>1. ~(KeyOf(cur[t]) <= Key[e]) \/ (Key[e] = KeyOf(cur[t]) /\ e = value[cur[t]])
      BY <2>1, <2>3 DEF WalksOn
    <3> QED BY <1>1, <3>1 DEF Found
  <2> QED BY <2>2, <2>3
<1>3. ASSUME NEW n \in InList, value[n] = e PROVE FALSE
  <2>1. n \in Live /\ n # Head /\ n # Tail
    BY <1>1, <1>3, ListNodes, Numbers
  <2>2. KeyOf(n) = Key[e] /\ KeyOf(n) \in 0..TopKey
    BY <1>1, <1>3, <2>1, Numbers
  <2>3. Before(pred[t], n)
    BY <1>3 DEF Locked, IInv, ThreadInv, WalkInv, Walking
  <2>4. AtOrBefore(cur[t], n)
    BY <1>3, <2>3, LockedPair DEF IInv, Ordered
  <2>5. Before(cur[t], n)
    BY <1>3, <2>4 DEF AtOrBefore, Found
  <2>6. KeyOf(cur[t]) <= KeyOf(n) /\ cur[t] # Tail
    BY <1>1, <2>1, <2>5, BeforeIsTotal DEF AtOrBefore
  <2> QED BY <1>1, <1>2, <2>2, <2>6
<1> QED BY <1>2, <1>3

(* The new node: after all of its key, before the rest. *)
LEMMA NewNode ==
  ASSUME IInv, NEW u \in Threads, Link(u), NEW n, n = allocated + 1,
         NEW p, p = pred[u], NEW c, c = cur[u]
  PROVE  /\ n \in Nodes \ Live /\ n \in 1..MaxNodes /\ Live' = Live \cup {n}
         /\ next' = [next EXCEPT ![n] = c, ![p] = n]
         /\ next'[n] = c /\ next'[p] = n
         /\ \A m \in Nodes \ {n, p} : next'[m] = next[m]
         /\ value'[n] = call[u].elem
         /\ \A m \in Nodes \ {n} : value'[m] = value[m]
         /\ KeyOf(n)' = Key[call[u].elem]
         /\ \A m \in Live : KeyOf(m)' = KeyOf(m)
         /\ \A a, b \in Live : Before(a, b)' <=> Before(a, b)
         /\ \A a \in Live \ {Tail} : KeyOf(a) <= Key[call[u].elem] => Before(a, n)'
         /\ Before(p, n)' /\ Before(n, c)'
         /\ Room'
<1> USE DEF Link, Goto, IInv
<1>1. Locked(u) /\ ~Found(u)
  BY DEF Locked
<1> PICK e : e = call[u].elem
  OBVIOUS
<1>2. /\ call[u] \in Calls /\ call[u].op = "add" /\ call[u].answer = "pending"
      /\ e \in Elements /\ Key[e] \in 0..TopKey
      /\ p \in Live \ {Tail} /\ p \in Nodes /\ c \in Live /\ c \in Nodes /\ next[p] = c
      /\ c = Tail \/ Key[e] < KeyOf(c)
  BY <1>1, LockedPair, NotFound
<1>3. /\ allocated \in Nat /\ MaxNodes \in Nat /\ allocated < Tail /\ Tail = MaxNodes + 1
      /\ Head = 0 /\ TopKey \in Nat /\ KeyOf(Tail) = TopKey
      /\ \A m \in Live \ {Tail} : m <= allocated
      /\ \A m \in Live : m \in Nat /\ KeyOf(m) \in 0..TopKey
  BY Numbers, Parameters DEF Tail
<1>4. n \in 1..MaxNodes /\ Room'
  <2>1. Adding' = Adding \ {u} /\ u \in Adding
    BY <1>2, Answered DEF Adding
  <2>2. /\ Cardinality(Adding) \in Nat /\ Cardinality(Adding') = Cardinality(Adding) - 1
        /\ Cardinality(Adding) # 0
    BY <2>1, AddingFinite, FS_RemoveElement, FS_EmptySet
  <2> QED BY <1>3, <2>2 DEF Room
<1>5. n \in Nodes \ Live /\ n # Tail /\ n # Head
  BY <1>3, <1>4 DEF Nodes, Live
<1>6. Live' = Live \cup {n}
  BY <1>3 DEF Live
<1>7. /\ next' = [next EXCEPT ![n] = c, ![p] = n]
      /\ next'[n] = c /\ next'[p] = n
      /\ \A m \in Nodes \ {n, p} : next'[m] = next[m]
      /\ value'[n] = e
      /\ \A m \in Nodes \ {n} : value'[m] = value[m]
  BY <1>2, <1>5 DEF TypeOK
<1>8. KeyOf(n)' = Key[e]
  BY <1>5, <1>7 DEF KeyOf
<1>9. \A m \in Live : KeyOf(m)' = KeyOf(m)
  BY <1>5, <1>7, ListNodes DEF KeyOf
<1>10. \A a, b \in Live : Before(a, b)' <=> Before(a, b)
  BY <1>9 DEF Before
<1>11. ASSUME NEW a \in Live \ {Tail}, KeyOf(a) <= Key[e] PROVE Before(a, n)'
  <2>1. a < n /\ KeyOf(a)' <= KeyOf(n)' /\ KeyOf(a)' \in Nat /\ KeyOf(n)' \in Nat
    BY <1>2, <1>3, <1>8, <1>9, <1>11
  <2> QED BY <2>1 DEF Before
<1>12. Before(p, n)'
  BY <1>1, <1>2, <1>11 DEF Locked, ThreadInv, WalkInv, Walking
<1>13. Before(n, c)'
  <2>1. CASE c = Tail
    <3>1. KeyOf(c)' = TopKey /\ KeyOf(n)' \in 0..TopKey /\ n < c
      BY <1>2, <1>3, <1>4, <1>8, <1>9, <2>1
    <3> QED BY <1>3, <3>1 DEF Before
  <2>2. CASE c # Tail
    BY <1>2, <1>8, <1>9, <2>2 DEF Before
  <2> QED BY <2>1, <2>2
<1> QED BY <1>4, <1>5, <1>6, <1>7, <1>8, <1>9, <1>10, <1>11, <1>12, <1>13

LEMMA LinkShape ==
  ASSUME IInv, NEW u \in Threads, Link(u)
  PROVE  TypeOK' /\ Shape' /\ InList' = InList \cup {allocated + 1}
<1> PICK n, p, c : n = allocated + 1 /\ p = pred[u] /\ c = cur[u]
  OBVIOUS
<1>1. Locked(u)
  BY DEF Locked, Link
<1>2. /\ n \in Nodes \ Live /\ n \in 1..MaxNodes /\ Live' = Live \cup {n}
      /\ next' = [next EXCEPT ![n] = c, ![p] = n]
      /\ next'[n] = c /\ next'[p] = n
      /\ \A m \in Nodes \ {n, p} : next'[m] = next[m]
      /\ value'[n] = call[u].elem
      /\ \A m \in Nodes \ {n} : value'[m] = value[m]
      /\ \A a, b \in Live : Before(a, b)' <=> Before(a, b)
      /\ Before(p, n)' /\ Before(n, c)'
  BY NewNode
<1> USE DEF Link, Goto, IInv
<1>3. /\ p \in InList \ {Tail} /\ p \in Live /\ c \in Live
      /\ next[p] = c /\ call[u] \in Calls /\ call[u].elem \in Elements
      /\ p \in Nodes /\ c \in Nodes
  BY <1>1, LockedPair
<1>4. /\ Head \in Live /\ Tail \in Live /\ Live \subseteq Nodes /\ NoNode \notin Nodes
      /\ InList = From(next, Head) /\ InList \subseteq Live
  BY ListNodes
<1>5. allocated' = n /\ allocated \in Nat /\ MaxNodes \in Nat /\ allocated' \in 0..MaxNodes
  BY <1>2, Numbers, Parameters
<1>6. TypeOK'
  <2>1. next' \in [Nodes -> Nodes \cup {NoNode}]
    BY <1>2, <1>3 DEF TypeOK
  <2>2. value' \in [Nodes -> Elements \cup {NoElement}]
    BY <1>2, <1>3 DEF TypeOK
  <2>3. call' \in [Threads -> Calls \cup {NoCall}]
    BY <1>3, Answered
  <2> QED BY <1>5, <2>1, <2>2, <2>3 DEF TypeOK, locals
<1>7. LinksTyped'
  <2>1. ASSUME NEW m \in Live' PROVE next'[m] \in Live' \cup {NoNode}
    BY <1>2, <1>3, <1>4, <2>1 DEF Shape, LinksTyped, LinksWithin
  <2> QED BY <1>5, <1>6, <2>1 DEF LinksTyped, LinksWithin, TypeOK
<1>8. Shape'
  <2>1. next'[Tail] = NoNode
    BY <1>2, <1>3, <1>4 DEF Shape
  <2>2. ASSUME NEW m \in Live' \ {Tail}, NEW k, k = next'[m]
        PROVE  k \in Live' /\ Before(m, k)'
    <3>0. CASE m = n
      <4>1. k = c
        BY <1>2, <2>2, <3>0
      <4> QED BY <1>2, <1>3, <3>0, <4>1
    <3>1. CASE m = p
      <4>1. k = n
        BY <1>2, <2>2, <3>1
      <4> QED BY <1>2, <1>3, <3>1, <4>1
    <3>2. CASE m # n /\ m # p
      <4>1. m \in Live \ {Tail} /\ k = next[m]
        BY <1>2, <1>4, <2>2, <3>2
      <4>2. k \in Live /\ Before(m, k)
        BY <4>1 DEF Shape
      <4> QED BY <1>2, <4>1, <4>2
    <3> QED BY <3>0, <3>1, <3>2
  <2>3. ASSUME NEW m \in Nodes PROVE value'[m] \in Elements <=> m \in 1..allocated'
    <3>1. CASE m = n
      BY <1>2, <1>3, <1>5, <3>1
    <3>2. CASE m # n
      <4>1. m \in 1..allocated <=> m \in 1..allocated'
        BY <1>5, <3>2
      <4> QED BY <1>2, <2>3, <3>2, <4>1 DEF Shape
    <3> QED BY <3>1, <3>2
  <2> QED BY <1>7, <2>1, <2>2, <2>3 DEF Shape
<1>9. InList' = InList \cup {n}
  <2>1. Linked(next, next', p, n)
    BY <1>2, <1>3, <1>4, <1>6 DEF TypeOK, Linked
  <2>2. Head \in Nodes /\ n \notin From(next, Head) /\ p \in From(next, Head)
    BY <1>2, <1>3, <1>4
  <2>3. From(next', Head) = From(next, Head) \cup {n}
    <3> HIDE DEF Link, Goto, IInv
    <3> QED BY <1>4, <2>1, <2>2, LinkedNodes
  <2> QED BY <1>4, <1>7, <2>3, InListIsFromNext
<1> QED BY <1>6, <1>8, <1>9

LEMMA LinkOrdered ==
  ASSUME IInv, NEW u \in Threads, Link(u)
  PROVE  Ordered'
<1> PICK n, p, c, e :
      n = allocated + 1 /\ p = pred[u] /\ c = cur[u] /\ e = call[u].elem
  OBVIOUS
<1>1. Locked(u) /\ ~Found(u)
  BY DEF Locked, Link
<1>2. /\ n \in Nodes \ Live /\ Live' = Live \cup {n}
      /\ next'[n] = c /\ next'[p] = n
      /\ \A m \in Nodes \ {n, p} : next'[m] = next[m]
      /\ value'[n] = e
      /\ \A m \in Nodes \ {n} : value'[m] = value[m]
      /\ KeyOf(n)' = Key[e]
      /\ \A m \in Live : KeyOf(m)' = KeyOf(m)
      /\ \A a, b \in Live : Before(a, b)' <=> Before(a, b)
      /\ \A a \in Live \ {Tail} : KeyOf(a) <= Key[e] => Before(a, n)'
      /\ Before(p, n)' /\ Before(n, c)'
  BY NewNode
<1>3. Shape' /\ InList' = InList \cup {n}
  BY LinkShape
<1>4. /\ p \in InList \ {Tail} /\ p \in Live /\ c \in Live /\ c \in InList /\ next[p] = c
      /\ e \in Elements /\ Key[e] \in 0..TopKey
      /\ \A m \in InList : value[m] # e
  BY <1>1, LockedPair, NotFound
<1>5. /\ Head \in Live /\ Tail \in Live /\ Live \subseteq Nodes /\ InList \subseteq Live
      /\ \A m \in InList \ {Tail} : next[m] \in InList
  BY ListNodes DEF IInv
<1>6. /\ \A m \in Live' : ~Before(m, m)'
      /\ \A k, m \in Live' : Before(k, m)' => ~Before(m, k)'
      /\ \A k, m, x \in Live' : Before(k, m)' /\ Before(m, x)' => Before(k, x)'
  BY <1>3, BeforeIsStrictOrderNext DEF StrictOrder
<1>7. \A k, m \in Live : k = m \/ Before(k, m) \/ Before(m, k)
  BY BeforeIsTotal DEF IInv
<1>8. /\ Tail \in InList
      /\ \A m \in InList \ {Tail}, x \in InList : Before(m, x) => AtOrBefore(next[m], x)
      /\ \A m \in Live \ {Tail}, x \in InList :
           Before(m, x) /\ KeyOf(next[m]) = KeyOf(x) /\ next[m] # Tail => AtOrBefore(next[m], x)
      /\ \A m, x \in Inner : value[m] = value[x] => m = x
      /\ \A m \in Live \ {Tail} : next[m] \in Live
  BY DEF IInv, Ordered, Shape
<1>9. ASSUME NEW m \in InList' \ {Tail}, NEW x \in InList', Before(m, x)',
             NEW k, k = next'[m]
      PROVE  k = x \/ Before(k, x)'
  <2>1. CASE m = p
    <3>1. k = n
      BY <1>2, <1>9, <2>1
    <3>2. CASE x # n
      <4>1. x \in InList /\ x \in Live
        BY <1>3, <1>5, <3>2
      <4>2. AtOrBefore(c, x)
        BY <1>2, <1>4, <1>8, <1>9, <2>1, <4>1
      <4>3. c = x \/ Before(c, x)'
        BY <1>2, <1>4, <4>1, <4>2 DEF AtOrBefore
      <4> QED BY <1>2, <1>4, <1>6, <3>1, <4>1, <4>3
    <3> QED BY <3>1, <3>2
  <2>2. CASE m = n
    <3>1. k = c /\ x \in InList /\ x \in Live
      BY <1>2, <1>3, <1>5, <1>6, <1>9, <2>2
    <3>2. Before(p, x)'
      BY <1>2, <1>4, <1>6, <1>9, <2>2, <3>1
    <3>3. AtOrBefore(c, x)
      BY <1>2, <1>4, <1>8, <3>1, <3>2
    <3> QED BY <1>2, <1>4, <3>1, <3>3 DEF AtOrBefore
  <2>3. CASE m # p /\ m # n
    <3>1. m \in InList \ {Tail} /\ m \in Live /\ k = next[m] /\ k \in Live
      BY <1>2, <1>3, <1>5, <1>8, <1>9, <2>3
    <3>2. CASE x # n
      <4>1. x \in InList /\ x \in Live
        BY <1>3, <1>5, <3>2
      <4>2. AtOrBefore(k, x)
        BY <1>2, <1>8, <1>9, <3>1, <4>1
      <4> QED BY <1>2, <3>1, <4>1, <4>2 DEF AtOrBefore
    <3>3. CASE x = n /\ Before(m, p)
      <4>1. AtOrBefore(k, p)
        BY <1>4, <1>8, <3>1, <3>3
      <4>2. k = p \/ Before(k, p)'
        BY <1>2, <1>4, <3>1, <4>1 DEF AtOrBefore
      <4> QED BY <1>2, <1>4, <1>6, <3>1, <3>3, <4>2
    <3>4. CASE x = n /\ Before(p, m)
      <4>1. AtOrBefore(c, m)
        BY <1>4, <1>8, <3>1, <3>4
      <4>2. c = m \/ Before(c, m)'
        BY <1>2, <1>4, <3>1, <4>1 DEF AtOrBefore
      <4>3. Before(n, m)'
        BY <1>2, <1>4, <1>6, <3>1, <4>2
      <4> QED BY <1>2, <1>6, <1>9, <3>1, <3>4, <4>3
    <3> QED BY <1>4, <1>7, <2>3, <3>1, <3>2, <3>3, <3>4
  <2> QED BY <2>1, <2>2, <2>3
<1>10. ASSUME NEW m \in Live' \ {Tail}, NEW x \in InList', Before(m, x)',
              NEW k, k = next'[m], KeyOf(k)' = KeyOf(x)', k # Tail
       PROVE  k = x \/ Before(k, x)'
  <2>1. CASE m \in InList'
    BY <1>9, <1>10, <2>1
  <2>2. CASE m \notin InList'
    <3>1. m \in Live \ {Tail} /\ k = next[m] /\ k \in Live
      BY <1>2, <1>3, <1>4, <1>5, <1>8, <1>10, <2>2
    <3>2. CASE x = n
      <4>1. KeyOf(k) = Key[e]
        BY <1>2, <1>10, <3>1, <3>2
      <4>2. KeyOf(k) <= Key[e]
        BY <1>4, <4>1
      <4> QED BY <1>2, <1>10, <3>1, <3>2, <4>2
    <3>3. CASE x # n
      <4>1. x \in InList /\ x \in Live
        BY <1>3, <1>5, <3>3
      <4>2. AtOrBefore(k, x)
        BY <1>2, <1>8, <1>10, <3>1, <4>1
      <4> QED BY <1>2, <3>1, <4>1, <4>2 DEF AtOrBefore
    <3> QED BY <3>2, <3>3
  <2> QED BY <2>1, <2>2
<1>11. ASSUME NEW m \in Inner', NEW x \in Inner', value'[m] = value'[x] PROVE m = x
  <2>1. m \in Inner \cup {n} /\ x \in Inner \cup {n}
    BY <1>3 DEF Inner
  <2>2. Inner \subseteq InList /\ Inner \subseteq Nodes
    BY <1>5 DEF Inner
  <2> QED BY <1>2, <1>4, <1>5, <1>8, <1>11, <2>1, <2>2
<1>12. Tail \in InList'
  BY <1>3, <1>8
<1> QED BY <1>9, <1>10, <1>11, <1>12 DEF Ordered, AtOrBefore

LEMMA LinkMarks ==
  ASSUME IInv, NEW u \in Threads, Link(u)
  PROVE  Marks'
<1> PICK n : n = allocated + 1
  OBVIOUS
<1>0. InList' = InList \cup {n} /\ n \in Nodes
  BY LinkShape, NewNode
<1> USE DEF Link, Goto, IInv
<1>1. n \notin 1..allocated /\ (1..allocated') = (1..allocated) \cup {n}
  <2>1. allocated' = n /\ allocated \in Nat
    BY Numbers
  <2> QED BY <2>1
<1>2. n \in Nodes /\ InList' = InList \cup {n}
  BY <1>0
<1>3. ~deleted[n]
  BY <1>1, <1>2 DEF Marks
<1>4. \A t \in Threads : pc[t] = "unlink" => pc'[t] = "unlink" /\ cur'[t] = cur[t]
  BY DEF TypeOK, locals
<1> QED BY <1>1, <1>2, <1>3, <1>4 DEF Marks

(* The others' pairs are not the pair u changes, for u has locked it. *)
LEMMA LinkOthers ==
  ASSUME IInv, NEW u \in Threads, Link(u), NEW t \in Threads \ {u}
  PROVE  ThreadInv(t)'
<1> PICK n, p, c, e :
      n = allocated + 1 /\ p = pred[u] /\ c = cur[u] /\ e = call[u].elem
  OBVIOUS
<1>1. Locked(u)
  BY DEF Locked, Link
<1>2. /\ n \in Nodes \ Live /\ Live' = Live \cup {n}
      /\ next' = [next EXCEPT ![n] = c, ![p] = n]
      /\ next'[n] = c /\ next'[p] = n
      /\ \A m \in Nodes \ {n, p} : next'[m] = next[m]
      /\ value'[n] = e
      /\ \A m \in Nodes \ {n} : value'[m] = value[m]
      /\ KeyOf(n)' = Key[e]
      /\ \A m \in Live : KeyOf(m)' = KeyOf(m)
      /\ \A a, b \in Live : Before(a, b)' <=> Before(a, b)
      /\ \A a \in Live \ {Tail} : KeyOf(a) <= Key[e] => Before(a, n)'
  BY NewNode
<1>3. InList' = InList \cup {n}
  BY LinkShape
<1>4. /\ p \in Live \ {Tail} /\ p \in Nodes /\ c \in Nodes /\ mutex[p] = u /\ next[p] = c
      /\ e \in Elements /\ Key[e] \in 0..TopKey
  BY <1>1, LockedPair
<1>5. /\ Head \in Live /\ Live \subseteq Nodes /\ InList \subseteq Live /\ NoNode \notin Nodes
      /\ \A m \in Live : KeyOf(m) \in Nat
  BY ListNodes, Numbers DEF IInv
<1>6. /\ pc'[t] = pc[t] /\ call'[t] = call[t]
      /\ pred'[t] = pred[t] /\ cur'[t] = cur[t] /\ other'[t] = other[t] /\ ahead'[t] = ahead[t]
      /\ UNCHANGED <<kind, version, mutex, deleted>>
  BY DEF Link, Goto, Answer, locals, IInv, TypeOK
<1>7. /\ Walking(t) => /\ call[t] \in Calls /\ pred[t] \in Live \ {Tail} /\ cur[t] \in Live
                       /\ pred[t] \in Nodes /\ cur[t] \in Nodes
      /\ ThreadInv(t)
  BY PairOfTwo DEF IInv
<1>8. Walking(t) => (Found(t)' <=> Found(t)) /\ (WalksOn(t)' <=> WalksOn(t))
  <2> SUFFICES ASSUME Walking(t)
               PROVE  (Found(t)' <=> Found(t)) /\ (WalksOn(t)' <=> WalksOn(t))
    OBVIOUS
  <2> PICK r : r = cur[t]
    OBVIOUS
  <2>0. r \in Live /\ r \in Nodes /\ r # n /\ n # NoNode
    BY <1>2, <1>5, <1>7
  <2>1. value'[r] = value[r] /\ KeyOf(r)' = KeyOf(r)
    BY <1>2, <2>0
  <2>2. next'[r] = NoNode <=> next[r] = NoNode
    BY <1>2, <1>4, <1>5, <2>0
  <2>3. KeyOf(cur[t])' = KeyOf(r)' /\ KeyOf(cur[t]) = KeyOf(r)
    BY <1>6 DEF KeyOf
  <2> QED BY <1>6, <2>1, <2>2, <2>3 DEF Found, WalksOn
<1>9. InCall(t)'
  BY <1>6, <1>7, <1>8 DEF ThreadInv, InCall, Walking
<1>10. WalkInv(t)'
  <2> SUFFICES ASSUME Walking(t) PROVE WalkInv(t)'
    BY <1>6 DEF WalkInv, Walking
  <2> PICK q, r, d : q = pred[t] /\ r = cur[t] /\ d = call[t].elem
    OBVIOUS
  <2>1. /\ q \in Live \ {Tail} /\ r \in Live /\ Before(q, r)
        /\ KeyOf(q) <= Key[d] /\ value[q] # d /\ d \in Elements
        /\ \A x \in InList : value[x] = d => Before(q, x)
        /\ r # Tail =>
             \A x \in InList : Before(q, x) /\ KeyOf(r) = KeyOf(x) => AtOrBefore(r, x)
        /\ pc[t] \notin {"walk", "handover"} => ~WalksOn(t)
    BY <1>7 DEF ThreadInv, WalkInv, Calls
  <2>2. /\ q \in Live' \ {Tail} /\ r \in Live' /\ Before(q, r)'
        /\ KeyOf(q)' <= Key[d] /\ value'[q] # d
    BY <1>2, <1>5, <2>1
  <2>3. ASSUME NEW x \in InList', value'[x] = d PROVE Before(q, x)'
    <3>1. CASE x = n
      BY <1>2, <2>1, <2>3, <3>1
    <3>2. CASE x # n
      BY <1>2, <1>3, <1>5, <2>1, <2>3, <3>2
    <3> QED BY <3>1, <3>2
  <2>4. ASSUME r # Tail, NEW x \in InList', Before(q, x)', KeyOf(r)' = KeyOf(x)'
        PROVE  r = x \/ Before(r, x)'
    <3>1. CASE x = n
      <4>1. KeyOf(r) <= Key[e]
        BY <1>2, <1>4, <2>1, <2>4, <3>1
      <4> QED BY <1>2, <2>1, <2>4, <3>1, <4>1
    <3>2. CASE x # n
      <4>1. x \in InList /\ x \in Live
        BY <1>3, <1>5, <3>2
      <4>2. AtOrBefore(r, x)
        BY <1>2, <2>1, <2>4, <4>1
      <4> QED BY <1>2, <2>1, <4>1, <4>2 DEF AtOrBefore
    <3> QED BY <3>1, <3>2
  <2> QED BY <1>6, <1>8, <2>1, <2>2, <2>3, <2>4 DEF WalkInv, AtOrBefore
<1>11. PairInv(t)'
  <2>1. mutex[pred[t]] = t => pred[t] # p
    BY <1>4
  <2>2. Walking(t) /\ mutex[pred[t]] = t => next'[pred[t]] = next[pred[t]]
    BY <1>2, <1>5, <1>7, <2>1
  <2>3. pc[t] = "handover" =>
          /\ other[t] \in Live' /\ Before(other[t], pred[t])'
          /\ version = "C++" => mutex[other[t]] = t
    <3> SUFFICES ASSUME pc[t] = "handover"
                 PROVE  /\ other[t] \in Live' /\ Before(other[t], pred[t])'
                        /\ version = "C++" => mutex[other[t]] = t
      OBVIOUS
    <3> PICK o, q : o = other[t] /\ q = pred[t]
      OBVIOUS
    <3>1. /\ o \in Live /\ Before(o, q) /\ q \in Live
          /\ version = "C++" => mutex[o] = t
      BY <1>7 DEF ThreadInv, PairInv, Walking
    <3>2. Before(o, q)'
      BY <1>2, <3>1
    <3> QED BY <1>2, <1>6, <3>1, <3>2
  <2> QED BY <1>3, <1>6, <1>7, <2>2, <2>3 DEF ThreadInv, PairInv, HandInHand, Walking
<1>12. CheckInv(t)'
  <2> SUFFICES ASSUME pc[t] \in {"check", "look"} PROVE CheckInv(t)'
    BY <1>6 DEF CheckInv
  <2>1. ASSUME NEW o \in Live, pred[t] \in From(next', o) PROVE pred[t] \in From(next, o)
    <3>1. LinksWithin(next, Live) /\ Live \in SUBSET Nodes /\ next \in [Nodes -> Nodes \cup {NoNode}]
      BY <1>5 DEF IInv, Shape, LinksTyped
    <3>2. n \notin From(next, o) /\ o \in Nodes
      BY <1>2, <1>5, <3>1, FromProperties
    <3>3. Linked(next, next', p, n)
      <4>1. next' \in [Nodes -> Nodes \cup {NoNode}] /\ next \in [Nodes -> Nodes \cup {NoNode}]
        BY <3>1, LinkShape DEF TypeOK
      <4> QED BY <1>2, <1>4, <4>1 DEF Linked
    <3>4. From(next', o) \subseteq From(next, o) \cup {n}
      BY <1>5, <3>2, <3>3, LinkedNodes
    <3>5. pred[t] # n
      BY <1>2, <1>7 DEF Walking
    <3> QED BY <2>1, <3>4, <3>5
  <2> QED BY <1>2, <1>3, <1>6, <1>7, <2>1 DEF ThreadInv, CheckInv
<1> QED BY <1>9, <1>10, <1>11, <1>12 DEF ThreadInv

LEMMA LinkIInv ==
  ASSUME IInv, NEW u \in Threads, Link(u)
  PROVE  IInv'
<1>1. TypeOK' /\ Shape'
  BY LinkShape
<1>2. Ordered' /\ Marks'
  BY LinkOrdered, LinkMarks
<1>3. Room'
  BY NewNode
<1>4. ThreadInv(u)'
  <2>1. pc'[u] = "return"
    BY DEF Link, Goto, IInv, TypeOK
  <2>2. call[u] \in Calls
    BY LockedPair DEF Locked, Link
  <2>3. call'[u] \in Calls /\ call'[u].answer # "pending"
    BY <2>2, Answered DEF Link
  <2> QED
    BY <2>1, <2>3 DEF ThreadInv, InCall, WalkInv, Walking, PairInv, HandInHand, CheckInv
<1> QED BY <1>1, <1>2, <1>3, <1>4, LinkOthers DEF IInv

(* The removed node: behind predecessor, and one the list can spare. *)
LEMMA DroppedNode ==
  ASSUME IInv, NEW u \in Threads, Unlink(u), NEW p, p = pred[u], NEW c, c = cur[u],
         NEW d, d = next[c]
  PROVE  /\ Locked(u) /\ Found(u) /\ (kind = "Lazy" => deleted[c])
         /\ call[u] \in Calls /\ call[u].op = "remove"
         /\ p \in InList \ {Tail, c} /\ p \in Live /\ next[p] = c
         /\ c \in InList /\ c \in Live \ {Head, Tail} /\ c \in Nodes
         /\ d \in InList /\ d \in Live /\ d \in Nodes
         /\ Before(p, c) /\ Before(c, d) /\ Before(p, d)
         /\ mutex[p] = u /\ mutex[c] = u
         /\ Dropped(next, next', p, c)
<1>1. Locked(u)
  BY DEF Unlink, Locked
<1>2. Found(u) /\ (kind = "Lazy" => deleted[c]) /\ call[u].op = "remove"
  BY DEF Unlink, IInv, ThreadInv, InCall
<1>3. /\ call[u] \in Calls /\ call[u].elem \in Elements
      /\ p \in InList \ {Tail} /\ p \in Live /\ p \in Nodes
      /\ c \in InList /\ c \in Live /\ c \in Nodes
      /\ next[p] = c /\ Before(p, c) /\ mutex[p] = u /\ mutex[c] = u
  BY <1>1, LockedPair
<1>4. c # Head /\ c # Tail
  BY <1>2, <1>3, Numbers DEF Found, IInv
<1>5. d \in InList /\ d \in Live /\ Before(c, d) /\ Live \subseteq Nodes
  BY <1>3, <1>4, NextNode, ListNodes DEF IInv
<1>6. Before(p, d) /\ c # p /\ d # c
  BY <1>3, <1>5, BeforeIsTotal DEF IInv
<1>7. next \in [Nodes -> Nodes \cup {NoNode}] /\ next' = [next EXCEPT ![p] = d]
  BY DEF Unlink, IInv, TypeOK
<1>8. next' \in [Nodes -> Nodes \cup {NoNode}] /\ next'[p] = d
  BY <1>3, <1>5, <1>7
<1>9. \A m \in Nodes \ {p} : next'[m] = next[m]
  BY <1>7
<1>10. Dropped(next, next', p, c)
  BY <1>3, <1>5, <1>6, <1>7, <1>8, <1>9 DEF Dropped
<1> QED BY <1>1, <1>2, <1>3, <1>4, <1>5, <1>6, <1>10

LEMMA UnlinkShape ==
  ASSUME IInv, NEW u \in Threads, Unlink(u)
  PROVE  /\ TypeOK' /\ Shape' /\ Room' /\ InList' = InList \ {cur[u]} /\ Live' = Live
         /\ \A m : KeyOf(m)' = KeyOf(m)
         /\ \A a, b : (Before(a, b)' <=> Before(a, b)) /\ (AtOrBefore(a, b)' <=> AtOrBefore(a, b))
<1> PICK p, c, d : p = pred[u] /\ c = cur[u] /\ d = next[c]
  OBVIOUS
<1>1. /\ call[u] \in Calls /\ call[u].op = "remove"
      /\ p \in InList \ {Tail, c} /\ p \in Live /\ next[p] = c
      /\ c \in InList /\ c \in Live \ {Head, Tail} /\ c \in Nodes /\ d \in Live
      /\ Before(p, d) /\ Dropped(next, next', p, c)
  BY DroppedNode
<1>2. /\ next' \in [Nodes -> Nodes \cup {NoNode}] /\ next'[p] = d
      /\ \A m \in Nodes \ {p} : next'[m] = next[m]
  BY <1>1 DEF Dropped
<1>3. /\ UNCHANGED <<kind, version, allocated, value, deleted, mutex, locals>>
      /\ pc' = [pc EXCEPT ![u] = "return"] /\ Answer(u, "yes")
  BY DEF Unlink, Goto
<1>4. Live' = Live /\ \A m : KeyOf(m)' = KeyOf(m)
  BY <1>3 DEF Live, KeyOf
<1>5. \A a, b : (Before(a, b)' <=> Before(a, b)) /\ (AtOrBefore(a, b)' <=> AtOrBefore(a, b))
  BY <1>4 DEF Before, AtOrBefore
<1>6. call' \in [Threads -> Calls \cup {NoCall}] /\ Adding' \subseteq Adding
  BY <1>1, <1>3, Answered
<1>7. TypeOK'
  BY <1>2, <1>3, <1>6 DEF IInv, TypeOK, locals
<1>8. Room'
  BY <1>3, <1>6, RoomShrinks DEF IInv, TypeOK
<1>9. /\ Head \in Live /\ Tail \in Live /\ Live \subseteq Nodes /\ NoNode \notin Nodes
      /\ InList = From(next, Head)
  BY ListNodes DEF IInv
<1>10. \A m \in Live \ {Tail} : next[m] \in Live /\ Before(m, next[m])
  BY DEF IInv, Shape
<1>11. next[Tail] = NoNode /\ next'[Tail] = NoNode
  BY <1>1, <1>2, <1>9 DEF IInv, Shape
<1>12. ASSUME NEW m \in Live \ {Tail}, NEW k, k = next'[m] PROVE k \in Live /\ Before(m, k)
  BY <1>1, <1>2, <1>9, <1>10, <1>12
<1>13. LinksTyped'
  <2>1. \A m \in Live : next'[m] \in Live \cup {NoNode}
    BY <1>11, <1>12
  <2> QED BY <1>4, <1>7, <2>1 DEF LinksTyped, LinksWithin, TypeOK
<1>14. Shape'
  <2>1. \A m \in Nodes : value'[m] \in Elements <=> m \in 1..allocated'
    BY <1>3 DEF IInv, Shape
  <2>2. ASSUME NEW m \in Live' \ {Tail} PROVE next'[m] \in Live' /\ Before(m, next[m])'
    <3> PICK k : k = next'[m]
      OBVIOUS
    <3>1. k \in Live /\ Before(m, k)
      BY <1>4, <1>12, <2>2
    <3>2. Before(m, k)'
      BY <1>5, <3>1
    <3>3. Before(m, next[m])'
      BY <3>2 DEF Before, KeyOf
    <3> QED BY <1>4, <3>1, <3>3
  <2> QED BY <1>11, <1>13, <2>1, <2>2 DEF Shape
<1>15. InList' = InList \ {c}
  <2>1. ASSUME NEW m \in InList, next[m] = c PROVE m = p
    <3>1. m # Tail
      BY <1>1, <1>9, <1>11, <2>1
    <3> QED BY <1>1, <2>1, <3>1, OnePredecessor DEF IInv
  <2>2. From(next', Head) = From(next, Head) \ {c}
    BY <1>1, <1>9, <2>1, UnlinkedList
  <2> QED BY <1>9, <1>13, <2>2, InListIsFromNext
<1> QED BY <1>4, <1>5, <1>7, <1>8, <1>14, <1>15

LEMMA UnlinkOrdered ==
  ASSUME IInv, NEW u \in Threads, Unlink(u)
  PROVE  Ordered'
<1> PICK p, c, d : p = pred[u] /\ c = cur[u] /\ d = next[c]
  OBVIOUS
<1>1. /\ p \in InList \ {Tail, c} /\ p \in Live /\ next[p] = c
      /\ c \in InList /\ c \in Live \ {Head, Tail}
      /\ Dropped(next, next', p, c)
  BY DroppedNode
<1>2. /\ Live' = Live /\ InList' = InList \ {c}
      /\ \A m : KeyOf(m)' = KeyOf(m)
      /\ \A a, b : (Before(a, b)' <=> Before(a, b)) /\ (AtOrBefore(a, b)' <=> AtOrBefore(a, b))
  BY UnlinkShape
<1>3. next'[p] = d /\ \A m \in Nodes \ {p} : next'[m] = next[m]
  BY <1>1 DEF Dropped
<1>4. InList \subseteq Live /\ Live \subseteq Nodes
  BY ListNodes DEF IInv
<1>5. /\ Tail \in InList
      /\ \A m \in InList \ {Tail}, x \in InList : Before(m, x) => AtOrBefore(next[m], x)
      /\ \A m \in Live \ {Tail}, x \in InList :
           Before(m, x) /\ KeyOf(next[m]) = KeyOf(x) /\ next[m] # Tail => AtOrBefore(next[m], x)
      /\ \A m, x \in Inner : value[m] = value[x] => m = x
  BY DEF IInv, Ordered
<1>6. ASSUME NEW m \in InList' \ {Tail}, NEW x \in InList', Before(m, x),
             NEW k, k = next'[m]
      PROVE  AtOrBefore(k, x)
  <2>1. CASE m = p
    <3>1. AtOrBefore(c, x)
      BY <1>1, <1>2, <1>5, <1>6, <2>1
    <3>2. Before(c, x)
      BY <1>2, <1>6, <3>1 DEF AtOrBefore
    <3> QED BY <1>1, <1>2, <1>3, <1>5, <1>6, <2>1, <3>2
  <2>2. CASE m # p
    <3>1. k = next[m] /\ m \in InList
      BY <1>2, <1>3, <1>4, <1>6, <2>2
    <3> QED BY <1>2, <1>5, <1>6, <3>1
  <2> QED BY <2>1, <2>2
<1>7. ASSUME NEW m \in Live \ {Tail}, NEW x \in InList', Before(m, x),
             NEW k, k = next'[m], KeyOf(k) = KeyOf(x), k # Tail
      PROVE  AtOrBefore(k, x)
  <2>1. CASE m = p
    BY <1>1, <1>2, <1>6, <1>7, <2>1
  <2>2. CASE m # p
    <3>1. k = next[m]
      BY <1>3, <1>4, <1>7, <2>2
    <3> QED BY <1>2, <1>5, <1>7, <3>1
  <2> QED BY <2>1, <2>2
<1>8. \A m, x \in Inner' : value'[m] = value'[x] => m = x
  <2>1. Inner' \subseteq Inner
    BY <1>2 DEF Inner
  <2>2. value' = value
    BY DEF Unlink
  <2> QED BY <1>5, <2>1, <2>2
<1>9. \A m \in InList' \ {Tail}, x \in InList' : Before(m, x)' => AtOrBefore(next[m], x)'
  <2> SUFFICES ASSUME NEW m \in InList' \ {Tail}, NEW x \in InList', Before(m, x)'
               PROVE  AtOrBefore(next[m], x)'
    OBVIOUS
  <2> PICK k : k = next'[m]
    OBVIOUS
  <2>1. AtOrBefore(k, x)'
    BY <1>2, <1>6
  <2> QED BY <2>1 DEF AtOrBefore, Before, KeyOf
<1>10. \A m \in Live' \ {Tail}, x \in InList' :
         (Before(m, x) /\ KeyOf(next[m]) = KeyOf(x) /\ next[m] # Tail)' => AtOrBefore(next[m], x)'
  <2> SUFFICES ASSUME NEW m \in Live' \ {Tail}, NEW x \in InList', Before(m, x)',
                      (KeyOf(next[m]) = KeyOf(x))', next'[m] # Tail
               PROVE  AtOrBefore(next[m], x)'
    BY DEF Tail
  <2> PICK k : k = next'[m]
    OBVIOUS
  <2>0. KeyOf(k)' = KeyOf(x)'
    BY DEF KeyOf
  <2>1. AtOrBefore(k, x)'
    BY <1>2, <1>7, <2>0
  <2> QED BY <2>1 DEF AtOrBefore, Before, KeyOf
<1> QED BY <1>1, <1>2, <1>5, <1>8, <1>9, <1>10 DEF Ordered

LEMMA UnlinkMarks ==
  ASSUME IInv, NEW u \in Threads, Unlink(u)
  PROVE  Marks'
<1> PICK c : c = cur[u]
  OBVIOUS
<1>1. InList' = InList \ {c} /\ (kind = "Lazy" => deleted[c])
  BY UnlinkShape, DroppedNode
<1>2. UNCHANGED <<kind, allocated, deleted, cur>> /\ pc' = [pc EXCEPT ![u] = "return"]
  BY DEF Unlink, Goto, locals
<1>3. /\ \A n \in Nodes : deleted[n] => n \in 1..allocated
      /\ kind = "Lazy" => \A n \in (1..allocated) \ InList : deleted[n]
      /\ \A n \in InList : deleted[n] => \E t \in Threads : pc[t] = "unlink" /\ cur[t] = n
      /\ pc = [t \in Threads |-> pc[t]]
  BY DEF IInv, Marks, TypeOK
<1>4. ASSUME NEW n \in InList', deleted'[n]
      PROVE  \E t \in Threads : pc'[t] = "unlink" /\ cur'[t] = n
  <2>1. PICK t \in Threads : pc[t] = "unlink" /\ cur[t] = n
    BY <1>1, <1>2, <1>3, <1>4
  <2>2. t # u
    BY <1>1, <1>4, <2>1
  <2> QED BY <1>2, <1>3, <2>1, <2>2
<1> QED BY <1>1, <1>2, <1>3, <1>4 DEF Marks

LEMMA UnlinkOthers ==
  ASSUME IInv, NEW u \in Threads, Unlink(u), NEW t \in Threads \ {u}
  PROVE  ThreadInv(t)'
<1> PICK p, c, d : p = pred[u] /\ c = cur[u] /\ d = next[c]
  OBVIOUS
<1>1. /\ p \in Live /\ next[p] = c /\ c \in Nodes /\ d \in Nodes
      /\ mutex[p] = u /\ mutex[c] = u /\ Dropped(next, next', p, c)
  BY DroppedNode
<1>2. /\ Live' = Live /\ InList' = InList \ {c}
      /\ \A m : KeyOf(m)' = KeyOf(m)
      /\ \A a, b : (Before(a, b)' <=> Before(a, b)) /\ (AtOrBefore(a, b)' <=> AtOrBefore(a, b))
  BY UnlinkShape
<1>3. next'[p] = d /\ \A m \in Nodes \ {p} : next'[m] = next[m]
  BY <1>1 DEF Dropped
<1>4. Live \subseteq Nodes /\ NoNode \notin Nodes
  BY ListNodes DEF IInv
<1>5. /\ pc'[t] = pc[t] /\ call'[t] = call[t]
      /\ pred'[t] = pred[t] /\ cur'[t] = cur[t] /\ other'[t] = other[t] /\ ahead'[t] = ahead[t]
      /\ UNCHANGED <<kind, version, mutex, deleted, value>>
  BY DEF Unlink, Goto, Answer, locals, IInv, TypeOK
<1>6. /\ Walking(t) => pred[t] \in Nodes /\ cur[t] \in Nodes
      /\ ThreadInv(t)
  BY PairOfTwo DEF IInv
<1>7. Found(t)' <=> Found(t)
  BY <1>5 DEF Found
<1>8. Walking(t) => (WalksOn(t)' <=> WalksOn(t))
  <2> SUFFICES ASSUME Walking(t) PROVE WalksOn(t)' <=> WalksOn(t)
    OBVIOUS
  <2>1. next'[cur[t]] = NoNode <=> next[cur[t]] = NoNode
    BY <1>1, <1>3, <1>4, <1>6
  <2>2. KeyOf(cur[t])' = KeyOf(cur[t])
    BY <1>2, <1>5 DEF KeyOf
  <2> QED BY <1>5, <2>1, <2>2 DEF WalksOn
<1>9. InCall(t)'
  BY <1>5, <1>6, <1>7 DEF ThreadInv, InCall
<1>10. WalkInv(t)'
  BY <1>2, <1>5, <1>6, <1>8 DEF ThreadInv, WalkInv, Walking
<1>11. PairInv(t)'
  <2>1. mutex[pred[t]] = t => pred[t] # p /\ pred[t] # c
    BY <1>1
  <2>2. Walking(t) /\ mutex[pred[t]] = t => next'[pred[t]] = next[pred[t]]
    BY <1>3, <1>6, <2>1
  <2> QED BY <1>2, <1>5, <1>6, <2>1, <2>2 DEF ThreadInv, PairInv, HandInHand, Walking
<1>12. CheckInv(t)'
  <2> SUFFICES ASSUME pc[t] \in {"check", "look"} PROVE CheckInv(t)'
    BY <1>5 DEF CheckInv
  <2>1. ASSUME NEW o \in Live, pred[t] \in From(next', o) PROVE pred[t] \in From(next, o)
    BY <1>1, <1>4, <2>1, UnlinkedNodes
  <2>2. pred[t] # c
    BY <1>1, <1>6 DEF ThreadInv, PairInv
  <2> QED BY <1>2, <1>5, <1>6, <2>1, <2>2 DEF ThreadInv, CheckInv
<1> QED BY <1>9, <1>10, <1>11, <1>12 DEF ThreadInv

LEMMA UnlinkIInv ==
  ASSUME IInv, NEW u \in Threads, Unlink(u)
  PROVE  IInv'
<1>1. TypeOK' /\ Shape' /\ Room'
  BY UnlinkShape
<1>2. Ordered' /\ Marks'
  BY UnlinkOrdered, UnlinkMarks
<1>3. ThreadInv(u)'
  <2>1. pc'[u] = "return"
    BY DEF Unlink, Goto, IInv, TypeOK
  <2>2. call[u] \in Calls
    BY DroppedNode
  <2>3. call'[u] \in Calls /\ call'[u].answer # "pending"
    BY <2>2, Answered DEF Unlink
  <2> QED
    BY <2>1, <2>3 DEF ThreadInv, InCall, WalkInv, Walking, PairInv, HandInHand, CheckInv
<1> QED BY <1>1, <1>2, <1>3, UnlinkOthers DEF IInv
-----------------------------------------------------------------------------
LEMMA InitIInv == Init => IInv
<1> SUFFICES ASSUME Init PROVE IInv
  OBVIOUS
<1> USE DEF Init
<1>1. /\ MaxNodes \in Nat /\ Head = 0 /\ Head \in Nodes /\ Tail \in Nodes /\ NoNode \notin Nodes
      /\ Head # Tail /\ Tail = MaxNodes + 1 /\ TopKey \in Nat \ {0} /\ NoElement \notin Elements
  BY NodeNumbers, Parameters DEF Tail
<1>2. Live = {Head, Tail} /\ 1..allocated = {}
  BY <1>1 DEF Live
<1>3. KeyOf(Head) = 0 /\ KeyOf(Tail) = TopKey
  BY <1>1 DEF KeyOf
<1>4. TypeOK
  BY <1>1 DEF TypeOK
<1>5. Shape
  <2>1. LinksTyped
    BY <1>1, <1>2 DEF LinksTyped, LinksWithin
  <2>2. Before(Head, Tail)
    BY <1>1, <1>3 DEF Before
  <2>3. \A n \in Nodes : value[n] \in Elements <=> n \in 1..allocated
    BY <1>1, <1>2
  <2> QED BY <1>1, <1>2, <2>1, <2>2, <2>3 DEF Shape
<1>6. InList = {Head, Tail} /\ Inner = {}
  <2>1. Head \in InList /\ next[Head] \in InList /\ InList \subseteq Live
    BY <1>1, <1>5, ListNodes
  <2> QED BY <1>1, <1>2, <2>1 DEF Inner
<1>7. Ordered
  <2>1. ASSUME NEW m \in Live \ {Tail}, NEW n \in InList, Before(m, n)
        PROVE  AtOrBefore(next[m], n)
    <3>1. ~Before(Head, Head)
      BY <1>2, <1>5, BeforeIsTotal
    <3> QED BY <1>1, <1>2, <1>6, <2>1, <3>1 DEF AtOrBefore
  <2>2. Tail \in InList /\ InList = Live
    BY <1>2, <1>6
  <2> QED BY <1>6, <2>1, <2>2 DEF Ordered
<1>8. Marks
  <2>1. \A n \in Nodes : ~deleted[n]
    OBVIOUS
  <2>2. InList \subseteq Nodes
    BY <1>1, <1>6
  <2> QED BY <1>2, <2>1, <2>2 DEF Marks
<1>9. Room
  <2>1. Adding = {}
    BY DEF Adding, NoCall
  <2> QED BY <1>1, <2>1, FS_EmptySet DEF Room
<1>10. ASSUME NEW t \in Threads PROVE ThreadInv(t)
  BY DEF ThreadInv, InCall, WalkInv, Walking, PairInv, HandInHand, CheckInv
<1> QED BY <1>4, <1>5, <1>7, <1>8, <1>9, <1>10 DEF IInv

LEMMA StutterIInv == ASSUME IInv, UNCHANGED vars PROVE IInv'
<1> USE DEF vars, heap, locals, IInv
<1>1. TypeOK'
  BY DEF TypeOK
<1>2. /\ Shape' /\ InList' = InList /\ Live' = Live /\ Inner' = Inner
      /\ \A n : KeyOf(n)' = KeyOf(n)
      /\ \A a, b : (Before(a, b)' <=> Before(a, b)) /\ (AtOrBefore(a, b)' <=> AtOrBefore(a, b))
  BY SameHeap
<1>3. Ordered'
  BY <1>2 DEF Ordered
<1>4. Marks'
  BY <1>2 DEF Marks
<1>5. Room'
  BY RoomKept
<1>6. ASSUME NEW t \in Threads PROVE ThreadInv(t)'
  <2>1. Undisturbed(t)
    BY DEF Undisturbed
  <2> QED BY <2>1, OthersUndisturbed
<1> QED BY <1>1, <1>2, <1>3, <1>4, <1>5, <1>6

(* Which steps a thread takes. *)
LEMMA NextIInv == ASSUME IInv, Next PROVE IInv'
<1>1. PICK t \in Threads : Start(t) \/ Step(t)
  BY DEF Next
<1>2. CASE Start(t)
  BY <1>2, StartIInv
<1>3. CASE kind = "FineGrained" /\ FineGrainedFind(t)
  BY <1>3, LockHeadIInv, LockFirstIInv, StepOnIInv, HandOverIInv, FindLockedIInv
  DEF FineGrainedFind
<1>4. CASE kind # "FineGrained" /\ OptimisticStep(t)
  BY <1>4, StartWalkIInv, WalkIInv, LockBothIInv, LockPredIInv, LockCurIInv
  DEF OptimisticStep
<1>5. CASE kind = "Optimistic" /\ OptimisticFind(t) /\ ~OptimisticStep(t)
  BY <1>5, StartCheckIInv, CheckIInv, CheckJavaIInv, LookAheadIInv, EndCheckIInv, RetryIInv
  DEF OptimisticFind, CheckFails
<1>6. CASE kind = "Lazy" /\ LazyFind(t) /\ ~OptimisticStep(t)
  BY <1>6, SeeUnmarkedIInv, RetryIInv DEF LazyFind, SeeMarked
<1>7. CASE Callback(t)
  BY <1>7, DecideIInv, LinkIInv, MarkIInv, UnlinkIInv, ReturnIInv DEF Callback
<1>8. kind = "Optimistic" \/ kind = "Lazy" => kind # "FineGrained"
  OBVIOUS
<1> QED BY <1>1, <1>2, <1>3, <1>4, <1>5, <1>6, <1>7, <1>8
        DEF Step, OptimisticFind, LazyFind

-----------------------------------------------------------------------------
(* However the calls of any threads interleave, links go forwards and skip *)
(* nothing, also those of nodes that were taken out while somebody still   *)
(* walks on them; marks are true; and who is where in find holds what it   *)
(* should: in every state of the three sets.                               *)
THEOREM Invariance == Spec => []IInv
<1>1. Init => IInv
  BY InitIInv
<1>2. IInv /\ [Next]_vars => IInv'
  BY NextIInv, StutterIInv
<1> QED BY <1>1, <1>2, PTL DEF Spec

(* The list ends at the tail, in the order of the keys, without an element *)
(* twice; only a node about to be unlinked is marked deleted in it.        *)
THEOREM WellFormed == Spec => []ListWellFormed
<1>1. IInv => ListWellFormed
  <2> SUFFICES ASSUME IInv PROVE ListWellFormed
    OBVIOUS
  <2>1. TypeOK /\ Tail \in InList /\ \A m, n \in Inner : value[m] = value[n] => m = n
    BY DEF IInv, Ordered
  <2>2. ASSUME NEW n \in InList \ {Tail}
        PROVE  KeyOf(n) <= KeyOf(next[n]) /\ (KeyOf(n) = KeyOf(next[n]) => n < next[n])
    <3>1. n \in Live \ {Tail} /\ Before(n, next[n]) /\ next[n] \in Live
      BY ListNodes DEF IInv, Shape
    <3>2. KeyOf(n) <= KeyOf(next[n])
      BY <3>1, BeforeIsTotal DEF IInv
    <3>3. KeyOf(n) \in Nat
      BY <3>1, Numbers DEF IInv
    <3> QED BY <3>1, <3>2, <3>3 DEF Before
  <2>3. ASSUME NEW n \in InList, deleted[n]
        PROVE  \E t \in Threads : pc[t] = "unlink" /\ cur[t] = n /\ mutex[n] = t
    <3>1. PICK t \in Threads : pc[t] = "unlink" /\ cur[t] = n
      BY <2>3 DEF IInv, Marks
    <3> QED BY <3>1, LockedPair DEF Locked
  <2> QED BY <2>1, <2>2, <2>3 DEF ListWellFormed
<1> QED BY <1>1, Invariance, PTL

(* Whatever changed between a walk without locks, the check and the        *)
(* callback: a callback has two adjacent nodes of the list locked, and its *)
(* element is at the second or nowhere.                                    *)
THEOREM Window == Spec => []CallbackWindow
<1>1. IInv => CallbackWindow
  <2> SUFFICES ASSUME IInv, NEW t \in Threads, Locked(t)
               PROVE  /\ mutex[pred[t]] = t /\ mutex[cur[t]] = t
                      /\ pred[t] \in InList /\ next[pred[t]] = cur[t]
                      /\ Found(t) \/ \A n \in InList : value[n] # call[t].elem
    BY DEF CallbackWindow, Locked
  <2> QED BY LockedPair, NotFound
<1> QED BY <1>1, Invariance, PTL
-----------------------------------------------------------------------------
Contents == {value[n] : n \in Inner}

(* What a callback sees of its element is whether it is in the set. *)
LEMMA FoundIsMember ==
  ASSUME IInv, NEW t \in Threads, Locked(t)
  PROVE  call[t].elem \in Contents <=> Found(t)
<1>1. /\ call[t].elem \in Elements /\ cur[t] \in InList
      /\ value[Head] \notin Elements /\ value[Tail] \notin Elements
  BY LockedPair, Numbers DEF IInv
<1>2. CASE Found(t)
  BY <1>1, <1>2 DEF Found, Contents, Inner
<1>3. CASE ~Found(t)
  BY <1>3, NotFound DEF Contents, Inner
<1> QED BY <1>2, <1>3

LEMMA ContentsKept ==
  ASSUME IInv, UNCHANGED <<allocated, next, value>>
  PROVE  Contents' = Contents
BY SameHeap DEF IInv, Contents

LEMMA PendingCall ==
  ASSUME NEW c \in Calls
  PROVE  c # NoCall /\ c.op \in {"add", "remove", "contains"}
BY DEF Calls, NoCall, Ops

(* The three steps in which a call takes effect. *)
LEMMA DecideTakesEffect ==
  ASSUME IInv, NEW t \in Threads, Decide(t)
  PROVE  Contract!TakeEffect(t)
<1>1. Locked(t)
  BY DEF Decide, Locked
<1>2. call[t] \in Calls /\ call[t].answer = "pending"
  BY <1>1, LockedPair
<1>3. /\ call[t] # NoCall /\ call[t].op \in {"add", "remove", "contains"}
      /\ call[t].elem \in Contents <=> Found(t)
  BY <1>1, <1>2, PendingCall, FoundIsMember
<1>4. Contents' = Contents
  BY ContentsKept DEF Decide, heap
<1> DEFINE e == call[t].elem
<1>5. CASE call[t].op = "contains"
  BY <1>2, <1>3, <1>4, <1>5
  DEF Decide, Answer, Contract!TakeEffect, Contract!Pending, Contract!Answer,
      Contract!NoCall, NoCall, Contents
<1>6. CASE call[t].op = "add"
  <2>1. Found(t) /\ Contents \cup {e} = Contents
    BY <1>3, <1>6 DEF Decide
  <2> QED BY <1>2, <1>3, <1>4, <1>6, <2>1
          DEF Decide, Answer, Contract!TakeEffect, Contract!Pending, Contract!Answer,
              Contract!NoCall, NoCall, Contents
<1>7. CASE call[t].op = "remove"
  <2>1. ~Found(t) /\ Contents \ {e} = Contents
    BY <1>3, <1>7 DEF Decide
  <2> QED BY <1>2, <1>3, <1>4, <1>7, <2>1
          DEF Decide, Answer, Contract!TakeEffect, Contract!Pending, Contract!Answer,
              Contract!NoCall, NoCall, Contents
<1> QED BY <1>3, <1>5, <1>6, <1>7

LEMMA LinkTakesEffect ==
  ASSUME IInv, NEW t \in Threads, Link(t)
  PROVE  Contract!TakeEffect(t)
<1> PICK n, e : n = allocated + 1 /\ e = call[t].elem
  OBVIOUS
<1>1. Locked(t) /\ ~Found(t) /\ call[t].op = "add"
  BY DEF Link, Locked
<1>2. call[t] \in Calls /\ call[t].answer = "pending" /\ call[t] # NoCall
  BY <1>1, LockedPair, PendingCall
<1>3. e \notin Contents
  BY <1>1, FoundIsMember
<1>4. /\ InList' = InList \cup {n} /\ n \in Nodes \ Live /\ value'[n] = e
      /\ \A m \in Nodes \ {n} : value'[m] = value[m]
  BY LinkShape, NewNode
<1>5. InList \subseteq Live /\ Live \subseteq Nodes /\ Head \in Live /\ Tail \in Live
  BY ListNodes DEF IInv
<1>6. Inner' = Inner \cup {n} /\ \A m \in Inner : value'[m] = value[m]
  BY <1>4, <1>5 DEF Inner
<1>7. Contents' = Contents \cup {e}
  BY <1>4, <1>6 DEF Contents
<1>8. call' = [call EXCEPT ![t].answer = "yes"]
  BY DEF Link, Answer
<1>9. Contract!Pending(t)
  BY <1>2 DEF Contract!Pending, Contract!NoCall, NoCall
<1>10. Contract!Answer(call[t]) = "yes"
  <2>1. call[t].elem \notin Contents /\ call[t].op = "add"
    BY <1>1, <1>3
  <2> QED BY <2>1 DEF Contract!Answer, Contents
<1> QED BY <1>1, <1>7, <1>8, <1>9, <1>10 DEF Contract!TakeEffect, Contents

LEMMA UnlinkTakesEffect ==
  ASSUME IInv, NEW t \in Threads, Unlink(t)
  PROVE  Contract!TakeEffect(t)
<1> PICK c, e : c = cur[t] /\ e = call[t].elem
  OBVIOUS
<1>1. Locked(t) /\ Found(t) /\ call[t].op = "remove" /\ c \in InList /\ c \in Live \ {Head, Tail}
  BY DroppedNode
<1>2. call[t] \in Calls /\ call[t].answer = "pending" /\ call[t] # NoCall
  BY <1>1, LockedPair, PendingCall
<1>3. e \in Contents
  BY <1>1, FoundIsMember
<1>4. InList' = InList \ {c} /\ value' = value /\ value[c] = e
  BY <1>1, UnlinkShape DEF Unlink, Found
<1>5. c \in Inner /\ \A m \in Inner : value[m] = value[c] => m = c
  BY <1>1 DEF IInv, Ordered, Inner
<1>6. Inner' = Inner \ {c}
  BY <1>4 DEF Inner
<1>7. Contents' = Contents \ {e}
  BY <1>4, <1>5, <1>6 DEF Contents
<1>8. call' = [call EXCEPT ![t].answer = "yes"]
  BY DEF Unlink, Answer
<1>9. Contract!Pending(t)
  BY <1>2 DEF Contract!Pending, Contract!NoCall, NoCall
<1>10. Contract!Answer(call[t]) = "yes"
  <2>1. call[t].elem \in Contents /\ call[t].op # "add"
    BY <1>1, <1>3
  <2> QED BY <2>1 DEF Contract!Answer, Contents
<1> QED BY <1>1, <1>7, <1>8, <1>9, <1>10 DEF Contract!TakeEffect, Contents

LEMMA StepImplements ==
  ASSUME IInv, NEW t \in Threads, Start(t) \/ Step(t)
  PROVE  [Contract!Next]_(Contract!vars)
<1>1. CASE Start(t)
  <2>1. PICK op \in Ops, e \in Elements : Call(t, op, e)
    BY <1>1 DEF Start
  <2>2. Contents' = Contents
    BY <2>1, ContentsKept DEF Call, heap
  <2>3. call[t] = NoCall
    BY <2>1 DEF Call, IInv, ThreadInv, InCall
  <2>4. Contract!Start(t, op, e)
    BY <2>1, <2>2, <2>3 DEF Call, Contract!Start, Contract!NoCall, NoCall, Contents
  <2> QED BY <2>4 DEF Contract!Next, Contract!Ops, Ops
<1>2. CASE Decide(t) \/ Link(t) \/ Unlink(t)
  BY <1>2, DecideTakesEffect, LinkTakesEffect, UnlinkTakesEffect DEF Contract!Next
<1>3. CASE Return(t)
  <2>1. Contents' = Contents
    BY <1>3, ContentsKept DEF Return, heap
  <2>2. call[t] # NoCall /\ call[t].answer # "pending"
    BY <1>3, PendingCall DEF Return, IInv, ThreadInv, InCall
  <2>3. Contract!Return(t)
    BY <1>3, <2>1, <2>2 DEF Return, Contract!Return, Contract!NoCall, NoCall, Contents
  <2> QED BY <2>3 DEF Contract!Next
<1>4. CASE UNCHANGED <<allocated, next, value, call>>
  BY <1>4, ContentsKept DEF Contract!vars, Contents
<1>5. CASE FineGrainedFind(t)
  BY <1>4, <1>5
  DEF FineGrainedFind, LockHead, LockFirst, StepOn, HandOver, FindLocked, heap
<1>6. CASE OptimisticStep(t)
  BY <1>4, <1>6 DEF OptimisticStep, StartWalk, Walk, LockBoth, LockPred, LockCur, heap
<1>7. CASE OptimisticFind(t) /\ ~OptimisticStep(t)
  BY <1>4, <1>7
  DEF OptimisticFind, StartCheck, Check, CheckJava, LookAhead, EndCheck, CheckFails, Retry,
      heap
<1>8. CASE LazyFind(t) /\ ~OptimisticStep(t)
  BY <1>4, <1>8 DEF LazyFind, SeeUnmarked, SeeMarked, Retry, heap
<1>9. CASE Mark(t)
  BY <1>4, <1>9 DEF Mark
<1> QED BY <1>1, <1>2, <1>3, <1>5, <1>6, <1>7, <1>8, <1>9 DEF Step, Callback

(* Every step of add, remove and contains is a step of the set contract or *)
(* leaves its state alone: each call takes effect at one instant, add and  *)
(* remove when they link or unlink a node, others when they decide.        *)
THEOREM Linearizable == Spec => Contract!Spec
<1>1. Init => Contract!Init
  <2> SUFFICES ASSUME Init PROVE Contract!Init
    OBVIOUS
  <2>1. Contents = {}
    <3>1. IInv /\ allocated = 0
      BY InitIInv DEF Init
    <3>2. Inner = {}
      BY <3>1, ListNodes, Numbers DEF Inner, IInv
    <3> QED BY <3>2 DEF Contents
  <2> QED BY <2>1 DEF Init, Contract!Init, Contract!NoCall, NoCall, Contents
<1>2. IInv /\ [Next]_vars => [Contract!Next]_(Contract!vars)
  <2> SUFFICES ASSUME IInv, [Next]_vars PROVE [Contract!Next]_(Contract!vars)
    OBVIOUS
  <2>1. CASE Next
    BY <2>1, StepImplements DEF Next
  <2>2. CASE UNCHANGED vars
    <3>1. Contents' = Contents
      BY <2>2, ContentsKept DEF vars, heap
    <3> QED BY <2>2, <3>1 DEF vars, Contract!vars, Contents
  <2> QED BY <2>1, <2>2
<1> QED BY <1>1, <1>2, Invariance, PTL DEF Spec, Contract!Spec
-----------------------------------------------------------------------------
(* Whether the token of round i is there after the first n calls. *)
Stored(n, i) ==
  \/ n < 4 * WorkSize /\ i = Round(n) /\ Phase(n) \in {1, 2}
  \/ /\ n >= 4 * WorkSize
     /\ \/ Phase(n) = 0 /\ i < Round(n)
        \/ Phase(n) = 1
        \/ Phase(n) = 2 /\ i >= Round(n)

LEMMA Quotient ==
  ASSUME NEW d \in Nat \ {0}, NEW q \in Nat, NEW r \in 0..(d - 1)
  PROVE  (d * q + r) \div d = q /\ (d * q + r) % d = r
OBVIOUS

LEMMA QuotientOfNext ==
  ASSUME NEW d \in Nat \ {0}, NEW n \in Nat
  PROVE  /\ n \div d \in Nat /\ n % d \in 0..(d - 1)
         /\ n = d * (n \div d) + (n % d)
         /\ n % d < d - 1 => (n + 1) \div d = n \div d /\ (n + 1) % d = (n % d) + 1
         /\ n % d = d - 1 => (n + 1) \div d = n \div d + 1 /\ (n + 1) % d = 0
<1>1. PICK q \in Nat, r \in 0..(d - 1) : q = n \div d /\ r = n % d /\ n = d * q + r
  OBVIOUS
<1>2. ASSUME r < d - 1 PROVE (n + 1) \div d = q /\ (n + 1) % d = r + 1
  <2>1. n + 1 = d * q + (r + 1) /\ r + 1 \in 0..(d - 1)
    BY <1>1, <1>2
  <2> QED BY <1>1, <2>1, Quotient
<1>3. ASSUME r = d - 1 PROVE (n + 1) \div d = q + 1 /\ (n + 1) % d = 0
  <2>1. PICK p \in Nat : p = q + 1
    BY <1>1
  <2>2. n + 1 = d * p + 0 /\ 0 \in 0..(d - 1)
    BY <1>1, <1>3, <2>1
  <2> QED BY <2>1, <2>2, Quotient
<1>4. n \div d \in Nat /\ n % d \in 0..(d - 1) /\ n = d * (n \div d) + (n % d)
  BY <1>1, Zenon
<1>5. n % d < d - 1 => (n + 1) \div d = n \div d /\ (n + 1) % d = (n % d) + 1
  BY <1>1, <1>2, Zenon
<1>6. n % d = d - 1 => (n + 1) \div d = n \div d + 1 /\ (n + 1) % d = 0
  BY <1>1, <1>3, Zenon
<1> QED BY <1>4, <1>5, <1>6

LEMMA TokensDiffer ==
  ASSUME NEW t \in DOMAIN threadId, NEW u \in DOMAIN threadId,
         NEW i \in Nat, NEW j \in Nat, Token(t, i) = Token(u, j)
  PROVE  t = u /\ i = j
<1>1. /\ NThreads \in Nat \ {0} /\ threadId[t] \in 0..(NThreads - 1)
      /\ threadId[u] \in 0..(NThreads - 1)
      /\ NThreads * i + threadId[t] = NThreads * j + threadId[u]
  <2>1. NThreads \in Nat /\ threadId[t] \in 0..(NThreads - 1) /\ threadId[u] \in 0..(NThreads - 1)
    BY WorkerParameters
  <2> QED BY <2>1 DEF Token
<1>2. /\ (NThreads * i + threadId[t]) \div NThreads = i
      /\ (NThreads * i + threadId[t]) % NThreads = threadId[t]
      /\ (NThreads * j + threadId[u]) \div NThreads = j
      /\ (NThreads * j + threadId[u]) % NThreads = threadId[u]
  BY <1>1, Quotient
<1>3. i = j /\ threadId[t] = threadId[u]
  BY <1>1, <1>2
<1> QED BY <1>3, WorkerParameters

(* A worker's call number n, of those it makes. *)
LEMMA PhaseAndRound ==
  ASSUME NEW n \in 0..(CallsPerWorker - 1)
  PROVE  Phase(n) \in 0..3 /\ Round(n) \in 0..(WorkSize - 1)
<1>1. WorkSize \in Nat \ {0} /\ n \in Nat /\ n < 8 * WorkSize
  BY WorkerParameters DEF CallsPerWorker
<1>2. CASE n < 4 * WorkSize
  <2>1. n \div 4 \in Nat /\ n % 4 \in 0..3 /\ n = 4 * (n \div 4) + (n % 4)
    BY <1>1, QuotientOfNext
  <2> QED BY <1>1, <1>2, <2>1 DEF Phase, Round
<1>3. CASE ~(n < 4 * WorkSize)
  <2> DEFINE q == n \div WorkSize
  <2>1. q \in Nat /\ n % WorkSize \in 0..(WorkSize - 1) /\ n = WorkSize * q + (n % WorkSize)
    BY <1>1, QuotientOfNext
  <2>2. Phase(n) = q - 4 /\ Round(n) = n % WorkSize
    BY <1>3 DEF Phase, Round
  <2> HIDE DEF q
  <2>3. q < 8
    <3> SUFFICES ASSUME q >= 8 PROVE FALSE
      BY <2>1
    <3>1. PICK e \in Nat : q = 8 + e
      BY <2>1
    <3>2. PICK k \in Nat : WorkSize * (8 + e) = 8 * WorkSize + k
      BY <1>1
    <3>3. n = (8 * WorkSize + k) + (n % WorkSize)
      BY <2>1, <3>1, <3>2
    <3> HIDE DEF q
    <3>4. PICK m \in Nat : m = n % WorkSize
      BY <2>1
    <3> QED BY <1>1, <3>3, <3>4
  <2>4. q >= 4
    <3> SUFFICES ASSUME q \in 0..3 PROVE FALSE
      BY <2>1
    <3>1. q = 0 \/ q = 1 \/ q = 2 \/ q = 3
      OBVIOUS
    <3> QED BY <1>1, <1>3, <2>1, <3>1
  <2> QED BY <2>1, <2>2, <2>3, <2>4
<1> QED BY <1>2, <1>3

(* What the call finds of its token, and what it leaves of all of them. *)
LEMMA CallNumber ==
  ASSUME NEW n \in 0..(CallsPerWorker - 1), NEW i \in 0..(WorkSize - 1)
  PROVE  /\ Stored(n, Round(n)) <=> Phase(n) \in {1, 2}
         /\ Stored(n + 1, i) <=> IF i = Round(n) THEN Phase(n) \in {0, 1} ELSE Stored(n, i)
<1>1. /\ WorkSize \in Nat \ {0} /\ n \in Nat /\ n < 8 * WorkSize
      /\ Phase(n) \in 0..3 /\ Round(n) \in 0..(WorkSize - 1)
  BY WorkerParameters, PhaseAndRound DEF CallsPerWorker
<1>2. CASE n + 1 < 4 * WorkSize
  <2>1. /\ n \div 4 \in Nat /\ n % 4 \in 0..3 /\ n = 4 * (n \div 4) + (n % 4)
        /\ n % 4 < 3 => (n + 1) \div 4 = n \div 4 /\ (n + 1) % 4 = (n % 4) + 1
        /\ n % 4 = 3 => (n + 1) \div 4 = n \div 4 + 1 /\ (n + 1) % 4 = 0
    BY <1>1
  <2>2. n < 4 * WorkSize
    BY <1>1, <1>2
  <2> QED BY <1>1, <1>2, <2>1, <2>2 DEF Stored, Phase, Round
<1>3. CASE n + 1 = 4 * WorkSize
  <2>1. n = 4 * (WorkSize - 1) + 3 /\ WorkSize - 1 \in Nat /\ 3 \in 0..(4 - 1)
    BY <1>1, <1>3
  <2>2. n \div 4 = WorkSize - 1 /\ n % 4 = 3
    BY <2>1, Quotient
  <2>3. PICK q \in Nat : q = 4
    OBVIOUS
  <2>4. n + 1 = WorkSize * q + 0 /\ 0 \in 0..(WorkSize - 1)
    BY <1>1, <1>3, <2>3
  <2>5. (n + 1) \div WorkSize = 4 /\ (n + 1) % WorkSize = 0
    BY <1>1, <2>3, <2>4, Quotient
  <2>6. Phase(n) = 3 /\ Round(n) = WorkSize - 1 /\ Phase(n + 1) = 0 /\ Round(n + 1) = 0
    BY <1>1, <1>3, <2>2, <2>5 DEF Phase, Round
  <2> QED BY <1>1, <1>3, <2>6 DEF Stored
<1>4. CASE n >= 4 * WorkSize
  <2> DEFINE q == n \div WorkSize
             r == n % WorkSize
  <2>1. /\ q \in Nat /\ r \in 0..(WorkSize - 1) 
        /\ r < WorkSize - 1 => (n + 1) \div WorkSize = q /\ (n + 1) % WorkSize = r + 1
        /\ r = WorkSize - 1 => (n + 1) \div WorkSize = q + 1 /\ (n + 1) % WorkSize = 0
    BY <1>1, QuotientOfNext
  <2>2. Phase(n) = q - 4 /\ Round(n) = r
    BY <1>1, <1>4 DEF Phase, Round
  <2>3. Phase(n + 1) = (n + 1) \div WorkSize - 4 /\ Round(n + 1) = (n + 1) % WorkSize
    BY <1>1, <1>4 DEF Phase, Round
  <2>4. ~(n < 4 * WorkSize) /\ ~(n + 1 < 4 * WorkSize)
    BY <1>1, <1>4
  <2> HIDE DEF q, r
  <2>5. CASE r < WorkSize - 1
    <3>1. Phase(n + 1) = Phase(n) /\ Round(n + 1) = Round(n) + 1
      BY <2>1, <2>2, <2>3, <2>5
    <3> QED BY <1>1, <2>4, <3>1 DEF Stored
  <2>6. CASE r = WorkSize - 1
    <3>1. Phase(n + 1) = Phase(n) + 1 /\ Round(n + 1) = 0 /\ Round(n) = WorkSize - 1
      BY <1>1, <2>1, <2>2, <2>3, <2>6
    <3> QED BY <1>1, <2>4, <3>1 DEF Stored
  <2> QED BY <1>1, <2>1, <2>5, <2>6
<1> QED BY <1>1, <1>2, <1>3, <1>4
-----------------------------------------------------------------------------
(* How many calls of a worker have taken effect. *)
Effective(t) == IF pc[t] = "return" THEN made[t] + 1 ELSE made[t]

(* A call is the one the worker's program says, its answer is the one it   *)
(* would get alone, and so is what the set has of the worker's tokens.     *)
WorkerCallOK(t) ==
  pc[t] # "idle" =>
    LET n == made[t]
    IN  /\ n < CallsPerWorker
        /\ call[t].elem = Token(t, Round(n))
        /\ call[t].op = <<"add", "contains", "remove", "contains">>[Phase(n) + 1]
        /\ pc[t] = "return" => call[t].answer = IF Phase(n) = 3 THEN "no" ELSE "yes"

TokensOK(t) ==
  \A i \in 0..(WorkSize - 1) : Token(t, i) \in Contents <=> Stored(Effective(t), i)

WorkerOK(t) == made[t] <= CallsPerWorker /\ WorkerCallOK(t) /\ TokensOK(t)

(* The calls of a worker that may need a node, and those that have begun.  *)
Adds == {n \in 0..(CallsPerWorker - 1) : Phase(n) = 0}

AddsBegun ==
  {a \in Threads \X Adds : a[2] < made[a[1]] \/ (a[2] = made[a[1]] /\ pc[a[1]] # "idle")}

NodesForWorkers == allocated + Cardinality(Adding) <= Cardinality(AddsBegun)

Workers == (\A t \in Threads : WorkerOK(t)) /\ NodesForWorkers

WorkersInv ==
  made \in [Threads -> Nat] /\ (client = "workers" => version = "C++" /\ Workers)

(* The calls of the workers' program. *)
LEMMA ProgramCall ==
  ASSUME NEW t \in Threads, NEW n \in 0..(CallsPerWorker - 1)
  PROVE  LET token == Token(t, Round(n))
             op == <<"add", "contains", "remove", "contains">>[Phase(n) + 1]
         IN  /\ token \in Tokens(t) /\ token \in Elements
             /\ op \in Ops
             /\ op = "add" <=> Phase(n) = 0
             /\ op = "remove" <=> Phase(n) = 2
             /\ op = "contains" <=> Phase(n) \in {1, 3}
<1>1. Phase(n) \in 0..3 /\ Round(n) \in 0..(WorkSize - 1)
  BY PhaseAndRound
<1>2. Token(t, Round(n)) \in Tokens(t)
  BY <1>1 DEF Tokens
<1> DEFINE op == <<"add", "contains", "remove", "contains">>[Phase(n) + 1]
<1>3. /\ op \in Ops
      /\ op = "add" <=> Phase(n) = 0
      /\ op = "remove" <=> Phase(n) = 2
      /\ op = "contains" <=> Phase(n) \in {1, 3}
  <2>1. CASE Phase(n) = 0
    BY <2>1 DEF Ops
  <2>2. CASE Phase(n) = 1
    BY <2>2 DEF Ops
  <2>3. CASE Phase(n) = 2
    BY <2>3 DEF Ops
  <2>4. CASE Phase(n) = 3
    BY <2>4 DEF Ops
  <2> QED BY <1>1, <2>1, <2>2, <2>3, <2>4
<1> QED BY <1>2, <1>3, ClientParameters

LEMMA AddsFinite ==
  /\ IsFiniteSet(Threads \X Adds) /\ Cardinality(Threads \X Adds) \in Nat
  /\ AddsBegun \in SUBSET (Threads \X Adds)
  /\ IsFiniteSet(AddsBegun) /\ Cardinality(AddsBegun) \in Nat
<1>1. IsFiniteSet(Adds)
  <2>1. CallsPerWorker \in Nat
    BY WorkerParameters DEF CallsPerWorker
  <2>2. IsFiniteSet(0..(CallsPerWorker - 1))
    BY <2>1, FS_Interval
  <2> QED BY <2>2, FS_Subset DEF Adds
<1>2. IsFiniteSet(Threads \X Adds)
  BY <1>1, FS_Product, Parameters
<1>3. AddsBegun \in SUBSET (Threads \X Adds)
  BY DEF AddsBegun
<1> QED BY <1>2, <1>3, FS_Subset, FS_CardinalityType

(* A worker that has not begun its next add() leaves room for its node. *)
LEMMA RoomForAdd ==
  ASSUME IInv, made \in [Threads -> Nat], NodesForWorkers,
         Cardinality(Threads \X Adds) <= MaxNodes,
         NEW t \in Threads, pc[t] = "idle", made[t] \in Adds
  PROVE  allocated + Cardinality(Adding) < MaxNodes
<1>1. <<t, made[t]>> \in Threads \X Adds /\ <<t, made[t]>> \notin AddsBegun
  BY DEF AddsBegun
<1> DEFINE more == AddsBegun \cup {<<t, made[t]>>}
<1>2. Cardinality(more) = Cardinality(AddsBegun) + 1
  BY <1>1, AddsFinite, FS_AddElement
<1>3. more \subseteq Threads \X Adds
  BY <1>1, AddsFinite
<1>4. Cardinality(more) <= Cardinality(Threads \X Adds)
  BY <1>3, AddsFinite, FS_Subset
<1>5. /\ allocated \in Nat /\ Cardinality(Adding) \in Nat /\ Cardinality(AddsBegun) \in Nat
      /\ Cardinality(Threads \X Adds) \in Nat /\ MaxNodes \in Nat
  BY AddingFinite, AddsFinite, Parameters DEF IInv, TypeOK
<1> HIDE DEF more
<1> QED BY <1>2, <1>4, <1>5 DEF NodesForWorkers

LEMMA ClientSteps ==
  ASSUME IInv, WorkersInv, [BenchNext]_benchVars PROVE [Next]_vars
<1>1. ASSUME NEW t \in Threads, AnyCall(t) PROVE Start(t)
  BY <1>1 DEF AnyCall, Start
<1>2. ASSUME NEW t \in Threads, WorkerCall(t) PROVE Start(t)
  <2> DEFINE n == made[t]
             token == Token(t, Round(n))
             op == <<"add", "contains", "remove", "contains">>[Phase(n) + 1]
  <2>1. n \in 0..(CallsPerWorker - 1)
    BY <1>2, WorkerParameters DEF WorkerCall, WorkersInv, CallsPerWorker
  <2>2. Call(t, op, token)
    BY <1>2 DEF WorkerCall
  <2>3. op \in Ops /\ token \in Elements
    BY <2>1, ProgramCall
  <2> HIDE DEF op, token, n
  <2> QED BY <2>2, <2>3 DEF Start
<1>3. ASSUME NEW t \in Threads, BenchStep(t) PROVE Step(t)
  BY <1>3 DEF BenchStep
<1> QED BY <1>1, <1>2, <1>3 DEF BenchNext, Joined, benchVars, Next

LEMMA InitWorkers == BenchInit => WorkersInv
<1> SUFFICES ASSUME BenchInit PROVE WorkersInv
  OBVIOUS
<1>1. WorkSize \in Nat \ {0} /\ 0 \in 0..CallsPerWorker
  BY WorkerParameters DEF CallsPerWorker
<1>2. Contents = {}
  <2>1. IInv /\ allocated = 0
    BY InitIInv DEF BenchInit, Init
  <2>2. Inner = {}
    BY <2>1, ListNodes, Numbers DEF Inner, IInv
  <2> QED BY <2>2 DEF Contents
<1>3. ASSUME NEW t \in Threads PROVE WorkerOK(t)
  <2>1. made[t] = 0 /\ pc[t] = "idle" /\ Effective(t) = 0
    BY DEF BenchInit, Init, Effective
  <2>2. ASSUME NEW i \in 0..(WorkSize - 1) PROVE ~Stored(Effective(t), i)
    BY <1>1, <2>1 DEF Stored, Phase
  <2> QED BY <1>1, <1>2, <2>1, <2>2 DEF WorkerOK, WorkerCallOK, TokensOK
<1>4. NodesForWorkers
  <2>1. Adding = {} /\ allocated = 0
    BY DEF BenchInit, Init, Adding, NoCall
  <2>2. Cardinality(Adding) = 0
    BY <2>1, FS_EmptySet
  <2> QED BY <2>1, <2>2, AddsFinite DEF NodesForWorkers
<1> QED BY <1>3, <1>4 DEF BenchInit, WorkersInv, Workers

(* A step that neither ends a worker's call nor lets it take effect. *)
LEMMA WorkerGoesOn ==
  ASSUME NEW u \in Threads, WorkerOK(u), call'[u] = call[u], made'[u] = made[u],
         pc'[u] = pc[u] \/ (pc[u] \notin {"idle", "return"} /\ pc'[u] \notin {"idle", "return"}),
         \A i \in 0..(WorkSize - 1) : Token(u, i) \in Contents' <=> Token(u, i) \in Contents
  PROVE  WorkerOK(u)'
<1>1. Effective(u)' = Effective(u)
  BY DEF Effective
<1>2. TokensOK(u)'
  BY <1>1 DEF TokensOK, WorkerOK
<1> QED BY <1>2 DEF WorkerOK, WorkerCallOK

(* The steps of a call, but for the one in which it takes effect and the   *)
(* last.                                                                   *)
Within(t) ==
  /\ UNCHANGED <<allocated, next, value, call>>
  /\ pc[t] \notin {"idle", "return"} /\ pc'[t] \notin {"idle", "return"}
  /\ \A u \in Threads \ {t} : pc'[u] = pc[u]

LEMMA KindsOfSteps ==
  ASSUME IInv, NEW t \in Threads, Step(t)
  PROVE  Within(t) \/ Decide(t) \/ Link(t) \/ Unlink(t) \/ Return(t)
<1>1. DOMAIN pc = Threads
  BY DEF IInv, TypeOK
<1>2. CASE FineGrainedFind(t)
  BY <1>1, <1>2
  DEF FineGrainedFind, LockHead, LockFirst, StepOn, HandOver, FindLocked, heap, Goto, Within
<1>3. CASE OptimisticStep(t)
  BY <1>1, <1>3 DEF OptimisticStep, StartWalk, Walk, LockBoth, LockPred, LockCur, heap, Goto, Within
<1>4. CASE OptimisticFind(t) /\ ~OptimisticStep(t)
  BY <1>1, <1>4
  DEF OptimisticFind, StartCheck, Check, CheckJava, LookAhead, EndCheck, CheckFails, Retry,
      heap, Goto, Within
<1>5. CASE LazyFind(t) /\ ~OptimisticStep(t)
  BY <1>1, <1>5 DEF LazyFind, SeeUnmarked, SeeMarked, Retry, heap, Goto, Within
<1>6. CASE Mark(t)
  BY <1>1, <1>6 DEF Mark, Goto, Within
<1> QED BY <1>2, <1>3, <1>4, <1>5, <1>6 DEF Step, Callback

(* The next call of a worker's program. *)
LEMMA WorkerCallOfProgram ==
  ASSUME IInv, made \in [Threads -> Nat], Workers, NEW t \in Threads, WorkerCall(t)
  PROVE  Workers'
<1> DEFINE n == made[t]
           op == <<"add", "contains", "remove", "contains">>[Phase(n) + 1]
<1>1. /\ pc[t] = "idle" /\ pc'[t] = "start" /\ n < CallsPerWorker
      /\ UNCHANGED <<allocated, next, value, made>>
      /\ call' = [call EXCEPT ![t] = [op |-> op, elem |-> Token(t, Round(n)),
                                      answer |-> "pending"]]
      /\ \A u \in Threads \ {t} : pc'[u] = pc[u] /\ call'[u] = call[u]
  BY DEF WorkerCall, Call, Goto, heap, IInv, TypeOK
<1>2. call'[t] = [op |-> op, elem |-> Token(t, Round(n)), answer |-> "pending"]
  BY <1>1 DEF IInv, TypeOK
<1>3. call'[t].op = op /\ call'[t].elem = Token(t, Round(n)) /\ made'[t] = n
  BY <1>1, <1>2
<1>4. Contents' = Contents
  BY <1>1, ContentsKept
<1>5. WorkerOK(t)'
  <2>1. Effective(t)' = Effective(t)
    BY <1>1 DEF Effective
  <2>2. TokensOK(t)'
    BY <1>4, <2>1 DEF TokensOK, WorkerOK, Workers
  <2>3. WorkerCallOK(t)'
    BY <1>1, <1>3 DEF WorkerCallOK
  <2> QED BY <1>1, <1>3, <2>2, <2>3 DEF WorkerOK, Workers
<1>6. ASSUME NEW u \in Threads \ {t} PROVE WorkerOK(u)'
  BY <1>1, <1>4, <1>6, WorkerGoesOn DEF Workers
<1>7. n \in 0..(CallsPerWorker - 1)
  BY <1>1, WorkerParameters DEF CallsPerWorker
<1>8. NodesForWorkers'
  <2>1. AddsBegun' = IF op = "add" THEN AddsBegun \cup {<<t, n>>} ELSE AddsBegun
    <3>1. n \in Adds <=> op = "add"
      BY <1>7, ProgramCall DEF Adds
    <3> HIDE DEF op
    <3>2. ASSUME NEW u \in Threads, NEW k \in Adds
          PROVE  <<u, k>> \in AddsBegun' <=>
                   <<u, k>> \in AddsBegun \/ (op = "add" /\ <<u, k>> = <<t, n>>)
      <4>1. CASE u = t
        BY <1>1, <3>1, <4>1 DEF AddsBegun
      <4>2. CASE u # t
        BY <1>1, <4>2 DEF AddsBegun
      <4> QED BY <4>1, <4>2
    <3>3. AddsBegun' \in SUBSET (Threads \X Adds) /\ AddsBegun \in SUBSET (Threads \X Adds)
      BY DEF AddsBegun
    <3>4. op = "add" => <<t, n>> \in Threads \X Adds
      BY <3>1
    <3>5. ASSUME NEW a \in Threads \X Adds
          PROVE  a \in AddsBegun' <=> a \in AddsBegun \/ (op = "add" /\ a = <<t, n>>)
      BY <3>2
    <3> QED BY <3>3, <3>4, <3>5
  <2>2. Adding' = IF op = "add" THEN Adding \cup {t} ELSE Adding
    <3>1. call[t] = NoCall
      BY <1>1 DEF IInv, ThreadInv, InCall
    <3> HIDE DEF op
    <3>2. t \notin Adding
      BY <3>1 DEF Adding, NoCall
    <3> QED BY <1>1, <1>2, <3>2 DEF Adding
  <2> HIDE DEF op, n
  <2>3. CASE op = "add"
    <3>1. <<t, n>> \notin AddsBegun
      BY <1>1 DEF AddsBegun, n
    <3>2. Cardinality(AddsBegun') = Cardinality(AddsBegun) + 1
      BY <2>1, <2>3, <3>1, AddsFinite, FS_AddElement
    <3>3. Cardinality(Adding') <= Cardinality(Adding) + 1 /\ Cardinality(Adding') \in Nat
      BY <2>2, <2>3, AddingFinite, FS_AddElement
    <3> QED BY <1>1, <3>2, <3>3, AddingFinite, AddsFinite
            DEF NodesForWorkers, Workers, IInv, TypeOK
  <2>4. CASE op # "add"
    BY <1>1, <2>1, <2>2, <2>4 DEF NodesForWorkers, Workers
  <2> QED BY <2>3, <2>4
<1> QED BY <1>5, <1>6, <1>8 DEF Workers

(* The nodes allocated by a step are those its call was to allocate. *)
LEMMA RoomForWorkers ==
  ASSUME IInv, NodesForWorkers, NEW t \in Threads,
         Within(t) \/ Decide(t) \/ Link(t) \/ Unlink(t) \/ Return(t),
         AddsBegun' = AddsBegun
  PROVE  NodesForWorkers'
<1>1. /\ allocated \in Nat /\ Cardinality(Adding) \in Nat /\ IsFiniteSet(Adding)
      /\ Cardinality(AddsBegun) \in Nat
  BY AddingFinite, AddsFinite DEF IInv, TypeOK
<1>2. CASE Link(t)
  <2>1. Locked(t) /\ call[t].op = "add"
    BY <1>2 DEF Link, Locked
  <2>2. call[t] \in Calls /\ call[t].answer = "pending"
    BY <2>1, LockedPair
  <2>3. Adding' = Adding \ {t} /\ t \in Adding
    BY <1>2, <2>1, <2>2, Answered DEF Link, Adding
  <2>4. Cardinality(Adding') = Cardinality(Adding) - 1
    BY <1>1, <2>3, FS_RemoveElement
  <2>5. allocated' = allocated + 1
    BY <1>2 DEF Link
  <2> QED BY <1>1, <2>4, <2>5 DEF NodesForWorkers
<1>3. CASE ~Link(t)
  <2>1. UNCHANGED allocated /\ Adding' \subseteq Adding
    <3>1. CASE Within(t)
      BY <3>1 DEF Within, Adding
    <3>2. CASE Decide(t) \/ Unlink(t)
      <4>1. Locked(t)
        BY <3>2 DEF Decide, Unlink, Locked
      <4>2. call[t] \in Calls /\ call[t].op \in {"add", "remove", "contains"}
        BY <4>1, LockedPair, PendingCall
      <4>3. \E a \in {"yes", "no"} : Answer(t, a)
        BY <3>2, <4>2 DEF Decide, Unlink
      <4>4. Adding' = Adding \ {t}
        BY <4>2, <4>3, Answered
      <4> QED BY <3>2, <4>4 DEF Decide, Unlink, heap
    <3>3. CASE Return(t)
      <4>1. call'[t] = NoCall /\ \A u \in Threads \ {t} : call'[u] = call[u]
        BY <3>3 DEF Return, IInv, TypeOK
      <4>2. t \notin Adding'
        BY <4>1 DEF Adding, NoCall
      <4>3. Adding' \subseteq Adding
        BY <4>1, <4>2 DEF Adding
      <4> QED BY <3>3, <4>3 DEF Return, heap
    <3> QED BY <1>3, <3>1, <3>2, <3>3
  <2>2. Cardinality(Adding') \in Nat /\ Cardinality(Adding') <= Cardinality(Adding)
    BY <1>1, <2>1, FS_Subset, FS_CardinalityType
  <2> QED BY <1>1, <2>1, <2>2 DEF NodesForWorkers
<1> QED BY <1>2, <1>3

(* A call takes effect: it finds and leaves what its number says. *)
LEMMA WorkerEffect ==
  ASSUME IInv, made \in [Threads -> Nat], Workers, NEW t \in Threads,
         Decide(t) \/ Link(t) \/ Unlink(t), UNCHANGED made
  PROVE  Workers'
<1> DEFINE n == made[t]
           token == Token(t, Round(n))
           op == <<"add", "contains", "remove", "contains">>[Phase(n) + 1]
<1>1. Contract!TakeEffect(t)
  BY DecideTakesEffect, LinkTakesEffect, UnlinkTakesEffect
<1>2. /\ pc[t] \notin {"idle", "return"} /\ pc'[t] = "return"
      /\ \A u \in Threads \ {t} : pc'[u] = pc[u]
  BY DEF Decide, Link, Unlink, Goto, IInv, TypeOK
<1>3. /\ n \in 0..(CallsPerWorker - 1) /\ n < CallsPerWorker /\ made'[t] = n
      /\ call[t].elem = token /\ call[t].op = op
  BY <1>2, WorkerParameters DEF Workers, WorkerOK, WorkerCallOK, CallsPerWorker
<1>4. /\ Phase(n) \in 0..3 /\ Round(n) \in 0..(WorkSize - 1) /\ op \in Ops
      /\ op = "add" <=> Phase(n) = 0
      /\ op = "remove" <=> Phase(n) = 2
      /\ op = "contains" <=> Phase(n) \in {1, 3}
  BY <1>3, PhaseAndRound, ProgramCall
<1>5. Effective(t) = n /\ Effective(t)' = n + 1
  BY <1>2 DEF Effective
<1> HIDE DEF n, token, op
<1>6. token \in Contents <=> Phase(n) \in {1, 2}
  <2>1. token \in Contents <=> Stored(n, Round(n))
    BY <1>4, <1>5 DEF token, Workers, WorkerOK, TokensOK
  <2> QED BY <1>3, <1>4, <2>1, CallNumber
<1>7. Contents' = CASE op = "add"    -> Contents \cup {token}
                    [] op = "remove" -> Contents \ {token}
                    [] OTHER         -> Contents
  BY <1>1, <1>3 DEF Contract!TakeEffect, Contents
<1>8. token \in Contents' <=> Phase(n) \in {0, 1}
  <2>1. CASE op = "add"
    BY <1>4, <1>7, <2>1
  <2>2. CASE op = "remove"
    BY <1>4, <1>7, <2>2
  <2>3. CASE op = "contains"
    BY <1>4, <1>6, <1>7, <2>3
  <2> QED BY <1>4, <2>1, <2>2, <2>3 DEF Ops
<1>9. \A e : e # token => (e \in Contents' <=> e \in Contents)
  <2>1. CASE op = "add"
    BY <1>7, <2>1
  <2>2. CASE op = "remove"
    BY <1>7, <2>2
  <2>3. CASE op = "contains"
    BY <1>7, <2>3
  <2> QED BY <1>4, <2>1, <2>2, <2>3 DEF Ops
<1>10. /\ call'[t].answer = IF Phase(n) = 3 THEN "no" ELSE "yes"
       /\ call'[t].elem = token /\ call'[t].op = op
       /\ \A u \in Threads \ {t} : call'[u] = call[u]
  <2>1. call[t] \in Calls /\ call \in [Threads -> Calls \cup {NoCall}]
    BY <1>2 DEF IInv, ThreadInv, InCall, TypeOK
  <2>2. call'[t] = [call[t] EXCEPT !.answer = Contract!Answer(call[t])]
    BY <1>1, <2>1 DEF Contract!TakeEffect
  <2>3. Contract!Answer(call[t]) = IF (token \in Contents) = (op # "add") THEN "yes" ELSE "no"
    BY <1>3 DEF Contract!Answer, Contents
  <2>4. Contract!Answer(call[t]) = IF Phase(n) = 3 THEN "no" ELSE "yes"
    BY <1>4, <1>6, <2>3
  <2>5. \A u \in Threads \ {t} : call'[u] = call[u]
    BY <1>1, <2>1 DEF Contract!TakeEffect
  <2> QED BY <1>3, <2>1, <2>2, <2>4, <2>5 DEF Calls
<1>11. WorkerOK(t)'
  <2>1. WorkerCallOK(t)'
    BY <1>3, <1>10, Zenon DEF WorkerCallOK, n, token, op
  <2>2. ASSUME NEW i \in 0..(WorkSize - 1) PROVE Token(t, i) \in Contents' <=> Stored(n + 1, i)
    <3>1. CASE i = Round(n)
      BY <1>3, <1>8, <3>1, CallNumber DEF token
    <3>2. CASE i # Round(n)
      <4>1. Token(t, i) # token
        BY <1>4, <3>2, TokensDiffer, ClientParameters DEF token
      <4>2. Token(t, i) \in Contents' <=> Stored(n, i)
        BY <1>5, <1>9, <4>1 DEF Workers, WorkerOK, TokensOK
      <4>3. Stored(n + 1, i) <=> Stored(n, i)
        BY <1>3, <3>2, CallNumber
      <4> QED BY <4>2, <4>3
    <3> QED BY <3>1, <3>2
  <2>3. TokensOK(t)'
    BY <1>5, <2>2 DEF TokensOK
  <2> QED BY <2>1, <2>3 DEF WorkerOK, Workers
<1>12. ASSUME NEW u \in Threads \ {t} PROVE WorkerOK(u)'
  <2>1. ASSUME NEW i \in 0..(WorkSize - 1)
        PROVE  Token(u, i) \in Contents' <=> Token(u, i) \in Contents
    <3>1. Token(u, i) # token
      BY <1>4, <1>12, TokensDiffer, ClientParameters DEF token
    <3> QED BY <1>9, <3>1
  <2> QED BY <1>2, <1>10, <1>12, <2>1, WorkerGoesOn DEF Workers
<1>13. AddsBegun' = AddsBegun
  BY <1>2 DEF AddsBegun
<1> QED BY <1>11, <1>12, <1>13, RoomForWorkers DEF Workers

LEMMA WorkerReturn ==
  ASSUME IInv, made \in [Threads -> Nat], Workers, NEW t \in Threads, Return(t),
         made' = [made EXCEPT ![t] = @ + 1]
  PROVE  Workers'
<1>1. /\ pc[t] = "return" /\ pc'[t] = "idle" /\ made[t] \in Nat /\ made[t] < CallsPerWorker
      /\ made'[t] = made[t] + 1
      /\ \A u \in Threads \ {t} : pc'[u] = pc[u] /\ call'[u] = call[u] /\ made'[u] = made[u]
  BY DEF Return, Goto, IInv, TypeOK, Workers, WorkerOK, WorkerCallOK
<1>2. Contents' = Contents
  BY ContentsKept DEF Return, heap
<1>3. WorkerOK(t)'
  <2>1. Effective(t)' = Effective(t)
    BY <1>1 DEF Effective
  <2>2. TokensOK(t)'
    BY <1>2, <2>1 DEF TokensOK, WorkerOK, Workers
  <2>3. made'[t] <= CallsPerWorker
    BY <1>1, WorkerParameters DEF CallsPerWorker
  <2> QED BY <1>1, <2>2, <2>3 DEF WorkerOK, WorkerCallOK
<1>4. ASSUME NEW u \in Threads \ {t} PROVE WorkerOK(u)'
  BY <1>1, <1>2, <1>4, WorkerGoesOn DEF Workers
<1>5. AddsBegun' = AddsBegun
  <2>1. ASSUME NEW u \in Threads, NEW k \in Adds
        PROVE  k < made'[u] \/ (k = made'[u] /\ pc'[u] # "idle") <=>
                 k < made[u] \/ (k = made[u] /\ pc[u] # "idle")
    <3>1. k \in Int
      BY WorkerParameters DEF Adds, CallsPerWorker
    <3> QED BY <1>1, <3>1
  <2> QED BY <2>1 DEF AddsBegun
<1> QED BY <1>3, <1>4, <1>5, RoomForWorkers DEF Workers

LEMMA WorkerStep ==
  ASSUME IInv, made \in [Threads -> Nat], client = "workers", Workers,
         NEW t \in Threads, BenchStep(t)
  PROVE  made' \in [Threads -> Nat] /\ Workers'
<1>1. Within(t) \/ Decide(t) \/ Link(t) \/ Unlink(t) \/ Return(t)
  BY KindsOfSteps DEF BenchStep
<1>2. CASE Return(t)
  <2>1. pc[t] = "return"
    BY <1>2 DEF Return
  <2>2. made' = [made EXCEPT ![t] = @ + 1]
    BY <2>1 DEF BenchStep
  <2>3. made' \in [Threads -> Nat]
    BY <2>2
  <2> QED BY <1>2, <2>2, <2>3, WorkerReturn
<1>3. CASE Decide(t) \/ Link(t) \/ Unlink(t)
  <2>1. UNCHANGED made
    BY <1>3 DEF BenchStep, Decide, Link, Unlink
  <2> QED BY <1>3, <2>1, WorkerEffect
<1>4. CASE Within(t)
  <2>1. UNCHANGED made
    BY <1>4 DEF BenchStep, Within
  <2>2. Contents' = Contents
    BY <1>4, ContentsKept DEF Within
  <2>3. ASSUME NEW u \in Threads PROVE WorkerOK(u)'
    BY <1>4, <2>1, <2>2, <2>3, WorkerGoesOn DEF Within, Workers
  <2>4. AddsBegun' = AddsBegun
    BY <1>4, <2>1 DEF AddsBegun, Within
  <2> QED BY <1>4, <2>1, <2>3, <2>4, RoomForWorkers DEF Workers
<1> QED BY <1>1, <1>2, <1>3, <1>4

LEMMA NextWorkers ==
  ASSUME IInv, WorkersInv, [BenchNext]_benchVars PROVE WorkersInv'
<1>1. UNCHANGED <<client, version>>
  <2>1. UNCHANGED version
    <3>1. [Next]_vars
      BY ClientSteps
    <3>2. ASSUME NEW t \in Threads, Start(t) PROVE UNCHANGED version
      BY <3>2 DEF Start, Call
    <3>3. ASSUME NEW t \in Threads, Step(t) PROVE UNCHANGED version
      BY <3>3 DEF Step, FineGrainedFind, LockHead, LockFirst, StepOn, HandOver, FindLocked,
         OptimisticFind, OptimisticStep, StartWalk, Walk, LockBoth, LockPred, LockCur,
         StartCheck, Check, CheckJava, LookAhead, EndCheck, CheckFails, Retry,
         LazyFind, SeeUnmarked, SeeMarked, Callback, Decide, Link, Mark, Unlink, Return
    <3> QED BY <3>1, <3>2, <3>3 DEF Next, vars
  <2> QED BY <2>1 DEF BenchNext, Joined, benchVars, AnyCall, WorkerCall, BenchStep
<1>2. CASE client # "workers"
  <2>1. UNCHANGED made
    BY <1>2 DEF BenchNext, Joined, benchVars, AnyCall, WorkerCall, BenchStep
  <2> QED BY <1>1, <1>2, <2>1 DEF WorkersInv
<1>3. CASE client = "workers"
  <2>1. made \in [Threads -> Nat] /\ Workers
    BY <1>3 DEF WorkersInv
  <2>2. ASSUME NEW t \in Threads, AnyCall(t) PROVE FALSE
    BY <1>3, <2>2 DEF AnyCall
  <2>3. ASSUME NEW t \in Threads, WorkerCall(t) PROVE WorkersInv'
    <3>1. UNCHANGED made
      BY <2>3 DEF WorkerCall
    <3> QED BY <1>1, <2>1, <2>3, <3>1, WorkerCallOfProgram DEF WorkersInv
  <2>4. ASSUME NEW t \in Threads, BenchStep(t) PROVE WorkersInv'
    BY <1>1, <1>3, <2>1, <2>4, WorkerStep DEF WorkersInv
  <2>5. ASSUME UNCHANGED benchVars PROVE WorkersInv'
    <3>1. UNCHANGED <<call, pc, made, allocated, next, value>>
      BY <2>5 DEF benchVars, vars, heap
    <3>2. Contents' = Contents
      BY <3>1, ContentsKept
    <3>3. \A u \in Threads : WorkerOK(u)'
      BY <2>1, <3>1, <3>2, WorkerGoesOn DEF Workers
    <3>4. NodesForWorkers'
      BY <2>1, <3>1 DEF Workers, NodesForWorkers, Adding, AddsBegun
    <3> QED BY <1>1, <2>1, <3>1, <3>3, <3>4 DEF WorkersInv, Workers
  <2> QED BY <2>2, <2>3, <2>4, <2>5 DEF BenchNext, Joined
<1> QED BY <1>2, <1>3

LEMMA ClientInvariance == BenchSpec => [](IInv /\ WorkersInv)
<1>1. BenchInit => IInv /\ WorkersInv
  BY InitIInv, InitWorkers DEF BenchInit
<1>2. IInv /\ WorkersInv /\ [BenchNext]_benchVars => (IInv /\ WorkersInv)'
  <2> SUFFICES ASSUME IInv, WorkersInv, [BenchNext]_benchVars PROVE IInv' /\ WorkersInv'
    OBVIOUS
  <2>1. [Next]_vars
    BY ClientSteps
  <2> QED BY <2>1, NextIInv, StutterIInv, NextWorkers
<1> QED BY <1>1, <1>2, PTL DEF BenchSpec

(* What is proved of any threads holds of the clients. *)
THEOREM ClientsAreThreads == BenchSpec => Spec
<1>1. BenchInit => Init
  BY DEF BenchInit
<1>2. (IInv /\ WorkersInv) /\ [BenchNext]_benchVars => [Next]_vars
  BY ClientSteps
<1> QED BY <1>1, <1>2, ClientInvariance, PTL DEF BenchSpec, Spec

(* Workers with tokens of their own get the answers they would get alone,  *)
(* however many of them link and unlink nodes next to each other.          *)
THEOREM AnswersAsIfAlone == BenchSpec => []WorkersUndisturbed
<1>1. WorkersInv => WorkersUndisturbed
  BY DEF WorkersInv, Workers, WorkerOK, WorkerCallOK, WorkersUndisturbed
<1> QED BY <1>1, ClientInvariance, PTL

(* The bound on the nodes of the model never keeps a worker from an add(). *)
THEOREM NodesSuffice ==
  ASSUME Cardinality(Threads \X Adds) <= MaxNodes
  PROVE  BenchSpec =>
           [](client = "workers" =>
                \A t \in Threads : pc[t] = "idle" /\ made[t] \in Adds =>
                                     allocated + Cardinality(Adding) < MaxNodes)
<1>1. IInv /\ WorkersInv =>
        (client = "workers" =>
           \A t \in Threads : pc[t] = "idle" /\ made[t] \in Adds =>
                                allocated + Cardinality(Adding) < MaxNodes)
  BY RoomForAdd DEF WorkersInv, Workers
<1> QED BY <1>1, ClientInvariance, PTL
=============================================================================
