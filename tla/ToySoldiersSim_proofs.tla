----------------------- MODULE ToySoldiersSim_proofs -----------------------
(***************************************************************************)
(* The simulation with any number of soldiers on any board of more than    *)
(* one tile: no soldier is on two tiles, each fall is counted once, and    *)
(* the locks that soldiers take while they hold others form no cycle.      *)
(***************************************************************************)
EXTENDS ToySoldiersSim, TLAPS, FiniteSetTheorems, WellFoundedInduction

Labels == {"new", "added", "run", "look", "scan", "attack", "count",
           "clear", "move", "lock", "swap", "settle", "ended"}

Entered == {s \in Soldiers : pc[s] # "new"}
Counting == {s \in Soldiers : pc[s] = "count"}

(* Who holds a tile's lock has locked the first of two tiles and waits for *)
(* the second.                                                             *)
TileLocks ==
  \A t \in Tiles, u \in Soldiers :
    tileLock[t] = u => pc[u] = "swap" /\ First(u) = t

(* Who holds a soldier's lock is that soldier on the move, or whoever gave *)
(* it the last blow.                                                       *)
SoldierLocks ==
  \A v, u \in Soldiers : soldierLock[v] = u =>
    \/ u = v /\ pc[u] \in {"lock", "swap", "settle"}
    \/ pc[u] \in {"count", "clear"} /\ toAttack[u] = v

(* What a soldier's place in its program says of its variables. *)
Place(s) ==
  /\ pc[s] \in {"new", "added"} <=> main = "setup"
  /\ pc[s] = "new" => life[s] = 2 /\ \A t \in Tiles : occupant[t] # s
  /\ pc[s] \in {"attack", "count", "clear"} =>
       toAttack[s] \in Soldiers /\ pc[toAttack[s]] # "new"
  /\ pc[s] = "scan" => dir[s] \in Directions(here[s])
  /\ pc[s] \in {"lock", "swap", "settle"} =>
       \E d \in Directions(here[s]) : heading[s] = Relative(here[s], d)

LocksInv == TileLocks /\ SoldierLocks /\ \A s \in Soldiers : Place(s)

CountInv == FallsCountedOnce /\ soldierCount <= Cardinality(Entered)

IInv == TypeOK /\ OneTileEach /\ LocksInv /\ CountInv

-----------------------------------------------------------------------------
(* The board. *)
LEMMA CornerOnBoard == Corner \in Tiles
BY Parameters DEF Corner, Tiles

LEMMA TileCoordinates ==
  ASSUME NEW tile \in Tiles
  PROVE  /\ tile = <<tile[1], tile[2]>>
         /\ tile[1] \in 0..(Rows - 1) /\ tile[2] \in 0..(Cols - 1)
BY DEF Tiles

LEMMA Neighbours ==
  ASSUME NEW tile
  PROVE  /\ Relative(tile, 1) = <<tile[1] - 1, tile[2]>>
         /\ Relative(tile, 2) = <<tile[1] + 1, tile[2]>>
         /\ Relative(tile, 3) = <<tile[1], tile[2] + 1>>
         /\ Relative(tile, 4) = <<tile[1], tile[2] - 1>>
BY DEF Relative

(* On a board of more than one tile there is a way from each. *)
LEMMA WayOut ==
  ASSUME NEW tile \in Tiles PROVE Directions(tile) # {}
<1>1. tile[1] \in 0..(Rows - 1) /\ tile[2] \in 0..(Cols - 1)
  BY TileCoordinates
<1>2. Rows > 1 \/ Cols > 1
  <2>1. ASSUME Rows = 1, Cols = 1 PROVE FALSE
    BY <2>1, Parameters
  <2> QED BY <2>1, Parameters
<1>3. \E d \in 1..4 : Relative(tile, d) \in Tiles
  <2>1. CASE tile[1] > 0
    <3>1. tile[1] - 1 \in 0..(Rows - 1) /\ tile[2] \in 0..(Cols - 1)
      BY <1>1, <2>1, Parameters
    <3> QED BY <3>1, Neighbours DEF Tiles
  <2>2. CASE tile[1] < Rows - 1
    <3>1. tile[1] + 1 \in 0..(Rows - 1) /\ tile[2] \in 0..(Cols - 1)
      BY <1>1, <2>2, Parameters
    <3> QED BY <3>1, Neighbours DEF Tiles
  <2>3. CASE tile[2] > 0
    <3>1. tile[1] \in 0..(Rows - 1) /\ tile[2] - 1 \in 0..(Cols - 1)
      BY <1>1, <2>3, Parameters
    <3> QED BY <3>1, Neighbours DEF Tiles
  <2>4. CASE tile[2] < Cols - 1
    <3>1. tile[1] \in 0..(Rows - 1) /\ tile[2] + 1 \in 0..(Cols - 1)
      BY <1>1, <2>4, Parameters
    <3> QED BY <3>1, Neighbours DEF Tiles
  <2> QED BY <1>1, <1>2, <2>1, <2>2, <2>3, <2>4, Parameters
<1> QED BY <1>3 DEF Directions

(* The first of some directions is one of them. *)
LEMMA FirstDirection ==
  ASSUME NEW S \in SUBSET (1..4), S # {} PROVE Min(S) \in S
<1>1. \E x \in S : \A y \in S : x <= y
  <2>1. CASE 1 \in S
    BY <2>1
  <2>2. CASE 1 \notin S /\ 2 \in S
    BY <2>2
  <2>3. CASE 1 \notin S /\ 2 \notin S /\ 3 \in S
    BY <2>3
  <2>4. CASE 1 \notin S /\ 2 \notin S /\ 3 \notin S
    <3>1. \A x \in S : x \in 1..4 /\ x # 1 /\ x # 2 /\ x # 3
      BY <2>4
    <3>2. \A x \in S : x = 4
      BY <3>1
    <3>3. 4 \in S
      BY <3>2
    <3> QED BY <3>2, <3>3
  <2> QED BY <2>1, <2>2, <2>3, <2>4
<1> QED BY <1>1 DEF Min

(* The order in which pairs of tiles are locked. *)
Rank(tile) == tile[1] * Cols + tile[2]

LEMMA RankBound ==
  ASSUME NEW tile \in Tiles PROVE Rank(tile) \in Nat /\ Rank(tile) < Rows * Cols
<1>1. tile[1] \in 0..(Rows - 1) /\ tile[2] \in 0..(Cols - 1)
  BY TileCoordinates
<1>2. Rows \in Nat /\ Cols \in Nat
  BY Parameters
<1>3. \A a, b, c \in Nat : a < b => a * c + c <= b * c
  <2>1. ASSUME NEW a \in Nat, NEW b \in Nat, NEW c \in Nat, a < b
        PROVE  a * c + c <= b * c
    <3>1. (a + 1) * c = a * c + c /\ (a + 1) * c + (b - (a + 1)) * c = b * c
      OBVIOUS
    <3>2. b - (a + 1) \in Nat
      BY <2>1
    <3>3. (b - (a + 1)) * c >= 0
      BY <3>2
    <3>4. a * c \in Nat /\ b * c \in Nat
      OBVIOUS
    <3> QED BY <3>1, <3>3, <3>4
  <2> QED BY <2>1
<1>4. tile[1] * Cols \in Nat /\ Rows * Cols \in Nat
  BY <1>1, <1>2
<1>5. tile[1] * Cols + Cols <= Rows * Cols
  BY <1>1, <1>2, <1>3
<1> QED BY <1>1, <1>2, <1>4, <1>5 DEF Rank

LEMMA NeighbourRank ==
  ASSUME NEW tile \in Tiles, NEW d \in Directions(tile)
  PROVE  Rank(Relative(tile, d)) # Rank(tile)
<1>1. tile[1] \in Nat /\ tile[2] \in Nat /\ Cols \in Nat \ {0}
  BY TileCoordinates, Parameters
<1>2. /\ (tile[1] - 1) * Cols = tile[1] * Cols - Cols
      /\ (tile[1] + 1) * Cols = tile[1] * Cols + Cols
      /\ tile[1] * Cols \in Nat
  BY <1>1
<1>3. d = 1 \/ d = 2 \/ d = 3 \/ d = 4
  BY DEF Directions
<1>4. /\ Rank(Relative(tile, 1)) = (tile[1] - 1) * Cols + tile[2]
      /\ Rank(Relative(tile, 2)) = (tile[1] + 1) * Cols + tile[2]
      /\ Rank(Relative(tile, 3)) = tile[1] * Cols + (tile[2] + 1)
      /\ Rank(Relative(tile, 4)) = tile[1] * Cols + (tile[2] - 1)
  <2>1. \A r, c : Rank(<<r, c>>) = r * Cols + c
    BY DEF Rank
  <2> QED BY <2>1, Neighbours
<1> QED BY <1>1, <1>2, <1>3, <1>4 DEF Rank

(* swapOccupants locks the tile of the smaller rank first. *)
LEMMA LockOrder ==
  ASSUME TypeOK, NEW s \in Soldiers, Place(s), pc[s] \in {"lock", "swap", "settle"}
  PROVE  /\ First(s) \in Tiles /\ Second(s) \in Tiles
         /\ Rank(First(s)) < Rank(Second(s))
         /\ {First(s), Second(s)} = {here[s], heading[s]}
<1>1. here[s] \in Tiles /\ heading[s] \in Tiles
  BY DEF TypeOK
<1>2. Rank(heading[s]) # Rank(here[s])
  BY <1>1, NeighbourRank DEF Place
<1>3. /\ First(s) = IF Rank(here[s]) < Rank(heading[s]) THEN here[s] ELSE heading[s]
      /\ Second(s) = IF First(s) = here[s] THEN heading[s] ELSE here[s]
  BY DEF First, Second, Rank
<1>4. Rank(here[s]) \in Nat /\ Rank(heading[s]) \in Nat
  BY <1>1, RankBound
<1> QED BY <1>1, <1>2, <1>3, <1>4


-----------------------------------------------------------------------------
(* Of the other soldiers a step of s changes no variable of step(). *)
OthersStay(s) ==
  \A u \in Soldiers \ {s} :
    /\ pc'[u] = pc[u] /\ here'[u] = here[u] /\ dir'[u] = dir[u]
    /\ heading'[u] = heading[u] /\ toAttack'[u] = toAttack[u]

LEMMA OthersInPlace ==
  ASSUME LocksInv, NEW s \in Soldiers, OthersStay(s),
         pc[s] # "new", pc'[s] # "new", main' = main,
         \A u \in Soldiers : pc[u] = "new" =>
           life'[u] = life[u] /\ \A t \in Tiles : occupant'[t] # u
  PROVE  \A u \in Soldiers \ {s} :
           /\ Place(u)'
           /\ First(u)' = First(u) /\ Second(u)' = Second(u)
<1> SUFFICES ASSUME NEW u \in Soldiers \ {s}
             PROVE  Place(u)' /\ First(u)' = First(u) /\ Second(u)' = Second(u)
  OBVIOUS
<1>1. /\ pc'[u] = pc[u] /\ here'[u] = here[u] /\ dir'[u] = dir[u]
      /\ heading'[u] = heading[u] /\ toAttack'[u] = toAttack[u]
  BY DEF OthersStay
<1>2. \A v \in Soldiers : pc[v] # "new" => pc'[v] # "new"
  BY DEF OthersStay
<1>3. Directions(here[u])' = Directions(here[u])
  BY <1>1
<1>4. \A d : Relative(here[u], d)' = Relative(here[u], d)
  BY <1>1
<1>5. Place(u)
  BY DEF LocksInv
<1>6. Place(u)'
  BY <1>1, <1>2, <1>3, <1>4, <1>5 DEF Place
<1>7. First(u)' = First(u)
  BY <1>1 DEF First
<1>8. Second(u)' = Second(u)
  BY <1>1, <1>7 DEF Second
<1> QED BY <1>6, <1>7, <1>8

LEMMA CountsFinite ==
  /\ IsFiniteSet(Alive) /\ Cardinality(Alive) \in Nat
  /\ IsFiniteSet(Counting) /\ Cardinality(Counting) \in Nat
  /\ IsFiniteSet(Entered) /\ Cardinality(Entered) \in Nat
  /\ Cardinality(Entered) <= Cardinality(Soldiers)
  /\ Cardinality(Soldiers) \in Nat
<1>1. Alive \subseteq Soldiers /\ Counting \subseteq Soldiers /\ Entered \subseteq Soldiers
  BY DEF Alive, Counting, Entered
<1>2. IsFiniteSet(Soldiers)
  BY Parameters
<1>3. IsFiniteSet(Alive) /\ IsFiniteSet(Counting) /\ IsFiniteSet(Entered)
  BY <1>1, <1>2, FS_Subset
<1>4. Cardinality(Entered) <= Cardinality(Soldiers)
  BY <1>1, <1>2, FS_Subset
<1> QED BY <1>2, <1>3, <1>4, FS_CardinalityType

(* A step that takes nobody's life and leaves the count alone. *)
LEMMA CountKept ==
  ASSUME CountInv, UNCHANGED <<life, soldierCount>>,
         main' = "returned" => main = "returned" \/ soldierCount <= 1,
         \A u \in Soldiers : /\ pc'[u] = "new" <=> pc[u] = "new"
                             /\ pc'[u] = "count" <=> pc[u] = "count"
  PROVE  CountInv'
<1>1. Alive' = Alive /\ Entered' = Entered /\ Counting' = Counting
  BY DEF Alive, Entered, Counting
<1>2. soldierCount = Cardinality(Alive) + Cardinality(Counting)
  BY DEF CountInv, FallsCountedOnce, Counting
<1>3. soldierCount' = Cardinality(Alive') + Cardinality(Counting')
  BY <1>1, <1>2
<1>4. main' = "returned" => Cardinality(Alive') <= 1
  BY <1>1, <1>2, CountsFinite DEF CountInv, FallsCountedOnce
<1>5. FallsCountedOnce'
  BY <1>3, <1>4 DEF FallsCountedOnce, Counting
<1>6. soldierCount' <= Cardinality(Entered')
  BY <1>1 DEF CountInv
<1> QED BY <1>5, <1>6 DEF CountInv


-----------------------------------------------------------------------------
(* A soldier that holds no lock is not held up as a holder. *)
LEMMA HoldsNothing ==
  ASSUME LocksInv, NEW s \in Soldiers,
         pc[s] \notin {"count", "clear", "lock", "swap", "settle"}
  PROVE  /\ \A t \in Tiles : tileLock[t] # s
         /\ \A v \in Soldiers : soldierLock[v] # s
BY DEF LocksInv, TileLocks, SoldierLocks

(* As long as no lock changes hands, and those who hold one stay where     *)
(* they are, the locks are held as before.                                 *)
LEMMA LocksKept ==
  ASSUME TypeOK, LocksInv, NEW s \in Soldiers, OthersStay(s), UNCHANGED locks,
         \A u \in Soldiers \ {s} : First(u)' = First(u),
         pc[s] \notin {"count", "clear", "lock", "swap", "settle"}
  PROVE  TileLocks' /\ SoldierLocks'
<1>1. tileLock' = tileLock /\ soldierLock' = soldierLock
  BY DEF locks
<1>2. TileLocks'
  BY <1>1, HoldsNothing DEF LocksInv, TileLocks, OthersStay
<1>3. SoldierLocks'
  BY <1>1, HoldsNothing DEF LocksInv, SoldierLocks, OthersStay
<1> QED BY <1>2, <1>3

-----------------------------------------------------------------------------
(* A soldier looks around; it holds no lock when it returns from a step. *)
LEMMA ReadIInv ==
  ASSUME IInv, NEW s \in Soldiers, GetLife(s) \/ GetPosition(s) \/ GetOccupant(s)
  PROVE  IInv'
<1> USE DEF IInv
<1>1. /\ UNCHANGED <<occupant, pos, life, locks, counting, heading>>
      /\ pc[s] \in {"run", "look", "scan"}
  BY DEF GetLife, GetPosition, GetOccupant, locals
<1>2. /\ main' = main /\ soldierCount' = soldierCount
      /\ tileLock' = tileLock /\ soldierLock' = soldierLock
  BY <1>1 DEF counting, locks
<1>3. PICK l \in {"look", "ended", "scan", "attack", "move"} : pc' = [pc EXCEPT ![s] = l]
  <2>1. CASE GetLife(s)
    BY <2>1 DEF GetLife, Goto
  <2>2. CASE GetPosition(s)
    BY <2>2 DEF GetPosition, Goto
  <2>3. CASE GetOccupant(s)
    <3>1. pc' = [pc EXCEPT ![s] = "attack"] \/ pc' = [pc EXCEPT ![s] = "move"] \/ pc' = pc
      BY <2>3 DEF GetOccupant, Goto
    <3>2. pc' = pc => pc' = [pc EXCEPT ![s] = "scan"]
      BY <2>3 DEF GetOccupant, TypeOK
    <3> QED BY <3>1, <3>2
  <2> QED BY <2>1, <2>2, <2>3
<1>4. PICK a \in Tiles, d \in 1..4, v \in Soldiers \cup {Nobody} :
        /\ here' = [here EXCEPT ![s] = a] /\ dir' = [dir EXCEPT ![s] = d]
        /\ toAttack' = [toAttack EXCEPT ![s] = v]
        /\ l = "scan" => d \in Directions(a)
        /\ l = "attack" => v \in Soldiers /\ pc[v] # "new"
  <2>1. /\ here = [here EXCEPT ![s] = here[s]] /\ here[s] \in Tiles
        /\ dir = [dir EXCEPT ![s] = dir[s]] /\ dir[s] \in 1..4
        /\ toAttack = [toAttack EXCEPT ![s] = toAttack[s]]
        /\ toAttack[s] \in Soldiers \cup {Nobody}
        /\ pos[s] \in Tiles /\ l = pc'[s]
    BY <1>3 DEF TypeOK
  <2>2. CASE GetLife(s)
    <3>1. l \in {"look", "ended"} /\ here' = here /\ dir' = dir /\ toAttack' = toAttack
      BY <2>1, <2>2 DEF GetLife, Goto, locals, TypeOK
    <3> QED BY <2>1, <3>1
  <2>3. CASE GetPosition(s)
    <3>1. /\ here' = [here EXCEPT ![s] = pos[s]]
          /\ dir' = [dir EXCEPT ![s] = Min(Directions(pos[s]))]
          /\ toAttack' = toAttack /\ l = "scan"
      BY <2>1, <2>3 DEF GetPosition, Goto, TypeOK
    <3>2. Min(Directions(pos[s])) \in Directions(pos[s]) /\ Directions(pos[s]) \subseteq 1..4
      BY <2>1, WayOut, FirstDirection DEF Directions
    <3> QED BY <2>1, <3>1, <3>2
  <2>4. CASE GetOccupant(s)
    <3> DEFINE there == Relative(here[s], dir[s])
               left == {e \in Directions(here[s]) : e > dir[s]}
    <3>1. there \in Tiles
      BY <2>4 DEF GetOccupant, LocksInv, Place, Directions
    <3>2. CASE occupant[there] \notin {Nobody, s}
      <4>1. /\ toAttack' = [toAttack EXCEPT ![s] = occupant[there]]
            /\ here' = [here EXCEPT ![s] = Corner]
            /\ dir' = [dir EXCEPT ![s] = 1]
            /\ pc' = [pc EXCEPT ![s] = "attack"]
        BY <2>4, <3>2 DEF GetOccupant, Goto
      <4>2. l = "attack"
        BY <2>1, <4>1 DEF TypeOK
      <4>3. occupant[there] \in Soldiers
        BY <3>1, <3>2 DEF TypeOK
      <4>4. pc[occupant[there]] # "new"
        BY <3>1, <4>3 DEF LocksInv, Place
      <4> HIDE DEF there
      <4>5. 1 \in 1..4 /\ l # "scan"
        BY <4>2
      <4> QED BY <4>1, <4>2, <4>3, <4>4, <4>5, CornerOnBoard
    <3>3. CASE occupant[there] \in {Nobody, s} /\ left # {}
      <4>1. dir' = [dir EXCEPT ![s] = Min(left)] /\ UNCHANGED <<here, toAttack, pc>>
        BY <2>4, <3>3 DEF GetOccupant
      <4>2. left \subseteq 1..4
        BY DEF Directions
      <4>3. Min(left) \in left
        BY <3>3, <4>2, FirstDirection
      <4>4. l = "scan" /\ Min(left) \in Directions(here[s]) /\ Min(left) \in 1..4
        BY <2>1, <2>4, <4>1, <4>3 DEF GetOccupant, Directions
      <4> HIDE DEF left
      <4> QED BY <2>1, <4>1, <4>4
    <3>4. CASE ~(occupant[there] \notin {Nobody, s}) /\ left = {}
      <4>1. /\ dir' = [dir EXCEPT ![s] = 1] /\ pc' = [pc EXCEPT ![s] = "move"]
            /\ here' = here /\ toAttack' = toAttack
        BY <2>4, <3>4 DEF GetOccupant, Goto
      <4>2. l = "move"
        BY <2>1, <4>1 DEF TypeOK
      <4>3. 1 \in 1..4 /\ l # "scan" /\ l # "attack"
        BY <4>2
      <4> HIDE DEF there, left
      <4> QED BY <2>1, <4>1, <4>3
    <3> QED BY <3>2, <3>3, <3>4
  <2> QED BY <2>2, <2>3, <2>4
<1>5. OthersStay(s)
  BY <1>1, <1>3, <1>4 DEF OthersStay, TypeOK
<1>6. pc'[s] = l /\ here'[s] = a /\ dir'[s] = d /\ toAttack'[s] = v
  BY <1>3, <1>4 DEF TypeOK
<1>7. TypeOK'
  BY <1>1, <1>2, <1>3, <1>4 DEF TypeOK
<1>8. OneTileEach'
  BY <1>1 DEF OneTileEach
<1>9. \A u \in Soldiers \ {s} : Place(u)' /\ First(u)' = First(u)
  <2>1. \A u \in Soldiers : pc[u] = "new" =>
          life'[u] = life[u] /\ \A t \in Tiles : occupant'[t] # u
    BY <1>1 DEF LocksInv, Place
  <2> QED BY <1>1, <1>2, <1>5, <1>6, <2>1, OthersInPlace
<1>10. Place(s)'
  <2>1. main # "setup"
    BY <1>1 DEF LocksInv, Place
  <2>2. Directions(here[s])' = Directions(a)
    BY <1>6
  <2>3. l = "attack" => pc'[v] # "new"
    BY <1>3, <1>4 DEF TypeOK
  <2> QED BY <1>2, <1>4, <1>6, <2>1, <2>2, <2>3 DEF Place
<1>11. TileLocks' /\ SoldierLocks'
  BY <1>1, <1>5, <1>9, LocksKept
<1>12. CountInv'
  BY <1>1, <1>2, <1>3, CountKept DEF TypeOK
<1> QED BY <1>7, <1>8, <1>9, <1>10, <1>11, <1>12 DEF LocksInv


-----------------------------------------------------------------------------
(* A soldier that returns from step() is as at its start. *)
LEMMA StepEnds ==
  ASSUME TypeOK, NEW s \in Soldiers, EndStep(s)
  PROVE  /\ OthersStay(s) /\ pc'[s] = "run" /\ pc' = [pc EXCEPT ![s] = "run"]
         /\ here' \in [Soldiers -> Tiles] /\ heading' \in [Soldiers -> Tiles]
         /\ dir' \in [Soldiers -> 1..4] /\ toAttack' \in [Soldiers -> Soldiers \cup {Nobody}]
         /\ pc' \in [Soldiers -> Labels]
<1>1. /\ here' = [here EXCEPT ![s] = Corner] /\ dir' = [dir EXCEPT ![s] = 1]
      /\ heading' = [heading EXCEPT ![s] = Corner]
      /\ toAttack' = [toAttack EXCEPT ![s] = Nobody]
      /\ pc' = [pc EXCEPT ![s] = "run"]
  BY DEF EndStep, Goto
<1> QED BY <1>1, CornerOnBoard DEF TypeOK, OthersStay, Labels

(* A step of a soldier that ends in a place where nothing is required. *)
LEMMA FreePlace ==
  ASSUME NEW s \in Soldiers, pc'[s] \in {"run", "move"}, main' # "setup"
  PROVE  Place(s)'
BY DEF Place

LEMMA GameOn ==
  ASSUME LocksInv, NEW s \in Soldiers, pc[s] \notin {"new", "added"}
  PROVE  main # "setup" /\ pc[s] # "new"
BY DEF LocksInv, Place

(* A blow that leaves a soldier alive, or falls on a dead one, counts      *)
(* nothing.                                                                *)
LEMMA StrikeIInv ==
  ASSUME IInv, NEW s \in Soldiers, DecrementLife(s), life[toAttack[s]] # 1
  PROVE  IInv'
<1> USE DEF IInv
<1> DEFINE v == toAttack[s]
           left == IF life[v] > -1 THEN life[v] - 1 ELSE -1
<1>1. v \in Soldiers /\ pc[s] = "attack" /\ pc[v] # "new"
  BY DEF DecrementLife, LocksInv, Place
<1>2. life[v] \in -1..2 /\ left \in -1..2 /\ left # 0 /\ (left > 0 <=> life[v] > 0)
  BY <1>1 DEF TypeOK
<1>3. life' = [life EXCEPT ![v] = left] /\ UNCHANGED soldierLock /\ EndStep(s)
  BY <1>2 DEF DecrementLife
<1>4. UNCHANGED <<occupant, pos, tileLock, soldierCount, main>>
  BY DEF DecrementLife, counting
<1> HIDE DEF left
<1>5. OthersStay(s) /\ pc' = [pc EXCEPT ![s] = "run"] /\ pc'[s] = "run"
  BY <1>3, StepEnds
<1>6. TypeOK'
  BY <1>1, <1>2, <1>3, <1>4, StepEnds DEF TypeOK, Labels
<1>7. OneTileEach'
  BY <1>4 DEF OneTileEach
<1>8. \A u \in Soldiers \ {s} : Place(u)' /\ First(u)' = First(u)
  <2>1. \A u \in Soldiers : pc[u] = "new" =>
          life'[u] = life[u] /\ \A t \in Tiles : occupant'[t] # u
    BY <1>1, <1>3, <1>4 DEF LocksInv, Place, TypeOK
  <2> QED BY <1>1, <1>4, <1>5, <2>1, OthersInPlace
<1>9. Place(s)'
  BY <1>1, <1>4, <1>5, GameOn, FreePlace
<1>10. TileLocks' /\ SoldierLocks'
  BY <1>1, <1>3, <1>4, <1>5, <1>8, LocksKept DEF locks
<1>11. CountInv'
  <2>1. \A u \in Soldiers : /\ pc'[u] = "new" <=> pc[u] = "new"
                            /\ pc'[u] = "count" <=> pc[u] = "count"
    BY <1>1, <1>5 DEF TypeOK
  <2>2. \A u \in Soldiers : life'[u] > 0 <=> life[u] > 0
    BY <1>1, <1>2, <1>3 DEF TypeOK
  <2>3. Alive' = Alive /\ Entered' = Entered /\ Counting' = Counting
    BY <2>1, <2>2 DEF Alive, Entered, Counting
  <2> QED BY <1>4, <2>3 DEF CountInv, FallsCountedOnce, Counting
<1> QED BY <1>6, <1>7, <1>8, <1>9, <1>10, <1>11 DEF LocksInv

(* The blow that makes a soldier fall is to be counted by who gave it. *)
LEMMA FallIInv ==
  ASSUME IInv, NEW s \in Soldiers, DecrementLife(s), life[toAttack[s]] = 1
  PROVE  IInv'
<1> USE DEF IInv
<1>1. PICK v \in Soldiers : v = toAttack[s] /\ pc[s] = "attack" /\ pc[v] # "new"
  BY DEF DecrementLife, LocksInv, Place
<1>2. /\ life[v] = 1 /\ life' = [life EXCEPT ![v] = 0]
      /\ soldierLock[v] = Nobody /\ soldierLock' = [soldierLock EXCEPT ![v] = s]
      /\ pc' = [pc EXCEPT ![s] = "count"] /\ UNCHANGED locals
  BY <1>1 DEF DecrementLife, Goto
<1>3. /\ UNCHANGED <<occupant, pos, tileLock, soldierCount, main>>
      /\ UNCHANGED <<here, dir, heading, toAttack>>
  BY <1>2 DEF DecrementLife, counting, locals
<1>4. OthersStay(s) /\ pc'[s] = "count"
  BY <1>2, <1>3 DEF OthersStay, TypeOK
<1>5. TypeOK'
  BY <1>1, <1>2, <1>3 DEF TypeOK
<1>6. OneTileEach'
  BY <1>3 DEF OneTileEach
<1>7. \A u \in Soldiers \ {s} : Place(u)' /\ First(u)' = First(u)
  <2>1. \A u \in Soldiers : pc[u] = "new" =>
          life'[u] = life[u] /\ \A t \in Tiles : occupant'[t] # u
    BY <1>1, <1>2, <1>3 DEF LocksInv, Place, TypeOK
  <2> QED BY <1>1, <1>3, <1>4, <2>1, OthersInPlace
<1>8. Place(s)'
  <2>1. main # "setup"
    BY <1>1, GameOn
  <2>2. pc'[v] # "new"
    BY <1>1, <1>2 DEF TypeOK
  <2> QED BY <1>1, <1>3, <1>4, <2>1, <2>2 DEF Place
<1>9. TileLocks'
  BY <1>1, <1>3, <1>4, <1>7, HoldsNothing DEF LocksInv, TileLocks, OthersStay
<1>10. SoldierLocks'
  <2>1. \A w \in Soldiers : soldierLock'[w] = IF w = v THEN s ELSE soldierLock[w]
    BY <1>2 DEF TypeOK
  <2> QED BY <1>1, <1>3, <1>4, <2>1, HoldsNothing DEF LocksInv, SoldierLocks, OthersStay
<1>11. CountInv'
  <2>1. Alive' = Alive \ {v} /\ v \in Alive
    BY <1>1, <1>2 DEF Alive, TypeOK
  <2>2. Counting' = Counting \cup {s} /\ s \notin Counting
    BY <1>1, <1>2 DEF Counting, TypeOK
  <2>3. Entered' = Entered
    BY <1>1, <1>2 DEF Entered, TypeOK
  <2>4. Cardinality(Alive \ {v}) = Cardinality(Alive) - 1
    BY <2>1, CountsFinite, FS_RemoveElement
  <2>5. Cardinality(Counting \cup {s}) = Cardinality(Counting) + 1
    BY <2>2, CountsFinite, FS_AddElement
  <2>6. Cardinality(Alive') = Cardinality(Alive) - 1
    BY <2>1, <2>4
  <2>7. Cardinality(Counting') = Cardinality(Counting) + 1
    BY <2>2, <2>5
  <2>8. soldierCount = Cardinality(Alive) + Cardinality(Counting)
    BY DEF CountInv, FallsCountedOnce, Counting
  <2>9. soldierCount' = Cardinality(Alive') + Cardinality(Counting')
    BY <1>3, <2>6, <2>7, <2>8, CountsFinite
  <2>10. main' = "returned" => Cardinality(Alive') <= 1
    BY <1>3, <2>6, CountsFinite DEF CountInv, FallsCountedOnce
  <2>11. FallsCountedOnce'
    BY <2>9, <2>10 DEF FallsCountedOnce, Counting
  <2> QED BY <1>3, <2>3, <2>11 DEF CountInv
<1> QED BY <1>5, <1>6, <1>7, <1>8, <1>9, <1>10, <1>11 DEF LocksInv


(* The fall is counted, under the lock of the fallen. *)
LEMMA CountIInv ==
  ASSUME IInv, NEW s \in Soldiers, DecrementSoldierCount(s)
  PROVE  IInv'
<1> USE DEF IInv
<1>1. /\ pc[s] = "count" /\ pc' = [pc EXCEPT ![s] = "clear"]
      /\ soldierCount' = soldierCount - 1
      /\ UNCHANGED <<occupant, pos, life, locks>> /\ UNCHANGED <<here, dir, heading, toAttack>>
      /\ tileLock' = tileLock /\ soldierLock' = soldierLock
  BY DEF DecrementSoldierCount, Goto, locals, locks
<1>2. main' = main \/ (main = "await" /\ main' = "woken")
  BY DEF DecrementSoldierCount
<1>3. main \in {"setup", "test", "wait", "await", "woken", "returned"} /\ main # "setup"
  BY <1>1, GameOn DEF TypeOK
<1>4. OthersStay(s) /\ pc'[s] = "clear"
  BY <1>1 DEF OthersStay, TypeOK
<1>5. CountInv' /\ soldierCount' \in 0..Cardinality(Soldiers)
  <2>1. Counting' = Counting \ {s} /\ s \in Counting
    BY <1>1 DEF Counting, TypeOK
  <2>2. Alive' = Alive /\ Entered' = Entered
    BY <1>1 DEF Alive, Entered, TypeOK
  <2>3. Cardinality(Counting \ {s}) = Cardinality(Counting) - 1
    BY <2>1, CountsFinite, FS_RemoveElement
  <2>4. Cardinality(Counting') = Cardinality(Counting) - 1 /\ Cardinality(Counting') \in Nat
    <3>1. IsFiniteSet(Counting \ {s})
      BY CountsFinite, FS_Subset
    <3>2. Cardinality(Counting \ {s}) \in Nat
      BY <3>1, FS_CardinalityType
    <3> QED BY <2>1, <2>3, <3>2
  <2>5. soldierCount = Cardinality(Alive) + Cardinality(Counting)
    BY DEF CountInv, FallsCountedOnce, Counting
  <2>6. soldierCount' = Cardinality(Alive') + Cardinality(Counting')
    BY <1>1, <2>2, <2>4, <2>5, CountsFinite
  <2>7. main' = "returned" => Cardinality(Alive') <= 1
    BY <1>2, <2>2 DEF CountInv, FallsCountedOnce
  <2>8. soldierCount' <= Cardinality(Entered') /\ soldierCount' \in Nat
    BY <1>1, <2>2, <2>4, <2>6, CountsFinite DEF CountInv, TypeOK
  <2>9. FallsCountedOnce'
    BY <2>6, <2>7 DEF FallsCountedOnce, Counting
  <2> QED BY <2>2, <2>8, <2>9, CountsFinite DEF CountInv
<1>6. TypeOK'
  BY <1>1, <1>2, <1>3, <1>5 DEF TypeOK
<1>7. OneTileEach'
  BY <1>1 DEF OneTileEach
<1>8. \A u \in Soldiers : Place(u)
  BY DEF LocksInv
<1>9. \A u \in Soldiers : Place(u)' /\ (pc[u] = "swap" => First(u)' = First(u))
  <2> SUFFICES ASSUME NEW u \in Soldiers PROVE Place(u)' /\ First(u)' = First(u)
    OBVIOUS
  <2>1. /\ Directions(here[u])' = Directions(here[u]) /\ First(u)' = First(u)
        /\ \A d : Relative(here[u], d)' = Relative(here[u], d)
    BY <1>1 DEF First
  <2>2. main' # "setup"
    BY <1>2, <1>3
  <2>3. \A w \in Soldiers : pc'[w] = IF w = s THEN "clear" ELSE pc[w]
    BY <1>1 DEF TypeOK
  <2> QED BY <1>1, <1>3, <1>8, <2>1, <2>2, <2>3 DEF Place
<1>10. TileLocks'
  BY <1>1, <1>4, <1>9 DEF LocksInv, TileLocks, OthersStay
<1>11. SoldierLocks'
  BY <1>1, <1>4 DEF LocksInv, SoldierLocks, OthersStay
<1> QED BY <1>5, <1>6, <1>7, <1>9, <1>10, <1>11 DEF LocksInv

(* The fallen leaves the board, and its lock is released. *)
LEMMA ClearIInv ==
  ASSUME IInv, NEW s \in Soldiers, ClearTile(s)
  PROVE  IInv'
<1> USE DEF IInv
<1>1. PICK v \in Soldiers : v = toAttack[s] /\ pc[s] = "clear"
  BY DEF ClearTile, LocksInv, Place
<1>2. /\ occupant' = [occupant EXCEPT ![pos[v]] = Nobody]
      /\ soldierLock' = [soldierLock EXCEPT ![v] = Nobody]
      /\ EndStep(s) /\ UNCHANGED <<pos, life, tileLock, soldierCount, main>>
  BY <1>1 DEF ClearTile, counting
<1>3. OthersStay(s) /\ pc' = [pc EXCEPT ![s] = "run"] /\ pc'[s] = "run"
  BY <1>2, StepEnds
<1>4. TypeOK'
  BY <1>1, <1>2, StepEnds DEF TypeOK, Labels
<1>5. \A t \in Tiles : occupant'[t] = occupant[t] \/ occupant'[t] = Nobody
  BY <1>2 DEF TypeOK
<1>6. OneTileEach'
  BY <1>5 DEF OneTileEach
<1>7. \A u \in Soldiers \ {s} : Place(u)' /\ First(u)' = First(u)
  <2>1. \A u \in Soldiers : pc[u] = "new" =>
          life'[u] = life[u] /\ \A t \in Tiles : occupant'[t] # u
    BY <1>2, <1>5, Parameters DEF LocksInv, Place
  <2> QED BY <1>1, <1>2, <1>3, <2>1, OthersInPlace
<1>8. Place(s)'
  BY <1>1, <1>2, <1>3, GameOn, FreePlace
<1>9. TileLocks'
  BY <1>1, <1>2, <1>3, <1>7 DEF LocksInv, TileLocks, OthersStay
<1>10. SoldierLocks'
  <2>1. \A w \in Soldiers : soldierLock'[w] = IF w = v THEN Nobody ELSE soldierLock[w]
    BY <1>2 DEF TypeOK
  <2>2. \A w \in Soldiers : soldierLock'[w] # s
    BY <1>1, <2>1, Parameters DEF LocksInv, SoldierLocks
  <2> QED BY <1>3, <2>1, <2>2, Parameters DEF LocksInv, SoldierLocks, OthersStay
<1>11. CountInv'
  BY <1>1, <1>2, <1>3, CountKept DEF TypeOK
<1> QED BY <1>4, <1>6, <1>7, <1>8, <1>9, <1>10, <1>11 DEF LocksInv


(* A soldier that found nobody locks itself and chooses where to go. *)
LEMMA ChooseIInv ==
  ASSUME IInv, NEW s \in Soldiers, ChooseDirection(s)
  PROVE  IInv'
<1> USE DEF IInv
<1>1. PICK d \in Directions(here[s]) : heading' = [heading EXCEPT ![s] = Relative(here[s], d)]
  BY DEF ChooseDirection
<1>2. /\ pc[s] = "move" /\ pc' = [pc EXCEPT ![s] = "lock"]
      /\ soldierLock[s] = Nobody /\ soldierLock' = [soldierLock EXCEPT ![s] = s]
      /\ UNCHANGED <<occupant, pos, life, tileLock, soldierCount, main, here, dir, toAttack>>
  BY DEF ChooseDirection, Goto, counting
<1>3. Relative(here[s], d) \in Tiles
  BY DEF Directions
<1>4. OthersStay(s) /\ pc'[s] = "lock" /\ heading'[s] = Relative(here[s], d)
  BY <1>1, <1>2 DEF OthersStay, TypeOK
<1>5. TypeOK'
  BY <1>1, <1>2, <1>3 DEF TypeOK
<1>6. OneTileEach'
  BY <1>2 DEF OneTileEach
<1>7. \A u \in Soldiers \ {s} : Place(u)' /\ First(u)' = First(u)
  <2>1. \A u \in Soldiers : pc[u] = "new" =>
          life'[u] = life[u] /\ \A t \in Tiles : occupant'[t] # u
    BY <1>2 DEF LocksInv, Place
  <2> QED BY <1>2, <1>4, <2>1, OthersInPlace
<1>8. Place(s)'
  <2>1. main # "setup"
    BY <1>2, GameOn
  <2>2. /\ Directions(here[s])' = Directions(here[s])
        /\ \A e : Relative(here[s], e)' = Relative(here[s], e)
    BY <1>2
  <2> QED BY <1>2, <1>4, <2>1, <2>2 DEF Place
<1>9. TileLocks'
  BY <1>2, <1>4, <1>7, HoldsNothing DEF LocksInv, TileLocks, OthersStay
<1>10. SoldierLocks'
  <2>1. \A w \in Soldiers : soldierLock'[w] = IF w = s THEN s ELSE soldierLock[w]
    BY <1>2 DEF TypeOK
  <2> QED BY <1>2, <1>4, <2>1, HoldsNothing DEF LocksInv, SoldierLocks, OthersStay
<1>11. CountInv'
  BY <1>2, CountKept DEF TypeOK
<1> QED BY <1>5, <1>6, <1>7, <1>8, <1>9, <1>10, <1>11 DEF LocksInv

(* What the two steps that lock tiles have in common. *)
LEMMA OnTheMove ==
  ASSUME IInv, NEW s \in Soldiers, LockFirstTile(s) \/ SwapOccupants(s),
         \A u \in Soldiers : pc[u] = "new" => \A t \in Tiles : occupant'[t] # u
  PROVE  /\ OthersStay(s) /\ pc' \in [Soldiers -> Labels]
         /\ \A u \in Soldiers : Place(u)' /\ First(u)' = First(u)
         /\ SoldierLocks' /\ CountInv'
<1> USE DEF IInv
<1>1. PICK l \in {"swap", "settle"} : pc' = [pc EXCEPT ![s] = l]
  BY DEF LockFirstTile, SwapOccupants, Goto
<1>2. /\ pc[s] \in {"lock", "swap"}
      /\ UNCHANGED <<pos, life, soldierLock, soldierCount, main>>
      /\ UNCHANGED <<here, dir, heading, toAttack>>
  BY DEF LockFirstTile, SwapOccupants, counting, locals
<1>3. OthersStay(s) /\ pc'[s] = l
  BY <1>1, <1>2 DEF OthersStay, TypeOK
<1>4. \A u \in Soldiers \ {s} : Place(u)' /\ First(u)' = First(u)
  BY <1>2, <1>3, OthersInPlace
<1>5. Place(s)' /\ First(s)' = First(s)
  <2>1. main # "setup" /\ Place(s)
    BY <1>2, GameOn DEF LocksInv
  <2>2. /\ Directions(here[s])' = Directions(here[s])
        /\ \A e : Relative(here[s], e)' = Relative(here[s], e)
    BY <1>2
  <2> QED BY <1>2, <1>3, <2>1, <2>2 DEF Place, First
<1>6. SoldierLocks'
  BY <1>2, <1>3 DEF LocksInv, SoldierLocks, OthersStay
<1>7. CountInv'
  BY <1>1, <1>2, CountKept DEF TypeOK
<1>8. pc' \in [Soldiers -> Labels]
  BY <1>1 DEF TypeOK, Labels
<1> QED BY <1>3, <1>4, <1>5, <1>6, <1>7, <1>8

LEMMA LockFirstIInv ==
  ASSUME IInv, NEW s \in Soldiers, LockFirstTile(s)
  PROVE  IInv'
<1> USE DEF IInv
<1>1. /\ pc[s] = "lock" /\ pc' = [pc EXCEPT ![s] = "swap"]
      /\ tileLock[First(s)] = Nobody /\ tileLock' = [tileLock EXCEPT ![First(s)] = s]
      /\ UNCHANGED <<occupant, pos, life, soldierLock, counting, locals>>
  BY DEF LockFirstTile, Goto
<1>2. \A u \in Soldiers : pc[u] = "new" => \A t \in Tiles : occupant'[t] # u
  BY <1>1 DEF LocksInv, Place
<1>3. /\ OthersStay(s) /\ pc' \in [Soldiers -> Labels]
      /\ \A u \in Soldiers : Place(u)' /\ First(u)' = First(u)
      /\ SoldierLocks' /\ CountInv'
  BY <1>2, OnTheMove
<1>4. TypeOK'
  BY <1>1, <1>3 DEF TypeOK, Labels, counting, locals
<1>5. OneTileEach'
  BY <1>1 DEF OneTileEach
<1>6. TileLocks'
  <2>1. \A t \in Tiles : tileLock'[t] = IF t = First(s) THEN s ELSE tileLock[t]
    BY <1>1 DEF TypeOK
  <2>2. \A t \in Tiles : tileLock[t] # s
    BY <1>1 DEF LocksInv, TileLocks
  <2>3. pc'[s] = "swap"
    BY <1>1 DEF TypeOK
  <2> QED BY <1>3, <2>1, <2>2, <2>3 DEF LocksInv, TileLocks, OthersStay
<1> QED BY <1>3, <1>4, <1>5, <1>6 DEF LocksInv

(* Swapping the occupants of two tiles puts nobody on a second one. *)
LEMMA SwapIInv ==
  ASSUME IInv, NEW s \in Soldiers, SwapOccupants(s)
  PROVE  IInv'
<1> USE DEF IInv
<1>1. /\ pc[s] = "swap" /\ pc' = [pc EXCEPT ![s] = "settle"]
      /\ occupant' = [occupant EXCEPT ![heading[s]] = occupant[here[s]],
                                      ![here[s]] = occupant[heading[s]]]
      /\ tileLock' = [tileLock EXCEPT ![First(s)] = Nobody]
      /\ UNCHANGED <<pos, life, soldierLock, counting, locals>>
  BY DEF SwapOccupants, Goto
<1>2. here[s] \in Tiles /\ heading[s] \in Tiles
  BY DEF TypeOK
<1>3. \A t \in Tiles : occupant'[t] = occupant[CASE t = here[s] -> heading[s]
                                                 [] t = heading[s] /\ t # here[s] -> here[s]
                                                 [] OTHER -> t]
  BY <1>1, <1>2 DEF TypeOK
<1>4. \A u \in Soldiers : pc[u] = "new" => \A t \in Tiles : occupant'[t] # u
  BY <1>2, <1>3 DEF LocksInv, Place
<1>5. /\ OthersStay(s) /\ pc' \in [Soldiers -> Labels]
      /\ \A u \in Soldiers : Place(u)' /\ First(u)' = First(u)
      /\ SoldierLocks' /\ CountInv'
  BY <1>4, OnTheMove
<1>6. TypeOK'
  BY <1>1, <1>2, <1>5 DEF TypeOK, Labels, counting, locals
<1>7. OneTileEach'
  BY <1>2, <1>3 DEF OneTileEach
<1>8. TileLocks'
  <2>1. First(s) \in Tiles
    BY <1>1, LockOrder DEF LocksInv
  <2>2. \A t \in Tiles : tileLock'[t] = IF t = First(s) THEN Nobody ELSE tileLock[t]
    BY <1>1 DEF TypeOK
  <2>3. \A t \in Tiles : tileLock'[t] # s
    BY <2>2, Parameters DEF LocksInv, TileLocks
  <2> QED BY <1>5, <2>2, <2>3, Parameters DEF LocksInv, TileLocks, OthersStay
<1> QED BY <1>5, <1>6, <1>7, <1>8 DEF LocksInv

(* The soldier learns where it is now and unlocks itself. *)
LEMMA SettleIInv ==
  ASSUME IInv, NEW s \in Soldiers, Settle(s)
  PROVE  IInv'
<1> USE DEF IInv
<1>1. /\ pc[s] = "settle" /\ pos' = [pos EXCEPT ![s] = heading[s]]
      /\ soldierLock' = [soldierLock EXCEPT ![s] = Nobody]
      /\ EndStep(s) /\ UNCHANGED <<occupant, life, tileLock, soldierCount, main>>
  BY DEF Settle, counting
<1>2. OthersStay(s) /\ pc' = [pc EXCEPT ![s] = "run"] /\ pc'[s] = "run"
  BY <1>1, StepEnds
<1>3. TypeOK'
  BY <1>1, StepEnds DEF TypeOK, Labels
<1>4. OneTileEach'
  BY <1>1 DEF OneTileEach
<1>5. \A u \in Soldiers \ {s} : Place(u)' /\ First(u)' = First(u)
  <2>1. \A u \in Soldiers : pc[u] = "new" =>
          life'[u] = life[u] /\ \A t \in Tiles : occupant'[t] # u
    BY <1>1 DEF LocksInv, Place
  <2> QED BY <1>1, <1>2, <2>1, OthersInPlace
<1>6. Place(s)'
  BY <1>1, <1>2, GameOn, FreePlace
<1>7. TileLocks'
  BY <1>1, <1>2, <1>5 DEF LocksInv, TileLocks, OthersStay
<1>8. SoldierLocks'
  <2>1. \A w \in Soldiers : soldierLock'[w] = IF w = s THEN Nobody ELSE soldierLock[w]
    BY <1>1 DEF TypeOK
  <2>2. \A w \in Soldiers : soldierLock'[w] # s
    BY <1>1, <2>1, Parameters DEF LocksInv, SoldierLocks
  <2> QED BY <1>2, <2>1, <2>2, Parameters DEF LocksInv, SoldierLocks, OthersStay
<1>9. CountInv'
  BY <1>1, <1>2, CountKept DEF TypeOK
<1> QED BY <1>3, <1>4, <1>5, <1>6, <1>7, <1>8, <1>9 DEF LocksInv


-----------------------------------------------------------------------------
(* The thread that calls deploy(). *)
LEMMA InitIInv == Init => IInv
<1> SUFFICES ASSUME Init PROVE IInv
  OBVIOUS
<1>1. Alive = {} /\ Entered = {} /\ Counting = {}
  BY DEF Init, Alive, Entered, Counting
<1>2. CountInv
  BY <1>1, FS_EmptySet DEF Init, CountInv, FallsCountedOnce, Counting
<1>3. TypeOK
  BY CornerOnBoard, CountsFinite DEF Init, TypeOK
<1>4. OneTileEach
  BY DEF Init, OneTileEach
<1>5. LocksInv
  BY Parameters DEF Init, LocksInv, TileLocks, SoldierLocks, Place
<1> QED BY <1>2, <1>3, <1>4, <1>5 DEF IInv

LEMMA AddIInv ==
  ASSUME IInv, NEW s \in Soldiers, AddSoldier(s)
  PROVE  IInv'
<1> USE DEF IInv
<1>1. PICK a \in Tiles : /\ occupant[a] = Nobody /\ occupant' = [occupant EXCEPT ![a] = s]
                         /\ pos' = [pos EXCEPT ![s] = a]
  BY DEF AddSoldier
<1>2. /\ main = "setup" /\ pc[s] = "new" /\ pc' = [pc EXCEPT ![s] = "added"]
      /\ soldierCount' = soldierCount + 1 /\ life[s] = 2
      /\ UNCHANGED <<life, locks, main, locals>>
  BY DEF AddSoldier, Goto, LocksInv, Place
<1>3. /\ tileLock' = tileLock /\ soldierLock' = soldierLock
      /\ UNCHANGED <<here, dir, heading, toAttack>>
  BY <1>2 DEF locks, locals
<1>4. \A t \in Tiles : occupant'[t] = IF t = a THEN s ELSE occupant[t]
  BY <1>1 DEF TypeOK
<1>5. \A u \in Soldiers : pc[u] \in {"new", "added"}
  BY <1>2 DEF LocksInv, Place
<1>6. \A u \in Soldiers : pc'[u] = IF u = s THEN "added" ELSE pc[u]
  BY <1>2 DEF TypeOK
<1>7. CountInv' /\ soldierCount' \in 0..Cardinality(Soldiers)
  <2>1. Alive' = Alive \cup {s} /\ s \notin Alive
    BY <1>2, <1>6 DEF Alive
  <2>2. Entered' = Entered \cup {s} /\ s \notin Entered
    BY <1>2, <1>6 DEF Entered
  <2>3. Counting' = Counting
    BY <1>2, <1>6 DEF Counting
  <2>4. Cardinality(Alive \cup {s}) = Cardinality(Alive) + 1
    BY <2>1, CountsFinite, FS_AddElement
  <2>5. Cardinality(Entered \cup {s}) = Cardinality(Entered) + 1
    BY <2>2, CountsFinite, FS_AddElement
  <2>6. Cardinality(Entered \cup {s}) <= Cardinality(Soldiers)
    <3>1. Entered \cup {s} \subseteq Soldiers
      BY DEF Entered
    <3> QED BY <3>1, Parameters, FS_Subset
  <2>7. /\ Cardinality(Alive') = Cardinality(Alive) + 1
        /\ Cardinality(Entered') = Cardinality(Entered) + 1
        /\ Cardinality(Counting') = Cardinality(Counting)
    BY <2>1, <2>2, <2>3, <2>4, <2>5
  <2>8. soldierCount = Cardinality(Alive) + Cardinality(Counting)
    BY DEF CountInv, FallsCountedOnce, Counting
  <2>9. soldierCount' = Cardinality(Alive') + Cardinality(Counting')
    BY <1>2, <2>7, <2>8, CountsFinite
  <2>10. soldierCount' <= Cardinality(Entered')
    BY <1>2, <2>7, CountsFinite DEF CountInv, TypeOK
  <2>11. main' # "returned"
    BY <1>2
  <2>12. soldierCount' \in 0..Cardinality(Soldiers)
    BY <1>2, <2>5, <2>6, CountsFinite DEF CountInv, TypeOK
  <2> QED BY <2>9, <2>10, <2>11, <2>12 DEF CountInv, FallsCountedOnce, Counting
<1>8. TypeOK'
  BY <1>1, <1>2, <1>3, <1>7 DEF TypeOK
<1>9. OneTileEach'
  BY <1>2, <1>4 DEF OneTileEach, LocksInv, Place
<1>10. LocksInv'
  <2>1. \A u \in Soldiers : Place(u)'
    BY <1>2, <1>4, <1>5, <1>6 DEF LocksInv, Place
  <2>2. TileLocks'
    BY <1>3, <1>5 DEF LocksInv, TileLocks
  <2>3. SoldierLocks'
    BY <1>3, <1>5 DEF LocksInv, SoldierLocks
  <2> QED BY <2>1, <2>2, <2>3 DEF LocksInv
<1> QED BY <1>7, <1>8, <1>9, <1>10

LEMMA DeployIInv == IInv /\ Deploy => IInv'
<1> SUFFICES ASSUME IInv, Deploy PROVE IInv'
  OBVIOUS
<1> USE DEF IInv
<1>1. /\ main = "setup" /\ \A u \in Soldiers : pc[u] = "added"
      /\ main' = "test"
      /\ pc' = [u \in Soldiers |-> "run"]
      /\ UNCHANGED <<occupant, pos, life, soldierCount>>
      /\ UNCHANGED <<tileLock, soldierLock, here, dir, heading, toAttack>>
  BY DEF Deploy, locks, locals
<1>2. TypeOK'
  BY <1>1 DEF TypeOK
<1>3. OneTileEach'
  BY <1>1 DEF OneTileEach
<1>4. LocksInv'
  <2>1. \A u \in Soldiers : Place(u)'
    BY <1>1 DEF Place
  <2>2. TileLocks'
    BY <1>1 DEF LocksInv, TileLocks
  <2>3. SoldierLocks'
    BY <1>1 DEF LocksInv, SoldierLocks
  <2> QED BY <2>1, <2>2, <2>3 DEF LocksInv
<1>5. CountInv'
  <2>1. main' # "returned"
    BY <1>1
  <2>2. \A u \in Soldiers : /\ pc'[u] = "new" <=> pc[u] = "new"
                            /\ pc'[u] = "count" <=> pc[u] = "count"
    BY <1>1
  <2> QED BY <1>1, <2>1, <2>2, CountKept
<1> QED BY <1>2, <1>3, <1>4, <1>5

(* Steps after which every soldier's variables are as before. *)
Wait == TestCount \/ Await \/ SpuriousWakeUp \/ WakeUp

LEMMA WaitIInv == IInv /\ (Wait \/ UNCHANGED vars) => IInv'
<1> SUFFICES ASSUME IInv, Wait \/ UNCHANGED vars PROVE IInv'
  OBVIOUS
<1> USE DEF IInv
<1>1. UNCHANGED <<occupant, pos, life, soldierCount, pc, tileLock, soldierLock,
                  here, dir, heading, toAttack>>
  BY DEF Wait, TestCount, Await, SpuriousWakeUp, WakeUp, MainGoes, vars, locks, locals, counting
<1>2. /\ main' \in {"setup", "test", "wait", "await", "woken", "returned"}
      /\ main' = "setup" <=> main = "setup"
      /\ main' = "returned" => main = "returned" \/ soldierCount <= 1
  <2>1. CASE TestCount
    BY <2>1 DEF TestCount, MainGoes, TypeOK
  <2>2. CASE Await \/ SpuriousWakeUp \/ WakeUp
    BY <2>2 DEF Await, SpuriousWakeUp, WakeUp, MainGoes
  <2>3. CASE UNCHANGED vars
    BY <2>3 DEF vars, counting, TypeOK
  <2> QED BY <2>1, <2>2, <2>3 DEF Wait
<1>3. TypeOK'
  BY <1>1, <1>2 DEF TypeOK
<1>4. OneTileEach'
  BY <1>1 DEF OneTileEach
<1>5. \A u \in Soldiers : Place(u)' /\ First(u)' = First(u)
  <2> SUFFICES ASSUME NEW u \in Soldiers PROVE Place(u)' /\ First(u)' = First(u)
    OBVIOUS
  <2>1. /\ Directions(here[u])' = Directions(here[u]) /\ First(u)' = First(u)
        /\ \A d : Relative(here[u], d)' = Relative(here[u], d)
    BY <1>1 DEF First
  <2>2. Place(u)
    BY DEF LocksInv
  <2> QED BY <1>1, <1>2, <2>1, <2>2 DEF Place
<1>6. LocksInv'
  BY <1>1, <1>5 DEF LocksInv, TileLocks, SoldierLocks
<1>7. CountInv'
  BY <1>1, <1>2, CountKept
<1> QED BY <1>3, <1>4, <1>6, <1>7

LEMMA NextIInv == IInv /\ [Next]_vars => IInv'
<1> SUFFICES ASSUME IInv, [Next]_vars PROVE IInv'
  OBVIOUS
<1>1. CASE Main \/ SpuriousWakeUp
  BY <1>1, DeployIInv, WaitIInv DEF Main, Wait
<1>2. CASE AllOver \/ UNCHANGED vars
  BY <1>2, WaitIInv DEF AllOver
<1>3. ASSUME NEW s \in Soldiers, AddSoldier(s) PROVE IInv'
  BY <1>3, AddIInv
<1>4. ASSUME NEW s \in Soldiers, Fight(s) PROVE IInv'
  BY <1>4, ReadIInv, StrikeIInv, FallIInv, CountIInv, ClearIInv DEF Fight
<1>5. ASSUME NEW s \in Soldiers, Move(s) PROVE IInv'
  BY <1>5, ChooseIInv, LockFirstIInv, SwapIInv, SettleIInv DEF Move
<1> QED BY <1>1, <1>2, <1>3, <1>4, <1>5 DEF Next


(* The invariant holds for all numbers of soldiers and all boards. *)
THEOREM Invariance == Spec => []IInv
  BY InitIInv, NextIInv, PTL DEF Spec

(* The variables of Tile, Soldier and step() keep their types: a soldier   *)
(* stays on the board and never heads off it, and the count of the living  *)
(* is never negative.                                                      *)
THEOREM Typing == Spec => []TypeOK
<1>1. IInv => TypeOK
  BY DEF IInv
<1> QED BY <1>1, Invariance, PTL

(* decrementLife: each fall lowers soldierCount once, whoever strikes the  *)
(* fallen soldier while it is still on the board, and deploy() returns     *)
(* only when at most one soldier is alive.                                 *)
THEOREM FallsCounted == Spec => []FallsCountedOnce
<1>1. IInv => FallsCountedOnce
  BY DEF IInv, CountInv
<1> QED BY <1>1, Invariance, PTL

(* swapOccupants: whoever swaps with whom on stale positions, no soldier   *)
(* is ever on two tiles.                                                   *)
THEOREM NobodyTwice == Spec => []OneTileEach
<1>1. IInv => OneTileEach
  BY DEF IInv
<1> QED BY <1>1, Invariance, PTL

-----------------------------------------------------------------------------
(* Waiting soldiers.  Those for a second tile wait for a tile of higher    *)
(* rank than the one they hold; the others that wait for a tile wait for   *)
(* those; and those that wait for a soldier's lock wait for one of the     *)
(* former or for nobody.                                                   *)
LEMMA SecondTileWait ==
  ASSUME IInv, NEW s \in Soldiers, pc[s] = "swap",
         NEW u \in Soldiers, u \in Blockers(s)
  PROVE  pc[u] = "swap" /\ Rank(First(s)) < Rank(First(u))
<1>1. u = tileLock[Second(s)]
  BY DEF Blockers
<1>2. Second(s) \in Tiles /\ Rank(First(s)) < Rank(Second(s))
  BY LockOrder DEF IInv, LocksInv
<1> QED BY <1>1, <1>2 DEF IInv, LocksInv, TileLocks

LEMMA TileWait ==
  ASSUME IInv, NEW s \in Soldiers, pc[s] \in {"scan", "lock", "clear"},
         NEW u \in Soldiers, u \in Blockers(s)
  PROVE  pc[u] = "swap"
<1>1. ASSUME NEW t \in Tiles, u = tileLock[t] PROVE pc[u] = "swap"
  BY <1>1 DEF IInv, LocksInv, TileLocks
<1>2. CASE pc[s] = "scan"
  <2>1. Relative(here[s], dir[s]) \in Tiles
    BY <1>2 DEF IInv, LocksInv, Place, Directions
  <2> QED BY <1>1, <1>2, <2>1 DEF Blockers
<1>3. CASE pc[s] = "lock"
  <2>1. First(s) \in Tiles
    BY <1>3, LockOrder DEF IInv, LocksInv
  <2> QED BY <1>1, <1>3, <2>1 DEF Blockers
<1>4. CASE pc[s] = "clear"
  <2>1. pos[toAttack[s]] \in Tiles
    BY <1>4 DEF IInv, TypeOK, LocksInv, Place
  <2> QED BY <1>1, <1>4, <2>1 DEF Blockers
<1> QED BY <1>2, <1>3, <1>4

LEMMA SoldierWait ==
  ASSUME IInv, NEW s \in Soldiers, pc[s] \in {"run", "look", "move", "attack"},
         NEW u \in Soldiers, u \in Blockers(s)
  PROVE  pc[u] \in {"lock", "swap", "settle", "count", "clear"}
<1>1. ASSUME NEW v \in Soldiers, u = soldierLock[v]
      PROVE  pc[u] \in {"lock", "swap", "settle", "count", "clear"}
  BY <1>1 DEF IInv, LocksInv, SoldierLocks
<1>2. CASE pc[s] = "attack"
  <2>1. toAttack[s] \in Soldiers
    BY <1>2 DEF IInv, LocksInv, Place
  <2> QED BY <1>1, <1>2, <2>1 DEF Blockers
<1>3. CASE pc[s] \in {"run", "look", "move"}
  BY <1>1, <1>3 DEF Blockers
<1> QED BY <1>2, <1>3

LEMMA LeastElement ==
  ASSUME NEW S \in SUBSET Nat, S # {}
  PROVE  \E n \in S : \A m \in S : n <= m
<1>1. PICK n \in S : \A m \in S : <<m, n>> \notin OpToRel(<, Nat)
  BY NatLessThanWellFounded, WFMin
<1>2. ASSUME NEW m \in S PROVE n <= m
  <2>1. <<m, n>> \notin OpToRel(<, Nat)
    BY <1>1
  <2> QED BY <2>1 DEF OpToRel
<1> QED BY <1>2

LEMMA NoCycle == IInv => NoDeadlock
<1> SUFFICES ASSUME IInv, NEW waiting \in (SUBSET Soldiers) \ {{}}
             PROVE  \E s \in waiting : Blockers(s) \cap waiting = {}
  BY DEF NoDeadlock
<1>1. CASE \E s \in waiting : pc[s] = "swap"
  <2> DEFINE gap(s) == Rows * Cols - Rank(First(s))
             gaps == {gap(s) : s \in {w \in waiting : pc[w] = "swap"}}
  <2>1. ASSUME NEW s \in waiting, pc[s] = "swap"
        PROVE  gap(s) \in Nat /\ Rank(First(s)) \in Nat
    <3>1. First(s) \in Tiles
      BY <2>1, LockOrder DEF IInv, LocksInv
    <3>2. Rank(First(s)) \in Nat /\ Rank(First(s)) < Rows * Cols
      BY <3>1, RankBound
    <3>3. Rows * Cols \in Nat
      BY Parameters
    <3> QED BY <3>2, <3>3
  <2>2. gaps \in SUBSET Nat /\ gaps # {}
    BY <1>1, <2>1
  <2> HIDE DEF gap
  <2>3. PICK n \in gaps : \A m \in gaps : n <= m
    <3> HIDE DEF gaps
    <3> QED BY <2>2, LeastElement
  <2>4. PICK s \in waiting : pc[s] = "swap" /\ n = gap(s)
    OBVIOUS
  <2>5. ASSUME NEW u \in waiting, u \in Blockers(s) PROVE FALSE
    <3>1. pc[u] = "swap" /\ Rank(First(s)) < Rank(First(u))
      BY <2>4, <2>5, SecondTileWait
    <3>2. gap(s) <= gap(u)
      BY <2>3, <2>4, <3>1
    <3>3. Rank(First(s)) \in Nat /\ Rank(First(u)) \in Nat
      BY <2>1, <2>4, <3>1
    <3>4. Rows * Cols \in Nat
      BY Parameters
    <3> QED BY <3>1, <3>2, <3>3, <3>4 DEF gap
  <2> QED BY <2>4, <2>5
<1>2. CASE /\ ~ \E s \in waiting : pc[s] = "swap"
           /\ \E s \in waiting : pc[s] \in {"scan", "lock", "clear"}
  BY <1>2, TileWait
<1>3. CASE \E s \in waiting : pc[s] \in {"new", "added", "count", "settle", "ended"}
  <2>1. PICK s \in waiting : pc[s] \in {"new", "added", "count", "settle", "ended"}
    BY <1>3
  <2>2. Blockers(s) = {}
    BY <2>1 DEF Blockers
  <2> QED BY <2>2
<1>4. CASE \A s \in waiting : pc[s] \in {"run", "look", "move", "attack"}
  BY <1>4, SoldierWait
<1>5. \A s \in waiting :
        pc[s] \in {"new", "added", "run", "look", "scan", "attack", "count",
                   "clear", "move", "lock", "swap", "settle", "ended"}
  BY DEF IInv, TypeOK
<1> QED BY <1>1, <1>2, <1>3, <1>4, <1>5

(* The locks of ToySoldiersSim.java are nested without a cycle, if no two  *)
(* of them have one identity hash: of any soldiers that wait for a lock,   *)
(* one waits for none of the others.                                       *)
THEOREM DeadlockFree == Spec => []NoDeadlock
  BY Invariance, NoCycle, PTL
=============================================================================
