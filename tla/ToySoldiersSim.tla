--------------------------- MODULE ToySoldiersSim ---------------------------
(***************************************************************************)
(* ToySoldiersSim.java: soldiers, a thread each, walk a board of tiles and *)
(* strike whom they find next to them; deploy() waits until at most one is *)
(* alive.  There is a lock per tile, a lock per soldier and a lock with a  *)
(* condition for the count of living soldiers, and they nest: a soldier's  *)
(* lock is held while the count's and the tiles' are taken, the count's    *)
(* while a tile's is.                                                      *)
(*                                                                         *)
(* Everything a soldier learns on its round is old when it acts on it: the *)
(* tile it heads for may be taken by then, it may have been moved by who   *)
(* swapped places with it, and it may be dead.                             *)
(***************************************************************************)
EXTENDS Integers, FiniteSets, FiniteSetsExt

CONSTANTS
  Soldiers, Nobody,
  Rows, Cols

(* On a single tile a soldier would search for a direction forever. *)
ASSUME Parameters ==
  /\ IsFiniteSet(Soldiers) /\ Nobody \notin Soldiers
  /\ Rows \in Nat \ {0} /\ Cols \in Nat \ {0} /\ Rows * Cols > 1

Tiles == (0..(Rows - 1)) \X (0..(Cols - 1))

VARIABLES
  occupant,     \* Tile.occupant
  pos,          \* Soldier.row and Soldier.col
  life,
  soldierCount,
  tileLock,     \* who holds the lock of each tile ...
  soldierLock,  \* ... and of each soldier
  here, dir,    \* local variables of step(): where the soldier was, and the
  heading,      \*   direction it looks in or the tile it heads for
  toAttack,
  main,         \* the thread that adds the soldiers and calls deploy()
  pc

locks == <<tileLock, soldierLock>>
locals == <<here, dir, heading, toAttack>>
counting == <<soldierCount, main>>
vars == <<occupant, pos, life, locks, counting, locals, pc>>

Corner == <<0, 0>>

Init ==
  /\ occupant = [t \in Tiles |-> Nobody]
  /\ pos = [s \in Soldiers |-> Corner]
  /\ life = [s \in Soldiers |-> 2]
  /\ soldierCount = 0
  /\ tileLock = [t \in Tiles |-> Nobody]
  /\ soldierLock = [s \in Soldiers |-> Nobody]
  /\ here = [s \in Soldiers |-> Corner]
  /\ dir = [s \in Soldiers |-> 1]
  /\ heading = [s \in Soldiers |-> Corner]
  /\ toAttack = [s \in Soldiers |-> Nobody]
  /\ main = "setup"
  /\ pc = [s \in Soldiers |-> "new"]

Goto(s, label) == pc' = [pc EXCEPT ![s] = label]

(* The tile next to one in each of the directions NORTH, SOUTH, EAST and   *)
(* WEST, and the directions in which there is one.                         *)
Relative(tile, d) ==
  LET r == tile[1]
      c == tile[2]
  IN  << <<r - 1, c>>, <<r + 1, c>>, <<r, c + 1>>, <<r, c - 1>> >>[d]

Directions(tile) == {d \in 1..4 : Relative(tile, d) \in Tiles}

(* step() returns: its variables go out of scope. *)
EndStep(s) ==
  /\ here' = [here EXCEPT ![s] = Corner]
  /\ dir' = [dir EXCEPT ![s] = 1]
  /\ heading' = [heading EXCEPT ![s] = Corner]
  /\ toAttack' = [toAttack EXCEPT ![s] = Nobody]
  /\ Goto(s, "run")
-----------------------------------------------------------------------------
(* The thread that calls deploy().  Soldiers are put on free tiles, as in  *)
(* TestToySoldiers; addSoldier itself does not look.                       *)
AddSoldier(s) ==
  /\ main = "setup" /\ pc[s] = "new"
  /\ \E t \in Tiles :
       /\ occupant[t] = Nobody
       /\ occupant' = [occupant EXCEPT ![t] = s]
       /\ pos' = [pos EXCEPT ![s] = t]
  /\ soldierCount' = soldierCount + 1
  /\ Goto(s, "added")
  /\ UNCHANGED <<life, locks, main, locals>>

(* deploy() holds countLock from before it submits the soldiers until it   *)
(* waits, and again from a wakeup until it waits or returns: they fight    *)
(* while it tests the count, but cannot count a fall.                      *)
Deploy ==
  /\ main = "setup" /\ \A s \in Soldiers : pc[s] = "added"
  /\ main' = "test"
  /\ pc' = [s \in Soldiers |-> "run"]
  /\ UNCHANGED <<occupant, pos, life, soldierCount, locks, locals>>

CountLockFree == main \notin {"test", "wait"}

MainGoes(label) ==
  /\ main' = label
  /\ UNCHANGED <<occupant, pos, life, soldierCount, locks, locals, pc>>

TestCount == main = "test" /\ MainGoes(IF soldierCount > 1 THEN "wait" ELSE "returned")

(* awaitUninterruptibly: lets go of the lock and waits, for a signal or    *)
(* for nothing; whoever wakes up takes the lock, which soldiers hold for   *)
(* one step at a time.                                                     *)
Await == main = "wait" /\ MainGoes("await")
SpuriousWakeUp == main = "await" /\ MainGoes("woken")
WakeUp == main = "woken" /\ MainGoes("test")
-----------------------------------------------------------------------------
(* A soldier's thread.  run() asks for its life between steps. *)
GetLife(s) ==
  /\ pc[s] = "run" /\ soldierLock[s] = Nobody
  /\ Goto(s, IF life[s] > 0 THEN "look" ELSE "ended")
  /\ UNCHANGED <<occupant, pos, life, locks, counting, locals>>

GetPosition(s) ==
  /\ pc[s] = "look" /\ soldierLock[s] = Nobody
  /\ here' = [here EXCEPT ![s] = pos[s]]
  /\ dir' = [dir EXCEPT ![s] = Min(Directions(pos[s]))]
  /\ Goto(s, "scan")
  /\ UNCHANGED <<occupant, pos, life, locks, counting, heading, toAttack>>

(* One tile after the other, until somebody is on it.  Variables are reset *)
(* when they are not used any more.                                        *)
GetOccupant(s) ==
  LET there == Relative(here[s], dir[s])
      left  == {d \in Directions(here[s]) : d > dir[s]}
  IN  /\ pc[s] = "scan" /\ tileLock[there] = Nobody
      /\ CASE occupant[there] \notin {Nobody, s} ->
                /\ toAttack' = [toAttack EXCEPT ![s] = occupant[there]]
                /\ here' = [here EXCEPT ![s] = Corner]
                /\ dir' = [dir EXCEPT ![s] = 1]
                /\ Goto(s, "attack")
           [] occupant[there] \in {Nobody, s} /\ left # {} ->
                /\ dir' = [dir EXCEPT ![s] = Min(left)]
                /\ UNCHANGED <<here, toAttack, pc>>
           [] OTHER ->
                /\ dir' = [dir EXCEPT ![s] = 1]
                /\ Goto(s, "move")
                /\ UNCHANGED <<here, toAttack>>
      /\ UNCHANGED <<occupant, pos, life, locks, counting, heading>>

(* Mutant: whoever strikes a fallen soldier counts the fall again. *)
DecrementLifeBelow(s) ==
  LET v == toAttack[s]
      left == IF life[v] > -1 THEN life[v] - 1 ELSE -1
  IN  /\ pc[s] = "attack" /\ soldierLock[v] = Nobody
      /\ life' = [life EXCEPT ![v] = left]
      /\ IF left <= 0
           THEN /\ soldierLock' = [soldierLock EXCEPT ![v] = s]
                /\ Goto(s, "count") /\ UNCHANGED locals
           ELSE UNCHANGED soldierLock /\ EndStep(s)
      /\ UNCHANGED <<occupant, pos, tileLock, counting>>

(* decrementLife: keeps the lock of a soldier that falls.  Below zero      *)
(* nothing tells one life from another.                                    *)
DecrementLife(s) ==
  LET v == toAttack[s]
      left == IF life[v] > -1 THEN life[v] - 1 ELSE -1
  IN  /\ pc[s] = "attack" /\ soldierLock[v] = Nobody
      /\ life' = [life EXCEPT ![v] = left]
      /\ IF left = 0
           THEN /\ soldierLock' = [soldierLock EXCEPT ![v] = s]
                /\ Goto(s, "count") /\ UNCHANGED locals
           ELSE UNCHANGED soldierLock /\ EndStep(s)
      /\ UNCHANGED <<occupant, pos, tileLock, counting>>

(* Mutant: the count is lowered without its lock. *)
DecrementCountUnlocked(s) ==
  /\ pc[s] = "count"
  /\ soldierCount' = soldierCount - 1
  /\ main' = IF soldierCount' <= 1 /\ main = "await" THEN "woken" ELSE main
  /\ Goto(s, "clear")
  /\ UNCHANGED <<occupant, pos, life, locks, locals>>

DecrementSoldierCount(s) ==
  /\ pc[s] = "count" /\ CountLockFree
  /\ soldierCount' = soldierCount - 1
  /\ main' = IF soldierCount' <= 1 /\ main = "await" THEN "woken" ELSE main
  /\ Goto(s, "clear")
  /\ UNCHANGED <<occupant, pos, life, locks, locals>>

ClearTile(s) ==
  LET v == toAttack[s]
  IN  /\ pc[s] = "clear" /\ tileLock[pos[v]] = Nobody
      /\ occupant' = [occupant EXCEPT ![pos[v]] = Nobody]
      /\ soldierLock' = [soldierLock EXCEPT ![v] = Nobody]
      /\ EndStep(s)
      /\ UNCHANGED <<pos, life, tileLock, counting>>

(* Nobody to attack: a random direction. *)
ChooseDirection(s) ==
  /\ pc[s] = "move" /\ soldierLock[s] = Nobody
  /\ soldierLock' = [soldierLock EXCEPT ![s] = s]
  /\ \E d \in Directions(here[s]) :
       heading' = [heading EXCEPT ![s] = Relative(here[s], d)]
  /\ Goto(s, "lock")
  /\ UNCHANGED <<occupant, pos, life, tileLock, counting, here, dir, toAttack>>

(* Mutant: the tile the soldier leaves is locked first. *)
FirstIsHere(s) == here[s]

(* The order of the locks' identity hashes, here the order of the board;   *)
(* two locks with one hash have none.                                      *)
First(s) ==
  LET a == here[s]
      b == heading[s]
  IN  IF a[1] * Cols + a[2] < b[1] * Cols + b[2] THEN a ELSE b

Second(s) == IF First(s) = here[s] THEN heading[s] ELSE here[s]

LockFirstTile(s) ==
  /\ pc[s] = "lock" /\ tileLock[First(s)] = Nobody
  /\ tileLock' = [tileLock EXCEPT ![First(s)] = s]
  /\ Goto(s, "swap")
  /\ UNCHANGED <<occupant, pos, life, soldierLock, counting, locals>>

(* Mutant: the soldier is put on the new tile, and left on the old one. *)
SwapHalf(s) ==
  /\ pc[s] = "swap" /\ tileLock[Second(s)] = Nobody
  /\ occupant' = [occupant EXCEPT ![heading[s]] = occupant[here[s]]]
  /\ tileLock' = [tileLock EXCEPT ![First(s)] = Nobody]
  /\ Goto(s, "settle")
  /\ UNCHANGED <<pos, life, soldierLock, counting, locals>>

(* Both tiles are locked, swapped and unlocked. *)
SwapOccupants(s) ==
  /\ pc[s] = "swap" /\ tileLock[Second(s)] = Nobody
  /\ occupant' = [occupant EXCEPT ![heading[s]] = occupant[here[s]],
                                  ![here[s]] = occupant[heading[s]]]
  /\ tileLock' = [tileLock EXCEPT ![First(s)] = Nobody]
  /\ Goto(s, "settle")
  /\ UNCHANGED <<pos, life, soldierLock, counting, locals>>

Settle(s) ==
  /\ pc[s] = "settle"
  /\ pos' = [pos EXCEPT ![s] = heading[s]]
  /\ soldierLock' = [soldierLock EXCEPT ![s] = Nobody]
  /\ EndStep(s)
  /\ UNCHANGED <<occupant, life, tileLock, counting>>

Fight(s) ==
  \/ GetLife(s) \/ GetPosition(s) \/ GetOccupant(s)
  \/ DecrementLife(s) \/ DecrementSoldierCount(s) \/ ClearTile(s)

Move(s) ==
  ChooseDirection(s) \/ LockFirstTile(s) \/ SwapOccupants(s) \/ Settle(s)

(* All have fallen and deploy() has returned. *)
AllOver ==
  /\ main = "returned" /\ \A s \in Soldiers : pc[s] = "ended"
  /\ UNCHANGED vars

Main == Deploy \/ TestCount \/ Await \/ WakeUp

Next ==
  \/ Main \/ SpuriousWakeUp \/ AllOver
  \/ \E s \in Soldiers : AddSoldier(s) \/ Fight(s) \/ Move(s)

Spec == Init /\ [][Next]_vars

(* The scheduler runs the caller of deploy() and every soldier; a wakeup   *)
(* without a signal may never come.                                        *)
FairSpec ==
  /\ Spec
  /\ WF_vars(Main)
  /\ \A s \in Soldiers : WF_vars(Fight(s) \/ Move(s))
-----------------------------------------------------------------------------
TypeOK ==
  /\ occupant \in [Tiles -> Soldiers \cup {Nobody}]
  /\ pos \in [Soldiers -> Tiles]
  /\ life \in [Soldiers -> -1..2]
  /\ soldierCount \in 0..Cardinality(Soldiers)
  /\ tileLock \in [Tiles -> Soldiers \cup {Nobody}]
  /\ soldierLock \in [Soldiers -> Soldiers \cup {Nobody}]
  /\ here \in [Soldiers -> Tiles] /\ heading \in [Soldiers -> Tiles]
  /\ dir \in [Soldiers -> 1..4]
  /\ toAttack \in [Soldiers -> Soldiers \cup {Nobody}]
  /\ main \in {"setup", "test", "wait", "await", "woken", "returned"}
  /\ pc \in [Soldiers -> {"new", "added", "run", "look", "scan", "attack", "count",
                          "clear", "move", "lock", "swap", "settle", "ended"}]

Alive == {s \in Soldiers : pc[s] # "new" /\ life[s] > 0}

(* A fall is counted once, by the soldier whose blow it was, however many  *)
(* strike at a time and however long the fallen stay on the board; so      *)
(* deploy() returns only when at most one soldier is alive.                *)
FallsCountedOnce ==
  /\ soldierCount = Cardinality(Alive) + Cardinality({s \in Soldiers : pc[s] = "count"})
  /\ main = "returned" => Cardinality(Alive) <= 1

(* Whoever swaps with whom, on whatever stale view: no soldier is ever on  *)
(* two tiles.                                                              *)
OneTileEach ==
  \A t, u \in Tiles : occupant[t] # Nobody /\ occupant[t] = occupant[u] => t = u

(* The soldiers that hold the lock s waits for. *)
Blockers(s) ==
  CASE pc[s] \in {"run", "look", "move"} -> {soldierLock[s]}
    [] pc[s] = "scan"   -> {tileLock[Relative(here[s], dir[s])]}
    [] pc[s] = "attack" -> {soldierLock[toAttack[s]]}
    [] pc[s] = "clear"  -> {tileLock[pos[toAttack[s]]]}
    [] pc[s] = "lock"   -> {tileLock[First(s)]}
    [] pc[s] = "swap"   -> {tileLock[Second(s)]}
    [] OTHER            -> {}

(* The nesting of the locks has no cycle: among any soldiers that wait one *)
(* waits for nobody of them, though the tiles they lock in pairs are       *)
(* chosen from stale positions.  (Who counts a fall waits for deploy() at  *)
(* most, which waits for nobody while it holds the count's lock.)          *)
NoDeadlock ==
  \A waiting \in (SUBSET Soldiers) \ {{}} :
    \E s \in waiting : Blockers(s) \cap waiting = {}

(* deploy() returns when at most one soldier is left, without the help of  *)
(* a spurious wakeup: no fall is counted, and no signal given, between its *)
(* test of the count and its wait, so that none is lost.                   *)
DeployEnds ==
  (main # "setup" /\ soldierCount <= 1) ~> main = "returned"
=============================================================================
