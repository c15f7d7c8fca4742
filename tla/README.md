# TLA+ models of ParSweet

ParSweet compares concurrent data structures written by hand in C++
(`CppParallelSuite/`) and Java (`JavaParallelSuite/`): locks, a barrier, sets,
maps, and a small simulation. Nothing is sent over a network; nearly all that
is hard here is shared memory, and the rest is the results file the benchmark
programs share. The modules in this directory model these structures one
shared-memory access per step, check them with TLC on small instances, and
prove the safety of the locks, the barrier, the sets, the hash tables and the
simulation with TLAPS for any number of threads.

Paths below are relative to `CppParallelSuite/` or to
`JavaParallelSuite/src/edu/lsu/cct/parallelsuite/`. `PROJECT.json` maps every
definition to the lines it models.

## Inventory

| Part | State | Operations | What is hard | What makes it correct |
| --- | --- | --- | --- | --- |
| `CLHLock` | a tail pointer, a node per thread with `locked` | `lock`, `unlock` | a thread takes over its predecessor's node; `locked` is a plain bool | no node is reused while somebody waits for it; exclusion, FIFO |
| `TwoCounterLock` | two counters | `lock`, `unlock` | the counters wrap, tickets are compared with `==` | the tickets held are the next ones, each once |
| `MCSLock` | a tail pointer, a node per thread with `locked` and `next` | `lock`, `unlock` | the queue is cut between the swap of the tail and the link | links agree with the queue, nodes come back as new |
| `ALock`, `OptimizedALock` | a counter, a ring of flags, a thread-local slot | `lock`, `unlock` | the slots suffice for as many threads only; the counter wraps | one token; FIFO |
| `TASLock`, `TTASLock`, `BackoffLock`, `IdLock`, `TIdLock` | one word | `lock`, `unlock` | test and exchange are two accesses, exchanges fail spuriously, losers sleep | the word is taken while the lock is held, and names its holder |
| `ThreadId`, `ThreadLocal` | an id counter, cells and their flags | `get`, `set`, `isSet` | ids are drawn while others lock; cells are shared modulo their number | threads that use an object have cells of their own |
| `Barrier` | `count`, `march`, mutex, condition | `sync` | reuse: late, early and spurious wakeups of another round | nobody returns early, nobody sleeps on |
| `FineGrainedSet`, `OptimisticSet`, `LazySet` | a linked list in the order of hash codes, a mutex per node, `deleted` marks | `add`, `remove`, `contains`, `getEqual` | walks without locks over nodes that change and leave; colliding hash codes; locks taken in pairs | linearizable set; sorted list; no deadlock, no endless retry |
| `LockHashMap`, `LockHashSet`, `SetBasedMap` | buckets, each with a mutex and a chain, or a set | `put`, `get`, `del`/`remove`; `add`, `contains` | search and change must be one critical section; Java's negative remainders | linearizable map; one node per key |
| `ToySoldiersSim` | tiles, soldiers, a count of the living, a lock for each | `addSoldier`, `deploy`, the soldiers' `run` | nested locks, decisions on stale views, a count others wait for | one tile per soldier, each fall counted once, no deadlock |
| Workers of tests and benchmarks (`bench/test`, `benchLock`, `benchSet`, `benchMap`) | a number, the calls made, `out` | loops over one structure, `join`/`get` | threads with tokens of their own, in neighbouring nodes and shared buckets; an output that is not always written | no increment is lost; answers as if alone; an empty structure in the end; every worker ends |
| Benchmark programs (`Bench.hpp`, `Bench*.cpp`, `TuneBackoffLock`) | parameters, the tests to run, the best so far; the results file | read the environment, measure, `writeBenchResult`, `coolOff`, `hpx_main` | several runs share one file and may be killed; ticks and milliseconds; four readings of `PSWEET_WHICH` | results stay, one header, each test once, the best is the best |
| `psweet_stats.py`, `BlackBox`, HPX's runtime, build | | | nothing shared | not modelled |

Interactions: the queue locks keep their nodes or slots in `ThreadLocal`s,
which depend on `ThreadId`; `IdLock` and `TIdLock` use `ThreadId` directly.
Sets, hash tables and the barrier take a mutex type as a parameter and are
used with each of the locks. `SetBasedMap` has one of the sets in each bucket.
Composition goes through the contracts: `Mutex` for whoever takes a mutex, and
`SetContract` for `SetBasedMap`. Programs and structures meet in the workers:
`BenchMaps` and `BenchSets` put them on top of the detailed structures,
`FifoLocks` puts one of several locks under test, `Benchmarks` is the programs
around them with a measurement as one step.

## Modules

Contracts (abstract specifications):

- `Mutex` — MutexType: lock() returns to one thread at a time.
- `FifoMutex` — the queue locks: threads enter in the order of one atomic
  operation at the start of lock().
- `BarrierContract` — sync() number r returns after everybody's call number r.
- `SetContract`, `MapContract` — a call takes effect in one step between its
  start and its return (linearizability), and some pending call gets through.
  What a map's call answers differs by class and version, so `MapContract` has
  a parameter `reports`: `get` tells the value found, in all of them; `put` and
  `del` tell the value (Java's `LockHashMap`), whether there was one (C++), or
  nothing (`true` from C++ `LockHashMap::put`, `null` from Java's
  `SetBasedMap.put` and `remove`).

Implementations, each shown to implement its contract by a refinement mapping
(`INSTANCE ... WITH`, the contract's specification as a property):

| Module | Code | Refines | By |
| --- | --- | --- | --- |
| `CLHLock` (+ `TestCLHLock`) | `locks/CLHLock.*`, `bench/test/TestLocks.*` | `FifoMutex`, `Mutex` | the queue is read off the chain of predecessors |
| `TwoCounterLock` | `locks/TwoCounterLock.*` | `FifoMutex` | the queue is the order of the tickets from `currentTicket` on |
| `MCSLock` | `locks/MCSLock.*` | `FifoMutex` | the chain of the nodes' predecessors back from the tail |
| `ALock` over `ThreadLocal` | `locks/ALock.*`, `OptimizedALock.hpp`, `threadlocal/` | `FifoMutex` | the slots from the token's on |
| `WordLocks` | the five locks of one word, `ThreadId` | `Mutex` | the threads' program counters |
| `Barrier` | `barrier/Barrier.hpp`, `Barrier.java` | `BarrierContract` | a thread counts as arrived from its increment |
| `ListSets` over `ListSet`, `FineGrainedSet`, `OptimisticSet`, `LazySet` | `sets/*` | `SetContract` | the set is what the nodes between head and tail hold |
| `HashMaps` | `maps/*`, `sets/LockHashSet.hpp` | `MapContract` | the map is what the chains hold |
| `ToySoldiersSim` | `ToySoldiersSim.java` | — | |
| `FifoLocks` over `TwoCounterLock`, `MCSLock`, `ALock` | the table of tests in `bench/BenchLocks.cpp` | `FifoMutex` | the queue of the lock under test |
| `BenchWorker` | the calls of a worker, `bench/BenchMaps.cpp` and its copies | — | |
| `BenchSets` over `ListSets` | `benchSet`, `benchSetHpx`, `TestSets.cpp` | `SetContract` | as `ListSets` |
| `BenchMaps` over `HashMaps` | `benchMap`, `benchMapHpx`, `TestMaps.cpp` | `MapContract` | as `HashMaps` |
| `Benchmarks` | `bench/Bench.hpp`, the programs' `main` and `hpx_main` | — | |
| `TestLazySet` | `bench/test/TestSets.java` on `LazySet.java` | — | |

Conventions. Variables and actions have the names of the code's fields and of
what a line does; `pc[t]` is where thread t is in a call. `version` ("C++" or
"Java") and `kind` (the class) are variables chosen once, so that one run
covers the versions wherever the code differs. An action is one access to
shared memory, or a whole critical section of a lock nobody observes from
inside. A definition whose comment begins with *Mutant* belongs to no
specification: it is the definition after it with a plausible mistake, kept to
see that a property would catch it; `PROJECT.json` pairs them. `MC*` modules
only define constants a `.cfg` cannot express.

## What the runs check

| Run | Instance | What it shows |
| --- | --- | --- |
| `test_clh_lock` | 3 threads, 3 lock() calls each | recycling of nodes (`NodesRecycledSafely`), exclusion, no lost increment (`CounterExact`), FIFO service and no starvation (`ImplementsFifo`); the invariant of the proof, `IInv` |
| `test_clh_lock_plain` | 2 threads, 2 calls | **violation**: with the plain bool's store free to overtake the counter's, an increment is lost |
| `fifo_locks` | `TwoCounterLock`: 4 threads, 4 counter values; `MCSLock`: 3 threads; `ALock`: 3 threads, 3 slots, a counter of 6 values | whichever the lock: exclusion, FIFO service, no starvation (`LocksImplementFifo`); tickets distinct and consecutive while they wrap (`TicketsOutstanding`); no null link followed (in `LocksTypeOK`), `IdleNodesAsNew`, `LinksFollowQueue`; `OneToken`, and `CellsUnshared` with ids that start at any cell |
| `alock_oversubscribed` | 3 threads, 2 slots | **violation** of exclusion: the number of threads is a run-time parameter, that of slots is not |
| `word_locks` | 3 threads, delays up to 3 | `WordNamesHolder`, `IInv`; a free lock somebody waits for is taken (`ImplementsMutex`) |
| `barrier` | 3 threads, 3 rounds, march of 2 values | `NoLostWakeup`, `CountIsArrivals`; no early return, everybody gets through |
| `list_sets` | 2 threads; any calls on 3 elements (one colliding with the head's key, two with each other) with 2 allocations, or 2 workers of `benchSet` with 8 calls each | `ListWellFormed`, `CallbackWindow`, linearizability and progress (`ImplementsSet`), three sets, two versions; the workers are not disturbed and end with an empty set (`WorkersUndisturbed`, `WorkersEnd`) |
| `test_lazy_set` | 2 threads, TestSets' loop | **violation**: Java's `LazySet.add` publishes a node through a plain field; a walk takes the new node for the tail and a thread misses its own token |
| `hash_maps` | 2 threads; any calls on 3 keys (two in one bucket, one with a negative hash code) and 2 values, or 2 workers of `benchMap` with 2 tokens, 16 calls each | `OneNodePerKey`, `WalkNotStale`, linearizability, with the answers each class and version gives, and progress (`ImplementsMap`), three classes, two versions; `WorkersUndisturbed`, `WorkersEnd` |
| `toy_soldiers` | 2 soldiers, 2 x 2 board | `FallsCountedOnce`, `OneTileEach`, `NoDeadlock`, and deploy() returns, spurious wakeups or not: no signal falls between its test and its wait (`DeployEnds`) |
| `benchmarks` | 2 runs, one of any program, one of `BenchMapByLocks`; 2 tests each and 2 of HPX, 3 of `TuneBackoffLock`; the file absent or with a result; every environment; killed anywhere | `ResultsStay`, `OneHeader`, `BestOfRun`; a run that is not killed ends, with each of its tests once (`EachTestOnce`) |
| `benchmarks_which` | the same | **violation**: with `PSWEET_WHICH` set to the name of one of a program's tests, others run too |

Deadlock is checked in all runs but `test_lazy_set`, whose threads end.
`Terminated`, `AllOver` and the like are the stuttering of programs that are
done.

### Bounds, and why they are enough

- *Threads.* Three for the locks and the barrier: one that holds, one that
  waits, one that arrives in between; the exclusion proofs have no bound. Two
  for the sets, tables and soldiers: every interference in them is one thread
  acting between two steps of another. With three soldiers or three threads in
  a set the graphs pass ten million states.
- *Word sizes.* `MaxUsize`, `HashSpace` and `MarchValues` are small so that
  wrapping is common. `ALock` is checked for a word the ring divides.
- *`AnyNodes` = 2* allocations in a list by threads that call what they like:
  two nodes in it, or one inserted after the other was removed while a walk
  still stands on it. *`MaxNodes` = 4* is what two workers with one token each
  allocate, so it bounds nothing.
- *Workers.* Two of three, numbered 0 and 2. In the maps (`WorkSize` 2) the
  tokens 0 and 3 of one share buckets with 2 and 5 of the other; in the sets
  (`WorkSize` 1) the tokens are neighbours, the first with the head's key.
- *Runs.* Two, since a run only meets others through the file. They overlap
  only once the file holds a result (`Overlap`): before that, `exists()`, the
  creation and the first lines are steps another run can come between, and
  lines are lost. `Durations` has two times of one millisecond and a negative
  one, a clock set back.
- *`CountTo`, `Rounds` = 3*: the third CLH lap is the first with a recycled
  node that was recycled before; the third round the first after march wrapped.
- *`TopKey` = 2, keys 0 and 1*: an element that collides with the head's key
  and two that collide with each other.
- *2 x 2 board*: soldiers can meet, flee, and swap onto the tile another left.
  Lives below -1 are one value: no code tells them apart.

### Fairness

The scheduler runs every thread: weak fairness of a thread's steps. Calling
lock(), or starting any operation, is never forced. What more is assumed:

- `Barrier`: a thread that waits for the mutex gets it if it is free again and
  again (strong fairness of taking it), since std::mutex is otherwise allowed
  to starve a thread and the barrier could not promise anything.
- `WordLocks`: strong fairness of "somebody's exchange succeeds", because
  compare_exchange_weak may fail spuriously, but not all of them forever. A
  single thread may lose forever, so only the `Mutex` contract is claimed.
- `ToySoldiersSim`: none for locks, and a spurious wakeup of deploy() may never
  come. Who counts a fall may starve while deploy() wakes up again and again.
- Sets and tables: none for mutexes, so a call may starve; the claim is that
  some call gets through. Workers make all their calls; as each makes finitely
  many, all of them end without fairness of the mutexes.
- `Benchmarks`: a run goes on until it ends, unless it is killed. Starting and
  killing are never forced.

## What is proved

With TLAPS, for every value of the constants that satisfies the assumptions of
the modules and what the third column adds. A theorem `ServesInOrder` or
`Implements...` is the refinement of a contract's safety part (`Spec =>
Contract!Spec`): every step maps to a step of the contract or leaves its state
alone.

| Module | Theorems | Assumes | Argument |
| --- | --- | --- | --- |
| `CLHLock_proofs` | `Invariance`, `Mutex`, `ImplementsMutex`, `Recycling` | the nodes are distinct | induction over the actions |
| | `ServesInOrder` | finitely many threads | the queue along the predecessors |
| | `NoIncrementLost` | the same; no reordering of the store (`PlainFlag` FALSE) | the rounds done, counted as a set |
| `FifoLocks_proofs` | of `TwoCounterLock`: `TicketsInvariant`, `Typing`, `Mutex`, `ServesInOrder` | at most as many threads as the word has values | induction; cardinalities |
| | of `MCSLock`: `MCSInvariance`, `MCSTyping`, `MCSMutex`, `NodesLeftAsNew`, `LinksInOrder`, `MCSServesInOrder` | | there is a queue the nodes agree with |
| | of `ALock`: `ArrayInvariance`, `ArrayTyping`, `ArrayMutex`, `CellsApart`, `TokenKept`, `ArrayServesInOrder` | `EnoughSlots` | there is a queue on the ring |
| | `LocksTyping`, `NodesAsNew`, `LinksInQueueOrder`, `TokenIsOne`, `CellsNotShared`, `LocksServeInOrder` | where `ALock` is involved, `EnoughSlots` | from the three locks' theorems |
| `WordLocks_proofs` | `Invariance`, `Holder`, `Mutex`, `ImplementsContract`, `Typing` | finitely many threads, delays in Nat | induction; threads that drew ids are counted |
| `Barrier_proofs` | `Typing`, `CountIsExact`, `WakeupsNotLost`, `ImplementsBarrier` | finitely many threads, two values of march or more | there is a number of rounds that are over |
| `ListSets_proofs` | `Invariance`, `WellFormed`, `Window`, `Linearizable` | finitely many threads; at most one element with the tail's key | induction; what a link leads to, and what it skips |
| | `ClientsAreThreads`, `AnswersAsIfAlone`, `NodesSuffice` | the tokens are elements; the last one: a node for each add() | the tokens a worker has in the set follow from its number of calls |
| `HashMaps_proofs` | `Invariance`, `UniqueNodes`, `WalksNotStale`, `Linearizable` | hash codes are integers, two buckets or more | induction; what a step does to a key's value |
| | `ClientsAreThreads`, `AnswersAsIfAlone` | the tokens are keys | as for the sets |
| `ToySoldiersSim_proofs` | `Typing`, `FallsCounted`, `NobodyTwice`, `DeadlockFree` | finitely many soldiers, a board of two tiles or more | who holds which lock; tiles are locked in order |
| `Benchmarks_proofs` | `Invariance`, `HeaderFirst`, `BestIsInFile`, `NoResultLost` | runs overlap only once the file has a result (`Overlap`) | one writer at most while the file is new; rounding keeps the order |

*CLH.* Exclusion is not inductive: that only one thread enters follows from
how nodes are owned. `IInv` says which node each thread owns at each place of
its calls (`PcNodes`), that no two own the same and the one spare node is the
tail's or a predecessor's (`NodesRecycledSafely`, `OneSpareNode`), and that
engaged threads have different predecessors, one of which is unlocked at most
(`EngagedNodes`). Threads with no bound: there is one node more than threads.
For the order of service a queue is carried along with `IInv`: each thread's
predecessor node is the one before's, the last one's own node is `tail`. That
it is the queue the refinement mapping chooses needs that a set of nodes has
one such order, which is the least-number principle: take the first place
where two orders differ. `NoIncrementLost`: the counter is the number of pairs
of a thread and a round of its that is done, and only the thread inside adds
one.

*Two counters.* The tickets held are those from `currentTicket` on, as many as
threads engaged, each once (`TicketsOutstanding`), stated by the distance
`Ahead` from `currentTicket` so that it survives wrapping. Drawing a ticket
adds the next distance, serving one subtracts one from all; so the queue sorted
by distance grows at its end and shrinks at its head.

*MCS.* `QueueInv(q)`: the engaged threads stand in q, each once, with `tail`
the last; the first holds the lock or may enter; each other one waits for the
one before, whose link to it is set exactly if it has set it; an idle thread's
node is as new. The invariant is that some such q exists; each action says
which one is next (append at the exchange, drop the head at the hand-over). A
null link is then never followed, since `awaitLink` means there is a second.

*ALock.* The same with slots: the threads of q hold the slots from some s on,
around the ring, `tail` is at the next, and one flag is up, at s, or the first
thread holds the lock (`OneMayEnter`); ids are in a row, so that cells differ
(`IdsInARow`). `EnoughSlots` asks for a slot per thread, and that the ring
divides the range of `tail`. For a `size_t` the second holds if the number of
slots is a power of two; otherwise the slot after the wrap is not the next one
on the ring. That takes 2^64 calls, and nothing is claimed of what follows.

*The table of locks.* `FifoLocks` puts one lock under test while the others
keep their initial state. Its theorems rest on those of the three locks: a step
of the composition is a step of the lock under test, and the locks agree with
the contract on what the queue is.

*Word locks.* `IInv` joins exclusion, the word's meaning (taken exactly while
somebody holds it, and by its id for the id locks) and the uniqueness of ids,
of which none is inductive alone: exclusion needs the word, the word needs
distinct ids. The bound on ids in `TypeOK` needs the counter to be one more
than the number of threads that drew an id.

*Barrier.* `CountIsArrivals` and `NoLostWakeup` are inductive only with what
the mutex protects (`MonitorExcludes`) and with `RoundsOver(d)`: there is a
number d of rounds that are over such that a thread whose own round is over
and that has not left has returned from d - 1 calls, everybody else from d.
So at most two rounds are in progress at once, and march tells them apart with
two values.

*List sets.* What is in the list is what can be reached from the head, and no
induction over the list is available. So `InListIsFrom` first turns `Reach`,
read as the ends of paths, into the least set of nodes that contains the head
and is closed under `next` (`From`): by counting, a walk of as many steps as
there are nodes has seen all. Lemmas say what linking and unlinking a node do
to such a set. The invariant then speaks of single links only. `Shape`: links
go forwards in one order (`Before`: the key, then the allocation), from removed
nodes too, and end at the tail. `Ordered`: a link within the list skips nothing
of it, and the link of a removed node skips nothing with the key it leads to,
so that who walks on a removed node misses no element before it is back in the
list. `Marks`: in a LazySet removed nodes are marked, and a marked node in the
list is about to be unlinked by the thread that has it locked. `Room`: there
are nodes for the calls under way. Per thread: `InCall`; `WalkInv`, that the
nodes passed are not the element's and the element, if in the list, is ahead;
`PairInv`, the locks held and where the pair is known to be adjacent; and
`CheckInv`, that OptimisticSet's second walk finds predecessor only if it is in
the list. Each action changes the heap at one place, and a link or an unlink
needs two mutexes, which is why the other threads' pairs stay adjacent
(`OthersUndisturbed`). For `Linearizable`, `Decide`, `Link` and `Unlink` are the
contract's `TakeEffect`. Lists have no bound but the nodes allocated.

*Hash tables.* `IInv` joins the shape of the chains (`OneNodePerKey`), what a
thread in a chain knows (`NotStale`: it holds the bucket's mutex, and has passed
no node of its key) and where it is in its call (`InProgress`). A new node
keeps a key's node unique because the walk that missed the key is not stale;
the walk is not stale because the bucket's mutex excludes every other change.
For `Linearizable` the lemmas about `ValueOf` say what replacing one chain does
to the value of every key; `Finish`, `SetCall` and `OutOfBounds` are then the
contract's `TakeEffect`. What the code returns (`Reply`) is compared with what
the class and version tell of the value of that instant (`Report`) in
`ReplyReports`. The chains and the number of keys have no bound.

*Workers.* Which of its tokens a worker has stored follows from the number of
its calls that have taken effect (`Stored`, `Effective`): the k-th token in the
second and third of its four calls, and in the last part the first tokens while
they are put, all while they are read, the later ones while they are deleted.
`WorkersInv` says that the structure agrees with that for every worker, that a
call under way is the one the program says and that its answer, once there, is
right. A call changes what the structure holds in the contract's one step, and
there only under its own token; two workers never have one token, since the
remainder modulo the number of threads tells whose it is (`TokensDiffer`).
`ClientsAreThreads` makes every theorem about the structures one about these
programs. `NodesSuffice` discharges the bound of the list model for them: an
allocation belongs to a pair of a worker and the number of one of its adds, so
there are never more than pairs.

*Soldiers.* `IInv` joins `OneTileEach`, who can hold a tile's lock (a soldier
between the first and the second of a swap, `TileLocks`) and a soldier's lock
(itself on the move, or whoever gave it the last blow, `SoldierLocks`), what a
soldier's place in its program says (`Place`), and the count: `FallsCountedOnce`
with the count of the living at most the number of soldiers that entered.
`NoDeadlock` is not among them: a cycle of soldiers that wait would have one
that waits for a tile of the highest rank; whoever holds it waits for one of a
higher rank. A soldier that waits for another's lock waits for one that waits
for tiles or for nobody. This, too, is the least-number principle.

*Results.* Lines are only added, but for `Create`, which empties the file; so
`NoResultLost` needs that whoever is about to create the file still finds none
(`Place`), and this that nobody else is at work on a file with no result
(`OneWriter`). The first comes from the guard of `Exists`, the second from
`Overlap`, for which the code does nothing. `OneHeader` needs in addition that a
run about to add a line finds a header, or that the one who was to write it was
killed. For `BestOfRun`, `Best` says what `best` has seen: while a run cools off,
all its results but the last, otherwise all. `CoolOff` compares unrounded times,
the file holds milliseconds; that a better time is not a worse number of
milliseconds is `MsOrder`, for negative times too.

`IInv`, whole or by its parts, is an invariant of a run as well for CLH, the two counters, the word
locks and, but for `InProgress`, the hash tables. That of the others is built
around a queue or a number that exists, or around the program of the sets, of
the simulation and of the benchmarks; the properties of the runs that follow
from it are named above.

Out of the prover's reach, and with TLC: liveness under fairness, and ENABLED.
So is what needs the library's theorems with an operator as parameter
(induction over data, sums over a function) or a RECURSIVE operator; the
modules declare none. Well-founded minima and counting with
`FiniteSetTheorems` were enough in their place.

Model-checked only: `EachTestOnce` and progress everywhere, which are liveness.

## What the code does that it should not

- `locks/CLHLock.hpp:17`, `CLHLock.java:32`: `locked` is neither atomic nor
  volatile (`test_clh_lock_plain`).
- `bench/BenchLocks.cpp:98`: nothing keeps more threads than slots from an
  `ALock` (`alock_oversubscribed`).
- `sets/LazySet.java:83`: unsafe publication of a new node (`test_lazy_set`).
- `maps/SetBasedMap.java:32` and `:53`: `put` and `remove` drop what the set
  answers and return `null`, though `SlimMap` extends `java.util.Map`, whose
  `put` and `remove` return the old value; nor does `put` replace the value of
  a key that is there. `maps/LockHashMap.hpp:66` and `:79`: `put` returns true
  whether or not the key was there, while `SetBasedMap::put` and
  `LockHashSet::add` tell. No test looks: `TestMaps.java` ignores these
  answers, `TestMaps.cpp` puts absent keys only. The contract claims of each
  class what it gives (`Report`); `ImplementsMap` is no claim that Java's
  `SetBasedMap` keeps what `java.util.Map` promises.
- `PSWEET_WHICH` (`README.md:24`) does not select one test: three programs
  ignore it, and BenchLocks runs everything given a name it does not know,
  that of an HPX lock included (`benchmarks_which`).

Two runs that both find no results file (`bench/Bench.hpp:151`) may truncate
or overwrite each other's lines, and a run killed between creating the file and
its first line leaves one that never gets a header: `Overlap` and `OneHeader`
name these cases.

Seen, and left out of the models by assumptions that name them:
`OptimisticSet.hpp:47` follows a null pointer when two elements share the
tail's key; `ToySoldiersSim.java:151` has no order for two locks with one
identity hash, and line 260 never ends on a board of one tile;
`ThreadLocal.hpp:19` gives threads that come and go cells others still use;
`ALock.java:20` throws after 2^31 draws.

## Not modelled

Weak memory other than the two reorderings above; destruction, and the freeing
of nodes (shared_ptr and the collectors keep what is reachable);
`psweet_stats.py`, a sequential evaluation of a finished file; HPX's runtime
and mutexes, which are not in the repository (its part of the benchmarks is);
`BlackBox`, random numbers and build files; the operations SlimLock, SlimSet
and SlimMap only throw in.

## Plan

Done: the contracts, every lock, the barrier, the list sets, the hash tables,
the soldiers, the workers and the programs that use them, and the proofs of
every lock, the barrier, the list sets, the hash tables, their workers, the
soldiers and the results file. To be
modelled next: more threads than a `ThreadLocal` has cells, with CLH and MCS
nodes in them; the barrier's lifetime; a set over the `Mutex` contract.
