----------------------------- MODULE Benchmarks -----------------------------
(***************************************************************************)
(* The benchmark programs (bench/Bench*.cpp, TuneBackoffLock.cpp) as users *)
(* run them: each reads its parameters from the environment, measures the  *)
(* tests chosen, and adds a line per test to the results file (Bench.hpp). *)
(* Several runs share the file, one after the other or at the same time,   *)
(* and any of them may be killed.                                          *)
(*                                                                         *)
(* A new file is written at the writer's own offset and not in append      *)
(* mode, and exists() and the opening are two steps: runs at the same time *)
(* may lose lines until there is a result in the file.  Here they overlap  *)
(* only once there is one.                                                 *)
(***************************************************************************)
EXTENDS Integers, Sequences, SequencesExt, TLC

CONSTANTS
  Runs,
  MayRun,               \* the programs each run is one of
  Locks, HpxLocks,      \* the tests of the programs, as sequences of names
  Sets, Maps,
  MinTop, MaxTop,       \* TuneBackoffLock stays below these exponents
  Durations,            \* what a measurement may take, in ticks of the clock
  TicksPerMs,
  Unset, Unknown        \* PSWEET_WHICH not set, or set to no test's name

VARIABLES
  there,                \* whether there is a results file
  file,                 \* its lines
  env,                  \* the program a run executes, and its environment
  todo,                 \* the tests still to be run
  hpx,                  \* whether a run has entered hpx_main
  took,                 \* what the last measurement took
  best,                 \* TuneBackoffLock's variable of that name
  pc

vars == <<there, file, env, todo, hpx, took, best, pc>>

Header == [run |-> "header"]
OldResult == [run |-> "before"]
None == [test |-> "none"]

ByLocks == {"mapByLocks", "setByLocks"}
Programs == {"locks", "maps", "sets", "tune BackoffLock"} \cup ByLocks
ForHpx == {"locks"} \cup ByLocks

ASSUME Parameters ==
  /\ MayRun \in [Runs -> SUBSET Programs]
  /\ Runs \cap {"header", "before"} = {}
  /\ Durations \subseteq Int /\ TicksPerMs \in Nat \ {0}

UnrolledFor(from, to) == [n \in 1..(to - from) |-> from + n - 1]

(* BackoffLock<i, j> is told from the others by its exponents. *)
BackoffLocks ==
  LET Of(i) == LET js == UnrolledFor(i, MaxTop)
               IN  [n \in DOMAIN js |-> ToString(<<i, js[n]>>)]
  IN  FlattenSeq([n \in 1..(MinTop - 1) |-> Of(UnrolledFor(1, MinTop)[n])])

Tests(program) ==
  CASE program = "maps"             -> Maps
    [] program = "sets"             -> Sets
    [] program = "tune BackoffLock" -> BackoffLocks
    [] OTHER                        -> Locks

(* main() of BenchLocks: an unordered_map has its tests in any order. *)
ChosenLocks(tests, which) ==
  IF which \in ToSet(tests) THEN {<<which>>} ELSE SetToSeqs(ToSet(tests))

(* Mutant: without the recursion to the rest of the locks. *)
ChosenFirst(tests, which) ==
  {IF which = Unset THEN <<tests[1]>> ELSE SelectSeq(tests, LAMBDA test : test = which)}

(* benchMaps and benchSets go through their list of locks. *)
ChosenByLocks(tests, which) ==
  {IF which = Unset THEN tests ELSE SelectSeq(tests, LAMBDA test : test = which)}

(* The other programs have no use for "which". *)
Chosen(program, tests, which) ==
  CASE program = "locks"    -> ChosenLocks(tests, which)
    [] program \in ByLocks  -> ChosenByLocks(tests, which)
    [] OTHER                -> {tests}

Ends == {"ended", "refused", "killed", "killed before header"}
UnderWay(r) == pc[r] \notin Ends \cup {"off"}

Goto(r, label) == pc' = [pc EXCEPT ![r] = label]

Init ==
  /\ there \in BOOLEAN
  /\ file = IF there THEN <<Header, OldResult>> ELSE <<>>
  /\ env = [r \in Runs |-> None]
  /\ todo = [r \in Runs |-> <<>>]
  /\ hpx = [r \in Runs |-> FALSE]
  /\ took = [r \in Runs |-> 0]
  /\ best = [r \in Runs |-> None]
  /\ pc = [r \in Runs |-> "off"]

Overlap(r) == \A s \in Runs \ {r} : UnderWay(s) => Len(file) > 1

(* The constructor of BenchParameters throws if a variable is missing that *)
(* has no default.                                                         *)
Start(r) ==
  /\ pc[r] = "off" /\ Overlap(r)
  /\ \E program \in MayRun[r], useHpx \in BOOLEAN, complete \in BOOLEAN :
     \E which \in {Unset, Unknown} \cup ToSet(Tests(program)) \cup ToSet(HpxLocks) :
       /\ \/ complete
             /\ env' = [env EXCEPT ![r] = [program |-> program, which |-> which,
                                           useHpx |-> useHpx /\ program \in ForHpx]]
             /\ \E tests \in Chosen(program, Tests(program), which) :
                  todo' = [todo EXCEPT ![r] = tests]
             /\ Goto(r, "next")
          \/ ~complete /\ Goto(r, "refused") /\ UNCHANGED <<env, todo>>
  /\ UNCHANGED <<there, file, hpx, took, best>>

(* Only TuneBackoffLock looks at the time itself. *)
Measure(r) ==
  /\ pc[r] = "next" /\ todo[r] # <<>>
  /\ \E d \in IF env[r].program = "tune BackoffLock" THEN Durations ELSE {0} :
       took' = [took EXCEPT ![r] = d]
  /\ Goto(r, "exists")
  /\ UNCHANGED <<there, file, env, todo, hpx, best>>

Exists(r) ==
  /\ pc[r] = "exists"
  /\ Goto(r, IF there THEN "open" ELSE "create")
  /\ UNCHANGED <<there, file, env, todo, hpx, took, best>>

Create(r) ==
  /\ pc[r] = "create"
  /\ there' = TRUE /\ file' = <<>>
  /\ Goto(r, "header")
  /\ UNCHANGED <<env, todo, hpx, took, best>>

(* Mutant: the file is opened without std::ios::app. *)
OpenAndTruncate(r) ==
  /\ pc[r] = "open"
  /\ file' = <<>>
  /\ Goto(r, "row")
  /\ UNCHANGED <<there, env, todo, hpx, took, best>>

Open(r) ==
  /\ pc[r] = "open"
  /\ Goto(r, "row")
  /\ UNCHANGED <<there, file, env, todo, hpx, took, best>>

(* Mutant: only the programs of locks write it. *)
WriteHeaderOfLocks(r) ==
  /\ pc[r] = "header"
  /\ file' = IF env[r].program = "locks" THEN Append(file, Header) ELSE file
  /\ Goto(r, "row")
  /\ UNCHANGED <<there, env, todo, hpx, took, best>>

(* std::endl hands the line to the system. *)
WriteHeader(r) ==
  /\ pc[r] = "header"
  /\ file' = Append(file, Header)
  /\ Goto(r, "row")
  /\ UNCHANGED <<there, env, todo, hpx, took, best>>

(* duration_cast rounds towards zero; the clock may be set back. *)
Ms(d) == IF d < 0 THEN -((-d) \div TicksPerMs) ELSE d \div TicksPerMs

WriteRow(r) ==
  /\ pc[r] = "row"
  /\ file' = Append(file, [run |-> r, test |-> Head(todo[r]), ms |-> Ms(took[r])])
  /\ Goto(r, "cool")
  /\ UNCHANGED <<there, env, todo, hpx, took, best>>

(* Mutant: the slowest wins. *)
BetterIfSlower(r) == best[r] = None \/ took[r] > best[r].took

Better(r) == best[r] = None \/ took[r] < best[r].took

(* coolOff(), what TuneBackoffLock does after it, and on to the next test; *)
(* the duration goes out of scope.                                         *)
CoolOff(r) ==
  /\ pc[r] = "cool"
  /\ todo' = [todo EXCEPT ![r] = Tail(@)]
  /\ best' = IF env[r].program = "tune BackoffLock" /\ Better(r)
               THEN [best EXCEPT ![r] = [test |-> Head(todo[r]), took |-> took[r]]]
               ELSE best
  /\ took' = [took EXCEPT ![r] = 0]
  /\ Goto(r, "next")
  /\ UNCHANGED <<there, file, env, hpx>>

(* hpx::init() calls hpx_main, which reads the environment again. *)
InitHpx(r) ==
  /\ pc[r] = "next" /\ todo[r] = <<>> /\ env[r].useHpx /\ ~hpx[r]
  /\ hpx' = [hpx EXCEPT ![r] = TRUE]
  /\ \E tests \in Chosen(env[r].program, HpxLocks, env[r].which) :
       todo' = [todo EXCEPT ![r] = tests]
  /\ UNCHANGED <<there, file, env, took, best, pc>>

End(r) ==
  /\ pc[r] = "next" /\ todo[r] = <<>> /\ (env[r].useHpx => hpx[r])
  /\ Goto(r, "ended")
  /\ UNCHANGED <<there, file, env, todo, hpx, took, best>>

(* The file stays as it is, the process's memory is gone. *)
Kill(r) ==
  /\ UnderWay(r)
  /\ env' = [env EXCEPT ![r] = None]
  /\ todo' = [todo EXCEPT ![r] = <<>>]
  /\ hpx' = [hpx EXCEPT ![r] = FALSE]
  /\ took' = [took EXCEPT ![r] = 0]
  /\ best' = [best EXCEPT ![r] = None]
  /\ Goto(r, IF pc[r] = "header" THEN "killed before header" ELSE "killed")
  /\ UNCHANGED <<there, file>>

WriteBenchResult(r) ==
  Exists(r) \/ Create(r) \/ WriteHeader(r) \/ Open(r) \/ WriteRow(r)

Step(r) == Measure(r) \/ WriteBenchResult(r) \/ CoolOff(r) \/ InitHpx(r) \/ End(r)

AllOver == (\A r \in Runs : pc[r] \in Ends) /\ UNCHANGED vars

Next == (\E r \in Runs : Start(r) \/ Step(r) \/ Kill(r)) \/ AllOver

(* A run goes on unless it is killed. *)
Spec == Init /\ [][Next]_vars /\ \A r \in Runs : WF_vars(Step(r))
-----------------------------------------------------------------------------
(* Which lines of the file are results of a run. *)
RowsOf(r) == {n \in DOMAIN file : file[n].run = r}

(* All tests of the program a run executes. *)
TestsOf(r) ==
  ToSet(Tests(env[r].program)) \cup IF env[r].useHpx THEN ToSet(HpxLocks) ELSE {}

(* Results are never lost or changed: not by the runs that follow in the   *)
(* same file, nor by those at the same time, nor when a run is killed.     *)
ResultsStay == [][IsPrefix(file, file')]_file

(* The file starts with the header, and has one, by which psweet_stats.py  *)
(* finds its columns, unless its creator was killed just before it.        *)
OneHeader ==
  file # <<>> =>
    \/ \A n \in DOMAIN file : file[n] = Header <=> n = 1
    \/ \E r \in Runs : pc[r] = "killed before header"

(* A run that is not refused ends, or is killed; when it ends, the file    *)
(* has one result of each of its tests if PSWEET_WHICH is not set, and     *)
(* otherwise none twice.                                                   *)
EachTestOnce ==
  \A r \in Runs :
    UnderWay(r) ~>
      \/ pc[r] \in {"killed", "killed before header"}
      \/ /\ pc[r] = "ended"
         /\ LET done == {file[n].test : n \in RowsOf(r)}
            IN  /\ \A m, n \in RowsOf(r) : file[m].test = file[n].test => m = n
                /\ done \subseteq TestsOf(r)
                /\ env[r].which = Unset => done = TestsOf(r)

(* What TuneBackoffLock reports as best is a result of its own in the      *)
(* file, and none of its results there is better.                          *)
BestOfRun ==
  \A r \in Runs :
    /\ env[r] # None /\ pc[r] \in {"next", "ended"}
    /\ env[r].program = "tune BackoffLock" /\ RowsOf(r) # {}
    => \E n \in RowsOf(r) :
         /\ file[n].test = best[r].test /\ file[n].ms = Ms(best[r].took)
         /\ \A m \in RowsOf(r) : file[n].ms <= file[m].ms

(* README.md of PSWEET_WHICH: it "Specifies which individual test to run   *)
(* within one benchmark program", so a run that is given the name of one   *)
(* of its program's tests runs no other.                                   *)
WhichSelectsOne ==
  \A r \in Runs :
    env[r] # None /\ env[r].which \in TestsOf(r) =>
      \A n \in RowsOf(r) : file[n].test = env[r].which
=============================================================================
