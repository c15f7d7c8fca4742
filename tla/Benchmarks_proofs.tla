------------------------- MODULE Benchmarks_proofs -------------------------
(***************************************************************************)
(* The results file with any number of runs of the benchmark programs that *)
(* overlap once it has a result, and of which any may be killed: no line   *)
(* is lost, there is one header, and the best of TuneBackoffLock is there. *)
(***************************************************************************)
EXTENDS Benchmarks, TLAPS, SequenceTheorems

Labels == Ends \cup {"off", "next", "exists", "create", "header", "open", "row", "cool"}

TypeInv ==
  /\ there \in BOOLEAN /\ file \in Seq(ToSet(file)) /\ (~there => file = <<>>)
  /\ pc \in [Runs -> Labels] /\ took \in [Runs -> Int]
  /\ todo = [r \in Runs |-> todo[r]] /\ best = [r \in Runs |-> best[r]]
  /\ env = [r \in Runs |-> env[r]]

(* Besides the header and what was there before, results of these runs. *)
Lines ==
  \A n \in DOMAIN file :
    \/ file[n] \in {Header, OldResult}
    \/ file[n].run \in Runs /\ file[n].ms \in Int

HeaderLost == \E r \in Runs : pc[r] = "killed before header"

(* While the file has no result yet, one run at most is at work. *)
OneWriter ==
  Len(file) <= 1 => \A r, s \in Runs : UnderWay(r) /\ UnderWay(s) => r = s

(* What a run's place says of the file: who is about to create it will     *)
(* overwrite nothing, and who is about to add a line finds a header, unless *)
(* the one that was to write it was killed.                                *)
Place(r) ==
  /\ pc[r] = "create" => ~there
  /\ pc[r] = "header" => there /\ file = <<>>
  /\ pc[r] \in {"open", "row"} => there /\ (file # <<>> \/ HeaderLost)

HeaderToCome == there /\ file = <<>> => HeaderLost \/ \E r \in Runs : pc[r] = "header"

FileInv ==
  /\ OneWriter /\ (\A r \in Runs : Place(r)) /\ HeaderToCome /\ OneHeader

(* b is none of the lines in rows if there are none, otherwise one of them *)
(* that no other undercuts.                                                *)
BestAmong(b, lines, rows) ==
  IF rows = {}
    THEN b = None
    ELSE /\ b # None /\ b.took \in Int
         /\ \E n \in rows : /\ lines[n].test = b.test /\ lines[n].ms = Ms(b.took)
                            /\ \A m \in rows : lines[n].ms <= lines[m].ms

(* The result just written, on which TuneBackoffLock has not decided. *)
Undecided(r, n) ==
  n \in RowsOf(r) /\ file[n].test = Head(todo[r]) /\ file[n].ms = Ms(took[r])

Tuning(r) == env[r] # None /\ env[r].program = "tune BackoffLock"

Best(r) ==
  /\ pc[r] = "off" => RowsOf(r) = {} /\ env[r] = None /\ best[r] = None
  /\ Tuning(r) /\ pc[r] # "cool" => BestAmong(best[r], file, RowsOf(r))
  /\ Tuning(r) /\ pc[r] = "cool" =>
       \E n \in DOMAIN file : Undecided(r, n) /\ BestAmong(best[r], file, RowsOf(r) \ {n})

BestInv == \A r \in Runs : Best(r)

IInv == TypeInv /\ Lines /\ FileInv /\ BestInv

-----------------------------------------------------------------------------
(* Rounding towards zero keeps the order. *)
LEMMA QuotientOrder ==
  ASSUME NEW a \in Nat, NEW b \in Nat, a <= b, NEW T \in Nat \ {0}
  PROVE  a \div T \in Nat /\ a \div T <= b \div T
<1> DEFINE p == a \div T
           q == b \div T
<1>1. /\ p \in Nat /\ q \in Nat
      /\ T * p <= a /\ b < T * (q + 1)
  OBVIOUS
<1> HIDE DEF p, q
<1>2. T * p < T * (q + 1)
  BY <1>1
<1>3. SUFFICES ASSUME q + 1 <= p PROVE FALSE
  BY <1>1 DEF p, q
<1>4. PICK k \in Nat : p = q + 1 + k
  <2>1. p - (q + 1) \in Nat /\ p = q + 1 + (p - (q + 1))
    BY <1>1, <1>3
  <2> QED BY <2>1
<1>5. T * p = T * (q + 1) + T * k /\ T * k \in Nat /\ T * (q + 1) \in Nat
  BY <1>1, <1>4
<1> QED BY <1>2, <1>5

LEMMA MsOrder ==
  ASSUME NEW a \in Int, NEW b \in Int, a <= b
  PROVE  Ms(a) \in Int /\ Ms(b) \in Int /\ Ms(a) <= Ms(b)
<1>1. TicksPerMs \in Nat \ {0}
  BY Parameters
<1>2. CASE a < 0 /\ b < 0
  <2>1. -a \in Nat /\ -b \in Nat /\ -b <= -a
    BY <1>2
  <2>2. /\ (-a) \div TicksPerMs \in Nat /\ (-b) \div TicksPerMs \in Nat
        /\ (-b) \div TicksPerMs <= (-a) \div TicksPerMs
    BY <1>1, <2>1, QuotientOrder
  <2> QED BY <1>2, <2>2 DEF Ms
<1>3. CASE a < 0 /\ b >= 0
  <2>1. (-a) \div TicksPerMs \in Nat /\ b \div TicksPerMs \in Nat
    BY <1>1, <1>3, QuotientOrder
  <2> QED BY <1>3, <2>1 DEF Ms
<1>4. CASE a >= 0 /\ b >= 0
  BY <1>1, <1>4, QuotientOrder DEF Ms
<1> QED BY <1>2, <1>3, <1>4

-----------------------------------------------------------------------------
(* The file. *)
LEMMA FileShape ==
  ASSUME TypeInv
  PROVE  Len(file) \in Nat /\ DOMAIN file = 1..Len(file) /\ (file = <<>> <=> Len(file) = 0)
BY DEF TypeInv

(* What a new line changes. *)
LEMMA LineAdded ==
  ASSUME TypeInv, NEW line, file' = Append(file, line)
  PROVE  /\ file' \in Seq(ToSet(file'))
         /\ Len(file') = Len(file) + 1 /\ DOMAIN file' = 1..(Len(file) + 1)
         /\ file' # <<>>
         /\ \A n \in DOMAIN file : file'[n] = file[n]
         /\ file'[Len(file) + 1] = line
         /\ IsPrefix(file, file')
<1> DEFINE S == ToSet(file) \cup {line}
<1>1. file \in Seq(S) /\ line \in S
  <2>1. file \in Seq(ToSet(file)) /\ ToSet(file) \subseteq S
    BY DEF TypeInv
  <2> QED BY <2>1, SeqMonotonic
<1> HIDE DEF S
<1>2. /\ file' \in Seq(S) /\ Len(file') = Len(file) + 1 /\ DOMAIN file' = 1..(Len(file) + 1)
      /\ \A n \in 1..Len(file) : file'[n] = file[n]
      /\ file'[Len(file) + 1] = line
  BY <1>1, AppendProperties
<1>3. file' \in Seq(ToSet(file'))
  <2>1. \A n \in 1..Len(file') : file'[n] \in ToSet(file')
    BY <1>2 DEF ToSet
  <2> QED BY <1>2, <2>1, IsASeq
<1>4. IsPrefix(file, file')
  <2>1. SubSeq(file', 1, Len(file)) = SubSeq(file, 1, Len(file))
    BY <1>1, <1>2
  <2> QED BY <1>1, <1>2, <2>1 DEF IsPrefix
<1> QED BY <1>1, <1>2, <1>3, <1>4, FileShape

-----------------------------------------------------------------------------
(* Types. *)
LEMMA InitTypes == Init => TypeInv /\ Lines
<1> SUFFICES ASSUME Init PROVE TypeInv /\ Lines
  OBVIOUS
<1>1. pc \in [Runs -> Labels] /\ took \in [Runs -> Int]
  BY DEF Init, Labels
<1>2. /\ todo = [r \in Runs |-> todo[r]] /\ best = [r \in Runs |-> best[r]]
      /\ env = [r \in Runs |-> env[r]]
  BY DEF Init
<1>3. CASE there
  <2>1. file = <<Header, OldResult>>
    BY <1>3 DEF Init
  <2>2. Len(file) = 2 /\ DOMAIN file = 1..2 /\ file[1] = Header /\ file[2] = OldResult
    BY <2>1
  <2>3. file \in Seq(ToSet(file))
    BY <2>1, <2>2 DEF ToSet
  <2>4. Lines
    BY <2>2 DEF Lines
  <2> QED BY <1>1, <1>2, <1>3, <2>3, <2>4 DEF TypeInv
<1>4. CASE ~there
  <2>1. file = <<>> /\ there \in BOOLEAN
    BY <1>4 DEF Init
  <2> QED BY <1>1, <1>2, <2>1 DEF TypeInv, Lines
<1> QED BY <1>3, <1>4

LEMMA HeaderAdded ==
  ASSUME TypeInv, Lines, file' = Append(file, Header)
  PROVE  Lines'
<1> SUFFICES ASSUME NEW n \in DOMAIN file'
             PROVE  \/ file'[n] \in {Header, OldResult}
                    \/ file'[n].run \in Runs /\ file'[n].ms \in Int
  BY DEF Lines
<1>1. /\ DOMAIN file' = 1..(Len(file) + 1) /\ \A m \in DOMAIN file : file'[m] = file[m]
      /\ file'[Len(file) + 1] = Header
  BY LineAdded
<1> QED BY <1>1, FileShape DEF Lines

LEMMA ResultAdded ==
  ASSUME TypeInv, Lines, NEW line, file' = Append(file, line),
         line.run \in Runs, line.ms \in Int
  PROVE  Lines'
<1> SUFFICES ASSUME NEW n \in DOMAIN file'
             PROVE  \/ file'[n] \in {Header, OldResult}
                    \/ file'[n].run \in Runs /\ file'[n].ms \in Int
  BY DEF Lines
<1>1. /\ DOMAIN file' = 1..(Len(file) + 1) /\ \A m \in DOMAIN file : file'[m] = file[m]
      /\ file'[Len(file) + 1] = line
  BY LineAdded
<1> QED BY <1>1, FileShape DEF Lines

LEMMA NextTypes ==
  ASSUME TypeInv, Lines, FileInv, NEW r \in Runs, Start(r) \/ Step(r) \/ Kill(r)
  PROVE  TypeInv' /\ Lines'
<1>1. pc' \in [Runs -> Labels]
  <2>1. PICK label \in Labels : pc' = [pc EXCEPT ![r] = label]
    <3>1. pc[r] \in Labels /\ pc = [pc EXCEPT ![r] = pc[r]]
      BY DEF TypeInv
    <3>2. CASE Kill(r)
      BY <3>2 DEF Kill, Goto, Labels, Ends
    <3>3. CASE Start(r)
      BY <3>3 DEF Start, Goto, Labels, Ends
    <3>4. CASE Step(r)
      BY <3>1, <3>4 DEF Step, WriteBenchResult, Measure, Exists, Create, WriteHeader, Open,
                        WriteRow, CoolOff, InitHpx, End, Goto, Labels, Ends
    <3> QED BY <3>2, <3>3, <3>4
  <2> QED BY <2>1 DEF TypeInv
<1>2. took' \in [Runs -> Int]
  <2>1. CASE UNCHANGED took
    BY <2>1 DEF TypeInv
  <2>2. ASSUME NEW d \in Int, took' = [took EXCEPT ![r] = d]
        PROVE  took' \in [Runs -> Int]
    BY <2>2 DEF TypeInv
  <2>3. CASE Kill(r)
    <3>1. took' = [took EXCEPT ![r] = 0]
      BY <2>3 DEF Kill
    <3> QED BY <3>1 DEF TypeInv
  <2>4. CASE CoolOff(r)
    <3>1. took' = [took EXCEPT ![r] = 0]
      BY <2>4 DEF CoolOff
    <3> QED BY <3>1 DEF TypeInv
  <2>5. CASE Measure(r)
    <3>1. CASE env[r].program = "tune BackoffLock"
      <4>1. PICK d \in Durations : took' = [took EXCEPT ![r] = d]
        BY <2>5, <3>1 DEF Measure
      <4>2. d \in Int
        BY <4>1, Parameters
      <4> QED BY <2>2, <4>1, <4>2
    <3>2. CASE env[r].program # "tune BackoffLock"
      <4>1. took' = [took EXCEPT ![r] = 0]
        BY <2>5, <3>2 DEF Measure
      <4> QED BY <4>1 DEF TypeInv
    <3> QED BY <3>1, <3>2
  <2> QED BY <2>1, <2>3, <2>4, <2>5
          DEF Start, Step, WriteBenchResult, Exists, Create, WriteHeader, Open,
              WriteRow, InitHpx, End
<1>3. todo' = [s \in Runs |-> todo'[s]]
  <2>1. UNCHANGED todo \/ \E tests : todo' = [todo EXCEPT ![r] = tests]
    BY DEF Start, Kill, Step, WriteBenchResult, Measure, Exists, Create, WriteHeader, Open,
           WriteRow, CoolOff, InitHpx, End
  <2> QED BY <2>1 DEF TypeInv
<1>4. best' = [s \in Runs |-> best'[s]]
  <2>1. UNCHANGED best \/ \E b : best' = [best EXCEPT ![r] = b]
    BY DEF Start, Kill, Step, WriteBenchResult, Measure, Exists, Create, WriteHeader, Open,
           WriteRow, CoolOff, InitHpx, End
  <2> QED BY <2>1 DEF TypeInv
<1>5. env' = [s \in Runs |-> env'[s]]
  <2>1. UNCHANGED env \/ \E e : env' = [env EXCEPT ![r] = e]
    BY DEF Start, Kill, Step, WriteBenchResult, Measure, Exists, Create, WriteHeader, Open,
           WriteRow, CoolOff, InitHpx, End
  <2> QED BY <2>1 DEF TypeInv
<1>6. /\ there' \in BOOLEAN /\ file' \in Seq(ToSet(file')) /\ (~there' => file' = <<>>)
      /\ Lines'
  <2>1. CASE UNCHANGED <<there, file>>
    BY <2>1 DEF TypeInv, Lines
  <2>2. CASE Create(r)
    <3>1. there' = TRUE /\ file' = <<>>
      BY <2>2 DEF Create
    <3> QED BY <3>1 DEF Lines
  <2>3. CASE WriteHeader(r)
    <3>1. there /\ file' = Append(file, Header) /\ UNCHANGED there
      BY <2>3 DEF WriteHeader, FileInv, Place
    <3> QED BY <3>1, HeaderAdded, LineAdded DEF TypeInv
  <2>4. CASE WriteRow(r)
    <3> DEFINE line == [run |-> r, test |-> Head(todo[r]), ms |-> Ms(took[r])]
    <3>1. took[r] \in Int
      BY DEF TypeInv
    <3>2. line.run \in Runs /\ line.ms \in Int
      BY <3>1, MsOrder
    <3>3. there /\ file' = Append(file, line) /\ UNCHANGED there
      BY <2>4 DEF WriteRow, FileInv, Place
    <3> HIDE DEF line
    <3> QED BY <3>2, <3>3, ResultAdded, LineAdded DEF TypeInv
  <2> QED BY <2>1, <2>2, <2>3, <2>4
          DEF Start, Kill, Step, WriteBenchResult, Measure, Exists, Open, CoolOff,
              InitHpx, End
<1> QED BY <1>1, <1>2, <1>3, <1>4, <1>5, <1>6 DEF TypeInv

-----------------------------------------------------------------------------
(* The header. *)
LEMMA InitFile == Init => FileInv
<1> SUFFICES ASSUME Init PROVE FileInv
  OBVIOUS
<1>1. \A r \in Runs : pc[r] = "off"
  BY DEF Init
<1>2. OneWriter /\ \A r \in Runs : Place(r)
  BY <1>1 DEF OneWriter, UnderWay, Place
<1>3. CASE there
  <2>1. file = <<Header, OldResult>>
    BY <1>3 DEF Init
  <2>2. Len(file) = 2 /\ DOMAIN file = 1..2 /\ file[1] = Header /\ file[2] = OldResult
        /\ file # <<>>
    BY <2>1
  <2>3. OldResult # Header
    BY DEF OldResult, Header
  <2>4. \A n \in DOMAIN file : file[n] = Header <=> n = 1
    BY <2>2, <2>3
  <2> QED BY <1>2, <2>2, <2>4 DEF FileInv, HeaderToCome, OneHeader
<1>4. CASE ~there
  <2>1. file = <<>>
    BY <1>4 DEF Init
  <2> QED BY <1>2, <1>4, <2>1 DEF FileInv, HeaderToCome, OneHeader
<1> QED BY <1>3, <1>4

LEMMA OverlapLater ==
  ASSUME TypeInv, NEW r \in Runs, Overlap(r), Len(file) <= 1
  PROVE  \A s \in Runs \ {r} : ~UnderWay(s)
BY FileShape DEF Overlap

(* A run that changes its place and not the file. *)
LEMMA MoveKeepsFile ==
  ASSUME TypeInv, FileInv, NEW r \in Runs, NEW label,
         pc' = [pc EXCEPT ![r] = label], UNCHANGED <<there, file>>,
         pc[r] \notin {"header", "killed before header"},
         label \notin Ends => UnderWay(r) \/ Overlap(r),
         label # "header", label = "create" => ~there,
         label \in {"open", "row"} => there /\ (file # <<>> \/ HeaderLost)
  PROVE  FileInv'
<1>1. pc'[r] = label /\ \A s \in Runs \ {r} : pc'[s] = pc[s]
  BY DEF TypeInv
<1>2. HeaderLost => HeaderLost'
  BY <1>1 DEF HeaderLost
<1>3. OneWriter'
  <2> SUFFICES ASSUME Len(file) <= 1, NEW s \in Runs, NEW u \in Runs, UnderWay(s)',
                      UnderWay(u)'
               PROVE  s = u
    BY DEF OneWriter
  <2>1. \A v \in Runs \ {r} : UnderWay(v)' => UnderWay(v)
    BY <1>1 DEF UnderWay
  <2>2. UnderWay(r)' => UnderWay(r) \/ \A v \in Runs \ {r} : ~UnderWay(v)
    <3>1. UnderWay(r)' => label \notin Ends
      BY <1>1 DEF UnderWay
    <3>2. Overlap(r) => \A v \in Runs \ {r} : ~UnderWay(v)
      BY OverlapLater
    <3> QED BY <3>1, <3>2
  <2> QED BY <2>1, <2>2 DEF FileInv, OneWriter
<1>4. \A s \in Runs : Place(s)'
  BY <1>1, <1>2 DEF FileInv, Place
<1>5. HeaderToCome'
  BY <1>1, <1>2 DEF FileInv, HeaderToCome
<1>6. OneHeader'
  BY <1>2 DEF FileInv, OneHeader, HeaderLost
<1> QED BY <1>3, <1>4, <1>5, <1>6 DEF FileInv

(* A run that writes a line. *)
LEMMA LineKeepsFile ==
  ASSUME TypeInv, FileInv, NEW r \in Runs, NEW label, NEW line,
         pc' = [pc EXCEPT ![r] = label], file' = Append(file, line), there, UNCHANGED there,
         pc[r] \in {"header", "row"}, label \in {"row", "cool"},
         line = Header <=> pc[r] = "header"
  PROVE  FileInv'
<1>1. pc'[r] = label /\ \A s \in Runs \ {r} : pc'[s] = pc[s]
  BY DEF TypeInv
<1>2. HeaderLost => HeaderLost'
  BY <1>1 DEF HeaderLost
<1>3. /\ Len(file') = Len(file) + 1 /\ DOMAIN file' = 1..(Len(file) + 1) /\ file' # <<>>
      /\ \A n \in DOMAIN file : file'[n] = file[n]
      /\ file'[Len(file) + 1] = line
  BY LineAdded
<1>4. \A s \in Runs : UnderWay(s)' => UnderWay(s)
  BY <1>1 DEF UnderWay, Ends
<1>5. OneWriter'
  BY <1>3, <1>4, FileShape DEF FileInv, OneWriter
<1>6. \A s \in Runs : Place(s)'
  <2> SUFFICES ASSUME NEW s \in Runs PROVE Place(s)'
    OBVIOUS
  <2>1. pc'[s] # "create" /\ pc'[s] # "header"
    <3>1. CASE s = r
      BY <1>1, <3>1
    <3>2. CASE s # r
      <4>1. pc[s] # "create"
        BY DEF FileInv, Place
      <4>2. ASSUME pc[s] = "header" PROVE FALSE
        <5>1. UnderWay(s) /\ UnderWay(r) /\ Len(file) = 0
          BY <4>2, FileShape DEF UnderWay, Ends, FileInv, Place
        <5> QED BY <3>2, <5>1 DEF FileInv, OneWriter
      <4> QED BY <1>1, <3>2, <4>1, <4>2
    <3> QED BY <3>1, <3>2
  <2> QED BY <1>3, <2>1 DEF Place
<1>7. HeaderToCome'
  BY <1>3 DEF HeaderToCome
<1>8. OneHeader'
  <2>1. CASE HeaderLost
    BY <1>2, <2>1 DEF OneHeader, HeaderLost
  <2>2. CASE ~HeaderLost /\ pc[r] = "header"
    <3>1. Len(file) = 0
      BY <2>2, FileShape DEF FileInv, Place
    <3>2. \A n \in DOMAIN file' : n = 1 /\ file'[n] = Header
      BY <1>3, <2>2, <3>1
    <3> QED BY <3>2 DEF OneHeader
  <2>3. CASE ~HeaderLost /\ pc[r] = "row"
    <3>1. file # <<>>
      BY <2>3 DEF FileInv, Place
    <3>2. \A n \in DOMAIN file : file[n] = Header <=> n = 1
      BY <2>3, <3>1 DEF FileInv, OneHeader, HeaderLost
    <3>3. Len(file) + 1 # 1
      BY <3>1, FileShape
    <3>4. \A n \in DOMAIN file' : file'[n] = Header <=> n = 1
      BY <1>3, <2>3, <3>2, <3>3, FileShape
    <3> QED BY <3>4 DEF OneHeader
  <2> QED BY <2>1, <2>2, <2>3
<1> QED BY <1>5, <1>6, <1>7, <1>8 DEF FileInv

(* Nothing is overwritten. *)
LEMMA NothingToLose ==
  ASSUME TypeInv, FileInv, NEW r \in Runs, pc[r] = "create"
  PROVE  file = <<>>
BY DEF TypeInv, FileInv, Place

LEMMA NextFile ==
  ASSUME TypeInv, FileInv, NEW r \in Runs, Start(r) \/ Step(r) \/ Kill(r)
  PROVE  FileInv'
<1>1. CASE Start(r)
  <2>1. PICK label \in {"next", "refused"} : pc' = [pc EXCEPT ![r] = label]
    BY <1>1 DEF Start, Goto
  <2> QED BY <1>1, <2>1, MoveKeepsFile DEF Start, Ends
<1>2. CASE Measure(r)
  BY <1>2, MoveKeepsFile DEF Measure, Goto, UnderWay, Ends
<1>3. CASE Exists(r)
  <2>1. UnderWay(r)
    BY <1>3 DEF Exists, UnderWay, Ends
  <2>2. there => file # <<>> \/ HeaderLost
    <3> SUFFICES ASSUME there, file = <<>>, ~HeaderLost PROVE FALSE
      OBVIOUS
    <3>1. PICK s \in Runs : pc[s] = "header"
      BY DEF FileInv, HeaderToCome
    <3>2. UnderWay(s) /\ s # r /\ Len(file) <= 1
      BY <1>3, <3>1, FileShape DEF UnderWay, Ends, Exists
    <3> QED BY <2>1, <3>2 DEF FileInv, OneWriter
  <2>3. CASE there
    BY <1>3, <2>1, <2>2, <2>3, MoveKeepsFile DEF Exists, Goto
  <2>4. CASE ~there
    BY <1>3, <2>1, <2>4, MoveKeepsFile DEF Exists, Goto
  <2> QED BY <2>3, <2>4
<1>4. CASE Create(r)
  <2>1. /\ pc' = [pc EXCEPT ![r] = "header"] /\ there' = TRUE /\ file' = <<>>
        /\ file = <<>> /\ pc[r] = "create" /\ UnderWay(r)
    BY <1>4, NothingToLose DEF Create, Goto, UnderWay, Ends
  <2>2. pc'[r] = "header" /\ \A s \in Runs \ {r} : pc'[s] = pc[s] /\ ~UnderWay(s)
        /\ ~UnderWay(s)'
    BY <2>1, FileShape DEF TypeInv, FileInv, OneWriter, UnderWay
  <2>3. \A s \in Runs : Place(s)'
    BY <2>1, <2>2 DEF Place, UnderWay, Ends
  <2> QED BY <2>1, <2>2, <2>3 DEF FileInv, OneWriter, HeaderToCome, OneHeader
<1>5. CASE WriteHeader(r)
  BY <1>5, LineKeepsFile DEF WriteHeader, Goto, FileInv, Place
<1>6. CASE Open(r)
  <2>1. there /\ (file # <<>> \/ HeaderLost) /\ UnderWay(r)
    BY <1>6 DEF Open, FileInv, Place, UnderWay, Ends
  <2> QED BY <1>6, <2>1, MoveKeepsFile DEF Open, Goto
<1>7. CASE WriteRow(r)
  <2> DEFINE line == [run |-> r, test |-> Head(todo[r]), ms |-> Ms(took[r])]
  <2>1. line # Header
    <3>1. line.run # Header.run
      BY Parameters DEF Header
    <3> QED BY <3>1
  <2>2. there /\ pc[r] = "row" /\ file' = Append(file, line)
    BY <1>7 DEF WriteRow, FileInv, Place
  <2> HIDE DEF line
  <2> QED BY <1>7, <2>1, <2>2, LineKeepsFile DEF WriteRow, Goto
<1>8. CASE CoolOff(r)
  BY <1>8, MoveKeepsFile DEF CoolOff, Goto, UnderWay, Ends
<1>9. CASE InitHpx(r)
  BY <1>9 DEF InitHpx, FileInv, OneWriter, UnderWay, Place, HeaderLost, HeaderToCome,
              OneHeader
<1>10. CASE End(r)
  BY <1>10, MoveKeepsFile DEF End, Goto, Ends
<1>11. CASE Kill(r) /\ pc[r] # "header"
  BY <1>11, MoveKeepsFile DEF Kill, Goto, UnderWay, Ends
<1>12. CASE Kill(r) /\ pc[r] = "header"
  <2>1. pc' = [pc EXCEPT ![r] = "killed before header"] /\ UNCHANGED <<there, file>>
    BY <1>12 DEF Kill, Goto
  <2>2. pc'[r] = "killed before header" /\ \A s \in Runs \ {r} : pc'[s] = pc[s]
    BY <2>1 DEF TypeInv
  <2>3. HeaderLost' /\ \A s \in Runs : UnderWay(s)' => UnderWay(s)
    BY <2>2 DEF HeaderLost, UnderWay, Ends
  <2> QED BY <2>1, <2>2, <2>3
          DEF FileInv, OneWriter, Place, HeaderLost, HeaderToCome, OneHeader
<1> QED BY <1>1, <1>2, <1>3, <1>4, <1>5, <1>6, <1>7, <1>8, <1>9, <1>10, <1>11, <1>12
        DEF Step, WriteBenchResult

-----------------------------------------------------------------------------
(* The best of TuneBackoffLock. *)
LEMMA RowsTyped ==
  ASSUME TypeInv, Lines, NEW r \in Runs, NEW n \in RowsOf(r)
  PROVE  n \in DOMAIN file /\ file[n].ms \in Int
<1>1. Header.run \notin Runs /\ OldResult.run \notin Runs
  BY Parameters DEF Header, OldResult
<1> QED BY <1>1 DEF Lines, RowsOf

LEMMA RowsAfterLine ==
  ASSUME TypeInv, NEW line, file' = Append(file, line), NEW r
  PROVE  RowsOf(r)' = IF line.run = r THEN RowsOf(r) \cup {Len(file) + 1} ELSE RowsOf(r)
<1>1. /\ DOMAIN file' = DOMAIN file \cup {Len(file) + 1}
      /\ Len(file) + 1 \notin DOMAIN file
  BY LineAdded, FileShape
<1>2. /\ \A n \in DOMAIN file : file'[n] = file[n]
      /\ file'[Len(file) + 1] = line
  BY LineAdded
<1> QED BY <1>1, <1>2 DEF RowsOf

LEMMA BestAfterLine ==
  ASSUME TypeInv, NEW line, file' = Append(file, line), NEW b,
         NEW rows \in SUBSET DOMAIN file,
         BestAmong(b, file, rows)
  PROVE  BestAmong(b, file', rows)
<1>1. \A n \in rows : file'[n] = file[n]
  BY LineAdded
<1> QED BY <1>1 DEF BestAmong

(* The results of others do not count. *)
OtherLine(s) == \E line : file' = Append(file, line) /\ line.run # s

LEMMA OthersRows ==
  ASSUME TypeInv, NEW s \in Runs, UNCHANGED file \/ OtherLine(s)
  PROVE  /\ RowsOf(s)' = RowsOf(s) /\ \A n \in RowsOf(s) : file'[n] = file[n]
         /\ \A b, rows : rows \subseteq DOMAIN file /\ BestAmong(b, file, rows)
                          => BestAmong(b, file', rows)
<1>1. CASE UNCHANGED file
  BY <1>1 DEF RowsOf
<1>2. CASE OtherLine(s)
  <2>1. PICK line : file' = Append(file, line) /\ line.run # s
    BY <1>2 DEF OtherLine
  <2>2. \A n \in DOMAIN file : file'[n] = file[n]
    BY <2>1, LineAdded
  <2>3. RowsOf(s)' = RowsOf(s)
    BY <2>1, RowsAfterLine
  <2>4. \A n \in RowsOf(s) : file'[n] = file[n]
    BY <2>2 DEF RowsOf
  <2>5. ASSUME NEW b, NEW rows, rows \subseteq DOMAIN file, BestAmong(b, file, rows)
        PROVE  BestAmong(b, file', rows)
    BY <2>1, <2>5, BestAfterLine
  <2> QED BY <2>3, <2>4, <2>5
<1> QED BY <1>1, <1>2

LEMMA BestKept ==
  ASSUME TypeInv, NEW s \in Runs, Best(s), UNCHANGED file \/ OtherLine(s),
         env'[s] = env[s], best'[s] = best[s],
         \/ pc'[s] = pc[s] /\ todo'[s] = todo[s] /\ took'[s] = took[s]
         \/ pc[s] \notin {"off", "cool"} /\ pc'[s] \notin {"off", "cool"}
  PROVE  Best(s)'
<1>1. /\ RowsOf(s)' = RowsOf(s) /\ \A n \in RowsOf(s) : file'[n] = file[n]
      /\ \A b, rows : rows \subseteq DOMAIN file /\ BestAmong(b, file, rows)
                       => BestAmong(b, file', rows)
  BY OthersRows
<1>2. RowsOf(s) \subseteq DOMAIN file /\ (Tuning(s)' <=> Tuning(s))
  BY DEF RowsOf, Tuning
<1>3. pc'[s] = "off" => RowsOf(s)' = {} /\ env'[s] = None /\ best'[s] = None
  BY <1>1 DEF Best
<1>4. ASSUME Tuning(s)', pc'[s] # "cool"
      PROVE  BestAmong(best'[s], file', RowsOf(s)')
  <2>1. BestAmong(best[s], file, RowsOf(s))
    BY <1>2, <1>4 DEF Best
  <2>2. BestAmong(best[s], file', RowsOf(s))
    BY <1>1, <1>2, <2>1
  <2> QED BY <1>1, <2>2
<1>5. ASSUME Tuning(s)', pc'[s] = "cool"
      PROVE  \E n \in DOMAIN file' :
               Undecided(s, n)' /\ BestAmong(best'[s], file', RowsOf(s)' \ {n})
  <2>1. pc'[s] = pc[s] /\ todo'[s] = todo[s] /\ took'[s] = took[s]
    BY <1>5
  <2>2. PICK n \in DOMAIN file :
          Undecided(s, n) /\ BestAmong(best[s], file, RowsOf(s) \ {n})
    BY <1>2, <1>5, <2>1 DEF Best
  <2>3. n \in RowsOf(s) /\ Undecided(s, n)'
    BY <1>1, <2>1, <2>2 DEF Undecided
  <2>4. BestAmong(best[s], file', RowsOf(s) \ {n})
    BY <1>1, <1>2, <2>2
  <2>5. n \in DOMAIN file'
    BY <1>1, <2>3 DEF RowsOf
  <2> QED BY <1>1, <2>3, <2>4, <2>5
<1> QED BY <1>3, <1>4, <1>5 DEF Best

LEMMA HeaderIsNobodys ==
  ASSUME NEW s \in Runs, file' = Append(file, Header)
  PROVE  OtherLine(s)
<1>1. Header.run # s
  BY Parameters DEF Header
<1> QED BY <1>1 DEF OtherLine

LEMMA InitBest == Init => BestInv
<1> SUFFICES ASSUME Init, NEW r \in Runs PROVE Best(r)
  BY DEF BestInv
<1>1. pc[r] = "off" /\ env[r] = None /\ best[r] = None
  BY DEF Init
<1>2. Header.run \notin Runs /\ OldResult.run \notin Runs
  BY Parameters DEF Header, OldResult
<1>3. \A n \in DOMAIN file : file[n] \in {Header, OldResult}
  <2>1. CASE there
    <3>1. file = <<Header, OldResult>>
      BY <2>1 DEF Init
    <3> QED BY <3>1
  <2>2. CASE ~there
    <3>1. file = <<>>
      BY <2>2 DEF Init
    <3> QED BY <3>1
  <2> QED BY <2>1, <2>2
<1>4. RowsOf(r) = {}
  BY <1>2, <1>3 DEF RowsOf
<1> QED BY <1>1, <1>4 DEF Best, Tuning

LEMMA RowBecomesUndecided ==
  ASSUME TypeInv, NEW r \in Runs, Best(r), WriteRow(r)
  PROVE  Best(r)'
<1> DEFINE line == [run |-> r, test |-> Head(todo[r]), ms |-> Ms(took[r])]
<1>0. PICK n : n = Len(file) + 1
  OBVIOUS
<1>1. /\ pc[r] = "row" /\ pc'[r] = "cool" /\ file' = Append(file, line)
      /\ UNCHANGED <<env, todo, took, best>>
  BY DEF WriteRow, Goto, TypeInv
<1>2. line.run = r /\ line.test = Head(todo[r]) /\ line.ms = Ms(took[r])
  OBVIOUS
<1> HIDE DEF line
<1>3. /\ n \in DOMAIN file' /\ file'[n] = line /\ n \notin DOMAIN file
      /\ RowsOf(r)' = RowsOf(r) \cup {n}
  BY <1>0, <1>1, <1>2, LineAdded, RowsAfterLine, FileShape
<1>4. RowsOf(r) \subseteq DOMAIN file /\ RowsOf(r)' \ {n} = RowsOf(r)
  <2>1. RowsOf(r) \subseteq DOMAIN file
    BY DEF RowsOf
  <2> QED BY <1>3, <2>1
<1>5. Undecided(r, n)'
  BY <1>1, <1>2, <1>3 DEF Undecided
<1>6. ASSUME Tuning(r)' PROVE BestAmong(best'[r], file', RowsOf(r)' \ {n})
  <2>1. BestAmong(best[r], file, RowsOf(r))
    BY <1>1, <1>6 DEF Best, Tuning
  <2>2. BestAmong(best[r], file', RowsOf(r))
    BY <1>1, <1>4, <2>1, BestAfterLine
  <2> QED BY <1>1, <1>4, <2>2
<1> QED BY <1>1, <1>3, <1>5, <1>6 DEF Best

(* The decision: if the last result is better than the best of the others, *)
(* rounding does not make it worse, and if it is not, none is needed.      *)
LEMMA Decision ==
  ASSUME TypeInv, Lines, NEW r \in Runs, Best(r), CoolOff(r)
  PROVE  Best(r)'
<1>1. /\ pc[r] = "cool" /\ pc'[r] = "next" /\ UNCHANGED <<file, env>>
  BY DEF CoolOff, Goto, TypeInv
<1>2. RowsOf(r)' = RowsOf(r)
  BY <1>1 DEF RowsOf
<1>3. SUFFICES ASSUME Tuning(r) PROVE BestAmong(best'[r], file, RowsOf(r))
  BY <1>1, <1>2 DEF Best, Tuning
<1>4. PICK n \in DOMAIN file : Undecided(r, n) /\ BestAmong(best[r], file, RowsOf(r) \ {n})
  BY <1>1, <1>3 DEF Best
<1>5. /\ n \in RowsOf(r) /\ file[n].test = Head(todo[r]) /\ file[n].ms = Ms(took[r])
      /\ took[r] \in Int
  BY <1>4 DEF Undecided, TypeInv
<1>6. \A m \in RowsOf(r) : file[m].ms \in Int
  BY RowsTyped
<1>7. CASE Better(r)
  <2> DEFINE new == [test |-> Head(todo[r]), took |-> took[r]]
  <2>1. best'[r] = new
    BY <1>3, <1>7 DEF CoolOff, Tuning, TypeInv
  <2>2. new.test = Head(todo[r]) /\ new.took = took[r]
    OBVIOUS
  <2>3. new # None
    <3>1. "took" \in DOMAIN new /\ "took" \notin DOMAIN None
      BY DEF None
    <3> QED BY <3>1
  <2> HIDE DEF new
  <2>4. \A m \in RowsOf(r) : file[n].ms <= file[m].ms
    <3> SUFFICES ASSUME NEW m \in RowsOf(r) PROVE file[n].ms <= file[m].ms
      OBVIOUS
    <3>1. CASE m = n
      BY <1>6, <3>1
    <3>2. CASE m # n
      <4>1. m \in RowsOf(r) \ {n}
        BY <3>2
      <4>2. /\ best[r] # None /\ best[r].took \in Int
            /\ \E k \in RowsOf(r) \ {n} :
                 file[k].ms = Ms(best[r].took) /\ file[k].ms <= file[m].ms
        BY <1>4, <4>1 DEF BestAmong
      <4>3. took[r] <= best[r].took
        BY <1>5, <1>7, <4>2 DEF Better
      <4>4. Ms(took[r]) <= Ms(best[r].took) /\ Ms(took[r]) \in Int
            /\ Ms(best[r].took) \in Int
        BY <1>5, <4>2, <4>3, MsOrder
      <4> QED BY <1>5, <1>6, <4>2, <4>4
    <3> QED BY <3>1, <3>2
  <2> QED BY <1>5, <2>1, <2>2, <2>3, <2>4 DEF BestAmong
<1>8. CASE ~Better(r)
  <2>1. best'[r] = best[r]
    BY <1>8 DEF CoolOff
  <2>2. RowsOf(r) \ {n} # {} /\ best[r] # None /\ best[r].took \in Int
    BY <1>4, <1>8 DEF BestAmong, Better
  <2>3. PICK k \in RowsOf(r) \ {n} :
          /\ file[k].test = best[r].test /\ file[k].ms = Ms(best[r].took)
          /\ \A m \in RowsOf(r) \ {n} : file[k].ms <= file[m].ms
    BY <1>4, <2>2 DEF BestAmong
  <2>4. best[r].took <= took[r]
    BY <1>5, <1>8, <2>2 DEF Better
  <2>5. Ms(best[r].took) <= Ms(took[r])
    BY <1>5, <2>2, <2>4, MsOrder
  <2>6. file[k].ms <= file[n].ms
    BY <1>5, <2>3, <2>5
  <2>7. \A m \in RowsOf(r) : file[k].ms <= file[m].ms
    BY <2>3, <2>6
  <2> QED BY <1>5, <2>1, <2>2, <2>3, <2>7 DEF BestAmong
<1> QED BY <1>7, <1>8

LEMMA NextBest ==
  ASSUME TypeInv, Lines, FileInv, BestInv, NEW r \in Runs, Start(r) \/ Step(r) \/ Kill(r)
  PROVE  BestInv'
<1> SUFFICES ASSUME NEW s \in Runs PROVE Best(s)'
  BY DEF BestInv
<1>1. Best(s)
  BY DEF BestInv
<1>2. CASE s # r
  <2>1. /\ env'[s] = env[s] /\ best'[s] = best[s] /\ pc'[s] = pc[s]
        /\ todo'[s] = todo[s] /\ took'[s] = took[s]
    BY <1>2 DEF TypeInv, Start, Kill, Step, WriteBenchResult, Measure, Exists, Create,
                WriteHeader, Open, WriteRow, CoolOff, InitHpx, End, Goto
  <2>2. UNCHANGED file \/ OtherLine(s)
    <3>1. CASE WriteRow(r)
      <4>1. PICK line : file' = Append(file, line) /\ line.run = r
        BY <3>1 DEF WriteRow
      <4> QED BY <1>2, <4>1 DEF OtherLine
    <3>2. CASE WriteHeader(r)
      BY <3>2, HeaderIsNobodys DEF WriteHeader
    <3>3. CASE Create(r)
      BY <3>3, NothingToLose DEF Create
    <3> QED BY <3>1, <3>2, <3>3
            DEF Start, Kill, Step, WriteBenchResult, Measure, Exists, Open, CoolOff,
                InitHpx, End
  <2> QED BY <1>1, <2>1, <2>2, BestKept
<1>3. CASE s = r
  <2>1. CASE Start(r)
    <3>1. /\ pc[r] = "off" /\ pc'[r] \in {"next", "refused"} /\ UNCHANGED <<file, best>>
      BY <2>1 DEF Start, Goto, TypeInv
    <3>2. RowsOf(r)' = {} /\ best'[r] = None
      BY <1>1, <1>3, <3>1 DEF Best, RowsOf
    <3> QED BY <1>3, <3>1, <3>2 DEF Best, BestAmong
  <2>2. CASE Kill(r)
    <3>1. env'[r] = None /\ pc'[r] # "off"
      BY <2>2 DEF Kill, Goto, TypeInv
    <3> QED BY <1>3, <3>1 DEF Best, Tuning
  <2>3. CASE WriteRow(r)
    BY <1>1, <1>3, <2>3, RowBecomesUndecided
  <2>4. CASE CoolOff(r)
    BY <1>1, <1>3, <2>4, Decision
  <2>5. CASE \/ Measure(r) \/ Exists(r) \/ Create(r) \/ WriteHeader(r) \/ Open(r)
             \/ InitHpx(r) \/ End(r)
    <3>1. UNCHANGED <<env, best>>
      BY <2>5 DEF Measure, Exists, Create, WriteHeader, Open, InitHpx, End
    <3>2. pc[r] \notin {"off", "cool"} /\ pc'[r] \notin {"off", "cool"}
      BY <2>5 DEF Measure, Exists, Create, WriteHeader, Open, InitHpx, End, Goto, TypeInv
    <3>3. UNCHANGED file \/ OtherLine(r)
      <4>1. CASE WriteHeader(r)
        BY <4>1, HeaderIsNobodys DEF WriteHeader
      <4>2. CASE Create(r)
        BY <4>2, NothingToLose DEF Create
      <4> QED BY <2>5, <4>1, <4>2 DEF Measure, Exists, Open, InitHpx, End
    <3> QED BY <1>1, <1>3, <3>1, <3>2, <3>3, BestKept
  <2> QED BY <2>1, <2>2, <2>3, <2>4, <2>5 DEF Step, WriteBenchResult
<1> QED BY <1>2, <1>3

-----------------------------------------------------------------------------
LEMMA NextIInv == IInv /\ [Next]_vars => IInv'
<1> SUFFICES ASSUME IInv, [Next]_vars PROVE IInv'
  OBVIOUS
<1>1. ASSUME NEW r \in Runs, Start(r) \/ Step(r) \/ Kill(r) PROVE IInv'
  BY <1>1, NextTypes, NextFile, NextBest DEF IInv
<1>2. CASE UNCHANGED vars
  <2>1. TypeInv' /\ Lines'
    BY <1>2 DEF vars, IInv, TypeInv, Lines
  <2>2. OneWriter' /\ \A r \in Runs : Place(r)'
    BY <1>2 DEF vars, IInv, FileInv, OneWriter, UnderWay, Place, HeaderLost
  <2>3. HeaderToCome' /\ OneHeader'
    BY <1>2 DEF vars, IInv, FileInv, HeaderLost, HeaderToCome, OneHeader
  <2>4. BestInv'
    BY <1>2, BestKept DEF vars, IInv, BestInv
  <2> QED BY <2>1, <2>2, <2>3, <2>4 DEF IInv, FileInv
<1> QED BY <1>1, <1>2 DEF Next, AllOver

(* For any number of runs, whichever are killed: who is at work on a file  *)
(* without results, where its header is and what best has seen hold        *)
(* together in every state.                                                *)
THEOREM Invariance == Spec => []IInv
<1>1. Init => IInv
  BY InitTypes, InitFile, InitBest DEF IInv
<1> QED BY <1>1, NextIInv, PTL DEF Spec

(* For any number of runs, the results file has its header first and no    *)
(* other, unless a run was killed between creating the file and writing it.*)
THEOREM HeaderFirst == Spec => []OneHeader
<1>1. IInv => OneHeader
  BY DEF IInv, FileInv
<1> QED BY <1>1, Invariance, PTL

(* For any number of runs, what TuneBackoffLock reports as best is one of  *)
(* its results in the file, and in milliseconds none of them is better,    *)
(* although it compares unrounded times, which the clock may make negative.*)
THEOREM BestIsInFile == Spec => []BestOfRun
<1>1. IInv => BestOfRun
  <2> SUFFICES ASSUME IInv, NEW r \in Runs, Tuning(r), pc[r] \in {"next", "ended"},
                      RowsOf(r) # {}
               PROVE  \E n \in RowsOf(r) :
                        /\ file[n].test = best[r].test /\ file[n].ms = Ms(best[r].took)
                        /\ \A m \in RowsOf(r) : file[n].ms <= file[m].ms
    BY DEF BestOfRun, Tuning
  <2>1. BestAmong(best[r], file, RowsOf(r))
    BY DEF IInv, BestInv, Best
  <2> QED BY <2>1 DEF BestAmong
<1> QED BY <1>1, Invariance, PTL

(* For any number of runs, no line of the results file is lost or changed: *)
(* the file is only created when there is none, and appended to otherwise. *)
THEOREM NoResultLost == Spec => ResultsStay
<1>1. IInv /\ [Next]_vars => [IsPrefix(file, file')]_file
  <2> SUFFICES ASSUME IInv, [Next]_vars, file' # file PROVE IsPrefix(file, file')
    OBVIOUS
  <2>1. ASSUME NEW r \in Runs, Start(r) \/ Step(r) \/ Kill(r) PROVE IsPrefix(file, file')
    <3>1. CASE WriteRow(r)
      BY <3>1, LineAdded DEF WriteRow, IInv
    <3>2. CASE WriteHeader(r)
      BY <3>2, LineAdded DEF WriteHeader, IInv
    <3>3. CASE Create(r)
      BY <3>3, NothingToLose DEF Create, IInv
    <3> QED BY <2>1, <3>1, <3>2, <3>3
            DEF Start, Kill, Step, WriteBenchResult, Measure, Exists, Open, CoolOff,
                InitHpx, End
  <2> QED BY <2>1 DEF Next, AllOver, vars
<1> QED BY <1>1, Invariance, PTL DEF Spec, ResultsStay
=============================================================================
