--------------------------- MODULE TestExecProofs ---------------------------
(***************************************************************************)
(* Proofs about TestExec for every number of tests, cycles and runs: the   *)
(* inductive invariant of the DONE record and the safety properties that   *)
(* follow from it; then, built on it, the invariant of the tests in the    *)
(* pipe, with the order of the starts and the count of the results, and    *)
(* the greatest number of DONE records.                                    *)
(***************************************************************************)
EXTENDS TestExec, SequenceTheorems, FiniteSetTheorems, TLAPS

\* Where Stop and ~TTest stand, and what they know there.
MainInv ==
    /\ StopOwesDone => working /\ stop
    /\ mpc = "push" => exepipe = <<>>
    /\ mpc = "loop" => ~fexit
    /\ mpc \in {"dtor", "exit", "join", "gone"} => fexit

\* The child exists from fork to wait, and childpid from its assignment.
PidInv ==
    /\ (epc \in {"assign", "output"}) <=> (child.state # "none")
    /\ childpid \in Pids <=> epc = "output"
    /\ epc = "output" => childpid = child.pid

IndInv ==
    /\ TypeOK /\ MainInv /\ PidInv
    /\ NoLostRun /\ OneDone /\ NoTestAfterStop /\ StopCleared /\ ReportedOnce

\* TypeOK in two parts, the flags and the rest.
FlagsOK ==
    stop \in BOOLEAN /\ working \in BOOLEAN /\ fexit \in BOOLEAN /\ stopped \in BOOLEAN
    /\ late \in BOOLEAN

MainPcs == {"loop", "dtor", "drain", "read", "push", "pid", "kill", "exit", "join", "gone"}
ExecPcs == {"select", "read", "check", "fork", "assign", "output", "update", "exited"}

DataOK ==
    /\ testtype \in {"COMPLEX", "CUSTOM"}
    /\ cycle \in Nat /\ cyclescount \in Nat /\ customtest \in 0 .. N
    /\ exepipe \in Seq(Record) /\ execute \in Record
    /\ childpid \in Pids \cup {0, StrayPid} /\ mpid \in Pids \cup {0, StrayPid}
    /\ child \in [pid : Pids, state : {"none", "alive", "signalled", "exited", "killed"}]
    /\ results \in [Tests -> Nat]
    /\ mpc \in MainPcs /\ epc \in ExecPcs
    /\ starts \in Nat /\ reports \in Nat /\ complexruns \in Nat
    /\ started \in Nat \X Nat

LEMMA TypeParts == TypeOK <=> FlagsOK /\ DataOK
  BY DEF TypeOK, FlagsOK, DataOK, MainPcs, ExecPcs

-----------------------------------------------------------------------------
(* The records in the pipe *)

\* Reading takes the first record and leaves the others in their order.
LEMMA TailFacts ==
  ASSUME NEW s \in Seq(Record), s # <<>>
  PROVE  /\ Head(s) = s[1] /\ Head(s) \in Record
         /\ Tail(s) \in Seq(Record)
         /\ Len(Tail(s)) = Len(s) - 1
         /\ \A i \in 1 .. Len(s) - 1 : Tail(s)[i] = s[i + 1]
         /\ Len(s) \in Nat /\ Len(s) > 0
  OBVIOUS

\* A function on 1 .. n is a sequence of length n.
LEMMA FunctionIsSeq ==
  ASSUME NEW S, NEW n \in Nat, NEW f \in [1 .. n -> S]
  PROVE  f \in Seq(S) /\ Len(f) = n
<1>1. f \in Seq(S)
  BY SeqDef, Zenon
<1>2. DOMAIN f = 1 .. n
  OBVIOUS
<1> QED
  BY <1>1, <1>2, LenProperties

\* The records of a cycle: tests, and one DONE record behind them.
LEMMA CycleFacts ==
  ASSUME NEW c \in Nat, NEW t \in 0 .. N, NEW tt \in {"COMPLEX", "CUSTOM"},
         NEW s, s = IF tt = "COMPLEX" THEN ComplexCycle(c) ELSE CustomCycle(c, t)
  PROVE  /\ s \in Seq(Record)
         /\ Len(s) \in Nat \ {0}
         /\ DoneIn(s) = {Len(s)}
<1>1. CASE tt = "COMPLEX"
  <2>1. s = [i \in 1 .. N + 1 |-> IF i <= N THEN TestRecord(c, i) ELSE DoneRecord]
    BY <1>1 DEF ComplexCycle
  <2>2. \A i \in 1 .. N + 1 : (IF i <= N THEN TestRecord(c, i) ELSE DoneRecord) \in Record
    BY TestExecAssumption DEF Record, TestRecord, DoneRecord
  <2>3. s \in [1 .. N + 1 -> Record]
    BY <2>1, <2>2
  <2>4. s \in Seq(Record) /\ Len(s) = N + 1
    <3>1. N + 1 \in Nat
      BY TestExecAssumption
    <3> QED
      BY <2>3, <3>1, FunctionIsSeq
  <2>5. \A i \in 1 .. N + 1 : Is(s[i], "DONE") <=> i = N + 1
    BY <2>1, TestExecAssumption DEF Is, TestRecord, DoneRecord
  <2> QED
    BY <2>4, <2>5, TestExecAssumption DEF DoneIn
<1>2. CASE tt = "CUSTOM"
  BY <1>2, TestExecAssumption DEF CustomCycle, Record, TestRecord, DoneRecord, DoneIn, Is
<1> QED
  BY <1>1, <1>2

\* Where DONE records are after a read, a push of DONE and the push of a cycle.
LEMMA DoneAfterRead ==
  ASSUME NEW s \in Seq(Record), s # <<>>
  PROVE  /\ DoneIn(s) # {} => Is(Head(s), "DONE") \/ DoneIn(Tail(s)) # {}
         /\ DoneIn(s) \subseteq {Len(s)} =>
              /\ DoneIn(Tail(s)) \subseteq {Len(Tail(s))}
              /\ Is(Head(s), "DONE") => Tail(s) = <<>>
<1>1. \A i \in DoneIn(s) : i = 1 \/ i - 1 \in DoneIn(Tail(s))
  BY TailFacts DEF DoneIn
<1>2. \A i \in DoneIn(Tail(s)) : i + 1 \in DoneIn(s)
  BY TailFacts DEF DoneIn
<1>3. 1 \in DoneIn(s) <=> Is(Head(s), "DONE")
  BY TailFacts DEF DoneIn
<1>4. Len(Tail(s)) = 0 => Tail(s) = <<>>
  BY TailFacts, EmptySeq
<1>5. DoneIn(s) # {} => Is(Head(s), "DONE") \/ DoneIn(Tail(s)) # {}
  BY <1>1, <1>3
<1>6. ASSUME DoneIn(s) \subseteq {Len(s)}
      PROVE  /\ DoneIn(Tail(s)) \subseteq {Len(Tail(s))}
             /\ Is(Head(s), "DONE") => Tail(s) = <<>>
  <2>1. ASSUME NEW j \in DoneIn(Tail(s)) PROVE j = Len(Tail(s))
    <3>1. j + 1 = Len(s) /\ j \in Int
      BY <1>2, <1>6, <2>1 DEF DoneIn
    <3> QED
      BY <3>1, TailFacts
  <2>2. Is(Head(s), "DONE") => Len(s) = 1
    BY <1>3, <1>6
  <2> QED
    BY <2>1, <2>2, <1>4, TailFacts
<1> QED
  BY <1>5, <1>6

LEMMA DoneAfterAppend ==
  ASSUME NEW s \in Seq(Record)
  PROVE  /\ Append(s, DoneRecord) \in Seq(Record)
         /\ Append(s, ExitRecord) \in Seq(Record)
         /\ DoneIn(Append(s, DoneRecord)) # {}
         /\ s = <<>> => DoneIn(Append(s, DoneRecord)) = {Len(Append(s, DoneRecord))}
<1> USE TestExecAssumption DEF Record, DoneRecord, ExitRecord, DoneIn, Is
<1>1. Len(s) + 1 \in DoneIn(Append(s, DoneRecord))
  OBVIOUS
<1> QED
  BY <1>1

LEMMA DoneAfterConcat ==
  ASSUME NEW s \in Seq(Record), NEW c \in Seq(Record), Len(c) \in Nat \ {0},
         DoneIn(c) = {Len(c)}
  PROVE  /\ s \o c \in Seq(Record)
         /\ DoneIn(s \o c) # {}
         /\ s = <<>> => DoneIn(s \o c) = {Len(s \o c)}
<1>1. s \o c \in Seq(Record)
  BY ConcatProperties
<1>2. Len(s) + Len(c) \in DoneIn(s \o c)
  BY ConcatProperties DEF DoneIn, Is
<1>3. s = <<>> => s \o c = c
  BY ConcatEmptySeq
<1> QED
  BY <1>1, <1>2, <1>3

-----------------------------------------------------------------------------
LEMMA InitIndInv == Init => IndInv
<1> SUFFICES ASSUME Init PROVE IndInv
  OBVIOUS
<1>1. DoneRecord \in Record /\ <<>> \in Seq(Record)
  BY TestExecAssumption DEF Record, DoneRecord
<1>2. [t \in Tests |-> 0] \in [Tests -> Nat]
  OBVIOUS
<1>3. FlagsOK
  BY DEF Init, FlagsOK
<1>4. DataOK
  BY <1>1, <1>2, TestExecAssumption DEF Init, DataOK, Pids, StrayPid, MainPcs, ExecPcs
<1>5. PidInv /\ ReportedOnce
  BY DEF Init, PidInv, ReportedOnce, Pids, StrayPid
<1>6. MainInv /\ NoLostRun /\ NoTestAfterStop /\ StopCleared
  BY DEF Init, MainInv, NoLostRun, NoTestAfterStop, StopCleared, StopOwesDone
<1>7. OneDone
  BY DEF Init, OneDone, DoneIn
<1> QED
  BY <1>3, <1>4, <1>5, <1>6, <1>7, TypeParts DEF IndInv

\* A finished run leaves the pipe alone; a further cycle appends records that
\* end with DONE.
LEMMA UpdateFacts ==
  ASSUME IndInv, NEW tt \in {"COMPLEX", "CUSTOM"}, NEW c \in Nat, NEW n \in Nat,
         NEW ct \in 0 .. N, Update(tt, c, n, ct)
  PROVE  /\ cycle' \in Nat /\ stop' \in BOOLEAN /\ working' \in BOOLEAN /\ reports' \in Nat
         /\ exepipe' \in Seq(Record)
         /\ \/ /\ ~working' /\ ~stop' /\ exepipe' = exepipe
               /\ reports' = reports + (IF tt = "COMPLEX" THEN 1 ELSE 0)
            \/ /\ working' /\ ~stop /\ ~stop' /\ reports' = reports
               /\ DoneIn(exepipe') # {}
               /\ exepipe = <<>> => DoneIn(exepipe') = {Len(exepipe')}
<1> DEFINE s == IF tt = "COMPLEX" THEN ComplexCycle(c + 1) ELSE CustomCycle(c + 1, ct)
<1>1. exepipe \in Seq(Record) /\ reports \in Nat /\ stop \in BOOLEAN
  BY DEF IndInv, TypeOK
<1>2. CASE FinishRun(tt, c, n)
  <2>1. cycle' \in Nat /\ reports' \in Nat
    BY <1>1, <1>2 DEF FinishRun, Update
  <2> QED
    BY <1>1, <1>2, <2>1, Zenon DEF FinishRun, Update
<1>3. CASE NextCycle(tt, c, n, ct)
  <2>1. exepipe' = exepipe \o s
    BY <1>3 DEF NextCycle
  <2>2. s \in Seq(Record) /\ Len(s) \in Nat \ {0} /\ DoneIn(s) = {Len(s)}
    BY CycleFacts, c + 1 \in Nat, Zenon
  <2> HIDE DEF s
  <2>3. /\ exepipe' \in Seq(Record)
        /\ DoneIn(exepipe') # {}
        /\ exepipe = <<>> => DoneIn(exepipe') = {Len(exepipe')}
    BY <1>1, <2>1, <2>2, DoneAfterConcat
  <2>4. cycle' \in Nat
    BY DEF Update
  <2>5. working' /\ ~stop /\ ~stop' /\ reports' = reports
        /\ stop' \in BOOLEAN /\ working' \in BOOLEAN
    BY <1>1, <1>3, Zenon DEF NextCycle
  <2> QED
    BY <1>1, <2>3, <2>4, <2>5
<1> QED
  BY <1>2, <1>3 DEF Update

LEMMA AddOne ==
  ASSUME NEW S, NEW f \in [S -> Nat], NEW x
  PROVE  [f EXCEPT ![x] = @ + 1] \in [S -> Nat]
<1>1. \A y \in S : (IF y = x THEN f[y] + 1 ELSE f[y]) \in Nat
  OBVIOUS
<1>2. [f EXCEPT ![x] = @ + 1] = [y \in S |-> IF y = x THEN f[y] + 1 ELSE f[y]]
  OBVIOUS
<1> QED
  BY <1>1, <1>2

\* Stop called by a key: the main thread is going to empty the pipe.
LEMMA StopKeyStep ==
  ASSUME IndInv, StopKey
  PROVE  IndInv'
<1> USE DEF IndInv, StopKey, mainVars, history
<1>1. FlagsOK'
  BY TypeParts DEF FlagsOK
<1>2. DataOK'
  BY TypeParts DEF DataOK, MainPcs, ExecPcs, Pids, StrayPid, AfterKill
<1>3. PidInv' /\ ReportedOnce'
  BY TypeParts DEF PidInv, DataOK, Pids, StrayPid, ReportedOnce
<1>4. MainInv' /\ StopCleared' /\ NoLostRun' /\ OneDone' /\ NoTestAfterStop'
  BY TypeParts
  DEF MainInv, StopOwesDone, StopCleared, NoLostRun, OneDone, NoTestAfterStop,
      DataOK, FlagsOK, AfterKill
<1> QED
  BY <1>1, <1>2, <1>3, <1>4 DEF TypeOK, FlagsOK, DataOK, MainPcs, ExecPcs

LEMMA DeleteKeyStep ==
  ASSUME IndInv, DeleteKey
  PROVE  IndInv'
<1> USE DEF IndInv, DeleteKey, mainVars, history
<1>1. FlagsOK'
  BY TypeParts DEF FlagsOK
<1>2. DataOK'
  BY TypeParts DEF DataOK, MainPcs, ExecPcs, Pids, StrayPid, AfterKill
<1>3. PidInv' /\ ReportedOnce'
  BY TypeParts DEF PidInv, DataOK, Pids, StrayPid, ReportedOnce
<1>4. MainInv' /\ StopCleared' /\ NoLostRun' /\ OneDone' /\ NoTestAfterStop'
  BY TypeParts
  DEF MainInv, StopOwesDone, StopCleared, NoLostRun, OneDone, NoTestAfterStop,
      DataOK, FlagsOK, AfterKill
<1> QED
  BY <1>1, <1>2, <1>3, <1>4 DEF TypeOK, FlagsOK, DataOK, MainPcs, ExecPcs

LEMMA QuitKeyStep ==
  ASSUME IndInv, QuitKey
  PROVE  IndInv'
<1> USE DEF IndInv, QuitKey, mainVars, history
<1>1. FlagsOK'
  BY TypeParts DEF FlagsOK
<1>2. DataOK'
  BY TypeParts DEF DataOK, MainPcs, ExecPcs, Pids, StrayPid, AfterKill
<1>3. PidInv' /\ ReportedOnce'
  BY TypeParts DEF PidInv, DataOK, Pids, StrayPid, ReportedOnce
<1>4. MainInv' /\ StopCleared' /\ NoLostRun' /\ OneDone' /\ NoTestAfterStop'
  BY TypeParts
  DEF MainInv, StopOwesDone, StopCleared, NoLostRun, OneDone, NoTestAfterStop,
      DataOK, FlagsOK, AfterKill
<1> QED
  BY <1>1, <1>2, <1>3, <1>4 DEF TypeOK, FlagsOK, DataOK, MainPcs, ExecPcs

\* ~TTest: Stop drains only while a run works.
LEMMA DtorStep ==
  ASSUME IndInv, Dtor
  PROVE  IndInv'
<1> USE DEF IndInv, Dtor, mainVars, history
<1>1. FlagsOK'
  BY TypeParts DEF FlagsOK
<1>2. DataOK'
  BY TypeParts DEF DataOK, MainPcs, ExecPcs, Pids, StrayPid, AfterKill
<1>3. PidInv' /\ ReportedOnce'
  BY TypeParts DEF PidInv, DataOK, Pids, StrayPid, ReportedOnce
<1>4. MainInv' /\ StopCleared' /\ NoLostRun' /\ OneDone' /\ NoTestAfterStop'
  BY TypeParts
  DEF MainInv, StopOwesDone, StopCleared, NoLostRun, OneDone, NoTestAfterStop,
      DataOK, FlagsOK, AfterKill
<1> QED
  BY <1>1, <1>2, <1>3, <1>4 DEF TypeOK, FlagsOK, DataOK, MainPcs, ExecPcs

\* The drain ends on an empty pipe.
LEMMA DrainSelectStep ==
  ASSUME IndInv, DrainSelect
  PROVE  IndInv'
<1> USE DEF IndInv, DrainSelect, mainVars, history
<1>1. FlagsOK'
  BY TypeParts DEF FlagsOK
<1>2. DataOK'
  BY TypeParts DEF DataOK, MainPcs, ExecPcs, Pids, StrayPid, AfterKill
<1>3. PidInv' /\ ReportedOnce'
  BY TypeParts DEF PidInv, DataOK, Pids, StrayPid, ReportedOnce
<1>4. MainInv' /\ StopCleared' /\ NoLostRun' /\ OneDone' /\ NoTestAfterStop'
  BY TypeParts
  DEF MainInv, StopOwesDone, StopCleared, NoLostRun, OneDone, NoTestAfterStop,
      DataOK, FlagsOK, AfterKill
<1> QED
  BY <1>1, <1>2, <1>3, <1>4 DEF TypeOK, FlagsOK, DataOK, MainPcs, ExecPcs

\* A record drained is owed again as DONE.
LEMMA DrainReadStep ==
  ASSUME IndInv, DrainRead
  PROVE  IndInv'
<1> USE DEF IndInv, DrainRead, mainVars, history
<1>1. FlagsOK'
  BY TypeParts DEF FlagsOK
<1>2. DataOK'
  BY TailFacts, DoneAfterRead, TypeParts DEF DataOK, MainPcs, ExecPcs, Pids, StrayPid, AfterKill
<1>3. PidInv' /\ ReportedOnce'
  BY TypeParts DEF PidInv, DataOK, Pids, StrayPid, ReportedOnce
<1>4. MainInv' /\ StopCleared'
  BY TailFacts, DoneAfterRead, TypeParts DEF MainInv, StopOwesDone, StopCleared, FlagsOK
<1>5. NoLostRun'
  BY TailFacts, DoneAfterRead, TypeParts DEF MainInv, StopOwesDone, NoLostRun, DataOK, FlagsOK
<1>6. OneDone'
  BY TailFacts, DoneAfterRead, TypeParts DEF MainInv, StopOwesDone, OneDone, DataOK, FlagsOK
<1>7. NoTestAfterStop'
  BY TailFacts, DoneAfterRead, TypeParts DEF MainInv, StopOwesDone, NoTestAfterStop, DataOK, FlagsOK
<1> QED
  BY <1>1, <1>2, <1>3, <1>4, <1>5, <1>6, <1>7 DEF TypeOK, FlagsOK, DataOK, MainPcs, ExecPcs

\* Into an empty pipe; with a DONE record held, late is set.
LEMMA PushDoneStep ==
  ASSUME IndInv, PushDone
  PROVE  IndInv'
<1> USE DEF IndInv, PushDone, mainVars, history
<1>1. FlagsOK'
  BY TypeParts DEF FlagsOK
<1>2. DataOK'
  BY DoneAfterAppend, TypeParts DEF DataOK, MainPcs, ExecPcs, Pids, StrayPid, AfterKill
<1>3. PidInv' /\ ReportedOnce'
  BY TypeParts DEF PidInv, DataOK, Pids, StrayPid, ReportedOnce
<1>4. MainInv' /\ StopCleared'
  BY DoneAfterAppend, TypeParts DEF MainInv, StopOwesDone, StopCleared, FlagsOK
<1>5. NoLostRun'
  BY DoneAfterAppend, TypeParts DEF MainInv, StopOwesDone, NoLostRun, DataOK, FlagsOK
<1>6. OneDone'
  BY DoneAfterAppend, TypeParts DEF MainInv, StopOwesDone, OneDone, DataOK, FlagsOK
<1>7. NoTestAfterStop'
  BY TypeParts DEF MainInv, StopOwesDone, NoTestAfterStop, DataOK, FlagsOK, Is,
      DoneRecord, ExitRecord
<1> QED
  BY <1>1, <1>2, <1>3, <1>4, <1>5, <1>6, <1>7 DEF TypeOK, FlagsOK, DataOK, MainPcs, ExecPcs

LEMMA ReadPidStep ==
  ASSUME IndInv, ReadPid
  PROVE  IndInv'
<1> USE DEF IndInv, ReadPid, mainVars, history
<1>1. FlagsOK'
  BY TypeParts DEF FlagsOK
<1>2. DataOK'
  BY TypeParts DEF DataOK, MainPcs, ExecPcs, Pids, StrayPid, AfterKill
<1>3. PidInv' /\ ReportedOnce'
  BY TypeParts DEF PidInv, DataOK, Pids, StrayPid, ReportedOnce
<1>4. MainInv' /\ StopCleared' /\ NoLostRun' /\ OneDone' /\ NoTestAfterStop'
  BY TypeParts
  DEF MainInv, StopOwesDone, StopCleared, NoLostRun, OneDone, NoTestAfterStop,
      DataOK, FlagsOK, AfterKill
<1> QED
  BY <1>1, <1>2, <1>3, <1>4 DEF TypeOK, FlagsOK, DataOK, MainPcs, ExecPcs

LEMMA KillChildStep ==
  ASSUME IndInv, KillChild
  PROVE  IndInv'
<1> USE DEF IndInv, KillChild, mainVars, history
<1>1. FlagsOK'
  BY TypeParts DEF FlagsOK
<1>2. DataOK'
  BY TypeParts DEF DataOK, MainPcs, ExecPcs, Pids, StrayPid, AfterKill
<1>3. PidInv' /\ ReportedOnce'
  BY TypeParts DEF PidInv, DataOK, Pids, StrayPid, ReportedOnce
<1>4. MainInv' /\ StopCleared' /\ NoLostRun' /\ OneDone' /\ NoTestAfterStop'
  BY TypeParts
  DEF MainInv, StopOwesDone, StopCleared, NoLostRun, OneDone, NoTestAfterStop,
      DataOK, FlagsOK, AfterKill
<1> QED
  BY <1>1, <1>2, <1>3, <1>4 DEF TypeOK, FlagsOK, DataOK, MainPcs, ExecPcs

LEMMA PushExitStep ==
  ASSUME IndInv, PushExit
  PROVE  IndInv'
<1> USE DEF IndInv, PushExit, mainVars, history
<1>1. FlagsOK'
  BY TypeParts DEF FlagsOK
<1>2. DataOK'
  BY DoneAfterAppend, TypeParts DEF DataOK, MainPcs, ExecPcs, Pids, StrayPid, AfterKill
<1>3. PidInv' /\ ReportedOnce'
  BY TypeParts DEF PidInv, DataOK, Pids, StrayPid, ReportedOnce
<1>4. MainInv' /\ StopCleared'
  BY DoneAfterAppend, TypeParts DEF MainInv, StopOwesDone, StopCleared, FlagsOK
<1>5. NoLostRun'
  BY DoneAfterAppend, TypeParts DEF MainInv, StopOwesDone, NoLostRun, DataOK, FlagsOK
<1>6. OneDone'
  BY DoneAfterAppend, TypeParts DEF MainInv, StopOwesDone, OneDone, DataOK, FlagsOK
<1>7. NoTestAfterStop'
  BY TypeParts DEF MainInv, StopOwesDone, NoTestAfterStop, DataOK, FlagsOK, Is,
      DoneRecord, ExitRecord
<1> QED
  BY <1>1, <1>2, <1>3, <1>4, <1>5, <1>6, <1>7 DEF TypeOK, FlagsOK, DataOK, MainPcs, ExecPcs

LEMMA JoinStep ==
  ASSUME IndInv, Join
  PROVE  IndInv'
<1> USE DEF IndInv, Join, mainVars, history
<1>1. FlagsOK'
  BY TypeParts DEF FlagsOK
<1>2. DataOK'
  BY TypeParts DEF DataOK, MainPcs, ExecPcs, Pids, StrayPid, AfterKill
<1>3. PidInv' /\ ReportedOnce'
  BY TypeParts DEF PidInv, DataOK, Pids, StrayPid, ReportedOnce
<1>4. MainInv' /\ StopCleared' /\ NoLostRun' /\ OneDone' /\ NoTestAfterStop'
  BY TypeParts
  DEF MainInv, StopOwesDone, StopCleared, NoLostRun, OneDone, NoTestAfterStop,
      DataOK, FlagsOK, AfterKill
<1> QED
  BY <1>1, <1>2, <1>3, <1>4 DEF TypeOK, FlagsOK, DataOK, MainPcs, ExecPcs

LEMMA ESelectStep ==
  ASSUME IndInv, ESelect
  PROVE  IndInv'
<1> USE DEF IndInv, ESelect, mainVars, history
<1>1. FlagsOK'
  BY TypeParts DEF FlagsOK
<1>2. DataOK'
  BY TypeParts DEF DataOK, MainPcs, ExecPcs, Pids, StrayPid, AfterKill
<1>3. PidInv' /\ ReportedOnce'
  BY TypeParts DEF PidInv, DataOK, Pids, StrayPid, ReportedOnce
<1>4. MainInv' /\ StopCleared' /\ NoLostRun' /\ OneDone' /\ NoTestAfterStop'
  BY TypeParts
  DEF MainInv, StopOwesDone, StopCleared, NoLostRun, OneDone, NoTestAfterStop,
      DataOK, FlagsOK, AfterKill
<1> QED
  BY <1>1, <1>2, <1>3, <1>4 DEF TypeOK, FlagsOK, DataOK, MainPcs, ExecPcs

\* A DONE record read leaves the pipe for epc = "update".
LEMMA EReadStep ==
  ASSUME IndInv, ERead
  PROVE  IndInv'
<1> USE DEF IndInv, ERead, mainVars, history
<1>1. FlagsOK'
  BY TypeParts DEF FlagsOK
<1>2. DataOK'
  BY TailFacts, DoneAfterRead, TypeParts DEF DataOK, MainPcs, ExecPcs, Pids, StrayPid, AfterKill
<1>3. PidInv' /\ ReportedOnce'
  BY TypeParts DEF PidInv, DataOK, Pids, StrayPid, ReportedOnce
<1>4. MainInv' /\ StopCleared'
  BY TailFacts, DoneAfterRead, TypeParts DEF MainInv, StopOwesDone, StopCleared, FlagsOK
<1>5. NoLostRun'
  BY TailFacts, DoneAfterRead, TypeParts DEF MainInv, StopOwesDone, NoLostRun, DataOK, FlagsOK
<1>6. OneDone'
  BY TailFacts, DoneAfterRead, TypeParts DEF MainInv, StopOwesDone, OneDone, DataOK, FlagsOK
<1>7. NoTestAfterStop'
  BY TailFacts, DoneAfterRead, TypeParts DEF MainInv, StopOwesDone, NoTestAfterStop, DataOK, FlagsOK
<1> QED
  BY <1>1, <1>2, <1>3, <1>4, <1>5, <1>6, <1>7 DEF TypeOK, FlagsOK, DataOK, MainPcs, ExecPcs

LEMMA ECheckStep ==
  ASSUME IndInv, ECheck
  PROVE  IndInv'
<1> USE DEF IndInv, ECheck, mainVars, history
<1>1. FlagsOK'
  BY TypeParts DEF FlagsOK
<1>2. DataOK'
  BY TypeParts DEF DataOK, MainPcs, ExecPcs, Pids, StrayPid, AfterKill
<1>3. PidInv' /\ ReportedOnce'
  BY TypeParts DEF PidInv, DataOK, Pids, StrayPid, ReportedOnce
<1>4. MainInv' /\ StopCleared' /\ NoLostRun' /\ OneDone' /\ NoTestAfterStop'
  BY TypeParts
  DEF MainInv, StopOwesDone, StopCleared, NoLostRun, OneDone, NoTestAfterStop,
      DataOK, FlagsOK, AfterKill
<1> QED
  BY <1>1, <1>2, <1>3, <1>4 DEF TypeOK, FlagsOK, DataOK, MainPcs, ExecPcs

LEMMA ForkStep ==
  ASSUME IndInv, Fork
  PROVE  IndInv'
<1> USE DEF IndInv, Fork, mainVars, history
<1>1. FlagsOK'
  BY TypeParts DEF FlagsOK
<1>2. DataOK'
  <2>1. execute.cycle \in Nat /\ execute.test \in Nat
    BY TypeParts DEF DataOK, Record
  <2>2. (3 - child.pid) \in Pids
    BY TypeParts DEF DataOK, Pids
  <2>3. child' \in [pid : Pids, state : {"none", "alive", "signalled", "exited", "killed"}]
    BY <2>2
  <2>4. started' \in Nat \X Nat
    BY <2>1
  <2> QED
    BY <2>3, <2>4, TypeParts DEF DataOK, MainPcs, ExecPcs
<1>3. PidInv' /\ ReportedOnce'
  BY TypeParts DEF PidInv, DataOK, Pids, StrayPid, ReportedOnce
<1>4. MainInv' /\ StopCleared' /\ NoLostRun' /\ OneDone' /\ NoTestAfterStop'
  BY TypeParts
  DEF MainInv, StopOwesDone, StopCleared, NoLostRun, OneDone, NoTestAfterStop,
      DataOK, FlagsOK, AfterKill
<1> QED
  BY <1>1, <1>2, <1>3, <1>4 DEF TypeOK, FlagsOK, DataOK, MainPcs, ExecPcs

LEMMA AssignPidStep ==
  ASSUME IndInv, AssignPid
  PROVE  IndInv'
<1> USE DEF IndInv, AssignPid, mainVars, history
<1>1. FlagsOK'
  BY TypeParts DEF FlagsOK
<1>2. DataOK'
  BY TypeParts DEF DataOK, MainPcs, ExecPcs, Pids, StrayPid, AfterKill
<1>3. PidInv' /\ ReportedOnce'
  BY TypeParts DEF PidInv, DataOK, Pids, StrayPid, ReportedOnce
<1>4. MainInv' /\ StopCleared' /\ NoLostRun' /\ OneDone' /\ NoTestAfterStop'
  BY TypeParts
  DEF MainInv, StopOwesDone, StopCleared, NoLostRun, OneDone, NoTestAfterStop,
      DataOK, FlagsOK, AfterKill
<1> QED
  BY <1>1, <1>2, <1>3, <1>4 DEF TypeOK, FlagsOK, DataOK, MainPcs, ExecPcs

LEMMA ChildExitsStep ==
  ASSUME IndInv, ChildExits
  PROVE  IndInv'
<1> USE DEF IndInv, ChildExits, mainVars, history
<1>1. FlagsOK'
  BY TypeParts DEF FlagsOK
<1>2. DataOK'
  BY TypeParts DEF DataOK, MainPcs, ExecPcs, Pids, StrayPid, AfterKill
<1>3. PidInv' /\ ReportedOnce'
  BY TypeParts DEF PidInv, DataOK, Pids, StrayPid, ReportedOnce
<1>4. MainInv' /\ StopCleared' /\ NoLostRun' /\ OneDone' /\ NoTestAfterStop'
  BY TypeParts
  DEF MainInv, StopOwesDone, StopCleared, NoLostRun, OneDone, NoTestAfterStop,
      DataOK, FlagsOK, AfterKill
<1> QED
  BY <1>1, <1>2, <1>3, <1>4 DEF TypeOK, FlagsOK, DataOK, MainPcs, ExecPcs

LEMMA ChildDiesStep ==
  ASSUME IndInv, ChildDies
  PROVE  IndInv'
<1> USE DEF IndInv, ChildDies, mainVars, history
<1>1. FlagsOK'
  BY TypeParts DEF FlagsOK
<1>2. DataOK'
  BY TypeParts DEF DataOK, MainPcs, ExecPcs, Pids, StrayPid, AfterKill
<1>3. PidInv' /\ ReportedOnce'
  BY TypeParts DEF PidInv, DataOK, Pids, StrayPid, ReportedOnce
<1>4. MainInv' /\ StopCleared' /\ NoLostRun' /\ OneDone' /\ NoTestAfterStop'
  BY TypeParts
  DEF MainInv, StopOwesDone, StopCleared, NoLostRun, OneDone, NoTestAfterStop,
      DataOK, FlagsOK, AfterKill
<1> QED
  BY <1>1, <1>2, <1>3, <1>4 DEF TypeOK, FlagsOK, DataOK, MainPcs, ExecPcs

LEMMA ReapStep ==
  ASSUME IndInv, Reap
  PROVE  IndInv'
<1> USE DEF IndInv, Reap, mainVars, history
<1>1. FlagsOK'
  BY TypeParts DEF FlagsOK
<1>2. DataOK'
  <2>1. results' \in [Tests -> Nat]
    <3>1. results \in [Tests -> Nat]
      BY TypeParts DEF DataOK
    <3> QED
      BY <3>1, AddOne
  <2>2. child' \in [pid : Pids, state : {"none", "alive", "signalled", "exited", "killed"}]
    BY TypeParts DEF DataOK
  <2> QED
    BY <2>1, <2>2, TypeParts DEF DataOK, MainPcs, ExecPcs
<1>3. PidInv' /\ ReportedOnce'
  BY TypeParts DEF PidInv, DataOK, Pids, StrayPid, ReportedOnce
<1>4. MainInv' /\ StopCleared' /\ NoLostRun' /\ OneDone' /\ NoTestAfterStop'
  BY TypeParts
  DEF MainInv, StopOwesDone, StopCleared, NoLostRun, OneDone, NoTestAfterStop,
      DataOK, FlagsOK, AfterKill
<1> QED
  BY <1>1, <1>2, <1>3, <1>4 DEF TypeOK, FlagsOK, DataOK, MainPcs, ExecPcs

LEMMA AbandonStep ==
  ASSUME IndInv, Abandon
  PROVE  IndInv'
<1> USE DEF IndInv, Abandon, mainVars, history
<1>1. FlagsOK'
  BY TypeParts DEF FlagsOK
<1>2. DataOK'
  BY TypeParts DEF DataOK, MainPcs, ExecPcs, Pids, StrayPid, AfterKill
<1>3. PidInv' /\ ReportedOnce'
  BY TypeParts DEF PidInv, DataOK, Pids, StrayPid, ReportedOnce
<1>4. MainInv' /\ StopCleared' /\ NoLostRun' /\ OneDone' /\ NoTestAfterStop'
  BY TypeParts
  DEF MainInv, StopOwesDone, StopCleared, NoLostRun, OneDone, NoTestAfterStop,
      DataOK, FlagsOK, AfterKill
<1> QED
  BY <1>1, <1>2, <1>3, <1>4 DEF TypeOK, FlagsOK, DataOK, MainPcs, ExecPcs

\* Needs the pipe to be empty when a held DONE record is served, unless late.
LEMMA ServeUpdateStep ==
  ASSUME IndInv, ServeUpdate
  PROVE  IndInv'
<1>1. FlagsOK /\ DataOK /\ MainInv /\ PidInv /\ NoLostRun /\ OneDone /\ StopCleared
      /\ NoTestAfterStop /\ ReportedOnce
  BY TypeParts DEF IndInv
<1>2. Update(testtype, cycle, cyclescount, customtest)
  BY DEF ServeUpdate
<1>3. /\ cycle' \in Nat /\ stop' \in BOOLEAN /\ working' \in BOOLEAN /\ reports' \in Nat
      /\ exepipe' \in Seq(Record)
      /\ \/ /\ ~working' /\ ~stop' /\ exepipe' = exepipe
            /\ reports' = reports + (IF testtype = "COMPLEX" THEN 1 ELSE 0)
         \/ /\ working' /\ ~stop /\ ~stop' /\ reports' = reports
            /\ DoneIn(exepipe') # {}
            /\ exepipe = <<>> => DoneIn(exepipe') = {Len(exepipe')}
  BY <1>1, <1>2, UpdateFacts DEF DataOK
<1>4. /\ mpc = "loop" /\ ~fexit /\ epc = "update" /\ epc' = "select"
      /\ UNCHANGED <<testtype, cyclescount, customtest, childpid, child, results, fexit,
                     mpc, mpid, execute, starts, started, complexruns, stopped, late>>
  BY DEF ServeUpdate
<1>5. FlagsOK'
  BY <1>1, <1>3, <1>4 DEF FlagsOK
<1>6. DataOK'
  BY <1>1, <1>3, <1>4 DEF DataOK, ExecPcs
<1>7. PidInv'
  BY <1>1, <1>4 DEF PidInv
<1>8. MainInv' /\ StopCleared' /\ NoTestAfterStop'
  BY <1>3, <1>4 DEF MainInv, StopOwesDone, StopCleared, NoTestAfterStop
<1>9. NoLostRun'
  BY <1>3, <1>4 DEF NoLostRun
<1>10. OneDone'
  BY <1>1, <1>3, <1>4 DEF OneDone
<1>11. ReportedOnce'
  <2>1. ~late => working
    BY <1>1, <1>4 DEF OneDone
  <2>2. ~late => reports + (IF testtype = "COMPLEX" THEN 1 ELSE 0) = complexruns
    BY <1>1, <2>1 DEF ReportedOnce
  <2>3. CASE ~working'
    <3>1. reports' = reports + (IF testtype = "COMPLEX" THEN 1 ELSE 0)
      BY <1>3, <2>3
    <3>2. ~late => reports' + 0 = complexruns
      BY <1>1, <2>2, <3>1 DEF DataOK
    <3> QED
      BY <1>4, <2>3, <3>2, Zenon DEF ReportedOnce
  <2>4. CASE working'
    BY <1>1, <1>3, <1>4, <2>2, <2>4 DEF ReportedOnce, DataOK
  <2> QED
    BY <2>3, <2>4
<1> QED
  BY <1>5, <1>6, <1>7, <1>8, <1>9, <1>10, <1>11 DEF IndInv, TypeOK, FlagsOK, DataOK, MainPcs, ExecPcs

\* A start meets an idle thread and, unless late, an empty pipe.
LEMMA StartRunStep ==
  ASSUME IndInv, NEW tt \in {"COMPLEX", "CUSTOM"}, NEW n \in Nat, NEW ct \in 0 .. N,
         StartRun(tt, n, ct), results' \in [Tests -> Nat],
         complexruns' = complexruns + (IF tt = "COMPLEX" THEN 1 ELSE 0)
  PROVE  IndInv'
<1>1. FlagsOK /\ DataOK /\ MainInv /\ PidInv /\ NoLostRun /\ OneDone /\ StopCleared
      /\ NoTestAfterStop /\ ReportedOnce
  BY TypeParts DEF IndInv
<1>2. Update(tt, 0, n, ct)
  BY DEF StartRun
<1>3. /\ cycle' \in Nat /\ stop' \in BOOLEAN /\ working' \in BOOLEAN /\ reports' \in Nat
      /\ exepipe' \in Seq(Record)
      /\ \/ /\ ~working' /\ ~stop' /\ exepipe' = exepipe
            /\ reports' = reports + (IF tt = "COMPLEX" THEN 1 ELSE 0)
         \/ /\ working' /\ ~stop /\ ~stop' /\ reports' = reports
            /\ DoneIn(exepipe') # {}
            /\ exepipe = <<>> => DoneIn(exepipe') = {Len(exepipe')}
  BY <1>1, <1>2, UpdateFacts
<1>4. /\ mpc = "loop" /\ ~fexit /\ ~working
      /\ testtype' = tt /\ cyclescount' = n /\ customtest' = ct
      /\ starts' = starts + 1 /\ started' = <<0, 0>> /\ stopped' = FALSE
      /\ UNCHANGED <<childpid, child, fexit, mpc, mpid, epc, execute, late>>
  BY DEF StartRun
<1>5. FlagsOK'
  BY <1>1, <1>3, <1>4 DEF FlagsOK
<1>6. DataOK'
  BY <1>1, <1>3, <1>4 DEF DataOK
<1>7. PidInv'
  BY <1>1, <1>4 DEF PidInv
<1>8. MainInv' /\ StopCleared' /\ NoTestAfterStop'
  BY <1>3, <1>4 DEF MainInv, StopOwesDone, StopCleared, NoTestAfterStop
<1>9. NoLostRun'
  BY <1>3, <1>4 DEF NoLostRun
<1>10. OneDone'
  BY <1>1, <1>3, <1>4 DEF OneDone
<1>11. ReportedOnce'
  <2>1. ~late => reports = complexruns
    BY <1>1, <1>4 DEF ReportedOnce, DataOK
  <2>2. CASE ~working'
    <3>1. reports' = reports + (IF tt = "COMPLEX" THEN 1 ELSE 0)
      BY <1>3, <2>2
    <3>2. ~late => reports' + 0 = complexruns + (IF tt = "COMPLEX" THEN 1 ELSE 0)
      BY <1>1, <2>1, <3>1 DEF DataOK
    <3> QED
      BY <1>4, <2>2, <3>2, Zenon DEF ReportedOnce
  <2>3. CASE working'
    BY <1>1, <1>3, <1>4, <2>1, <2>3 DEF ReportedOnce, DataOK
  <2> QED
    BY <2>2, <2>3
<1> QED
  BY <1>5, <1>6, <1>7, <1>8, <1>9, <1>10, <1>11 DEF IndInv, TypeOK, FlagsOK, DataOK, MainPcs, ExecPcs

-----------------------------------------------------------------------------
LEMMA NextIndInv == IndInv /\ [Next]_vars => IndInv'
<1> SUFFICES ASSUME IndInv, [Next]_vars PROVE IndInv'
  OBVIOUS
<1>1. ASSUME NEW n \in 0 .. MaxCycles, StartComplex(n) PROVE IndInv'
  <2>1. n \in Nat /\ customtest \in 0 .. N
    BY TestExecAssumption DEF IndInv, TypeOK
  <2>2. results' \in [Tests -> Nat] /\ complexruns' = complexruns + 1
    BY <1>1 DEF StartComplex
  <2> QED
    BY <1>1, <2>1, <2>2, StartRunStep DEF StartComplex
<1>2. ASSUME NEW n \in 0 .. MaxCycles, NEW t \in Tests, StartCustom(t, n) PROVE IndInv'
  <2>1. n \in Nat /\ t \in 0 .. N
    BY TestExecAssumption DEF Tests
  <2>2. results' \in [Tests -> Nat] /\ complexruns' = complexruns + 0
    BY <1>2 DEF StartCustom, IndInv, TypeOK
  <2> QED
    BY <1>2, <2>1, <2>2, StartRunStep DEF StartCustom
<1>3. CASE UNCHANGED vars
  <2>1. FlagsOK' /\ DataOK'
    BY <1>3, TypeParts DEF vars, mainVars, history, FlagsOK, DataOK, IndInv
  <2> QED
    BY <1>3, <2>1, Zenon
    DEF vars, mainVars, history, IndInv, TypeOK, FlagsOK, DataOK, MainPcs, ExecPcs,
        MainInv, PidInv, StopOwesDone, NoLostRun, OneDone, NoTestAfterStop, StopCleared,
        ReportedOnce, DoneIn
<1> QED
  BY <1>1, <1>2, <1>3, StopKeyStep, DeleteKeyStep, QuitKeyStep, DtorStep,
     DrainSelectStep, DrainReadStep, PushDoneStep, ReadPidStep, KillChildStep,
     PushExitStep, JoinStep, ESelectStep, EReadStep, ECheckStep, ForkStep,
     AssignPidStep, ChildExitsStep, ChildDiesStep, ReapStep, AbandonStep,
     ServeUpdateStep
  DEF Next, Keys, Start, MainStep, ExecStep, Child

THEOREM Invariance == Spec => []IndInv
<1> QED
  BY InitIndInv, NextIndInv, PTL DEF Spec

\* The fields of TTest, the pipe and the two threads keep their types.
THEOREM TypeCorrect == Spec => []TypeOK
<1>1. IndInv => TypeOK
  BY DEF IndInv
<1> QED
  BY <1>1, Invariance, PTL

\* A run that works always has a DONE record to come, whatever Stop removes.
THEOREM RunNotLost == Spec => []NoLostRun
<1>1. IndInv => NoLostRun
  BY DEF IndInv
<1> QED
  BY <1>1, Invariance, PTL

\* Cycles do not overlap, and nothing is left of a run that has ended.
THEOREM DoneUnique == Spec => []OneDone
<1>1. IndInv => OneDone
  BY DEF IndInv
<1> QED
  BY <1>1, Invariance, PTL

\* No test of a stopped run is left in the pipe once Stop has emptied it.
THEOREM StopEmpties == Spec => []NoTestAfterStop
<1>1. IndInv => NoTestAfterStop
  BY DEF IndInv
<1> QED
  BY <1>1, Invariance, PTL

\* The flag stop does not outlive its run.
THEOREM StopTakenBack == Spec => []StopCleared
<1>1. IndInv => StopCleared
  BY DEF IndInv
<1> QED
  BY <1>1, Invariance, PTL

\* One verdict for every complex run.
THEOREM OneVerdict == Spec => []ReportedOnce
<1>1. IndInv => ReportedOnce
  BY DEF IndInv
<1> QED
  BY <1>1, Invariance, PTL

\* childpid names the child that runs, or no child of the thread.
THEOREM PidSafe == Spec => []PidIsOfChild
<1>1. IndInv => PidIsOfChild
  BY DEF IndInv, PidInv, PidIsOfChild
<1> QED
  BY <1>1, Invariance, PTL

-----------------------------------------------------------------------------
(* The tests in the pipe: their order and the results that are still to come *)

TestsIn(s) == {i \in 1 .. Len(s) : Is(s[i], "TEST")}

\* The execution thread holds a test, before its fork and up to its result.
HoldsTest  == epc \in {"check", "fork", "assign", "output"}
NotStarted == epc \in {"check", "fork"}

\* The tests held and waiting are those of the present cycle, each behind the
\* one started last and before the next.
Ordered ==
    /\ started[1] <= cycle
    /\ HoldsTest => Is(execute, "TEST") /\ execute.cycle = cycle
    /\ NotStarted => Before(started, <<execute.cycle, execute.test>>)
    /\ \A i \in TestsIn(exepipe) :
         /\ exepipe[i].cycle = cycle
         /\ Before(started, <<cycle, exepipe[i].test>>)
         /\ HoldsTest => execute.test < exepipe[i].test
    /\ \A i, j \in TestsIn(exepipe) : i < j => exepipe[i].test < exepipe[j].test

\* A test of the present cycle that has no result yet.
Pending(t) ==
    \/ \E i \in TestsIn(exepipe) : exepipe[i].test = t
    \/ HoldsTest /\ execute.test = t

\* One result for each cycle, the present one included if the test is done.
Counted ==
    /\ cycle <= cyclescount
    /\ \A t \in Tests : results[t] = cycle - (IF Pending(t) THEN 1 ELSE 0)

NoTests == TestsIn(exepipe) = {} /\ ~HoldsTest

OrderInv  == ~late => Ordered
IdleInv   == ~late /\ ~working => NoTests
StopInv   == stop => stopped \/ fexit
ResultInv == testtype = "COMPLEX" /\ working /\ ~stop /\ ~late => Counted

RunInv == OrderInv /\ IdleInv /\ StopInv /\ ResultInv /\ RunComplete

\* The tests of a sequence of records after a read, after the push of a record
\* that is no test, and in the records of one cycle.
LEMMA TestsAfterRead ==
  ASSUME NEW s \in Seq(Record), s # <<>>
  PROVE  /\ \A i \in TestsIn(Tail(s)) : i \in Nat \ {0} /\ i + 1 \in TestsIn(s) /\ Tail(s)[i] = s[i + 1]
         /\ \A i \in TestsIn(s) : i = 1 \/ (i - 1 \in TestsIn(Tail(s)) /\ Tail(s)[i - 1] = s[i])
         /\ 1 \in TestsIn(s) <=> Is(Head(s), "TEST")
         /\ TestsIn(s) \subseteq Nat \ {0}
         /\ Head(s) = s[1]
  BY TailFacts DEF TestsIn

LEMMA TestsAfterAppend ==
  ASSUME NEW s \in Seq(Record), NEW r \in {DoneRecord, ExitRecord}
  PROVE  /\ TestsIn(Append(s, r)) = TestsIn(s)
         /\ \A i \in TestsIn(s) : Append(s, r)[i] = s[i]
<1>1. r \in Record /\ ~Is(r, "TEST")
  BY TestExecAssumption DEF Record, DoneRecord, ExitRecord, Is
<1>2. /\ Len(Append(s, r)) = Len(s) + 1 /\ Append(s, r)[Len(s) + 1] = r
      /\ \A i \in 1 .. Len(s) : Append(s, r)[i] = s[i]
      /\ Len(s) \in Nat
  BY <1>1
<1>3. ASSUME NEW i \in TestsIn(Append(s, r)) PROVE i \in TestsIn(s)
  BY <1>1, <1>2, <1>3, i # Len(s) + 1 DEF TestsIn
<1>4. ASSUME NEW i \in TestsIn(s) PROVE i \in TestsIn(Append(s, r))
  BY <1>1, <1>2, <1>4 DEF TestsIn
<1>5. TestsIn(s) \subseteq 1 .. Len(s)
  BY DEF TestsIn
<1>6. TestsIn(Append(s, r)) = TestsIn(s)
  BY <1>3, <1>4
<1> QED
  BY <1>2, <1>5, <1>6

LEMMA TestsOfCycle ==
  ASSUME NEW c \in Nat
  PROVE  /\ TestsIn(ComplexCycle(c)) = Tests
         /\ \A i \in Tests : ComplexCycle(c)[i] = TestRecord(c, i)
         /\ \A t \in 0 .. N : /\ TestsIn(CustomCycle(c, t)) = {1}
                             /\ CustomCycle(c, t)[1] = TestRecord(c, t)
<1>1. PICK s : s = ComplexCycle(c)
  OBVIOUS
<1>2. s = [i \in 1 .. N + 1 |-> IF i <= N THEN TestRecord(c, i) ELSE DoneRecord]
  BY <1>1 DEF ComplexCycle
<1>3. Len(s) = N + 1
  <2>1. "COMPLEX" \in {"COMPLEX", "CUSTOM"} /\ 0 \in 0 .. N /\ N + 1 \in Nat
    BY TestExecAssumption
  <2>2. s \in Seq(Record)
    BY <1>1, <2>1, CycleFacts
  <2>3. DOMAIN s = 1 .. N + 1
    BY <1>2
  <2> QED
    BY <2>1, <2>2, <2>3, LenProperties
<1>4. ASSUME NEW i \in Tests PROVE i \in 1 .. N + 1 /\ s[i] = TestRecord(c, i)
  BY <1>2, TestExecAssumption DEF Tests
<1>5. s[N + 1] = DoneRecord
  BY <1>2, TestExecAssumption
<1>6. ASSUME NEW i \in 1 .. N + 1 PROVE Is(s[i], "TEST") <=> i \in Tests
  <2>1. i \in Tests => Is(s[i], "TEST")
    <3>1. ASSUME i \in Tests PROVE Is(s[i], "TEST")
      <4>1. s[i] = TestRecord(c, i)
        BY <3>1, <1>4
      <4>2. TestRecord(c, i).type = "TEST"
        BY DEF TestRecord
      <4> QED
        BY <4>1, <4>2 DEF Is
    <3> QED
      BY <3>1
  <2>2. i \notin Tests => i = N + 1
    BY TestExecAssumption DEF Tests
  <2>3. ~Is(s[N + 1], "TEST")
    BY <1>5 DEF Is, DoneRecord
  <2> QED
    BY <2>1, <2>2, <2>3
<1>7. TestsIn(s) = Tests
  BY <1>3, <1>4, <1>6 DEF TestsIn
<1>8. ASSUME NEW t \in 0 .. N
      PROVE  TestsIn(CustomCycle(c, t)) = {1} /\ CustomCycle(c, t)[1] = TestRecord(c, t)
  BY TestExecAssumption DEF CustomCycle, TestsIn, Is, TestRecord, DoneRecord
<1> QED
  BY <1>1, <1>4, <1>7, <1>8, Zenon

\* What the inductive invariant says of the values in these proofs.
LEMMA Values ==
  ASSUME IndInv
  PROVE  /\ cycle \in Nat /\ cyclescount \in Nat /\ customtest \in 0 .. N
         /\ exepipe \in Seq(Record) /\ execute \in Record
         /\ execute.cycle \in Nat /\ execute.test \in Nat
         /\ results \in [Tests -> Nat]
         /\ started \in Nat \X Nat /\ started[1] \in Nat /\ started[2] \in Nat
         /\ \A i \in TestsIn(exepipe) :
              i \in Nat /\ exepipe[i].cycle \in Nat /\ exepipe[i].test \in Nat
<1>1. /\ exepipe \in Seq(Record) /\ execute \in Record
      /\ cycle \in Nat /\ cyclescount \in Nat /\ customtest \in 0 .. N
      /\ results \in [Tests -> Nat] /\ started \in Nat \X Nat
  BY DEF IndInv, TypeOK
<1>2. \A r \in Record : r.cycle \in Nat /\ r.test \in Nat
  BY TestExecAssumption DEF Record
<1>3. ASSUME NEW i \in TestsIn(exepipe) PROVE i \in Nat /\ exepipe[i] \in Record
  BY <1>1, <1>3 DEF TestsIn
<1>4. started[1] \in Nat /\ started[2] \in Nat
  BY <1>1
<1> QED
  BY <1>1, <1>2, <1>3, <1>4

LEMMA InitRunInv == Init => RunInv
<1> SUFFICES ASSUME Init PROVE RunInv
  OBVIOUS
<1>1. TestsIn(exepipe) = {} /\ ~HoldsTest /\ ~NotStarted
  BY DEF Init, TestsIn, HoldsTest, NotStarted
<1>2. started[1] = 0 /\ cycle = 0
  BY DEF Init
<1>3. Ordered
  BY <1>1, <1>2 DEF Ordered
<1>4. RunComplete
  BY DEF Init, RunComplete
<1>5. ~working /\ ~stop
  BY DEF Init
<1> QED
  BY <1>1, <1>3, <1>4, <1>5 DEF RunInv, OrderInv, IdleInv, NoTests, StopInv, ResultInv

\* Steps that leave the tests and the counters alone: the pipe may get a record
\* that is no test, and a test held is dropped only while stop is set.
LEMMA RunInvKept ==
  ASSUME RunInv,
         UNCHANGED <<testtype, cycle, cyclescount, working, results, execute, starts, started>>,
         TestsIn(exepipe') = TestsIn(exepipe),
         \A i \in TestsIn(exepipe) : exepipe'[i] = exepipe[i],
         late => late', stop => stop', stopped => stopped', fexit => fexit',
         stop' => stop \/ stopped' \/ fexit',
         HoldsTest' => HoldsTest, NotStarted' => NotStarted,
         HoldsTest /\ ~HoldsTest' => stop'
  PROVE  RunInv'
<1>1. Ordered => Ordered'
  BY DEF Ordered, Before
<1>2. NoTests => NoTests'
  BY DEF NoTests
<1>3. HoldsTest' = HoldsTest => \A t : Pending(t)' = Pending(t)
  BY DEF Pending
<1>4. ASSUME HoldsTest' = HoldsTest, Counted PROVE Counted'
  BY <1>3, <1>4 DEF Counted
<1>5. HoldsTest' = HoldsTest \/ stop'
  BY DEF HoldsTest
<1>6. OrderInv' /\ IdleInv'
  BY <1>1, <1>2 DEF RunInv, OrderInv, IdleInv
<1>7. StopInv'
  BY DEF RunInv, StopInv
<1>8. ResultInv'
  BY <1>4, <1>5 DEF RunInv, ResultInv
<1>9. RunComplete'
  BY DEF RunInv, RunComplete
<1> QED
  BY <1>6, <1>7, <1>8, <1>9 DEF RunInv

\* The keys, Stop and Kill but for the pipe, the child, and the execution
\* thread between a record and its result.
QuietStep ==
    \/ StopKey \/ DeleteKey \/ QuitKey \/ Dtor \/ DrainSelect
    \/ ReadPid \/ KillChild \/ Join
    \/ ESelect \/ ECheck \/ AssignPid \/ Abandon \/ Child
    \/ UNCHANGED vars

LEMMA QuietStepKeeps ==
  ASSUME IndInv, RunInv, QuietStep
  PROVE  RunInv'
<1> USE DEF mainVars, history
<1>1. UNCHANGED <<testtype, cycle, cyclescount, working, exepipe, results, execute,
                  starts, started, late>>
  BY DEF QuietStep, StopKey, DeleteKey, QuitKey, Dtor, DrainSelect, ReadPid, KillChild,
         Join, ESelect, ECheck, AssignPid, Abandon, Child, ChildExits, ChildDies, vars
<1>2. /\ (stop => stop') /\ (stopped => stopped') /\ (fexit => fexit')
      /\ stop' => stop \/ stopped' \/ fexit'
  <2>1. CASE StopKey
    BY <2>1, Zenon DEF StopKey
  <2>2. CASE QuitKey
    BY <2>2, Zenon DEF QuitKey
  <2>3. CASE Dtor
    <3>1. fexit
      BY <2>3 DEF Dtor, IndInv, MainInv
    <3> QED
      BY <2>3, <3>1, Zenon DEF Dtor
  <2>4. CASE ~(StopKey \/ QuitKey \/ Dtor)
    <3>1. UNCHANGED <<stop, stopped, fexit>>
      BY <2>4 DEF QuietStep, DeleteKey, DrainSelect, ReadPid, KillChild, Join, ESelect,
         ECheck, AssignPid, Abandon, Child, ChildExits, ChildDies, vars
    <3> QED
      BY <3>1
  <2> QED
    BY <2>1, <2>2, <2>3, <2>4
<1>3. /\ HoldsTest' => HoldsTest
      /\ NotStarted' => NotStarted
      /\ HoldsTest /\ ~HoldsTest' => stop'
  BY DEF QuietStep, StopKey, DeleteKey, QuitKey, Dtor, DrainSelect, ReadPid, KillChild,
         Join, ESelect, ECheck, AssignPid, Abandon, Child, ChildExits, ChildDies, vars,
         HoldsTest, NotStarted
<1>4. late => late'
  BY <1>1
<1>5. /\ UNCHANGED <<testtype, cycle, cyclescount, working, results, execute, starts, started>>
      /\ TestsIn(exepipe') = TestsIn(exepipe)
      /\ \A i \in TestsIn(exepipe) : exepipe'[i] = exepipe[i]
  BY <1>1
<1> QED
  BY ONLY RunInv, <1>2, <1>3, <1>4, <1>5, RunInvKept

\* DONE and EXIT are no tests.
LEMMA PushKeeps ==
  ASSUME IndInv, RunInv, PushDone \/ PushExit
  PROVE  RunInv'
<1> USE DEF mainVars, history
<1>1. UNCHANGED <<testtype, cycle, cyclescount, stop, working, results, execute, fexit,
                  epc, starts, started, stopped>>
  BY DEF PushDone, PushExit
<1>2. late => late'
  <2>1. CASE PushDone
    BY <2>1, Zenon DEF PushDone
  <2>2. CASE PushExit
    BY <2>2 DEF PushExit
  <2> QED
    BY <2>1, <2>2
<1>3. PICK r \in {DoneRecord, ExitRecord} : exepipe' = Append(exepipe, r)
  BY DEF PushDone, PushExit
<1>4. /\ TestsIn(exepipe') = TestsIn(exepipe)
      /\ \A i \in TestsIn(exepipe) : exepipe'[i] = exepipe[i]
  BY <1>3, Values, TestsAfterAppend
<1>5. HoldsTest' = HoldsTest /\ NotStarted' = NotStarted
  BY <1>1 DEF HoldsTest, NotStarted
<1> QED
  BY ONLY RunInv, <1>1, <1>4, <1>5, <1>2, RunInvKept

\* What is left behind the first record keeps its order.
LEMMA TailOrdered ==
  ASSUME IndInv, exepipe # <<>>, exepipe' = Tail(exepipe)
  PROVE  /\ \A i \in TestsIn(exepipe') : i \in Nat \ {0} /\ i + 1 \in TestsIn(exepipe) /\ exepipe'[i] = exepipe[i + 1]
         /\ \A i \in TestsIn(exepipe) : i = 1 \/ (i - 1 \in TestsIn(exepipe') /\ exepipe'[i - 1] = exepipe[i])
         /\ 1 \in TestsIn(exepipe) <=> Is(exepipe[1], "TEST")
         /\ TestsIn(exepipe) \subseteq Nat \ {0}
         /\ Head(exepipe) = exepipe[1]
  BY Values, TestsAfterRead

\* Stop drains a run that works, and with the flag stop set nothing is counted.
LEMMA DrainReadKeeps ==
  ASSUME IndInv, RunInv, DrainRead
  PROVE  RunInv'
<1>1. /\ UNCHANGED <<testtype, cycle, cyclescount, stop, working, results, execute, fexit,
                     epc, starts, started, stopped, late>>
      /\ exepipe # <<>> /\ exepipe' = Tail(exepipe) /\ mpc = "read"
  BY DEF DrainRead, mainVars, history
<1>2. working /\ stop
  BY <1>1 DEF IndInv, MainInv, StopOwesDone
<1>3. Ordered => Ordered'
  <2>1. HoldsTest' = HoldsTest /\ NotStarted' = NotStarted
    BY <1>1 DEF HoldsTest, NotStarted
  <2>2. \A i \in TestsIn(exepipe') : i \in Nat \ {0} /\ i + 1 \in TestsIn(exepipe) /\ exepipe'[i] = exepipe[i + 1]
    BY <1>1, TailOrdered
  <2>3. ASSUME Ordered, NEW i \in TestsIn(exepipe')
        PROVE  /\ exepipe'[i].cycle = cycle
               /\ Before(started, <<cycle, exepipe'[i].test>>)
               /\ HoldsTest => execute.test < exepipe'[i].test
    BY <2>2, <2>3 DEF Ordered
  <2>4. ASSUME Ordered, NEW i \in TestsIn(exepipe'), NEW j \in TestsIn(exepipe'), i < j
        PROVE  exepipe'[i].test < exepipe'[j].test
    <3>1. i + 1 \in TestsIn(exepipe) /\ j + 1 \in TestsIn(exepipe) /\ i + 1 < j + 1
      BY <2>2, <2>4
    <3> QED
      BY <2>2, <2>4, <3>1 DEF Ordered
  <2> QED
    BY <1>1, <2>1, <2>3, <2>4 DEF Ordered
<1>4. OrderInv'
  BY <1>1, <1>3 DEF RunInv, OrderInv
<1>5. IdleInv' /\ ResultInv' /\ StopInv' /\ RunComplete'
  BY <1>1, <1>2 DEF RunInv, IdleInv, ResultInv, StopInv, RunComplete
<1> QED
  BY <1>4, <1>5 DEF RunInv

\* A test read is the first of those that waited.
LEMMA EReadKeeps ==
  ASSUME IndInv, RunInv, ERead
  PROVE  RunInv'
<1>1. /\ UNCHANGED <<testtype, cycle, cyclescount, stop, working, results, fexit,
                     starts, started, stopped, late>>
      /\ epc = "read" /\ exepipe # <<>> /\ exepipe' = Tail(exepipe)
      /\ execute' = Head(exepipe)
  BY DEF ERead, mainVars, history
<1>2. /\ \A i \in TestsIn(exepipe') :
            i \in Nat \ {0} /\ i + 1 \in TestsIn(exepipe) /\ exepipe'[i] = exepipe[i + 1]
      /\ \A i \in TestsIn(exepipe) :
            i = 1 \/ (i - 1 \in TestsIn(exepipe') /\ exepipe'[i - 1] = exepipe[i])
      /\ 1 \in TestsIn(exepipe) <=> Is(exepipe[1], "TEST")
      /\ TestsIn(exepipe) \subseteq Nat \ {0}
      /\ execute' = exepipe[1]
  BY <1>1, TailOrdered
<1>3. ~HoldsTest /\ (HoldsTest' <=> 1 \in TestsIn(exepipe)) /\ (NotStarted' => HoldsTest')
  <2>1. Head(exepipe) = exepipe[1] /\ Head(exepipe) \in Record
    BY <1>1, Values, TailFacts
  <2>2. CASE Is(exepipe[1], "TEST")
    <3>1. epc' = "check"
      BY <2>1, <2>2, Zenon DEF ERead, Is
    <3> QED
      BY <1>1, <1>2, <2>2, <3>1 DEF HoldsTest
  <2>3. CASE ~Is(exepipe[1], "TEST")
    <3>1. Is(Head(exepipe), "EXIT") \/ Is(Head(exepipe), "DONE")
      BY <2>1, <2>3 DEF Is, Record
    <3>2. epc' \in {"exited", "update"}
      BY <3>1 DEF ERead, Is
    <3> QED
      BY <1>1, <1>2, <2>3, <3>2 DEF HoldsTest, NotStarted
  <2> QED
    BY <2>2, <2>3
<1>4. ASSUME Ordered PROVE Ordered'
  <2>1. ASSUME NEW i \in TestsIn(exepipe')
        PROVE  /\ exepipe'[i].cycle = cycle
               /\ Before(started, <<cycle, exepipe'[i].test>>)
    BY <1>2, <1>4, <2>1 DEF Ordered
  <2>2. ASSUME NEW i \in TestsIn(exepipe'), NEW j \in TestsIn(exepipe'), i < j
        PROVE  exepipe'[i].test < exepipe'[j].test
    <3>1. i + 1 \in TestsIn(exepipe) /\ j + 1 \in TestsIn(exepipe) /\ i + 1 < j + 1
      BY <1>2, <2>2
    <3> QED
      BY <1>2, <1>4, <2>2, <3>1 DEF Ordered
  <2>3. ASSUME HoldsTest'
        PROVE  /\ Is(execute', "TEST") /\ execute'.cycle = cycle
               /\ Before(started, <<execute'.cycle, execute'.test>>)
    BY <1>2, <1>3, <1>4, <2>3 DEF Ordered
  <2>4. ASSUME HoldsTest', NEW i \in TestsIn(exepipe') PROVE execute'.test < exepipe'[i].test
    <3>1. 1 \in TestsIn(exepipe) /\ i + 1 \in TestsIn(exepipe) /\ 1 < i + 1
      BY <1>2, <1>3, <2>4
    <3> QED
      BY <1>2, <1>4, <2>4, <3>1 DEF Ordered
  <2> QED
    BY <1>1, <1>3, <1>4, <2>1, <2>2, <2>3, <2>4 DEF Ordered
<1>5. ASSUME NoTests PROVE NoTests'
  BY <1>2, <1>3, <1>5 DEF NoTests
<1>6. ASSUME NEW t PROVE Pending(t)' <=> Pending(t)
  <2>1. ASSUME NEW i \in TestsIn(exepipe'), exepipe'[i].test = t PROVE Pending(t)
    BY <1>2, <2>1 DEF Pending
  <2>2. ASSUME HoldsTest', execute'.test = t PROVE Pending(t)
    BY <1>2, <1>3, <2>2 DEF Pending
  <2>3. ASSUME NEW i \in TestsIn(exepipe), exepipe[i].test = t PROVE Pending(t)'
    BY <1>2, <1>3, <2>3 DEF Pending
  <2> QED
    BY <1>3, <2>1, <2>2, <2>3 DEF Pending
<1>7. ASSUME Counted PROVE Counted'
  BY <1>1, <1>6, <1>7 DEF Counted
<1>8. OrderInv' /\ IdleInv'
  BY <1>1, <1>4, <1>5 DEF RunInv, OrderInv, IdleInv
<1>9. StopInv' /\ ResultInv' /\ RunComplete'
  BY <1>1, <1>7 DEF RunInv, StopInv, ResultInv, RunComplete
<1> QED
  BY <1>8, <1>9 DEF RunInv

\* The test started is the one that was held, which comes after all started before.
LEMMA ForkKeeps ==
  ASSUME IndInv, RunInv, Fork
  PROVE  RunInv' /\ (~late => Before(started, started'))
<1>1. /\ UNCHANGED <<testtype, cycle, cyclescount, stop, working, exepipe, execute, results,
                     fexit, starts, stopped, late>>
      /\ epc = "fork" /\ epc' = "assign" /\ started' = <<execute.cycle, execute.test>>
  BY DEF Fork, mainVars
<1>2. HoldsTest /\ HoldsTest' /\ NotStarted /\ ~NotStarted'
  BY <1>1 DEF HoldsTest, NotStarted
<1>3. ASSUME Ordered PROVE Ordered' /\ Before(started, started')
  <2>1. started'[1] = cycle /\ started'[2] = execute.test
    BY <1>1, <1>2, <1>3 DEF Ordered
  <2>2. ASSUME NEW i \in TestsIn(exepipe) PROVE Before(started', <<cycle, exepipe[i].test>>)
    BY <1>2, <1>3, <2>1, <2>2 DEF Ordered, Before
  <2>3. started'[1] <= cycle
    BY <2>1, Values
  <2>4. Before(started, started')
    BY <1>1, <1>2, <1>3 DEF Ordered
  <2> QED
    BY <1>1, <1>2, <1>3, <2>2, <2>3, <2>4 DEF Ordered
<1>4. NoTests => NoTests'
  BY <1>1, <1>2 DEF NoTests
<1>5. \A t : Pending(t)' = Pending(t)
  BY <1>1, <1>2 DEF Pending
<1>6. Counted => Counted'
  BY <1>1, <1>5 DEF Counted
<1>7. OrderInv' /\ IdleInv' /\ StopInv' /\ ResultInv' /\ RunComplete'
  BY <1>1, <1>3, <1>4, <1>6 DEF RunInv, OrderInv, IdleInv, StopInv, ResultInv, RunComplete
<1> QED
  BY <1>3, <1>7 DEF RunInv, OrderInv

\* A test that gets its result was pending, and is the only one of its number.
LEMMA ReapKeeps ==
  ASSUME IndInv, RunInv, Reap
  PROVE  RunInv'
<1>1. /\ UNCHANGED <<testtype, cycle, cyclescount, stop, working, exepipe, execute,
                     fexit, starts, started, stopped, late>>
      /\ epc = "output" /\ epc' = "select"
      /\ results' = [results EXCEPT ![execute.test] = @ + 1]
  BY DEF Reap, mainVars, history
<1>2. HoldsTest /\ ~HoldsTest' /\ ~NotStarted'
  BY <1>1 DEF HoldsTest, NotStarted
<1>3. Ordered => Ordered'
  BY <1>1, <1>2 DEF Ordered
<1>4. ~NoTests
  BY <1>2 DEF NoTests
<1>5. ASSUME Ordered, Counted PROVE Counted'
  <2>1. ASSUME NEW t \in Tests PROVE results'[t] = cycle - (IF Pending(t)' THEN 1 ELSE 0)
    <3>1. results'[t] = IF t = execute.test THEN results[t] + 1 ELSE results[t]
      BY <1>1, Values
    <3>2. results[t] = cycle - (IF Pending(t) THEN 1 ELSE 0) /\ results[t] \in Nat
      BY <1>5, Values DEF Counted
    <3>3. CASE t = execute.test
      <4>1. Pending(t)
        BY <1>2, <3>3 DEF Pending
      <4>2. ASSUME NEW i \in TestsIn(exepipe) PROVE exepipe[i].test # t
        <5>1. execute.test < exepipe[i].test
          BY <1>2, <1>5 DEF Ordered
        <5>2. execute.test \in Nat /\ exepipe[i].test \in Nat
          BY Values
        <5> QED
          BY <3>3, <5>1, <5>2
      <4>3. ~(Pending(t)')
        BY <1>1, <1>2, <4>2 DEF Pending
      <4> QED
        BY <3>1, <3>2, <3>3, <4>1, <4>3, Values
    <3>4. CASE t # execute.test
      <4>1. Pending(t)' <=> Pending(t)
        BY <1>1, <1>2, <3>4 DEF Pending
      <4> QED
        BY <3>1, <3>2, <3>4, <4>1
    <3> QED
      BY <3>3, <3>4
  <2> QED
    BY <1>1, <1>5, <2>1 DEF Counted
<1>6. OrderInv' /\ IdleInv' /\ StopInv'
  BY <1>1, <1>3, <1>4 DEF RunInv, OrderInv, IdleInv, StopInv
<1>7. ResultInv'
  BY <1>1, <1>5 DEF RunInv, OrderInv, ResultInv
<1>8. RunComplete'
  BY <1>1, <1>4 DEF RunInv, IdleInv, RunComplete
<1> QED
  BY <1>6, <1>7, <1>8 DEF RunInv

\* Update on an empty pipe: no records, or those of the next cycle in the order
\* of their tests.
LEMMA UpdateTests ==
  ASSUME IndInv, NEW tt \in {"COMPLEX", "CUSTOM"}, NEW c \in Nat, NEW n \in Nat,
         NEW ct \in 0 .. N, Update(tt, c, n, ct), exepipe = <<>>
  PROVE  /\ cycle' = c + 1
         /\ \/ ~working' /\ TestsIn(exepipe') = {} /\ (c + 1 > n \/ stop)
            \/ /\ working' /\ c + 1 <= n
               /\ \A i \in TestsIn(exepipe') :
                    exepipe'[i].cycle = c + 1 /\ exepipe'[i].test \in Nat
               /\ \A i, j \in TestsIn(exepipe') : i < j => exepipe'[i].test < exepipe'[j].test
               /\ tt = "COMPLEX" =>
                    \A t \in Tests : \E i \in TestsIn(exepipe') : exepipe'[i].test = t
<1>1. cycle' = c + 1
  BY DEF Update
<1>2. CASE FinishRun(tt, c, n)
  <2>1. exepipe' = exepipe /\ ~working' /\ (c + 1 > n \/ stop)
    BY <1>2, Zenon DEF FinishRun
  <2>2. TestsIn(exepipe') = {}
    BY <2>1 DEF TestsIn
  <2> QED
    BY <1>1, <2>1, <2>2
<1>3. CASE NextCycle(tt, c, n, ct)
  <2>1. working' /\ ~(c + 1 > n)
    BY <1>3, Zenon DEF NextCycle
  <2>2. c + 1 <= n
    BY <2>1
  <2>3. PICK s : s = (IF tt = "COMPLEX" THEN ComplexCycle(c + 1) ELSE CustomCycle(c + 1, ct))
    OBVIOUS
  <2>4. exepipe' = s
    <3>1. exepipe' = <<>> \o s
      BY <1>3, <2>3 DEF NextCycle
    <3>2. s \in Seq(Record)
      BY <2>3, CycleFacts, c + 1 \in Nat, Zenon
    <3> QED
      BY <3>1, <3>2, ConcatEmptySeq
  <2>5. CASE tt = "COMPLEX"
    <3>1. TestsIn(exepipe') = Tests /\ \A i \in Tests : exepipe'[i] = TestRecord(c + 1, i)
      BY <2>3, <2>4, <2>5, TestsOfCycle, c + 1 \in Nat
    <3>2. ASSUME NEW i \in Tests
          PROVE  exepipe'[i].cycle = c + 1 /\ exepipe'[i].test = i /\ i \in Nat
      <4>1. exepipe'[i] = TestRecord(c + 1, i)
        BY <3>1
      <4>2. TestRecord(c + 1, i).cycle = c + 1 /\ TestRecord(c + 1, i).test = i
        BY DEF TestRecord
      <4> QED
        BY <4>1, <4>2 DEF Tests
    <3> QED
      BY <1>1, <2>1, <2>2, <3>1, <3>2
  <2>6. CASE tt = "CUSTOM"
    <3>1. TestsIn(exepipe') = {1} /\ exepipe'[1] = TestRecord(c + 1, ct)
      BY <2>3, <2>4, <2>6, TestsOfCycle, c + 1 \in Nat
    <3>2. exepipe'[1].cycle = c + 1 /\ exepipe'[1].test \in Nat
      BY <3>1 DEF TestRecord
    <3> QED
      BY <1>1, <2>1, <2>2, <2>6, <3>1, <3>2
  <2> QED
    BY <2>5, <2>6
<1> QED
  BY <1>2, <1>3 DEF Update

\* A cycle begins while nothing of an earlier one waits or is held.
LEMMA CycleBegins ==
  ASSUME IndInv, NEW tt \in {"COMPLEX", "CUSTOM"}, NEW c \in Nat, NEW n \in Nat,
         NEW ct \in 0 .. N, Update(tt, c, n, ct), exepipe = <<>>,
         ~HoldsTest', ~NotStarted', started' \in Nat \X Nat, started'[1] <= c
  PROVE  /\ Ordered'
         /\ ~working' => NoTests' /\ (c + 1 > n \/ stop)
         /\ working' /\ tt = "COMPLEX" /\ cyclescount' = n /\ (\A t \in Tests : results'[t] = c)
              => Counted'
<1>1. /\ cycle' = c + 1
      /\ \/ ~working' /\ TestsIn(exepipe') = {} /\ (c + 1 > n \/ stop)
         \/ /\ working' /\ c + 1 <= n
            /\ \A i \in TestsIn(exepipe') :
                 exepipe'[i].cycle = c + 1 /\ exepipe'[i].test \in Nat
            /\ \A i, j \in TestsIn(exepipe') : i < j => exepipe'[i].test < exepipe'[j].test
            /\ tt = "COMPLEX" =>
                 \A t \in Tests : \E i \in TestsIn(exepipe') : exepipe'[i].test = t
  BY UpdateTests
<1>2. started'[1] \in Nat
  OBVIOUS
<1>3. started'[1] <= cycle' /\ started'[1] < c + 1
  BY <1>1, <1>2
<1>4. ASSUME NEW i \in TestsIn(exepipe')
      PROVE  exepipe'[i].cycle = cycle' /\ Before(started', <<cycle', exepipe'[i].test>>)
  BY <1>1, <1>3 DEF Before
<1>5. ASSUME NEW i \in TestsIn(exepipe'), NEW j \in TestsIn(exepipe'), i < j
      PROVE  exepipe'[i].test < exepipe'[j].test
  BY <1>1, <1>5
<1>6. Ordered'
  BY <1>3, <1>4, <1>5 DEF Ordered
<1>7. ~working' => NoTests' /\ (c + 1 > n \/ stop)
  BY <1>1 DEF NoTests
<1>8. ASSUME working', tt = "COMPLEX", cyclescount' = n, \A t \in Tests : results'[t] = c
      PROVE  Counted'
  <2>1. ASSUME NEW t \in Tests PROVE Pending(t)'
    BY <1>1, <1>8 DEF Pending
  <2>2. ASSUME NEW t \in Tests PROVE results'[t] = cycle' - 1
    BY <1>1, <1>8
  <2>3. cycle' <= cyclescount'
    BY <1>1, <1>8
  <2> QED
    BY <2>1, <2>2, <2>3 DEF Counted
<1> QED
  BY <1>6, <1>7, <1>8

\* The end of a cycle: every test of it has its result.
LEMMA ServeUpdateKeeps ==
  ASSUME IndInv, RunInv, ServeUpdate
  PROVE  RunInv'
<1>1. /\ mpc = "loop" /\ ~fexit /\ epc = "update" /\ epc' = "select"
      /\ UNCHANGED <<testtype, cyclescount, results, fexit, execute, starts, started,
                     stopped, late>>
      /\ Update(testtype, cycle, cyclescount, customtest)
  BY DEF ServeUpdate
<1>2. ~HoldsTest /\ ~HoldsTest' /\ ~NotStarted'
  BY <1>1 DEF HoldsTest, NotStarted
<1>3. testtype \in {"COMPLEX", "CUSTOM"}
  BY DEF IndInv, TypeOK
<1>4. StopInv'
  <2>1. ~stop'
    BY <1>1, <1>3, Values, UpdateFacts
  <2> QED
    BY <2>1 DEF StopInv
<1>5. CASE late
  BY <1>1, <1>4, <1>5 DEF RunInv, OrderInv, IdleInv, ResultInv, RunComplete
<1>6. CASE ~late
  <2>1. exepipe = <<>> /\ working
    BY <1>1, <1>6 DEF IndInv, OneDone
  <2>2. Ordered
    BY <1>6 DEF RunInv, OrderInv
  <2>3. started' \in Nat \X Nat /\ started'[1] <= cycle
    BY <1>1, <2>2, Values DEF Ordered
  <2>4. /\ Ordered'
        /\ ~working' => NoTests' /\ (cycle + 1 > cyclescount \/ stop)
        /\ working' /\ testtype = "COMPLEX" /\ cyclescount' = cyclescount
              /\ (\A t \in Tests : results'[t] = cycle) => Counted'
    BY <1>1, <1>2, <1>3, <2>1, <2>3, Values, CycleBegins
  <2>5. ASSUME testtype = "COMPLEX", ~stop
        PROVE  cycle <= cyclescount /\ \A t \in Tests : results[t] = cycle
    <3>1. Counted
      BY <1>6, <2>1, <2>5 DEF RunInv, ResultInv
    <3>2. ASSUME NEW t PROVE ~Pending(t)
      BY <1>2, <2>1 DEF Pending, TestsIn
    <3> QED
      BY <3>1, <3>2, Values DEF Counted
  <2>6. OrderInv' /\ IdleInv'
    BY <2>4 DEF OrderInv, IdleInv
  <2>7. ResultInv'
    <3>1. CASE working'
      <4>1. ~stop
        BY <1>1, <1>3, <3>1, Values, UpdateFacts
      <4> QED
        BY <1>1, <2>4, <2>5, <4>1 DEF ResultInv
    <3>2. CASE ~working'
      BY <3>2 DEF ResultInv
    <3> QED
      BY <3>1, <3>2
  <2>8. RunComplete'
    <3>1. ASSUME testtype' = "COMPLEX", ~working', ~stopped', NEW t \in Tests
          PROVE  results'[t] = cyclescount'
      <4>1. ~stop
        BY <1>1, <3>1 DEF RunInv, StopInv
      <4>2. cycle + 1 > cyclescount /\ cycle <= cyclescount /\ results[t] = cycle
        BY <1>1, <2>4, <2>5, <3>1, <4>1
      <4>3. cycle = cyclescount
        BY <4>2, Values
      <4> QED
        BY <1>1, <4>2, <4>3
    <3> QED
      BY <3>1 DEF RunComplete
  <2> QED
    BY <1>4, <2>6, <2>7, <2>8 DEF RunInv
<1> QED
  BY <1>5, <1>6

\* A start: the thread is idle and, for a complex run, the counters are reset.
LEMMA StartRunKeeps ==
  ASSUME IndInv, RunInv, NEW tt \in {"COMPLEX", "CUSTOM"}, NEW n \in Nat, NEW ct \in 0 .. N,
         StartRun(tt, n, ct), tt = "COMPLEX" => \A t \in Tests : results'[t] = 0
  PROVE  RunInv'
<1>1. /\ mpc = "loop" /\ ~fexit /\ ~working
      /\ testtype' = tt /\ cyclescount' = n
      /\ started' = <<0, 0>> /\ UNCHANGED <<fexit, epc, execute, late>>
      /\ Update(tt, 0, n, ct)
  BY DEF StartRun
<1>2. ~stop /\ ~stop'
  <2>1. ~stop
    BY <1>1 DEF IndInv, StopCleared
  <2> QED
    BY <1>1, <2>1, UpdateFacts
<1>3. StopInv'
  BY <1>2 DEF StopInv
<1>4. CASE late
  BY <1>1, <1>3, <1>4 DEF RunInv, OrderInv, IdleInv, ResultInv, RunComplete
<1>5. CASE ~late
  <2>1. exepipe = <<>> /\ ~HoldsTest' /\ ~NotStarted'
    BY <1>1, <1>5 DEF IndInv, OneDone, HoldsTest, NotStarted
  <2>2. started' \in Nat \X Nat /\ started'[1] <= 0
    BY <1>1
  <2>3. /\ Ordered'
        /\ ~working' => NoTests' /\ (0 + 1 > n \/ stop)
        /\ working' /\ tt = "COMPLEX" /\ cyclescount' = n
              /\ (\A t \in Tests : results'[t] = 0) => Counted'
    BY <1>1, <2>1, <2>2, CycleBegins
  <2>4. OrderInv' /\ IdleInv'
    BY <2>3 DEF OrderInv, IdleInv
  <2>5. ResultInv'
    BY <1>1, <2>3 DEF ResultInv
  <2>6. RunComplete'
    <3>1. ASSUME testtype' = "COMPLEX", ~working', NEW t \in Tests
          PROVE  results'[t] = cyclescount'
      <4>1. 0 + 1 > n
        BY <1>2, <2>3, <3>1
      <4>2. n = 0
        BY <4>1
      <4> QED
        BY <1>1, <3>1, <4>2
    <3> QED
      BY <3>1 DEF RunComplete
  <2> QED
    BY <1>3, <2>4, <2>5, <2>6 DEF RunInv
<1> QED
  BY <1>4, <1>5

LEMMA NextRunInv == IndInv /\ RunInv /\ [Next]_vars => RunInv'
<1> SUFFICES ASSUME IndInv, RunInv, [Next]_vars PROVE RunInv'
  OBVIOUS
<1>1. ASSUME NEW n \in 0 .. MaxCycles, StartComplex(n) PROVE RunInv'
  <2>1. n \in Nat /\ customtest \in 0 .. N
    BY TestExecAssumption, Values
  <2>2. StartRun("COMPLEX", n, customtest) /\ \A t \in Tests : results'[t] = 0
    BY <1>1 DEF StartComplex
  <2> QED
    BY <2>1, <2>2, StartRunKeeps
<1>2. ASSUME NEW n \in 0 .. MaxCycles, NEW t \in Tests, StartCustom(t, n) PROVE RunInv'
  <2>1. n \in Nat /\ t \in 0 .. N
    BY TestExecAssumption DEF Tests
  <2>2. StartRun("CUSTOM", n, t)
    BY <1>2 DEF StartCustom
  <2> QED
    BY <2>1, <2>2, StartRunKeeps
<1> QED
  BY <1>1, <1>2, QuietStepKeeps, PushKeeps, DrainReadKeeps, EReadKeeps, ForkKeeps,
     ReapKeeps, ServeUpdateKeeps
  DEF Next, Keys, Start, MainStep, ExecStep, QuietStep

LEMMA RunInvariance == Spec => [](IndInv /\ RunInv)
<1>1. Init => IndInv /\ RunInv
  BY InitIndInv, InitRunInv
<1>2. (IndInv /\ RunInv) /\ [Next]_vars => (IndInv /\ RunInv)'
  BY NextIndInv, NextRunInv
<1> QED
  BY <1>1, <1>2, PTL DEF Spec

\* A complex run that nobody stopped has one result per cycle for every test.
THEOREM RunCounted == Spec => []RunComplete
<1>1. IndInv /\ RunInv => RunComplete
  BY DEF RunInv
<1> QED
  BY <1>1, RunInvariance, PTL

\* Only a start sets started back and only a fork sets it forward.
LEMMA StepInOrder ==
  ASSUME IndInv, RunInv, [Next]_vars
  PROVE  ~late /\ started' # started => started' = <<0, 0>> \/ Before(started, started')
<1>1. ASSUME NEW n, NEW tt, NEW ct, StartRun(tt, n, ct) PROVE started' = <<0, 0>>
  BY <1>1 DEF StartRun
<1>2. CASE Fork
  BY <1>2, ForkKeeps
<1>3. CASE QuietStep
  BY <1>3
  DEF QuietStep, StopKey, DeleteKey, QuitKey, Dtor, DrainSelect, ReadPid, KillChild, Join,
      ESelect, ECheck, AssignPid, Abandon, Child, ChildExits, ChildDies, vars, history
<1>4. CASE ServeUpdate \/ PushDone \/ PushExit \/ DrainRead \/ ERead \/ Reap
  BY <1>4 DEF ServeUpdate, PushDone, PushExit, DrainRead, ERead, Reap, history
<1> QED
  BY <1>1, <1>2, <1>3, <1>4
  DEF Next, Keys, Start, StartComplex, StartCustom, MainStep, ExecStep, QuietStep

\* No test starts out of its turn, unless a Stop met a DONE record already taken.
THEOREM TestsInOrder == Spec => ExecutionOrder
<1>1. IndInv /\ RunInv /\ [Next]_vars
      => [~late /\ started' # started => started' = <<0, 0>> \/ Before(started, started')]_vars
  BY StepInOrder
<1> QED
  BY <1>1, RunInvariance, PTL DEF Spec, ExecutionOrder

-----------------------------------------------------------------------------
(* How many DONE records there are at most. *)

LEMMA DoneFinite ==
  ASSUME NEW s \in Seq(Record)
  PROVE  IsFiniteSet(DoneIn(s)) /\ Cardinality(DoneIn(s)) \in Nat
<1>1. IsFiniteSet(1 .. Len(s)) /\ DoneIn(s) \in SUBSET (1 .. Len(s))
  BY FS_Interval DEF DoneIn
<1>2. IsFiniteSet(DoneIn(s))
  BY <1>1, FS_Subset
<1> QED
  BY <1>2, FS_CardinalityType

\* A read leaves no more of them, and one less if it takes one.
LEMMA DoneRead ==
  ASSUME NEW s \in Seq(Record), s # <<>>
  PROVE  /\ Cardinality(DoneIn(Tail(s))) <= Cardinality(DoneIn(s))
         /\ Is(Head(s), "DONE") => Cardinality(DoneIn(Tail(s))) + 1 <= Cardinality(DoneIn(s))
<1> DEFINE rest == DoneIn(Tail(s))
           all  == DoneIn(s)
           f    == [i \in rest |-> i + 1]
<1>1. /\ Tail(s) \in Seq(Record) /\ IsFiniteSet(all) /\ Cardinality(all) \in Nat
      /\ Cardinality(rest) \in Nat
  BY TailFacts, DoneFinite
<1>2. \A i \in rest : i \in Nat \ {0} /\ i + 1 \in all
  BY TailFacts DEF DoneIn
<1>3. Is(Head(s), "DONE") => 1 \in all
  BY TailFacts DEF DoneIn
<1> HIDE DEF rest, all
<1>4. f \in Injection(rest, all \ {1})
  BY <1>2 DEF Injection, IsInjective
<1>5. IsFiniteSet(all \ {1})
      /\ Cardinality(all \ {1}) = IF 1 \in all THEN Cardinality(all) - 1 ELSE Cardinality(all)
  BY <1>1, FS_RemoveElement
<1> HIDE DEF f
<1>6. Cardinality(rest) <= Cardinality(all \ {1})
  BY <1>4, <1>5, FS_Injection
<1>7. /\ Cardinality(rest) <= Cardinality(all)
      /\ 1 \in all => Cardinality(rest) + 1 <= Cardinality(all)
  BY <1>1, <1>5, <1>6
<1> QED
  BY <1>3, <1>7 DEF rest, all

\* The records of a cycle bring one, DONE pushed into an empty pipe is one, and
\* EXIT is none.
LEMMA DoneConcat ==
  ASSUME NEW s \in Seq(Record), NEW c \in Seq(Record), Len(c) \in Nat \ {0}, DoneIn(c) = {Len(c)}
  PROVE  Cardinality(DoneIn(s \o c)) = Cardinality(DoneIn(s)) + 1
<1> DEFINE last == Len(s) + Len(c)
<1>1. /\ Len(s) \in Nat /\ Len(s \o c) = last
      /\ \A i \in 1 .. last : (s \o c)[i] = IF i <= Len(s) THEN s[i] ELSE c[i - Len(s)]
  OBVIOUS
<1>2. PICK m \in Nat, k \in Nat \ {0} : m = Len(s) /\ k = Len(c)
  BY <1>1
<1>3. \A i \in 1 .. k : Is(c[i], "DONE") <=> i = k
  BY <1>2 DEF DoneIn
<1>4. ASSUME NEW i \in 1 .. m + k
      PROVE  Is((s \o c)[i], "DONE") <=> (i <= m /\ Is(s[i], "DONE")) \/ i = m + k
  <2>1. CASE i <= m
    BY <1>1, <1>2, <2>1
  <2>2. CASE ~(i <= m)
    <3>1. i - m \in 1 .. k /\ (i - m = k <=> i = m + k)
      BY <1>2, <2>2
    <3>2. (s \o c)[i] = c[i - m]
      BY <1>1, <1>2, <2>2
    <3> QED
      BY <1>3, <2>2, <3>1, <3>2
  <2> QED
    BY <2>1, <2>2
<1>5. DoneIn(s \o c) = DoneIn(s) \cup {m + k}
  <2>1. \A i : i \in DoneIn(s \o c) => i \in DoneIn(s) \cup {m + k}
    BY <1>1, <1>2, <1>4 DEF DoneIn
  <2>2. \A i : i \in DoneIn(s) \cup {m + k} => i \in DoneIn(s \o c)
    BY <1>1, <1>2, <1>4 DEF DoneIn
  <2> QED
    BY <2>1, <2>2
<1>6. m + k \notin DoneIn(s)
  BY <1>2 DEF DoneIn
<1> QED
  BY <1>5, <1>6, DoneFinite, FS_AddElement

LEMMA DonePush ==
  ASSUME NEW s \in Seq(Record)
  PROVE  /\ s = <<>> => Cardinality(DoneIn(Append(s, DoneRecord))) = 1
         /\ DoneIn(Append(s, ExitRecord)) = DoneIn(s)
<1>1. s = <<>> => DoneIn(Append(s, DoneRecord)) = {1}
  BY DEF DoneIn, DoneRecord, Is
<1>2. DoneIn(Append(s, ExitRecord)) = DoneIn(s)
  BY DEF DoneIn, ExitRecord, Is
<1> QED
  BY <1>1, <1>2, FS_Singleton

\* A finished run brings no DONE record, a cycle brings one.
LEMMA DoneUpdate ==
  ASSUME IndInv, NEW tt \in {"COMPLEX", "CUSTOM"}, NEW c \in Nat, NEW n \in Nat,
         NEW ct \in 0 .. N, Update(tt, c, n, ct)
  PROVE  \/ ~working' /\ exepipe' = exepipe
         \/ working' /\ Cardinality(DoneIn(exepipe')) = Cardinality(DoneIn(exepipe)) + 1
<1>1. exepipe \in Seq(Record)
  BY DEF IndInv, TypeOK
<1>2. CASE FinishRun(tt, c, n)
  BY <1>2 DEF FinishRun
<1>3. CASE NextCycle(tt, c, n, ct)
  <2>1. PICK s : s = IF tt = "COMPLEX" THEN ComplexCycle(c + 1) ELSE CustomCycle(c + 1, ct)
    OBVIOUS
  <2>2. exepipe' = exepipe \o s /\ working'
    BY <1>3, <2>1 DEF NextCycle
  <2>3. s \in Seq(Record) /\ Len(s) \in Nat \ {0} /\ DoneIn(s) = {Len(s)}
    <3>1. c + 1 \in Nat
      OBVIOUS
    <3> QED
      BY <2>1, <3>1, CycleFacts, Zenon
  <2> QED
    BY <1>1, <2>2, <2>3, DoneConcat
<1> QED
  BY <1>2, <1>3 DEF Update

\* Every step keeps the bound: only a run that is not working is started, into a
\* pipe with one DONE record at most, and Stop pushes into a pipe it has emptied.
LEMMA NextDones == ASSUME IndInv, AtMostTwoDone, [Next]_vars PROVE AtMostTwoDone'
<1>0. /\ exepipe \in Seq(Record) /\ Cardinality(DoneIn(exepipe)) \in Nat
      /\ working \in BOOLEAN /\ testtype \in {"COMPLEX", "CUSTOM"}
      /\ cycle \in Nat /\ cyclescount \in Nat /\ customtest \in 0 .. N
  BY DoneFinite DEF IndInv, TypeOK
<1>1. /\ Cardinality(DoneIn(exepipe)) <= 2
      /\ epc = "update" => Cardinality(DoneIn(exepipe)) <= 1
      /\ ~working => Cardinality(DoneIn(exepipe)) <= 1
      /\ ~working /\ epc = "update" => Cardinality(DoneIn(exepipe)) <= 0
  BY <1>0 DEF AtMostTwoDone
<1>2. ASSUME UNCHANGED <<exepipe, working>>, epc' = epc \/ epc' # "update"
      PROVE  AtMostTwoDone'
  BY <1>0, <1>1, <1>2 DEF AtMostTwoDone
<1>3. ASSUME NEW tt \in {"COMPLEX", "CUSTOM"}, NEW n \in Nat, NEW ct \in 0 .. N, StartRun(tt, n, ct)
      PROVE  AtMostTwoDone'
  <2>1. Update(tt, 0, n, ct) /\ ~working /\ epc' = epc
    BY <1>3 DEF StartRun
  <2>2. \/ ~working' /\ exepipe' = exepipe
        \/ working' /\ Cardinality(DoneIn(exepipe')) = Cardinality(DoneIn(exepipe)) + 1
    BY <2>1, DoneUpdate
  <2> QED
    BY <1>0, <1>1, <2>1, <2>2 DEF AtMostTwoDone
<1>4. CASE Start
  <2>1. PICK n \in 0 .. MaxCycles : StartComplex(n) \/ \E t \in Tests : StartCustom(t, n)
    BY <1>4 DEF Start
  <2>2. n \in Nat /\ \A t \in Tests : t \in 0 .. N
    BY TestExecAssumption DEF Tests
  <2> QED
    BY <1>0, <1>3, <2>1, <2>2 DEF StartComplex, StartCustom
<1>5. CASE ServeUpdate
  <2>1. Update(testtype, cycle, cyclescount, customtest) /\ epc = "update" /\ epc' = "select"
    BY <1>5 DEF ServeUpdate
  <2>2. \/ ~working' /\ exepipe' = exepipe
        \/ working' /\ Cardinality(DoneIn(exepipe')) = Cardinality(DoneIn(exepipe)) + 1
    BY <1>0, <2>1, DoneUpdate
  <2> QED
    BY <1>0, <1>1, <2>1, <2>2 DEF AtMostTwoDone
<1>6. CASE DrainRead
  <2>1. exepipe # <<>> /\ exepipe' = Tail(exepipe) /\ UNCHANGED <<working, epc>>
    BY <1>6 DEF DrainRead, mainVars
  <2>2. Cardinality(DoneIn(exepipe')) <= Cardinality(DoneIn(exepipe))
        /\ Cardinality(DoneIn(exepipe')) \in Nat
    BY <1>0, <2>1, DoneRead, TailFacts, DoneFinite
  <2> QED
    BY <1>0, <1>1, <2>1, <2>2 DEF AtMostTwoDone
<1>7. CASE PushDone
  <2>1. exepipe = <<>> /\ working
    BY <1>7 DEF PushDone, IndInv, MainInv, StopOwesDone
  <2>2. exepipe' = Append(exepipe, DoneRecord) /\ UNCHANGED <<working, epc>>
    BY <1>7 DEF PushDone, mainVars
  <2>3. Cardinality(DoneIn(exepipe')) = 1
    BY <1>0, <2>1, <2>2, DonePush
  <2> QED
    BY <2>1, <2>2, <2>3 DEF AtMostTwoDone
<1>8. CASE PushExit
  <2>1. exepipe' = Append(exepipe, ExitRecord) /\ UNCHANGED <<working, epc>>
    BY <1>8 DEF PushExit, mainVars
  <2>2. DoneIn(exepipe') = DoneIn(exepipe)
    BY <1>0, <2>1, DonePush
  <2> QED
    BY <1>0, <1>1, <2>1, <2>2 DEF AtMostTwoDone
<1>9. CASE ERead
  <2>1. /\ exepipe # <<>> /\ exepipe' = Tail(exepipe) /\ working' = working
        /\ epc' = "update" => Is(Head(exepipe), "DONE")
    <3>1. /\ epc = "read" /\ exepipe # <<>> /\ exepipe' = Tail(exepipe) /\ working' = working
          /\ epc' = CASE Is(Head(exepipe), "EXIT") -> "exited"
                    [] Is(Head(exepipe), "DONE") -> "update"
                    [] OTHER -> "check"
      BY <1>9 DEF ERead, mainVars
    <3>2. epc' = "update" => Is(Head(exepipe), "DONE")
      BY <3>1
    <3> QED
      BY <3>1, <3>2
  <2>2. /\ Cardinality(DoneIn(exepipe')) <= Cardinality(DoneIn(exepipe))
        /\ Cardinality(DoneIn(exepipe')) \in Nat
        /\ epc' = "update" => Cardinality(DoneIn(exepipe')) + 1 <= Cardinality(DoneIn(exepipe))
    BY <1>0, <2>1, DoneRead, TailFacts, DoneFinite
  <2> QED
    BY <1>0, <1>1, <2>1, <2>2 DEF AtMostTwoDone
<1>10. CASE StopKey \/ DeleteKey \/ QuitKey \/ Dtor \/ DrainSelect \/ ReadPid \/ KillChild \/ Join
  BY <1>2, <1>10 DEF StopKey, DeleteKey, QuitKey, Dtor, DrainSelect, ReadPid, KillChild, Join, mainVars
<1>11. CASE ESelect \/ ECheck \/ Fork \/ AssignPid \/ Reap \/ Abandon \/ ChildExits \/ ChildDies
  BY <1>2, <1>11 DEF ESelect, ECheck, Fork, AssignPid, Reap, Abandon, ChildExits, ChildDies, mainVars
<1>12. CASE UNCHANGED vars
  BY <1>2, <1>12 DEF vars, mainVars
<1> QED
  BY <1>4, <1>5, <1>6, <1>7, <1>8, <1>9, <1>10, <1>11, <1>12
  DEF Next, Keys, MainStep, ExecStep, Child

\* A Stop that meets a DONE already taken leaves a second one, and that is the
\* most there can ever be, whatever is started and stopped afterwards.
THEOREM DonesBounded == Spec => []AtMostTwoDone
<1>1. Init => AtMostTwoDone
  <2>1. Init => DoneIn(exepipe) = {} /\ epc = "select" /\ ~working
    BY DEF Init, DoneIn
  <2> QED
    BY <2>1, FS_EmptySet DEF AtMostTwoDone
<1>2. IndInv /\ AtMostTwoDone /\ [Next]_vars => AtMostTwoDone'
  BY NextDones
<1> QED
  BY <1>1, <1>2, Invariance, PTL DEF Spec
=============================================================================
