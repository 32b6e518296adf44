------------------------------ MODULE TestExec ------------------------------
(***************************************************************************)
(* The test runner of sberdevtest (class TTest).  The main thread starts,  *)
(* advances and stops a run; the execution thread takes records from the   *)
(* pipe exepipe, runs one child process per TEST record and asks the main  *)
(* thread for TTest::Update when it meets the DONE record of a cycle.      *)
(*                                                                         *)
(* The question of the execution thread is the synchronous call of module  *)
(* SyncCall (UI->DoLock( TEST_UPDATE )), here with one caller: epc is      *)
(* "update" from the call to the return.  A record of the pipe is taken in *)
(* one read; select and read stay apart, because TTest::Stop reads the     *)
(* same pipe from the main thread.  SLEEP records only delay the thread    *)
(* and are left out.  The list of tests is fixed during a run.             *)
(***************************************************************************)
EXTENDS Integers, Sequences, FiniteSets

CONSTANTS
    N,                \* tests of the complex run, in the order of complexnum
    MaxCycles,        \* bound: cycles asked of one run
    MaxStarts         \* bound: runs started

ASSUME TestExecAssumption ==
    /\ N \in Nat
    /\ MaxCycles \in Nat
    /\ MaxStarts \in Nat

VARIABLES
    testtype, cycle, cyclescount, customtest, stop, working,   \* fields of TTest
    exepipe,          \* the records written and not yet read
    childpid,         \* TTest::childpid, 0 for none
    child,            \* the child process of the execution thread
    results,          \* results[t]: results added to the complex item of t
    fexit,            \* the UI is closed
    mpc, mpid,        \* the main thread in Stop, Kill and ~TTest; Kill's copy
    epc, execute,     \* the execution thread and the record it holds
    starts,           \* history: runs started
    started,          \* history: cycle and test started last in this run
    reports,          \* history: verdicts given on complex runs
    complexruns,      \* history: complex runs started
    stopped,          \* history: Stop was called in this run
    late              \* history: a Stop met a DONE record already taken

mainVars == <<testtype, cycle, cyclescount, customtest, stop, working>>
history  == <<starts, started, reports, complexruns, stopped, late>>
vars == <<mainVars, exepipe, childpid, child, results, fexit, mpc, mpid,
          epc, execute, history>>

Tests == 1 .. N
Pids  == {1, 2}       \* consecutive children have different pids
StrayPid == 3         \* a pid that is no child of the execution thread

Record == [type : {"TEST", "DONE", "EXIT"}, cycle : Nat, test : 0 .. N]

TestRecord(c, t) == [type |-> "TEST", cycle |-> c, test |-> t]
DoneRecord == [type |-> "DONE", cycle |-> 0, test |-> 0]
ExitRecord == [type |-> "EXIT", cycle |-> 0, test |-> 0]

\* The records Update pushes for one cycle.
ComplexCycle(c) ==
    [i \in 1 .. N + 1 |-> IF i <= N THEN TestRecord(c, i) ELSE DoneRecord]
CustomCycle(c, t) == <<TestRecord(c, t), DoneRecord>>

\* Values and shapes of the state.
TypeOK ==
    /\ testtype \in {"COMPLEX", "CUSTOM"}
    /\ cycle \in Nat /\ cyclescount \in Nat
    /\ customtest \in 0 .. N
    /\ stop \in BOOLEAN /\ working \in BOOLEAN
    /\ exepipe \in Seq(Record)
    /\ childpid \in Pids \cup {0, StrayPid}
    /\ child \in [pid : Pids, state : {"none", "alive", "signalled", "exited", "killed"}]
    /\ results \in [Tests -> Nat]
    /\ fexit \in BOOLEAN
    /\ mpc \in {"loop", "dtor", "drain", "read", "push", "pid", "kill", "exit", "join", "gone"}
    /\ mpid \in Pids \cup {0, StrayPid}
    /\ epc \in {"select", "read", "check", "fork", "assign", "output", "update", "exited"}
    /\ execute \in Record
    /\ starts \in Nat /\ reports \in Nat /\ complexruns \in Nat
    /\ started \in Nat \X Nat
    /\ stopped \in BOOLEAN /\ late \in BOOLEAN

Init ==
    /\ testtype = "COMPLEX" /\ cycle = 0 /\ cyclescount = 0 /\ customtest = 0
    /\ stop = FALSE /\ working = FALSE
    /\ exepipe = <<>>
    /\ childpid \in {0, StrayPid}         \* the constructor leaves it unset
    /\ child = [pid |-> 1, state |-> "none"]
    /\ results = [t \in Tests |-> 0]
    /\ fexit = FALSE
    /\ mpc = "loop" /\ mpid = 0
    /\ epc = "select" /\ execute = DoneRecord
    /\ starts = 0 /\ started = <<0, 0>> /\ reports = 0 /\ complexruns = 0
    /\ stopped = FALSE /\ late = FALSE

Is(r, type) == r.type = type

-----------------------------------------------------------------------------
(* TTest::Update, run by the main thread.  Its arguments are the fields it  *)
(* reads, as they are when it is entered.                                   *)

\* The cycles are done or Stop was called: the run ends.
FinishRun(tt, c, n) ==
    /\ c + 1 > n \/ stop
    /\ stop' = FALSE
    /\ working' = FALSE
    /\ reports' = reports + (IF tt = "COMPLEX" THEN 1 ELSE 0)
    /\ UNCHANGED exepipe

\* The records of the next cycle are pushed.
NextCycle(tt, c, n, ct) ==
    /\ ~(c + 1 > n \/ stop)
    /\ working' = TRUE
    /\ exepipe' = exepipe \o (IF tt = "COMPLEX" THEN ComplexCycle(c + 1)
                                               ELSE CustomCycle(c + 1, ct))
    /\ UNCHANGED <<stop, reports>>

Update(tt, c, n, ct) ==
    /\ cycle' = c + 1
    /\ FinishRun(tt, c, n) \/ NextCycle(tt, c, n, ct)

-----------------------------------------------------------------------------
(* The main thread *)

\* Fault: the test if( working ) return is missing.
StartRunUnguarded(tt, n, ct) ==
    /\ mpc = "loop" /\ ~fexit /\ starts < MaxStarts
    /\ testtype' = tt /\ cyclescount' = n /\ customtest' = ct
    /\ Update(tt, 0, n, ct)
    /\ starts' = starts + 1 /\ started' = <<0, 0>> /\ stopped' = FALSE
    /\ UNCHANGED <<childpid, child, fexit, mpc, mpid, epc, execute, late>>

\* A start is accepted from the loop, when nothing runs (if( working ) return).
StartRun(tt, n, ct) ==
    /\ mpc = "loop" /\ ~fexit /\ starts < MaxStarts
    /\ ~working
    /\ testtype' = tt /\ cyclescount' = n /\ customtest' = ct
    /\ Update(tt, 0, n, ct)
    /\ starts' = starts + 1 /\ started' = <<0, 0>> /\ stopped' = FALSE
    /\ UNCHANGED <<childpid, child, fexit, mpc, mpid, epc, execute, late>>

\* Fault: the counters of the previous run are not reset.
StartComplexWithoutReset(n) ==
    /\ StartRun("COMPLEX", n, customtest)
    /\ complexruns' = complexruns + 1
    /\ UNCHANGED results

StartComplex(n) ==
    /\ StartRun("COMPLEX", n, customtest)
    /\ complexruns' = complexruns + 1
    /\ results' = [t \in Tests |-> 0]

StartCustom(t, n) ==
    /\ StartRun("CUSTOM", n, t)
    /\ UNCHANGED <<complexruns, results>>

\* DoLock( TEST_UPDATE ) of the execution thread is served.
ServeUpdate ==
    /\ mpc = "loop" /\ ~fexit
    /\ epc = "update"
    /\ Update(testtype, cycle, cyclescount, customtest)
    /\ epc' = "select"
    /\ UNCHANGED <<testtype, cyclescount, customtest, childpid, child, results,
                   fexit, mpc, mpid, execute, starts, started, complexruns,
                   stopped, late>>

\* Fault: Stop goes on although nothing works.
StopKeyUnguarded ==
    /\ mpc = "loop" /\ ~fexit
    /\ stop' = TRUE /\ stopped' = TRUE
    /\ mpc' = "drain"
    /\ UNCHANGED <<testtype, cycle, cyclescount, customtest, working, exepipe,
                   childpid, child, results, fexit, mpid, epc, execute,
                   starts, started, reports, complexruns, late>>

\* The button "Stop" and ESC call Stop while a run works.
StopKey ==
    /\ mpc = "loop" /\ ~fexit /\ working
    /\ stop' = TRUE /\ stopped' = TRUE
    /\ mpc' = "drain"
    /\ UNCHANGED <<testtype, cycle, cyclescount, customtest, working, exepipe,
                   childpid, child, results, fexit, mpid, epc, execute,
                   starts, started, reports, complexruns, late>>

\* The key DELETE calls Kill alone.
DeleteKey ==
    /\ mpc = "loop" /\ ~fexit
    /\ mpc' = "pid"
    /\ UNCHANGED <<mainVars, exepipe, childpid, child, results, fexit, mpid,
                   epc, execute, history>>

\* The exit dialog is answered: Run returns and main deletes Test.
QuitKey ==
    /\ mpc = "loop" /\ ~fexit
    /\ fexit' = TRUE
    /\ mpc' = "dtor"
    /\ UNCHANGED <<mainVars, exepipe, childpid, child, results, mpid, epc,
                   execute, history>>

\* ~TTest calls Stop, which returns at once unless a run works.
Dtor ==
    /\ mpc = "dtor"
    /\ stop' = TRUE
    /\ mpc' = IF working THEN "drain" ELSE "exit"
    /\ UNCHANGED <<testtype, cycle, cyclescount, customtest, working, exepipe,
                   childpid, child, results, fexit, mpid, epc, execute, history>>

\* Fault: Stop pushes DONE without emptying the pipe.
DrainSkipped ==
    /\ mpc = "drain"
    /\ mpc' = "push"
    /\ UNCHANGED <<mainVars, exepipe, childpid, child, results, fexit, mpid,
                   epc, execute, history>>

\* WaitPipe of Stop's loop: a record to read, or the timeout ends the loop.
DrainSelect ==
    /\ mpc = "drain"
    /\ mpc' = IF exepipe # <<>> THEN "read" ELSE "push"
    /\ UNCHANGED <<mainVars, exepipe, childpid, child, results, fexit, mpid,
                   epc, execute, history>>

\* read( ) of Stop's loop.  It waits when the execution thread was faster.
DrainRead ==
    /\ mpc = "read"
    /\ exepipe # <<>>
    /\ exepipe' = Tail(exepipe)
    /\ mpc' = "drain"
    /\ UNCHANGED <<mainVars, childpid, child, results, fexit, mpid, epc,
                   execute, history>>

\* Fault: Stop does not push DONE.
PushDoneForgotten ==
    /\ mpc = "push"
    /\ mpc' = "pid"
    /\ UNCHANGED <<mainVars, exepipe, childpid, child, results, fexit, mpid,
                   epc, execute, history>>

PushDone ==
    /\ mpc = "push"
    /\ exepipe' = Append(exepipe, DoneRecord)
    /\ late' = (late \/ epc = "update")
    /\ mpc' = "pid"
    /\ UNCHANGED <<mainVars, childpid, child, results, fexit, mpid, epc, execute,
                   starts, started, reports, complexruns, stopped>>

\* Where Kill returns to: the key's handler or ~TTest.
AfterKill == IF fexit THEN "exit" ELSE "loop"

\* Kill: int pid = childpid; if( pid == 0 ) return;
ReadPid ==
    /\ mpc = "pid"
    /\ mpid' = childpid
    /\ mpc' = IF childpid = 0 THEN AfterKill ELSE "kill"
    /\ UNCHANGED <<mainVars, exepipe, childpid, child, results, fexit, epc,
                   execute, history>>

\* kill_process_and_childs( pid ): reaches the child if it still has this pid.
KillChild ==
    /\ mpc = "kill"
    /\ child' = IF child.pid = mpid /\ child.state = "alive"
                THEN [child EXCEPT !.state = "signalled"] ELSE child
    /\ mpc' = AfterKill
    /\ mpid' = 0
    /\ UNCHANGED <<mainVars, exepipe, childpid, results, fexit, epc, execute,
                   history>>

\* Fault: ~TTest joins without pushing EXIT.
PushExitForgotten ==
    /\ mpc = "exit"
    /\ mpc' = "join"
    /\ UNCHANGED <<mainVars, exepipe, childpid, child, results, fexit, mpid, epc,
                   execute, history>>

PushExit ==
    /\ mpc = "exit"
    /\ exepipe' = Append(exepipe, ExitRecord)
    /\ mpc' = "join"
    /\ UNCHANGED <<mainVars, childpid, child, results, fexit, mpid, epc,
                   execute, history>>

Join ==
    /\ mpc = "join"
    /\ epc = "exited"
    /\ mpc' = "gone"
    /\ UNCHANGED <<mainVars, exepipe, childpid, child, results, fexit, mpid,
                   epc, execute, history>>

-----------------------------------------------------------------------------
(* The execution thread and its child *)

ESelect ==
    /\ epc = "select"
    /\ exepipe # <<>>
    /\ epc' = "read"
    /\ UNCHANGED <<mainVars, exepipe, childpid, child, results, fexit, mpc,
                   mpid, execute, history>>

\* The record is dispatched on its type.
ERead ==
    /\ epc = "read"
    /\ exepipe # <<>>
    /\ execute' = Head(exepipe)
    /\ exepipe' = Tail(exepipe)
    /\ epc' = CASE Is(Head(exepipe), "EXIT") -> "exited"
              [] Is(Head(exepipe), "DONE") -> "update"
              [] OTHER                     -> "check"
    /\ UNCHANGED <<mainVars, childpid, child, results, fexit, mpc, mpid, history>>

\* if( T->stop ) continue;
ECheck ==
    /\ epc = "check"
    /\ epc' = IF stop THEN "select" ELSE "fork"
    /\ UNCHANGED <<mainVars, exepipe, childpid, child, results, fexit, mpc,
                   mpid, execute, history>>

\* RunProcessIO forks; T->childpid is assigned when it has returned.
Fork ==
    /\ epc = "fork"
    /\ child' = [pid |-> 3 - child.pid, state |-> "alive"]
    /\ started' = <<execute.cycle, execute.test>>
    /\ epc' = "assign"
    /\ UNCHANGED <<mainVars, exepipe, childpid, results, fexit, mpc, mpid,
                   execute, starts, reports, complexruns, stopped, late>>

AssignPid ==
    /\ epc = "assign"
    /\ childpid' = child.pid
    /\ epc' = "output"
    /\ UNCHANGED <<mainVars, exepipe, child, results, fexit, mpc, mpid, execute,
                   history>>

ChildExits ==
    /\ child.state \in {"alive", "signalled"}
    /\ child' = [child EXCEPT !.state = "exited"]
    /\ UNCHANGED <<mainVars, exepipe, childpid, results, fexit, mpc, mpid, epc,
                   execute, history>>

ChildDies ==
    /\ child.state = "signalled"
    /\ child' = [child EXCEPT !.state = "killed"]
    /\ UNCHANGED <<mainVars, exepipe, childpid, results, fexit, mpc, mpid, epc,
                   execute, history>>

\* Fault: childpid keeps the pid of the child that was waited for.
ReapKeepsPid ==
    /\ epc = "output"
    /\ child.state \in {"exited", "killed"}
    /\ results' = [results EXCEPT ![execute.test] = @ + 1]
    /\ child' = [child EXCEPT !.state = "none"]
    /\ epc' = "select"
    /\ UNCHANGED <<mainVars, exepipe, childpid, fexit, mpc, mpid, execute, history>>

\* Fault: "no child" is written as -1, which Kill takes for a pid.
ReapWritesMinusOne ==
    /\ epc = "output"
    /\ child.state \in {"exited", "killed"}
    /\ results' = [results EXCEPT ![execute.test] = @ + 1]
    /\ child' = [child EXCEPT !.state = "none"]
    /\ childpid' = -1
    /\ epc' = "select"
    /\ UNCHANGED <<mainVars, exepipe, fexit, mpc, mpid, execute, history>>

\* The output ends, the child is waited for, its result (exit, signal) recorded.
Reap ==
    /\ epc = "output"
    /\ child.state \in {"exited", "killed"}
    /\ results' = [results EXCEPT ![execute.test] = @ + 1]
    /\ child' = [child EXCEPT !.state = "none"]
    /\ childpid' = 0
    /\ epc' = "select"
    /\ UNCHANGED <<mainVars, exepipe, fexit, mpc, mpid, execute, history>>

\* Fault: DoLock returns unserved at any time.
AbandonAlways ==
    /\ epc = "update"
    /\ epc' = "select"
    /\ UNCHANGED <<mainVars, exepipe, childpid, child, results, fexit, mpc,
                   mpid, execute, history>>

\* DoLock may return unserved when the UI is closed.
Abandon ==
    /\ epc = "update" /\ fexit
    /\ epc' = "select"
    /\ UNCHANGED <<mainVars, exepipe, childpid, child, results, fexit, mpc,
                   mpid, execute, history>>

-----------------------------------------------------------------------------
Start == \E n \in 0 .. MaxCycles : StartComplex(n) \/ \E t \in Tests : StartCustom(t, n)

Keys == Start \/ StopKey \/ DeleteKey \/ QuitKey

MainStep ==
    \/ Dtor \/ DrainSelect \/ DrainRead \/ PushDone
    \/ ReadPid \/ KillChild \/ PushExit \/ Join

ExecStep ==
    ESelect \/ ERead \/ ECheck \/ Fork \/ AssignPid \/ Reap \/ Abandon

Child == ChildExits \/ ChildDies

Next == Keys \/ ServeUpdate \/ MainStep \/ ExecStep \/ Child

Spec == Init /\ [][Next]_vars

\* Where the execution thread calls DoLock: for Update, and in its lines of the log
\* and its dialogs before and after a test.
UiCalls == {"update", "check", "output"}

\* When the UI is closed nobody is owed the return of such a call: Run sets
\* event_done once more when it ends, which releases one caller, and the thread of
\* the sensor panel or of a timer may be the one (LastWaiterReleased of UiLoop).
OwedStep == (fexit => epc \notin UiCalls) /\ ExecStep

\* The threads run and every test module ends some day; keys are not owed.
\* The loop serves an event in a round of getch that finds no key; keys come
\* with gaps, so ServeUpdate cannot be put off by DELETE for ever (SF).
Fairness ==
    SF_vars(ServeUpdate) /\ WF_vars(MainStep) /\ WF_vars(OwedStep) /\ WF_vars(Child)

FairSpec == Spec /\ Fairness

-----------------------------------------------------------------------------
(* What the runner promises *)

DoneIn(s) == {i \in 1 .. Len(s) : Is(s[i], "DONE")}

\* The DONE record that the main thread is about to put back.
StopOwesDone == mpc \in {"drain", "read", "push"}

\* While a run works there is a DONE record to come: without one, nobody would
\* call Update again and the run would stay "working" until the program is left.
NoLostRun ==
    working /\ ~fexit => DoneIn(exepipe) # {} \/ epc = "update" \/ StopOwesDone

\* Unless some Stop came while the execution thread already held a DONE record,
\* there is one DONE record, behind all tests of the cycle, exactly while a run
\* works: cycles neither overlap nor go on after the run has ended.
OneDone ==
    ~late /\ ~fexit =>
        /\ ~working => exepipe = <<>> /\ epc \notin {"read", "check", "fork",
                                                    "assign", "output", "update"}
        /\ epc = "update" => exepipe = <<>>
        /\ DoneIn(exepipe) \subseteq {Len(exepipe)}

\* Even then a second DONE record is the most there can be.
AtMostTwoDone ==
    Cardinality(DoneIn(exepipe)) + (IF epc = "update" THEN 1 ELSE 0)
        <= (IF working THEN 2 ELSE 1)

\* After Stop has emptied the pipe no test of the stopped run is left in it, so
\* none can be started when the flag stop is taken back.
NoTestAfterStop ==
    stop /\ working /\ mpc \notin {"dtor", "drain", "read"} =>
        \A i \in 1 .. Len(exepipe) : ~Is(exepipe[i], "TEST")

\* The flag stop never outlives its run, so it cannot end the next one.
StopCleared == ~working /\ ~fexit => ~stop

\* A complex run that nobody stopped ends with one result per cycle for every
\* test, tests killed with DELETE included; none of an earlier run is counted.
RunComplete ==
    testtype = "COMPLEX" /\ starts > 0 /\ ~working /\ ~stopped /\ ~late =>
        \A t \in Tests : results[t] = cyclescount

\* Every complex run gets one verdict (log copied, server told), if no Stop
\* met a DONE record already taken.
ReportedOnce ==
    ~late => reports + (IF working /\ testtype = "COMPLEX" THEN 1 ELSE 0) = complexruns

Before(a, b) == a[1] < b[1] \/ (a[1] = b[1] /\ a[2] < b[2])

\* Tests are started in the order of cycles and, in a cycle, of complexnum, each
\* once, unless a Stop met a DONE record already taken: the record too many can
\* end a run before its tests, which a third run then starts once more.
ExecutionOrder ==
    [][~late /\ started' # started =>
         started' = <<0, 0>> \/ Before(started, started')]_vars

\* One child at a time, and Kill finds the pid of the live one unless it was
\* forked a moment ago: childpid never names a child that was waited for.
PidIsOfChild == childpid \in Pids => childpid = child.pid /\ child.state # "none"

\* A run ends, or somebody has called Stop.
RunEnds == working ~> (~working \/ stop)

\* No call of DoLock keeps the execution thread for ever.
CallsReturn == []<>(epc \notin UiCalls)

\* Once EXIT is pushed ~TTest returns, if the calls of the execution thread do: it
\* reads all that Stop has left and pushed, and then EXIT.  (Without the condition
\* the join can hang: DtorReturns.)
QuitJoins == CallsReturn => ((mpc = "join") ~> (mpc = "gone"))

-----------------------------------------------------------------------------
(* What comments and texts of the program say, or one would expect, and the *)
(* code does not do                                                         *)

\* ReadPipe returns 0 after its timeout, so the loop of Stop comes to an end.
StopReturns == (mpc = "drain") ~> (mpc \in {"loop", "join"})

\* ~TTest returns when the program is left.
DtorReturns == (mpc = "join") ~> (mpc = "gone")

\* "Complex test finished": a run declared finished does not go on by itself.
FinishedStaysFinished == [][~working /\ working' => starts' > starts]_vars

ChildRuns == child.state = "alive"
KillReturns == mpc \in {"pid", "kill"} /\ mpc' \in {"loop", "exit"}

\* DELETE is the emergency stop: when Kill returns, no test started before it
\* keeps running unsignalled.
KillReachesChild == [][KillReturns => ~ChildRuns']_vars
=============================================================================
