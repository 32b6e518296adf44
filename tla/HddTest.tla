------------------------------- MODULE HddTest -------------------------------
(***************************************************************************)
(* The program hdd: dd is run for every mode, three times at most, and its *)
(* lines are read.  A watchdog, started again at every line, ends the      *)
(* program in a thread of its own when dd is silent.                       *)
(***************************************************************************)
EXTENDS TestProgram

CONSTANTS
    MaxLines,         \* bound: lines of one dd
    MaxTurns          \* bound: turns in the time of a stress

ASSUME HddAssumption == MaxLines \in Nat /\ MaxTurns \in Nat

VARIABLE hdd

Plans == {<<>>, <<"read">>, <<"write">>, <<"read", "write">>}

HddTypeOK ==
    hdd \in [stress: BOOLEAN, asked: Plans, plan: Plans, turns: 0 .. MaxTurns, attempt: 0 .. 2,
             dd: {"none", "runs", "exited"}, status: 0 .. 1, fast: BOOLEAN, lines: 0 .. MaxLines,
             dog: {"off", "armed", "fired", "exits"}, good: SUBSET {"read", "write"}]

InitHdd ==
    hdd \in StartOf({"hdd"},
       [stress: BOOLEAN, asked: {<<>>}, plan: {<<>>}, turns: {0}, attempt: {0}, dd: {"none"},
        status: {0}, fast: {FALSE}, lines: {0}, dog: {"off"}, good: {{}}])

\* ExecuteStorageBenchmarks up to its loop.  The write test of a mounted device
\* is left out, which may leave nothing.
HddStart ==
    /\ At("hdd", "start")
    /\ \/ Throw /\ UNCHANGED hdd
       \/ \E plan \in Plans:
             Go("mode") /\ hdd' = [hdd EXCEPT !.asked = plan, !.plan = plan]

NextMode ==
    /\ At("hdd", "mode")
    /\ hdd.plan # <<>>
    /\ Go("spawn")
    /\ hdd' = [hdd EXCEPT !.attempt = 0]

EndTurn ==
    /\ At("hdd", "mode")
    /\ hdd.plan = <<>>
    /\ \/ Go("ok") /\ UNCHANGED hdd
       \/ /\ hdd.turns < MaxTurns
          /\ Go("mode")
          /\ hdd' = [hdd EXCEPT !.turns = @ + 1, !.plan = hdd.asked]

\* RunProcessIO and the timers, which are started for a dd that failed to
\* start, too.
Spawn ==
    /\ At("hdd", "spawn")
    /\ \E started \in RunProcess:
       \/ /\ started = "runs"
          /\ Go("read")
          /\ hdd' = [hdd EXCEPT !.dd = "runs", !.fast = FALSE, !.lines = 0,
                                !.dog = IF @ = "off" THEN "armed" ELSE @]
       \/ /\ started = "failed" /\ hdd.attempt = 2
          /\ Throw
          /\ hdd' = [hdd EXCEPT !.good = @ \ {Head(hdd.plan)}]
       \/ /\ started = "failed" /\ hdd.attempt < 2
          /\ Go("wait")
          /\ hdd' = [hdd EXCEPT !.dd = "exited", !.status = 1, !.fast = FALSE,
                                !.dog = IF @ = "off" THEN "armed" ELSE @,
                                !.good = @ \ {Head(hdd.plan)}]

\* A line with the speed so far; the watchdog starts again.
ReadLine ==
    /\ At("hdd", "read")
    /\ hdd.dd = "runs"
    /\ hdd.lines < MaxLines
    /\ \E fast \in BOOLEAN: hdd' = [hdd EXCEPT !.fast = fast, !.lines = @ + 1]
    /\ UNCHANGED program

Exited(status) ==
    [hdd EXCEPT !.dd = "exited", !.status = status,
                !.good = IF status = 0 /\ (hdd.stress \/ hdd.fast) THEN @ \cup {Head(hdd.plan)}
                         ELSE @ \ {Head(hdd.plan)}]

DdExits ==
    /\ Alive
    /\ hdd.dd = "runs"
    /\ \E status \in 0 .. 1: hdd' = Exited(status)
    /\ UNCHANGED program

EndOfLines == At("hdd", "read") /\ hdd.dd = "exited" /\ Go("wait") /\ UNCHANGED hdd

WaitDd ==
    /\ At("hdd", "wait")
    /\ hdd.dd = "exited"
    /\ Go("timers")
    /\ hdd' = [hdd EXCEPT !.dd = "none"]

\* A watchdog that has fired is not stopped any more.
StopTimers ==
    /\ At("hdd", "timers")
    /\ Go("judge")
    /\ hdd' = [hdd EXCEPT !.dog = IF @ = "armed" THEN "off" ELSE @]

Failed == hdd.status # 0 \/ (~hdd.stress /\ ~hdd.fast)

\* Fault: the third failure is not an exception, the loop just ends.
JudgeFault ==
    /\ At("hdd", "judge")
    /\ IF Failed /\ hdd.attempt < 2
       THEN Go("spawn") /\ hdd' = [hdd EXCEPT !.attempt = @ + 1]
       ELSE Go("mode") /\ hdd' = [hdd EXCEPT !.plan = Tail(@)]

Judge ==
    /\ At("hdd", "judge")
    /\ \/ ~Failed /\ Go("mode") /\ hdd' = [hdd EXCEPT !.plan = Tail(@)]
       \/ Failed /\ hdd.attempt < 2 /\ Go("spawn") /\ hdd' = [hdd EXCEPT !.attempt = @ + 1]
       \/ Failed /\ hdd.attempt = 2 /\ Throw /\ UNCHANGED hdd

\* HandleWatchdogTimeout: a message that is no verdict, killchilds, exit.
DogFires ==
    /\ Alive
    /\ hdd.dog = "armed"
    /\ hdd' = [hdd EXCEPT !.dog = "fired"]
    /\ UNCHANGED program

DogKills ==
    /\ Alive
    /\ hdd.dog = "fired"
    /\ hdd' = [(IF hdd.dd = "runs" THEN Exited(1) ELSE hdd) EXCEPT !.dog = "exits"]
    /\ UNCHANGED program

DogExits == Alive /\ hdd.dog = "exits" /\ Go("end") /\ UNCHANGED hdd

HddMain == HddStart \/ NextMode \/ EndTurn \/ Spawn \/ ReadLine \/ EndOfLines \/ WaitDd
              \/ StopTimers \/ Judge

Watchdog == DogFires \/ DogKills \/ DogExits

HddNext == HddMain \/ DdExits \/ Watchdog

\* The last dd of every mode succeeded, fast enough unless in a stress.
HddPassed == \A i \in DOMAIN hdd.asked: hdd.asked[i] \in hdd.good
=============================================================================
