------------------------------- MODULE LanTest -------------------------------
(***************************************************************************)
(* The program lan: pings with answers that are lost or late, and, in a    *)
(* stress, a thread that watches the speed of the link.  The monitor is an *)
(* object of the test's frame, whose destructor joins the thread.          *)
(***************************************************************************)
EXTENDS TestProgram

CONSTANT MaxPings     \* bound: pings in the time of the test

ASSUME LanAssumption == MaxPings \in Nat

VARIABLE lan

LanTypeOK ==
    lan \in [stress: BOOLEAN, limit: 0 .. 1, seq: Nat, result: {"none", "ok"}, warnings: 0 .. 1,
             failures: 0 .. 1, net: SUBSET Nat, answered: BOOLEAN, misread: BOOLEAN,
             monitor: {"none", "check", "sleep", "ended"}, object: BOOLEAN, finished: BOOLEAN]

InitLan ==
    lan \in StartOf({"lan"},
       [stress: BOOLEAN, limit: 0 .. 1, seq: {0}, result: {"none"}, warnings: {0}, failures: {0},
        net: {{}}, answered: {TRUE}, misread: {FALSE}, monitor: {"none"}, object: {FALSE},
        finished: {TRUE}])

\* The parameters and the interface; then the frame has its monitor.  Without
\* a ping there is nothing to do.
LanStart ==
    /\ At("lan", "start")
    /\ \/ (Throw \/ Go("ok")) /\ UNCHANGED lan
       \/ Go("link") /\ lan' = [lan EXCEPT !.object = TRUE]

\* An exception of the frame.
Unwind == Go("unwind")

\* CLinkSpeedMonitor::Start, or one look at the link, when a speed is expected.
CheckLink ==
    /\ At("lan", "link")
    /\ \/ Unwind /\ lan' = [lan EXCEPT !.finished = ~lan.stress]
       \/ Go("open") /\ UNCHANGED lan
       \/ Go("open") /\ lan' = [lan EXCEPT !.finished = ~lan.stress,
                                           !.monitor = IF lan.stress THEN "check" ELSE @]

OpenIcmp == At("lan", "open") /\ (Go("send") \/ Unwind) /\ UNCHANGED lan

\* HandleInterfaceUpdate and icmp.send; the answer may never come.
Send ==
    /\ At("lan", "send")
    /\ \/ Unwind /\ UNCHANGED lan
       \/ \E sent \in {{}, {lan.seq + 1}}:
             /\ Go("recv")
             /\ lan' = [lan EXCEPT !.seq = @ + 1, !.net = @ \cup sent, !.result = "none"]

\* An answer comes out of the socket.  One to an earlier ping is passed over,
\* but when the time is up with it its result stays.
Recv ==
    /\ At("lan", "recv")
    /\ \E s \in lan.net:
          \/ /\ s = lan.seq
             /\ Go("judge")
             /\ lan' = [lan EXCEPT !.net = @ \ {s}, !.result = "ok"]
          \/ /\ s # lan.seq
             /\ UNCHANGED program
             /\ lan' = [lan EXCEPT !.net = @ \ {s}]
          \/ /\ s # lan.seq
             /\ Go("judge")
             /\ lan' = [lan EXCEPT !.net = @ \ {s}, !.result = "ok", !.answered = FALSE,
                                   !.misread = TRUE]

\* A time-out, a packet for somebody else at its end, or an error.
RecvNothing ==
    /\ At("lan", "recv")
    /\ Go("judge")
    /\ lan' = [lan EXCEPT !.answered = FALSE]

JudgePing ==
    /\ At("lan", "judge")
    /\ \/ lan.result = "ok" /\ Go("pause") /\ UNCHANGED lan
       \/ /\ lan.result # "ok" /\ lan.warnings < lan.limit
          /\ Go("pause")
          /\ lan' = [lan EXCEPT !.warnings = @ + 1]
       \/ /\ lan.result # "ok" /\ lan.warnings = lan.limit
          /\ Go("stop")
          /\ lan' = [lan EXCEPT !.failures = 1]

Pause ==
    /\ At("lan", "pause")
    /\ \/ lan.seq < MaxPings /\ Go("send")
       \/ Go("stop")
    /\ UNCHANGED lan

\* RequestStop: nothing when it is stopped already, else a join.
RequestStop(from, wait, to) ==
    /\ At("lan", from)
    /\ \/ lan.finished /\ Go(to) /\ UNCHANGED lan
       \/ ~lan.finished /\ lan' = [lan EXCEPT !.finished = TRUE] /\ Go(wait)

JoinMonitor(wait, to) ==
    /\ At("lan", wait)
    /\ lan.monitor \in {"none", "ended"}
    /\ Go(to)
    /\ UNCHANGED lan

StopMonitor == RequestStop("stop", "stopjoin", "verdict") \/ JoinMonitor("stopjoin", "verdict")

\* Fault: the destructor asks the thread to stop and does not wait for it.
UnwindFault == At("lan", "unwind") /\ Go("gone") /\ lan' = [lan EXCEPT !.finished = TRUE]

UnwindFrame == RequestStop("unwind", "unwindjoin", "gone") \/ JoinMonitor("unwindjoin", "gone")

Gone == At("lan", "gone") /\ Throw /\ lan' = [lan EXCEPT !.object = FALSE]

\* Fault: the test returns to main after its verdict.
LanVerdictFault ==
    /\ At("lan", "verdict")
    /\ Say(IF lan.failures > 0 THEN "ERR" ELSE IF lan.warnings > 0 THEN "WARNING" ELSE "OK", "ok")
    /\ UNCHANGED lan

\* The verdict, and exit.
LanVerdict ==
    /\ At("lan", "verdict")
    /\ Say(IF lan.failures > 0 THEN "ERR" ELSE IF lan.warnings > 0 THEN "WARNING" ELSE "OK", "end")
    /\ UNCHANGED lan

\* MonitoringLoop: a degraded link is only logged.
MonitorCheck ==
    /\ Alive
    /\ \/ lan.monitor = "check" /\ lan' = [lan EXCEPT !.monitor = IF lan.finished THEN "ended" ELSE "sleep"]
       \/ lan.monitor = "sleep" /\ lan' = [lan EXCEPT !.monitor = "check"]
    /\ UNCHANGED program

LanMain == LanStart \/ CheckLink \/ OpenIcmp \/ Send \/ Recv \/ RecvNothing \/ JudgePing \/ Pause
              \/ StopMonitor \/ UnwindFrame \/ Gone \/ LanVerdict

LanNext == LanMain \/ MonitorCheck

\* Every ping was answered, as far as the sequence numbers were compared.
LanPassed == lan.answered \/ lan.misread
=============================================================================
