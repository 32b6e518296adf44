------------------------------- MODULE CpuTest -------------------------------
(***************************************************************************)
(* The program cpu: a queue of Pi computations, each by one thread per     *)
(* core that main joins in the order of the cores.                         *)
(***************************************************************************)
EXTENDS TestProgram

CONSTANTS
    Cores,            \* coreCount of /proc/cpuinfo
    MaxTasks,         \* bound: the tests named for the platform
    MaxPasses         \* bound: passes a thread makes in the time of a stress

ASSUME CpuAssumption == Cores \in Nat /\ MaxTasks \in Nat /\ MaxPasses \in Nat

VARIABLE cpu

CpuTypeOK ==
    cpu \in [tasks: 0 .. MaxTasks, status: 0 .. 1, joined: 0 .. Cores,
             worker: [1 .. Cores -> [left: 0 .. MaxPasses, bad: BOOLEAN]], broken: BOOLEAN]

Idle == [left |-> 0, bad |-> FALSE]

InitCpu == cpu = [tasks |-> 0, status |-> 0, joined |-> 0, worker |-> [c \in 1 .. Cores |-> Idle],
                  broken |-> FALSE]

\* collectSystemSpecs; an unknown processor is an exception.
CollectSpecs ==
    /\ At("cpu", "start")
    /\ Throw \/ Go("queue")
    /\ UNCHANGED cpu

\* buildTestQueue keeps the names it knows: there may be none.
BuildQueue ==
    /\ At("cpu", "queue")
    /\ \E n \in 0 .. MaxTasks: cpu' = [cpu EXCEPT !.tasks = n]
    /\ Go("suite")

EndSuite == At("cpu", "suite") /\ cpu.tasks = 0 /\ Go("ok") /\ UNCHANGED cpu

\* run_pi_benchmark up to its loop of joins; a thread that cannot be made is
\* an error at once, and those that were made go on.
StartPi ==
    /\ At("cpu", "suite")
    /\ cpu.tasks > 0
    /\ \E made \in 0 .. Cores, n \in 1 .. MaxPasses:
          /\ cpu' = [cpu EXCEPT !.status = 0, !.joined = 0,
                                !.worker = [c \in 1 .. Cores |->
                                              IF c <= made THEN [left |-> n, bad |-> FALSE] ELSE Idle]]
          /\ IF made = Cores THEN Go("join") ELSE Throw

\* compute_pi_task: the margin that counts is that of the last pass.
PiPass(c) ==
    /\ Alive
    /\ cpu.worker[c].left > 0
    /\ \E bad \in BOOLEAN:
          cpu' = [cpu EXCEPT !.worker[c] = [left |-> @.left - 1, bad |-> bad],
                             !.broken = @ \/ (bad /\ cpu.worker[c].left = 1)]
    /\ UNCHANGED program

\* The first core whose margin is too large decides.
Join ==
    /\ At("cpu", "join")
    /\ cpu.joined < Cores
    /\ cpu.worker[cpu.joined + 1].left = 0
    /\ cpu' = [cpu EXCEPT !.joined = @ + 1,
                          !.status = IF @ = 0 /\ cpu.worker[cpu.joined + 1].bad THEN 1 ELSE @]
    /\ UNCHANGED program

EndPi ==
    /\ At("cpu", "join")
    /\ cpu.joined = Cores
    /\ IF cpu.status = 0 THEN Go("suite") ELSE Throw
    /\ cpu' = [cpu EXCEPT !.tasks = @ - 1]

CpuMain == CollectSpecs \/ BuildQueue \/ EndSuite \/ StartPi \/ Join \/ EndPi

CpuNext == CpuMain \/ \E c \in 1 .. Cores: PiPass(c)

\* Every core computed Pi, as far as it is judged.
CpuPassed == ~cpu.broken
=============================================================================
