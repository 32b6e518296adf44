------------------------------ MODULE Programs ------------------------------
(***************************************************************************)
(* The programs that test the devices, one of them started by the runner   *)
(* and perhaps stopped by it at any time.                                  *)
(***************************************************************************)
EXTENDS CpuTest, MemTest, HddTest, LanTest, AskTest, RadioTest

vars == <<prog, at, said, stop, cpu, mem, hdd, lan, ask, radio>>

TypeOK ==
    /\ ProgramTypeOK
    /\ CpuTypeOK /\ MemTypeOK /\ HddTypeOK /\ LanTypeOK /\ AskTypeOK /\ RadioTypeOK

Init ==
    /\ InitProgram
    /\ InitCpu /\ InitMem /\ InitHdd /\ InitLan /\ InitAsk /\ InitRadio

\* What a program leaves alone: the state of the others.
NotCpu == UNCHANGED <<mem, hdd, lan, ask, radio>>
NotMem == UNCHANGED <<cpu, hdd, lan, ask, radio>>
NotHdd == UNCHANGED <<cpu, mem, lan, ask, radio>>
NotLan == UNCHANGED <<cpu, mem, hdd, ask, radio>>
NotAsk == UNCHANGED <<cpu, mem, hdd, lan, radio>>
NotRadio == UNCHANGED <<cpu, mem, hdd, lan, ask>>
States == <<cpu, mem, hdd, lan, ask, radio>>

Common == (PrintVerdict \/ Leave \/ Signal \/ (prog # "mem" /\ Handle) \/ KillSelf) /\ UNCHANGED States

Next ==
    \/ Common
    \/ CpuNext /\ NotCpu
    \/ MemNext /\ NotMem
    \/ HddNext /\ NotHdd
    \/ LanNext /\ NotLan
    \/ AskNext /\ NotAsk
    \/ RadioNext /\ NotRadio

Spec == Init /\ [][Next]_vars

\* Main runs, with its signal handler, and so do the threads; a file is played
\* to its end, a time that is awaited comes, and what is waited for without a time
\* limit (the volume command of sound, the commands mem gives to system) returns.
\* Nothing is assumed of dd, of the commands of wifi and bluetooth, of the answers
\* to pings, of the runner and of the user.
Main ==
    \/ (PrintVerdict \/ Leave \/ KillSelf \/ (prog # "mem" /\ Handle)) /\ UNCHANGED States
    \/ CpuMain /\ NotCpu
    \/ (MemMain \/ Shutdown) /\ NotMem
    \/ HddMain /\ NotHdd
    \/ LanMain /\ NotLan
    \/ ~UserAsked /\ AskMain /\ NotAsk
    \/ RadioMain /\ NotRadio

FairSpec ==
    /\ Spec
    /\ WF_vars(Main)
    /\ \A c \in 1 .. Cores: WF_vars(PiPass(c) /\ NotCpu)
    /\ WF_vars(Watchdog /\ NotHdd)
    /\ WF_vars(MonitorCheck /\ NotLan)
    /\ WF_vars(Player /\ NotAsk)
    /\ WF_vars(PlayEnds /\ NotAsk)
    /\ WF_vars(Timeout /\ NotRadio)

-----------------------------------------------------------------------------
Ended == at = "end"

Passed ==
    /\ prog = "cpu" => CpuPassed
    /\ prog = "mem" => MemPassed
    /\ prog = "hdd" => HddPassed
    /\ prog = "lan" => LanPassed
    /\ prog \in {"sound", "mic", "video"} => AskPassed
    /\ prog = "wifi" => WifiPassed
    /\ prog = "bluetooth" => BluetoothPassed

\* A program says TEST OK only when what it tests has passed: no core had a
\* bad margin in its last pass, the halves of the memory answer alike, the
\* last dd of every mode succeeded, every ping was answered, the user agreed,
\* the network was joined or the device listed.
OkMeansPassed == (\E i \in DOMAIN said: said[i] = "OK") => Passed

\* A program gives one verdict at most, and none only when it was stopped or
\* when the watchdog of dd ended it.
OneVerdict ==
    /\ Len(said) <= 1
    /\ Ended /\ stop = "no" /\ hdd.dog # "exits" => Len(said) = 1

\* When mem has ended swap is on again, wherever it was stopped, if not within
\* the command that turns it off.
SwapRestored == Ended /\ ~mem.cut => mem.swap

\* The thread of the link monitor never runs without its object.
MonitorHasObject == Alive /\ lan.monitor \in {"check", "sleep"} => lan.object

\* Every program ends, with dd or a command that hangs, with no answer from
\* the network and when it is stopped.  There are two exceptions: sound, mic and
\* video wait for the user as long as neither an answer nor a stop comes, and a mem
\* that is stopped between the release of its buffer and of the pointer to it may hang.
ProgramEnds == <>(Ended \/ stop = "hung") \/ <>[](UserAsked /\ stop = "no")

\* What one would expect when the user is gone, and the code does not do.
EndsUnasked == <>(Ended \/ stop = "hung")
=============================================================================
