--------------------------- MODULE ProgramsProofs ---------------------------
(***************************************************************************)
(* The safety of the test programs, for any number of cores, computations, *)
(* rounds, lines, turns and pings.                                         *)
(*                                                                         *)
(* A verdict is right because of what main has passed on its way to it, so *)
(* the invariant says, for every program, what is known at the places of   *)
(* its main thread; the threads, children and signals beside main must not *)
(* undo it.  There is one part per program, and one for what they share.   *)
(***************************************************************************)
EXTENDS Programs, TLAPS

\* Where main is after its verdict, and before it.
After == {"leave", "null", "swapon", "end"}

VerdictInv ==
    /\ said \in {<<>>} \cup {<<v>> : v \in Verdicts}
    /\ at \notin After => said = <<>>
    /\ at \in After \ {"end"} => said # <<>>
    /\ Ended /\ stop = "no" /\ hdd.dog # "exits" => said # <<>>

\* Main is about to say OK, or has said it.
Happy == at = "ok" \/ said = <<"OK">>

\* A core that is joined has made its last pass; a core whose last pass was bad
\* has made main's status 1 or is still to be joined.
CpuInv ==
    prog = "cpu" =>
      /\ at = "join" => cpu.tasks > 0
      /\ \A c \in 1 .. cpu.joined: cpu.worker[c].left = 0
      /\ at \in {"start", "queue", "suite"} \/ Happy =>
            ~cpu.broken /\ \A c \in 1 .. Cores: cpu.worker[c].left = 0
      /\ at = "join" /\ cpu.broken =>
            \/ cpu.status = 1
            \/ \E c \in 1 .. Cores: c > cpu.joined /\ cpu.worker[c].left = 0 /\ cpu.worker[c].bad

\* Swap is off only in a mem that manages it, and not any more when its handler
\* has run, or main has come to its end.
MemInv ==
    /\ ~mem.swap => prog = "mem" /\ mem.manage
    /\ prog = "mem" =>
         /\ at = "swapoff" => mem.manage
         /\ stop = "handled" /\ ~mem.cut => mem.swap /\ at # "swapoff"
         /\ at = "end" /\ ~mem.cut => mem.swap
         /\ at = "second" => Matching(mem.pattern)
         /\ at = "round" \/ Happy => mem.bitA = mem.bitB

Modes(plan) == {plan[i] : i \in DOMAIN plan}

\* A mode that is asked for is still in the plan or its last dd was good; the
\* one in hand has become good if dd is not judged a failure.
HddInv ==
    /\ hdd.dog # "off" => prog = "hdd"
    /\ hdd.dd = "runs" => prog = "hdd" /\ at \in {"read", "end"}
    /\ prog = "hdd" =>
         /\ at \in {"spawn", "read", "wait", "timers", "judge"} => hdd.plan # <<>>
         /\ \/ at = "read" /\ hdd.dd # "runs"
            \/ at \in {"wait", "timers", "judge"}
            => Failed \/ Head(hdd.plan) \in hdd.good
         /\ at \notin {"err", "leave", "end"} => Modes(hdd.asked) \subseteq hdd.good \cup Modes(hdd.plan)
         /\ Happy => Modes(hdd.asked) \subseteq hdd.good

\* The monitor has an object as long as it can run: it has ended, or never
\* begun, wherever main has stopped it or not made it yet.
LanInv ==
    /\ lan.monitor # "none" => prog = "lan"
    /\ prog = "lan" =>
         /\ lan.monitor \in {"check", "sleep"} =>
               /\ lan.object
               /\ at \notin {"start", "link", "verdict", "gone", "err", "ok", "leave"}
               /\ at \in {"open", "send", "recv", "judge", "pause", "stop", "unwind"} => ~lan.finished
         /\ at \notin {"start", "err", "ok", "leave", "end"} => lan.object
         /\ at = "recv" => lan.result = "none"
         /\ at \in {"link", "open", "send", "recv", "judge", "pause", "stop", "stopjoin", "verdict"} =>
               \/ LanPassed
               \/ lan.warnings > 0 \/ lan.failures > 0
               \/ at = "judge" /\ lan.result = "none"
         /\ at = "start" => lan.answered
         /\ Happy => LanPassed

AskInv ==
    /\ ask.player # "none" => prog = "sound"
    /\ prog \in {"sound", "mic", "video"} /\ Happy => ask.works

RadioInv ==
    /\ prog = "wifi" /\ Happy => radio.link = "address"
    /\ prog = "bluetooth" /\ (radio.found \/ Happy) => Listed

IInv == TypeOK /\ VerdictInv /\ CpuInv /\ MemInv /\ HddInv /\ LanInv /\ AskInv /\ RadioInv

-----------------------------------------------------------------------------
(* What the programs share. *)

\* What an invariant of a step before the verdict has to say of it: main has
\* said nothing, and it is happy only if it now stands at ok.
LEMMA Working ==
    ASSUME VerdictInv, at \notin After, at' \notin After, UNCHANGED said
    PROVE  VerdictInv' /\ said = <<>> /\ (Happy <=> at = "ok") /\ (Happy' <=> at' = "ok")
BY DEF VerdictInv, After, Happy, Ended, Verdicts

\* A step that leaves main where it is.
LEMMA Beside ==
    ASSUME VerdictInv, UNCHANGED <<at, said>>, stop' = stop \/ stop' # "no",
           hdd.dog = "exits" => hdd'.dog = "exits"
    PROVE  VerdictInv' /\ (Happy' <=> Happy)
BY DEF VerdictInv, Happy, Ended, Verdicts, After

\* A set of starting states is a set of typed ones.
LEMMA StartTyped ==
    ASSUME NEW programs, NEW states, states # {}
    PROVE  StartOf(programs, states) \subseteq states
BY DEF StartOf

\* The values a status takes; a literal in a record needs to be told.
LEMMA Statuses == 0 \in 0 .. 1 /\ 1 \in 0 .. 1 /\ 0 \in 0 .. 2 /\ 1 \in 0 .. 2 /\ 2 \in 0 .. 2
OBVIOUS

-----------------------------------------------------------------------------
(* The program cpu. *)

LEMMA CpuStep ==
    ASSUME TypeOK, VerdictInv, CpuInv, CpuNext, UNCHANGED hdd
    PROVE  /\ ProgramTypeOK' /\ CpuTypeOK' /\ VerdictInv' /\ CpuInv'
           /\ prog' = prog
           /\ prog = "cpu" \/ UNCHANGED program
<1> USE CpuAssumption DEF TypeOK, ProgramTypeOK, CpuTypeOK, CpuInv, At, Go, Throw, program
<1>1. CASE CollectSpecs
  <2>1. at \notin After /\ at' \notin After /\ UNCHANGED said
    BY <1>1 DEF CollectSpecs, After
  <2> QED BY <1>1, <2>1, Working DEF CollectSpecs
<1>2. CASE BuildQueue
  <2>1. at \notin After /\ at' \notin After /\ UNCHANGED said
    BY <1>2 DEF BuildQueue, After
  <2> QED BY <1>2, <2>1, Working DEF BuildQueue
<1>3. CASE EndSuite
  <2>1. at \notin After /\ at' \notin After /\ UNCHANGED said
    BY <1>3 DEF EndSuite, After
  <2> QED BY <1>3, <2>1, Working DEF EndSuite
<1>4. CASE StartPi
  <2>1. at \notin After /\ at' \notin After /\ UNCHANGED said
    BY <1>4 DEF StartPi, After
  <2>2. VerdictInv' /\ ~Happy'
    BY <1>4, <2>1, Working DEF StartPi
  <2>3. PICK made \in 0 .. Cores, n \in 1 .. MaxPasses:
          /\ cpu' = [cpu EXCEPT !.status = 0, !.joined = 0,
                                !.worker = [c \in 1 .. Cores |->
                                              IF c <= made THEN [left |-> n, bad |-> FALSE] ELSE Idle]]
          /\ at' \in {"join", "err"}
    BY <1>4 DEF StartPi
  <2> DEFINE worker == [c \in 1 .. Cores |-> IF c <= made THEN [left |-> n, bad |-> FALSE] ELSE Idle]
  <2>4. CpuTypeOK'
    <3>1. worker \in [1 .. Cores -> [left: 0 .. MaxPasses, bad: BOOLEAN]]
      BY DEF Idle
    <3>2. cpu' = [tasks |-> cpu.tasks, status |-> 0, joined |-> 0, worker |-> worker, broken |-> cpu.broken]
      BY <2>3
    <3> HIDE DEF worker
    <3> QED BY <3>1, <3>2
  <2>5. ~cpu'.broken /\ cpu'.tasks = cpu.tasks /\ cpu'.joined = 0 /\ cpu.tasks > 0 /\ prog = "cpu"
    BY <1>4, <2>1, <2>3, Working DEF StartPi
  <2>6. CpuInv'
    BY <2>1, <2>2, <2>3, <2>5 DEF After
  <2> QED BY <1>4, <2>2, <2>4, <2>6 DEF StartPi
<1>5. CASE Join
  <2>1. at \notin After /\ at' \notin After /\ UNCHANGED said
    BY <1>5 DEF Join, After
  <2>2. VerdictInv' /\ ~Happy' /\ prog = "cpu" /\ at = "join"
    BY <1>5, <2>1, Working DEF Join
  <2> DEFINE next == cpu.joined + 1
  <2>3. /\ next \in 1 .. Cores /\ cpu.worker[next].left = 0
        /\ cpu'.joined = next /\ cpu'.worker = cpu.worker /\ cpu'.broken = cpu.broken
        /\ cpu'.tasks = cpu.tasks
        /\ cpu'.status = IF cpu.status = 0 /\ cpu.worker[next].bad THEN 1 ELSE cpu.status
    BY <1>5 DEF Join
  <2>4. CpuTypeOK'
    <3> DEFINE status == IF cpu.status = 0 /\ cpu.worker[next].bad THEN 1 ELSE cpu.status
    <3>1. cpu' = [cpu EXCEPT !.joined = next, !.status = status]
      BY <1>5 DEF Join
    <3>2. status \in 0 .. 1
      OBVIOUS
    <3>3. cpu' = [tasks |-> cpu.tasks, status |-> status, joined |-> next, worker |-> cpu.worker,
                  broken |-> cpu.broken]
      BY <3>1
    <3> HIDE DEF next, status
    <3> QED BY <2>3, <3>2, <3>3
  <2>5. \A c \in 1 .. cpu'.joined: cpu'.worker[c].left = 0
    BY <2>2, <2>3
  <2>6. ASSUME cpu'.broken, cpu'.status # 1
        PROVE  \E c \in 1 .. Cores: c > cpu'.joined /\ cpu'.worker[c].left = 0 /\ cpu'.worker[c].bad
    <3>1. cpu.broken /\ cpu.status # 1 /\ ~cpu.worker[next].bad
      BY <2>3, <2>6
    <3>2. PICK c \in 1 .. Cores: c > cpu.joined /\ cpu.worker[c].left = 0 /\ cpu.worker[c].bad
      BY <2>2, <3>1
    <3>3. c > next
      <4>1. c # next
        BY <3>1, <3>2
      <4> QED BY <2>3, <3>2, <4>1
    <3> QED BY <2>3, <3>2, <3>3
  <2>7. CpuInv'
    BY <1>5, <2>2, <2>3, <2>5, <2>6 DEF Join
  <2> QED BY <1>5, <2>2, <2>4, <2>7 DEF Join
<1>6. CASE EndPi
  <2>1. at \notin After /\ at' \notin After /\ UNCHANGED said
    BY <1>6 DEF EndPi, After
  <2> QED BY <1>6, <2>1, Working DEF EndPi
<1>7. ASSUME NEW c \in 1 .. Cores, PiPass(c)
      PROVE  /\ ProgramTypeOK' /\ CpuTypeOK' /\ VerdictInv' /\ CpuInv'
             /\ prog' = prog
             /\ prog = "cpu" \/ UNCHANGED program
  <2>1. VerdictInv' /\ (Happy' <=> Happy)
    BY <1>7, Beside DEF PiPass
  <2>2. PICK bad \in BOOLEAN:
          cpu' = [cpu EXCEPT !.worker[c] = [left |-> @.left - 1, bad |-> bad],
                             !.broken = @ \/ (bad /\ cpu.worker[c].left = 1)]
    BY <1>7 DEF PiPass
  <2>3. /\ cpu.worker[c].left \in 1 .. MaxPasses
        /\ cpu'.worker = [cpu.worker EXCEPT ![c] = [left |-> @.left - 1, bad |-> bad]]
        /\ cpu'.joined = cpu.joined /\ cpu'.status = cpu.status /\ cpu'.tasks = cpu.tasks
        /\ cpu'.broken = (cpu.broken \/ (bad /\ cpu.worker[c].left = 1))
    <3>1. cpu.worker[c].left \in 1 .. MaxPasses
      BY <1>7 DEF PiPass
    <3>2. /\ cpu'.worker = [cpu.worker EXCEPT ![c] = [left |-> @.left - 1, bad |-> bad]]
          /\ cpu'.joined = cpu.joined /\ cpu'.status = cpu.status /\ cpu'.tasks = cpu.tasks
      BY <2>2
    <3>3. cpu'.broken = (cpu.broken \/ (bad /\ cpu.worker[c].left = 1))
      BY ONLY <2>2, cpu \in [tasks: 0 .. MaxTasks, status: 0 .. 1, joined: 0 .. Cores,
                             worker: [1 .. Cores -> [left: 0 .. MaxPasses, bad: BOOLEAN]], broken: BOOLEAN]
    <3> QED BY <3>1, <3>2, <3>3
  <2>4. CpuTypeOK'
    <3>1. cpu'.worker \in [1 .. Cores -> [left: 0 .. MaxPasses, bad: BOOLEAN]]
      BY <2>3
    <3>2. cpu' = [tasks |-> cpu.tasks, status |-> cpu.status, joined |-> cpu.joined, worker |-> cpu'.worker,
                  broken |-> cpu'.broken]
      BY <2>2
    <3>3. cpu'.broken \in BOOLEAN
      BY <2>3
    <3> QED BY <3>1, <3>2, <3>3
  <2>5. CpuInv'
    <3>1. SUFFICES ASSUME prog = "cpu" PROVE CpuInv'
      BY <1>7 DEF PiPass
    <3>2. c > cpu.joined
      BY <2>3, <3>1
    <3>3. \A d \in 1 .. cpu'.joined: cpu'.worker[d].left = 0
      BY <2>3, <3>1, <3>2
    <3>4. ~(at \in {"start", "queue", "suite"} \/ Happy)
      BY <2>3, <3>1
    <3>5. ASSUME at = "join", cpu'.broken, cpu'.status # 1
          PROVE  \E d \in 1 .. Cores: d > cpu'.joined /\ cpu'.worker[d].left = 0 /\ cpu'.worker[d].bad
      <4>1. CASE cpu.broken
        <5>1. PICK d \in 1 .. Cores: d > cpu.joined /\ cpu.worker[d].left = 0 /\ cpu.worker[d].bad
          BY <2>3, <3>1, <3>5, <4>1
        <5>2. d # c
          BY <2>3, <5>1
        <5> QED BY <2>3, <5>1, <5>2
      <4>2. CASE ~cpu.broken
        <5>1. bad /\ cpu.worker[c].left = 1
          BY <2>3, <3>5, <4>2
        <5> QED BY <2>3, <3>2, <5>1
      <4> QED BY <4>1, <4>2
    <3> QED BY <1>7, <2>1, <2>3, <3>1, <3>3, <3>4, <3>5 DEF PiPass
  <2> QED BY <1>7, <2>1, <2>4, <2>5 DEF PiPass
<1> QED BY <1>1, <1>2, <1>3, <1>4, <1>5, <1>6, <1>7 DEF CpuNext, CpuMain

-----------------------------------------------------------------------------
(* The program mem. *)

\* Halves that answer alike to a pattern and to its inverse are alike.
LEMMA BothPatterns ==
    ASSUME MemTypeOK, NEW p \in 0 .. 1, Matching(p), Matching(1 - p)
    PROVE  mem.bitA = mem.bitB
<1>1. mem.bitA \in 0 .. 2 /\ mem.bitB \in 0 .. 2
  BY DEF MemTypeOK
<1>2. CASE p = 0
  BY <1>1, <1>2 DEF Matching, Stored, Works
<1>3. CASE p = 1
  BY <1>1, <1>3 DEF Matching, Stored, Works
<1> QED BY <1>2, <1>3

LEMMA MemStep ==
    ASSUME TypeOK, VerdictInv, MemInv, MemNext, UNCHANGED hdd
    PROVE  /\ ProgramTypeOK' /\ MemTypeOK' /\ VerdictInv' /\ MemInv'
           /\ prog' = prog /\ prog = "mem"
<1> USE MemAssumption DEF TypeOK, ProgramTypeOK, MemTypeOK, MemInv, At, Go, Throw, program
<1>1. CASE MemStart
  <2>1. at \notin After /\ at' \notin After /\ UNCHANGED said
    BY <1>1 DEF MemStart, After
  <2> QED BY <1>1, <2>1, Working DEF MemStart
<1>2. CASE SwapOffDone
  <2>1. at \notin After /\ at' \notin After /\ UNCHANGED said
    BY <1>2 DEF SwapOffDone, After
  <2> QED BY <1>2, <2>1, Working DEF SwapOffDone
<1>3. CASE Allocate
  <2>1. at \notin After /\ at' \notin After /\ UNCHANGED said
    BY <1>3 DEF Allocate, After
  <2> QED BY <1>3, <2>1, Working DEF Allocate
<1>4. CASE Lock
  <2>1. at \notin After /\ at' \notin After /\ UNCHANGED said
    BY <1>4 DEF Lock, After
  <2> QED BY <1>4, <2>1, Working DEF Lock
<1>5. CASE FirstPass
  <2>1. at \notin After /\ at' \notin After /\ UNCHANGED said
    BY <1>5 DEF FirstPass, After
  <2> QED BY <1>5, <2>1, Working DEF FirstPass, Matching
<1>6. CASE SecondPass
  <2>1. at \notin After /\ at' \notin After /\ UNCHANGED said
    BY <1>6 DEF SecondPass, After
  <2>2. at' = "round" => mem.bitA = mem.bitB
    BY <1>6, BothPatterns DEF SecondPass
  <2> QED BY <1>6, <2>1, <2>2, Working DEF SecondPass, Matching
<1>7. CASE NextRound
  <2>1. at \notin After /\ at' \notin After /\ UNCHANGED said
    BY <1>7 DEF NextRound, After
  <2>2. PICK p \in 0 .. 1:
          mem' = [mem EXCEPT !.rounds = IF @ < MaxRounds THEN @ + 1 ELSE @, !.pattern = p]
    BY <1>7 DEF NextRound
  <2>3. MemTypeOK' /\ mem'.bitA = mem.bitA /\ mem'.bitB = mem.bitB /\ mem'.swap = mem.swap
           /\ mem'.manage = mem.manage
    <3> DEFINE rounds == IF mem.rounds < MaxRounds THEN mem.rounds + 1 ELSE mem.rounds
    <3>1. rounds \in 0 .. MaxRounds
      OBVIOUS
    <3>2. mem' = [mem EXCEPT !.rounds = rounds, !.pattern = p]
      BY <2>2
    <3> HIDE DEF rounds
    <3> QED BY <3>1, <3>2
  <2> QED BY <1>7, <2>1, <2>3, Working DEF NextRound
<1>8. CASE Free \/ Null \/ SwapOn
  <2>1. VerdictInv' /\ (Happy' <=> Happy)
    BY <1>8 DEF Free, Null, SwapOn, VerdictInv, Happy, After, Ended
  <2> QED BY <1>8, <2>1 DEF Free, Null, SwapOn
<1>9. CASE SwapOffChild
  <2>1. VerdictInv' /\ (Happy' <=> Happy)
    BY <1>9, Beside DEF SwapOffChild
  <2> QED BY <1>9, <2>1 DEF SwapOffChild, Matching
<1>10. CASE Shutdown
  <2>1. VerdictInv' /\ (Happy' <=> Happy)
    BY <1>10, Beside DEF Shutdown
  <2> QED BY <1>10, <2>1 DEF Shutdown, Matching, Alive
<1> QED BY <1>1, <1>2, <1>3, <1>4, <1>5, <1>6, <1>7, <1>8, <1>9, <1>10 DEF MemNext, MemMain

-----------------------------------------------------------------------------
(* The program hdd. *)

LEMMA ModesOf ==
    ASSUME NEW plan \in Plans
    PROVE  /\ plan = <<>> => Modes(plan) = {}
           /\ plan # <<>> => /\ Tail(plan) \in Plans
                             /\ Modes(plan) = {Head(plan)} \cup Modes(Tail(plan))
                             /\ Head(plan) \in {"read", "write"}
<1>1. Modes(<<>>) = {}
  BY DEF Modes
<1>2. Modes(<<"read">>) = {"read"} /\ Modes(<<"write">>) = {"write"}
  BY DEF Modes
<1>3. Modes(<<"read", "write">>) = {"read", "write"}
  BY DEF Modes
<1>4. Tail(<<"read">>) = <<>> /\ Tail(<<"write">>) = <<>> /\ Tail(<<"read", "write">>) = <<"write">>
  OBVIOUS
<1>5. CASE plan = <<>>
  BY <1>1, <1>5
<1>6. CASE plan = <<"read">>
  BY <1>1, <1>2, <1>4, <1>6 DEF Plans
<1>7. CASE plan = <<"write">>
  BY <1>1, <1>2, <1>4, <1>7 DEF Plans
<1>8. CASE plan = <<"read", "write">>
  BY <1>2, <1>3, <1>4, <1>8 DEF Plans
<1> QED BY <1>5, <1>6, <1>7, <1>8 DEF Plans

\* The end of a dd, with the verdict on its mode.
LEMMA ExitedFacts ==
    ASSUME HddTypeOK, hdd.plan # <<>>, NEW s \in 0 .. 1
    PROVE  LET e == Exited(s) IN
           /\ e \in [stress: BOOLEAN, asked: Plans, plan: Plans, turns: 0 .. MaxTurns, attempt: 0 .. 2,
                     dd: {"none", "runs", "exited"}, status: 0 .. 1, fast: BOOLEAN, lines: 0 .. MaxLines,
                     dog: {"off", "armed", "fired", "exits"}, good: SUBSET {"read", "write"}]
           /\ e.plan = hdd.plan /\ e.asked = hdd.asked /\ e.dd = "exited" /\ e.dog = hdd.dog
           /\ e.status = s /\ e.fast = hdd.fast /\ e.stress = hdd.stress
           /\ hdd.good \subseteq e.good \cup {Head(hdd.plan)}
           /\ s = 0 /\ (hdd.stress \/ hdd.fast) => Head(hdd.plan) \in e.good
<1> DEFINE good == IF s = 0 /\ (hdd.stress \/ hdd.fast) THEN hdd.good \cup {Head(hdd.plan)}
                   ELSE hdd.good \ {Head(hdd.plan)}
<1>1. good \in SUBSET {"read", "write"}
  BY ModesOf DEF HddTypeOK
<1>2. hdd.good \subseteq good \cup {Head(hdd.plan)}
  OBVIOUS
<1>3. s = 0 /\ (hdd.stress \/ hdd.fast) => Head(hdd.plan) \in good
  OBVIOUS
<1>4. Exited(s) = [hdd EXCEPT !.dd = "exited", !.status = s, !.good = good]
  BY DEF Exited
<1> HIDE DEF good
<1> QED BY <1>1, <1>2, <1>3, <1>4 DEF HddTypeOK

LEMMA HddStep ==
    ASSUME TypeOK, VerdictInv, HddInv, HddNext
    PROVE  /\ ProgramTypeOK' /\ HddTypeOK' /\ VerdictInv' /\ HddInv'
           /\ prog' = prog /\ prog = "hdd"
<1> USE HddAssumption DEF TypeOK, ProgramTypeOK, HddTypeOK, HddInv, At, Go, Throw, program
<1>1. CASE HddStart
  <2>1. at \notin After /\ at' \notin After /\ UNCHANGED said
    BY <1>1 DEF HddStart, After
  <2>2. HddTypeOK'
    BY <1>1, ModesOf DEF HddStart
  <2>3. HddInv'
    <3>1. \/ hdd'.asked = hdd'.plan /\ hdd'.dog = hdd.dog /\ hdd'.dd = hdd.dd
          \/ hdd' = hdd
      BY <1>1 DEF HddStart
    <3> QED BY <1>1, <2>1, <3>1, Working DEF HddStart
  <2> QED BY <1>1, <2>1, <2>2, <2>3, Working DEF HddStart
<1>2. CASE NextMode
  <2>1. at \notin After /\ at' \notin After /\ UNCHANGED said
    BY <1>2 DEF NextMode, After
  <2> QED BY <1>2, <2>1, Working, ModesOf DEF NextMode, Failed
<1>3. CASE EndTurn
  <2>1. at \notin After /\ at' \notin After /\ UNCHANGED said
    BY <1>3 DEF EndTurn, After
  <2>2. HddTypeOK'
    <3>1. CASE hdd' = [hdd EXCEPT !.turns = @ + 1, !.plan = hdd.asked] /\ hdd.turns < MaxTurns
      <4> DEFINE turns == hdd.turns + 1
      <4>1. turns \in 0 .. MaxTurns
        BY <3>1
      <4>2. hdd' = [hdd EXCEPT !.turns = turns, !.plan = hdd.asked]
        BY <3>1
      <4> HIDE DEF turns
      <4> QED BY <4>1, <4>2
    <3> QED BY <1>3, <3>1 DEF EndTurn
  <2>3. HddInv'
    BY <1>3, <2>1, Working, ModesOf DEF EndTurn, Failed
  <2> QED BY <1>3, <2>1, <2>2, <2>3, Working DEF EndTurn
<1>4. CASE Spawn
  <2>1. at \notin After /\ at' \notin After /\ UNCHANGED said
    BY <1>4 DEF Spawn, After
  <2> DEFINE dog == IF hdd.dog = "off" THEN "armed" ELSE hdd.dog
             good == hdd.good \ {Head(hdd.plan)}
  <2> /\ dog \in {"off", "armed", "fired", "exits"} /\ dog # "off"
      /\ good \in SUBSET {"read", "write"}
      /\ hdd.good \subseteq good \cup {Head(hdd.plan)}
      /\ hdd.plan # <<>> => Modes(hdd.asked) \subseteq good \cup Modes(hdd.plan)
    <3>1. hdd.plan # <<>> => Head(hdd.plan) \in Modes(hdd.plan)
      BY ModesOf
    <3> QED BY <1>4, <3>1 DEF Spawn
  <2>2. CASE /\ at' = "read"
             /\ hdd' = [hdd EXCEPT !.dd = "runs", !.fast = FALSE, !.lines = 0, !.dog = dog]
    <3>1. hdd' = [stress |-> hdd.stress, asked |-> hdd.asked, plan |-> hdd.plan, turns |-> hdd.turns,
                  attempt |-> hdd.attempt, dd |-> "runs", status |-> hdd.status, fast |-> FALSE,
                  lines |-> 0, dog |-> dog, good |-> hdd.good]
      BY <2>2
    <3> HIDE DEF dog, good
    <3>2. HddTypeOK'
      BY <3>1
    <3>3. HddInv'
      BY <1>4, <2>1, <2>2, <3>1, Working DEF Spawn
    <3> QED BY <1>4, <2>1, <3>2, <3>3, Working DEF Spawn
  <2>3. CASE at' = "err" /\ hdd' = [hdd EXCEPT !.good = good]
    <3> HIDE DEF dog, good
    <3> QED BY <1>4, <2>1, <2>3, Working DEF Spawn
  <2>4. CASE /\ at' = "wait"
             /\ hdd' = [hdd EXCEPT !.dd = "exited", !.status = 1, !.fast = FALSE, !.dog = dog,
                                   !.good = good]
    <3>1. hdd' = [stress |-> hdd.stress, asked |-> hdd.asked, plan |-> hdd.plan, turns |-> hdd.turns,
                  attempt |-> hdd.attempt, dd |-> "exited", status |-> 1, fast |-> FALSE,
                  lines |-> hdd.lines, dog |-> dog, good |-> good]
      BY <2>4
    <3> HIDE DEF dog, good
    <3>2. HddTypeOK'
      BY <3>1
    <3>3. HddInv'
      BY <1>4, <2>1, <2>4, <3>1, Working DEF Spawn, Failed
    <3> QED BY <1>4, <2>1, <3>2, <3>3, Working DEF Spawn
  <2> QED BY <1>4, <2>2, <2>3, <2>4 DEF Spawn
<1>5. CASE ReadLine
  <2>1. at \notin After /\ at' \notin After /\ UNCHANGED said
    BY <1>5 DEF ReadLine, After
  <2>2. HddTypeOK'
    <3> DEFINE lines == hdd.lines + 1
    <3>1. PICK fast \in BOOLEAN: hdd' = [hdd EXCEPT !.fast = fast, !.lines = lines]
      BY <1>5 DEF ReadLine
    <3>2. lines \in 0 .. MaxLines
      BY <1>5 DEF ReadLine
    <3> HIDE DEF lines
    <3> QED BY <3>1, <3>2
  <2>3. HddInv'
    BY <1>5, <2>1, Working, ModesOf DEF ReadLine, Failed
  <2> QED BY <1>5, <2>1, <2>2, <2>3, Working DEF ReadLine
<1>6. CASE EndOfLines
  <2>1. at \notin After /\ at' \notin After /\ UNCHANGED said
    BY <1>6 DEF EndOfLines, After
  <2> QED BY <1>6, <2>1, Working, ModesOf DEF EndOfLines, Failed
<1>7. CASE WaitDd
  <2>1. at \notin After /\ at' \notin After /\ UNCHANGED said
    BY <1>7 DEF WaitDd, After
  <2> QED BY <1>7, <2>1, Working, ModesOf DEF WaitDd, Failed
<1>8. CASE StopTimers
  <2>1. at \notin After /\ at' \notin After /\ UNCHANGED said
    BY <1>8 DEF StopTimers, After
  <2> QED BY <1>8, <2>1, Working, ModesOf DEF StopTimers, Failed
<1>9. CASE Judge
  <2>1. at \notin After /\ at' \notin After /\ UNCHANGED said
    BY <1>9 DEF Judge, After
  <2>2. hdd.plan # <<>> /\ Tail(hdd.plan) \in Plans
          /\ Modes(hdd.plan) = {Head(hdd.plan)} \cup Modes(Tail(hdd.plan))
    BY <1>9, ModesOf DEF Judge
  <2>3. CASE ~Failed /\ at' = "mode" /\ hdd' = [hdd EXCEPT !.plan = Tail(@)]
    <3>1. HddTypeOK' /\ hdd'.asked = hdd.asked /\ hdd'.good = hdd.good /\ hdd'.dd = hdd.dd
            /\ hdd'.dog = hdd.dog /\ hdd'.plan = Tail(hdd.plan)
      BY <2>2, <2>3
    <3>2. Modes(hdd.asked) \subseteq hdd.good \cup Modes(Tail(hdd.plan))
      BY <1>9, <2>2, <2>3 DEF Judge
    <3>3. HddInv'
      BY <1>9, <2>1, <2>3, <3>1, <3>2, Working DEF Judge
    <3> QED BY <1>9, <2>1, <3>1, <3>3, Working DEF Judge
  <2>4. CASE at' = "spawn" /\ hdd.attempt < 2 /\ hdd' = [hdd EXCEPT !.attempt = @ + 1]
    BY <1>9, <2>1, <2>2, <2>4, Working DEF Judge
  <2>5. CASE at' = "err" /\ hdd' = hdd
    BY <1>9, <2>1, <2>5, Working DEF Judge
  <2> QED BY <1>9, <2>3, <2>4, <2>5 DEF Judge
<1>10. CASE DdExits
  <2>1. VerdictInv' /\ (Happy' <=> Happy)
    BY <1>10, Beside DEF DdExits, Exited
  <2>2. PICK s \in 0 .. 1: hdd' = Exited(s)
    BY <1>10 DEF DdExits
  <2>3. prog = "hdd" /\ at = "read" /\ hdd.plan # <<>>
    BY <1>10 DEF DdExits, Alive
  <2>4. HddTypeOK'
    BY <2>2, <2>3, ExitedFacts
  <2>5. HddInv'
    <3>1. /\ hdd'.plan = hdd.plan /\ hdd'.asked = hdd.asked /\ hdd'.dd = "exited" /\ hdd'.dog = hdd.dog
          /\ hdd'.status = s /\ hdd'.fast = hdd.fast /\ hdd'.stress = hdd.stress
          /\ hdd.good \subseteq hdd'.good \cup {Head(hdd.plan)}
          /\ s = 0 /\ (hdd.stress \/ hdd.fast) => Head(hdd.plan) \in hdd'.good
      BY <2>2, <2>3, ExitedFacts
    <3>2. Head(hdd.plan) \in Modes(hdd.plan)
      BY <2>3, ModesOf
    <3>3. UNCHANGED program /\ ~Happy
      BY <1>10, <2>3 DEF DdExits, Happy, VerdictInv, After
    <3> QED BY <2>1, <2>3, <3>1, <3>2, <3>3 DEF Failed
  <2> QED BY <1>10, <2>1, <2>3, <2>4, <2>5 DEF DdExits
<1>11. CASE DogFires
  <2>1. VerdictInv' /\ (Happy' <=> Happy)
    BY <1>11, Beside DEF DogFires
  <2> QED BY <1>11, <2>1 DEF DogFires, Failed
<1>12. CASE DogKills
  <2>1. VerdictInv' /\ (Happy' <=> Happy)
    BY <1>12, Beside DEF DogKills, Exited
  <2>2. UNCHANGED program /\ prog = "hdd" /\ at # "end"
    BY <1>12 DEF DogKills, Alive
  <2>3. CASE hdd.dd = "runs"
    <3>1. at = "read" /\ hdd.plan # <<>> /\ ~Happy
      <4>1. at = "read" /\ hdd.plan # <<>>
        BY <2>2, <2>3
      <4> QED BY <4>1 DEF Happy, VerdictInv, After
    <3>2. hdd' = [Exited(1) EXCEPT !.dog = "exits"]
      BY <1>12, <2>3 DEF DogKills
    <3>3. /\ HddTypeOK'
          /\ hdd'.plan = hdd.plan /\ hdd'.asked = hdd.asked /\ hdd'.dd = "exited" /\ hdd'.dog = "exits"
          /\ hdd'.status = 1 /\ hdd.good \subseteq hdd'.good \cup {Head(hdd.plan)}
      BY <3>1, <3>2, ExitedFacts
    <3>4. Head(hdd.plan) \in Modes(hdd.plan)
      BY <3>1, ModesOf
    <3> QED BY <2>1, <2>2, <3>1, <3>3, <3>4 DEF Failed
  <2>4. CASE hdd.dd # "runs"
    BY <1>12, <2>1, <2>2, <2>4 DEF DogKills, Failed
  <2> QED BY <2>3, <2>4
<1>13. CASE DogExits
  <2> QED BY <1>13 DEF DogExits, VerdictInv, Happy, After, Ended, Alive, Failed
<1> QED BY <1>1, <1>2, <1>3, <1>4, <1>5, <1>6, <1>7, <1>8, <1>9, <1>10, <1>11, <1>12, <1>13
        DEF HddNext, HddMain, Watchdog

-----------------------------------------------------------------------------
(* The program lan. *)

LEMMA LanStep ==
    ASSUME TypeOK, VerdictInv, LanInv, LanNext, UNCHANGED hdd
    PROVE  /\ ProgramTypeOK' /\ LanTypeOK' /\ VerdictInv' /\ LanInv'
           /\ prog' = prog /\ prog = "lan"
<1> USE LanAssumption DEF TypeOK, ProgramTypeOK, LanTypeOK, LanInv, At, Go, Throw, Unwind, program, LanPassed
<1>1. CASE LanStart
  <2>1. at \notin After /\ at' \notin After /\ UNCHANGED said
    BY <1>1 DEF LanStart, After
  <2>2. LanTypeOK'
    BY <1>1 DEF LanStart
  <2>3. LanInv'
    BY <1>1, <2>1, Working DEF LanStart
  <2> QED BY <1>1, <2>1, <2>2, <2>3, Working DEF LanStart
<1>2. CASE CheckLink
  <2>1. at \notin After /\ at' \notin After /\ UNCHANGED said
    BY <1>2 DEF CheckLink, After
  <2>2. LanTypeOK'
    BY <1>2 DEF CheckLink
  <2>3. LanInv'
    BY <1>2, <2>1, Working DEF CheckLink
  <2> QED BY <1>2, <2>1, <2>2, <2>3, Working DEF CheckLink
<1>3. CASE OpenIcmp
  <2>1. at \notin After /\ at' \notin After /\ UNCHANGED said
    BY <1>3 DEF OpenIcmp, After
  <2>2. LanTypeOK'
    BY <1>3 DEF OpenIcmp
  <2>3. LanInv'
    BY <1>3, <2>1, Working DEF OpenIcmp
  <2> QED BY <1>3, <2>1, <2>2, <2>3, Working DEF OpenIcmp
<1>4. CASE Send
  <2>1. at \notin After /\ at' \notin After /\ UNCHANGED said
    BY <1>4 DEF Send, After
  <2>2. LanTypeOK'
    <3> DEFINE seq == lan.seq + 1
    <3>1. CASE UNCHANGED lan
      BY <3>1
    <3>2. ASSUME NEW sent \in {{}, {seq}},
                 lan' = [lan EXCEPT !.seq = seq, !.net = @ \cup sent, !.result = "none"]
          PROVE  LanTypeOK'
      <4>1. seq \in Nat /\ lan.net \cup sent \in SUBSET Nat
        OBVIOUS
      <4> HIDE DEF seq
      <4> QED BY <3>2, <4>1
    <3> QED BY <1>4, <3>1, <3>2 DEF Send
  <2>3. LanInv'
    BY <1>4, <2>1, Working DEF Send
  <2> QED BY <1>4, <2>1, <2>2, <2>3, Working DEF Send
<1>5. CASE Recv
  <2>1. at \notin After /\ at' \notin After /\ UNCHANGED said
    BY <1>5 DEF Recv, After
  <2>2. LanTypeOK'
    <3>1. PICK s \in lan.net:
            \/ lan' = [lan EXCEPT !.net = @ \ {s}, !.result = "ok"]
            \/ lan' = [lan EXCEPT !.net = @ \ {s}]
            \/ lan' = [lan EXCEPT !.net = @ \ {s}, !.result = "ok", !.answered = FALSE, !.misread = TRUE]
      BY <1>5 DEF Recv
    <3>2. lan.net \ {s} \in SUBSET Nat
      OBVIOUS
    <3> QED BY <3>1, <3>2
  <2>3. LanInv'
    BY <1>5, <2>1, Working DEF Recv
  <2> QED BY <1>5, <2>1, <2>2, <2>3, Working DEF Recv
<1>6. CASE RecvNothing
  <2>1. at \notin After /\ at' \notin After /\ UNCHANGED said
    BY <1>6 DEF RecvNothing, After
  <2>2. LanTypeOK'
    BY <1>6 DEF RecvNothing
  <2>3. LanInv'
    BY <1>6, <2>1, Working DEF RecvNothing
  <2> QED BY <1>6, <2>1, <2>2, <2>3, Working DEF RecvNothing
<1>7. CASE JudgePing
  <2>1. at \notin After /\ at' \notin After /\ UNCHANGED said
    BY <1>7 DEF JudgePing, After
  <2>2. LanTypeOK'
    BY <1>7 DEF JudgePing
  <2>3. LanInv'
    BY <1>7, <2>1, Working DEF JudgePing
  <2> QED BY <1>7, <2>1, <2>2, <2>3, Working DEF JudgePing
<1>8. CASE Pause
  <2>1. at \notin After /\ at' \notin After /\ UNCHANGED said
    BY <1>8 DEF Pause, After
  <2>2. LanTypeOK'
    BY <1>8 DEF Pause
  <2>3. LanInv'
    BY <1>8, <2>1, Working DEF Pause
  <2> QED BY <1>8, <2>1, <2>2, <2>3, Working DEF Pause
<1>9. CASE StopMonitor
  <2>1. at \notin After /\ at' \notin After /\ UNCHANGED said
    BY <1>9 DEF StopMonitor, After, RequestStop, JoinMonitor
  <2>2. LanTypeOK'
    BY <1>9 DEF StopMonitor, RequestStop, JoinMonitor
  <2>3. LanInv'
    BY <1>9, <2>1, Working DEF StopMonitor, RequestStop, JoinMonitor
  <2> QED BY <1>9, <2>1, <2>2, <2>3, Working DEF StopMonitor, RequestStop, JoinMonitor
<1>10. CASE UnwindFrame
  <2>1. at \notin After /\ at' \notin After /\ UNCHANGED said
    BY <1>10 DEF UnwindFrame, After, RequestStop, JoinMonitor
  <2>2. LanTypeOK'
    BY <1>10 DEF UnwindFrame, RequestStop, JoinMonitor
  <2>3. LanInv'
    BY <1>10, <2>1, Working DEF UnwindFrame, RequestStop, JoinMonitor
  <2> QED BY <1>10, <2>1, <2>2, <2>3, Working DEF UnwindFrame, RequestStop, JoinMonitor
<1>11. CASE Gone
  <2>1. at \notin After /\ at' \notin After /\ UNCHANGED said
    BY <1>11 DEF Gone, After
  <2>2. LanTypeOK'
    BY <1>11 DEF Gone
  <2>3. LanInv'
    BY <1>11, <2>1, Working DEF Gone
  <2> QED BY <1>11, <2>1, <2>2, <2>3, Working DEF Gone
<1>12. CASE LanVerdict
  <2> QED BY <1>12 DEF LanVerdict, Say, VerdictInv, Happy, After, Ended, Verdicts
<1>13. CASE MonitorCheck
  <2>1. VerdictInv' /\ (Happy' <=> Happy)
    BY <1>13, Beside DEF MonitorCheck
  <2> QED BY <1>13, <2>1 DEF MonitorCheck, Alive
<1> QED BY <1>1, <1>2, <1>3, <1>4, <1>5, <1>6, <1>7, <1>8, <1>9, <1>10, <1>11, <1>12, <1>13
        DEF LanNext, LanMain

-----------------------------------------------------------------------------
(* The programs sound, mic and video. *)

LEMMA AskStep ==
    ASSUME TypeOK, VerdictInv, AskInv, AskNext, UNCHANGED hdd
    PROVE  /\ ProgramTypeOK' /\ AskTypeOK' /\ VerdictInv' /\ AskInv'
           /\ prog' = prog
           /\ prog \in {"sound", "mic", "video"} \/ UNCHANGED program
<1> USE DEF TypeOK, ProgramTypeOK, AskTypeOK, AskInv, At, Go, Throw, program, RunProcess
<1>1. CASE SetVolume
  <2>1. at \notin After /\ at' \notin After /\ UNCHANGED said
    BY <1>1 DEF SetVolume, After
  <2>2. AskTypeOK'
    BY <1>1 DEF SetVolume
  <2>3. AskInv'
    BY <1>1, <2>1, Working DEF SetVolume
  <2> QED BY <1>1, <2>1, <2>2, <2>3, Working DEF SetVolume
<1>2. CASE StartPlayer
  <2>1. at \notin After /\ at' \notin After /\ UNCHANGED said
    BY <1>2 DEF StartPlayer, After
  <2>2. AskTypeOK'
    BY <1>2 DEF StartPlayer
  <2>3. AskInv'
    BY <1>2, <2>1, Working DEF StartPlayer
  <2> QED BY <1>2, <2>1, <2>2, <2>3, Working DEF StartPlayer
<1>3. CASE FindPort
  <2>1. at \notin After /\ at' \notin After /\ UNCHANGED said
    BY <1>3 DEF FindPort, After
  <2>2. AskTypeOK'
    BY <1>3 DEF FindPort
  <2>3. AskInv'
    BY <1>3, <2>1, Working DEF FindPort
  <2> QED BY <1>3, <2>1, <2>2, <2>3, Working DEF FindPort
<1>4. CASE Answer
  <2>1. at \notin After /\ at' \notin After /\ UNCHANGED said
    BY <1>4 DEF Answer, After
  <2>2. AskTypeOK'
    BY <1>4 DEF Answer
  <2>3. AskInv'
    BY <1>4, <2>1, Working DEF Answer
  <2> QED BY <1>4, <2>1, <2>2, <2>3, Working DEF Answer
<1>5. CASE SetQuit
  <2>1. at \notin After /\ at' \notin After /\ UNCHANGED said
    BY <1>5 DEF SetQuit, After
  <2>2. AskTypeOK'
    BY <1>5 DEF SetQuit
  <2>3. AskInv'
    BY <1>5, <2>1, Working DEF SetQuit
  <2> QED BY <1>5, <2>1, <2>2, <2>3, Working DEF SetQuit
<1>6. CASE KillPlayer
  <2>1. at \notin After /\ at' \notin After /\ UNCHANGED said
    BY <1>6 DEF KillPlayer, After
  <2>2. AskTypeOK'
    BY <1>6 DEF KillPlayer
  <2>3. AskInv'
    BY <1>6, <2>1, Working DEF KillPlayer
  <2> QED BY <1>6, <2>1, <2>2, <2>3, Working DEF KillPlayer
<1>7. CASE JoinPlayer
  <2>1. at \notin After /\ at' \notin After /\ UNCHANGED said
    BY <1>7 DEF JoinPlayer, After
  <2>2. AskTypeOK'
    BY <1>7 DEF JoinPlayer
  <2>3. AskInv'
    BY <1>7, <2>1, Working DEF JoinPlayer
  <2> QED BY <1>7, <2>1, <2>2, <2>3, Working DEF JoinPlayer
<1>8. CASE Microphone
  <2>1. at \notin After /\ at' \notin After /\ UNCHANGED said
    BY <1>8 DEF Microphone, After, Record, Play, StopRecorder, AskOnce, WaitPlayer
  <2>2. AskTypeOK'
    BY <1>8 DEF Microphone, Record, Play, StopRecorder, AskOnce, WaitPlayer
  <2>3. AskInv'
    BY <1>8, <2>1, Working DEF Microphone, Record, Play, StopRecorder, AskOnce, WaitPlayer
  <2> QED BY <1>8, <2>1, <2>2, <2>3, Working DEF Microphone, Record, Play, StopRecorder, AskOnce, WaitPlayer
<1>9. CASE JudgeAnswer
  <2>1. at \notin After /\ at' \notin After /\ UNCHANGED said
    BY <1>9 DEF JudgeAnswer, After
  <2>2. AskTypeOK'
    BY <1>9 DEF JudgeAnswer
  <2>3. AskInv'
    BY <1>9, <2>1, Working DEF JudgeAnswer
  <2> QED BY <1>9, <2>1, <2>2, <2>3, Working DEF JudgeAnswer
<1>10. CASE Player
  <2>1. VerdictInv' /\ (Happy' <=> Happy)
    BY <1>10, Beside DEF Player, PlayerCheck, PlayerFork, PlayerWait
  <2> QED BY <1>10, <2>1 DEF Player, PlayerCheck, PlayerFork, PlayerWait
<1>11. CASE PlayEnds
  <2>1. VerdictInv' /\ (Happy' <=> Happy)
    BY <1>11, Beside DEF PlayEnds
  <2> QED BY <1>11, <2>1 DEF PlayEnds
<1> QED BY <1>1, <1>2, <1>3, <1>4, <1>5, <1>6, <1>7, <1>8, <1>9, <1>10, <1>11 DEF AskNext, AskMain

-----------------------------------------------------------------------------
(* The programs wifi and bluetooth. *)

\* What the invariant looks at, in two records of the program.
SameWish(r, s) == r.list = s.list /\ r.name = s.name /\ r.mac = s.mac

Same(r, s) == SameWish(r, s) /\ r.link = s.link /\ r.found = s.found

LEMMA SameListed ==
    ASSUME SameWish(radio', radio)
    PROVE  Listed' <=> Listed
BY DEF SameWish, Listed

LEMMA Returned ==
    ASSUME RadioTypeOK, radio' = [radio EXCEPT !.kid = "none", !.status = 0]
    PROVE  RadioTypeOK' /\ Same(radio', radio)
<1>1. RadioTypeOK'
  BY Statuses DEF RadioTypeOK
<1>2. Same(radio', radio)
  BY DEF RadioTypeOK, SameWish, Same
<1> QED BY <1>1, <1>2

LEMMA RadioStep ==
    ASSUME TypeOK, VerdictInv, RadioInv, RadioNext, UNCHANGED hdd
    PROVE  /\ ProgramTypeOK' /\ RadioTypeOK' /\ VerdictInv' /\ RadioInv'
           /\ prog' = prog
           /\ prog \in {"wifi", "bluetooth"} \/ UNCHANGED program
<1> USE DEF TypeOK, ProgramTypeOK, RadioTypeOK, RadioInv, At, Go, Throw, program, RunProcess
<1>1. CASE RunCommand
  <2>1. VerdictInv' /\ (Happy' <=> Happy)
    BY <1>1, Beside DEF RunCommand
  <2>2. RadioTypeOK' /\ Same(radio', radio)
    <3>1. CASE radio' = [radio EXCEPT !.kid = "runs", !.timer = "armed"]
      BY <3>1 DEF SameWish, Same
    <3>2. CASE radio' = [radio EXCEPT !.kid = "done", !.status = 1]
      BY <3>2, Statuses DEF SameWish, Same
    <3> QED BY <1>1, <3>1, <3>2 DEF RunCommand
  <2> QED BY <1>1, <2>1, <2>2, SameListed DEF RunCommand, SameWish, Same
<1>2. CASE WaitCommand
  <2>1. VerdictInv' /\ (Happy' <=> Happy)
    BY <1>2, Beside DEF WaitCommand
  <2>2. RadioTypeOK' /\ Same(radio', radio)
    BY <1>2, Statuses DEF WaitCommand, SameWish, Same
  <2> QED BY <1>2, <2>1, <2>2, SameListed DEF WaitCommand, SameWish, Same
<1>3. CASE StopTimeout
  <2>1. VerdictInv' /\ (Happy' <=> Happy)
    BY <1>3, Beside DEF StopTimeout
  <2>2. RadioTypeOK' /\ Same(radio', radio)
    BY <1>3, Statuses DEF StopTimeout, SameWish, Same
  <2> QED BY <1>3, <2>1, <2>2, SameListed DEF StopTimeout, SameWish, Same
<1>4. CASE CommandEnds
  <2>1. VerdictInv' /\ (Happy' <=> Happy)
    BY <1>4, Beside DEF CommandEnds
  <2> DEFINE joins(s) == at = "connect" /\ s = 0 /\ radio.link = "off" /\ radio.known
             link(s) == IF joins(s) THEN "linked" ELSE radio.link
  <2>2. PICK s \in 0 .. 1: radio' = [radio EXCEPT !.kid = "exited", !.status = s, !.link = link(s)]
    BY <1>4 DEF CommandEnds
  <2>3. link(s) \in {"off", "linked", "address"} /\ (radio.link = "address" => link(s) = "address")
    OBVIOUS
  <2> HIDE DEF link, joins
  <2>4. /\ RadioTypeOK' /\ radio'.link = link(s) /\ radio'.found = radio.found
        /\ radio'.list = radio.list /\ radio'.name = radio.name /\ radio'.mac = radio.mac
    <3>1. s \in 0 .. 2
      BY ONLY <2>2
    <3> QED BY <2>2, <2>3, <3>1
  <2>5. Listed' <=> Listed
    BY <2>4, SameListed DEF SameWish
  <2> QED BY <1>4, <2>1, <2>3, <2>4, <2>5 DEF CommandEnds
<1>5. CASE GetAddress
  <2>1. VerdictInv' /\ (Happy' <=> Happy)
    BY <1>5, Beside DEF GetAddress
  <2>2. RadioTypeOK'
    BY <1>5 DEF GetAddress
  <2> QED BY <1>5, <2>1, <2>2 DEF GetAddress
<1>6. CASE TimerFires
  <2>1. VerdictInv' /\ (Happy' <=> Happy)
    BY <1>6, Beside DEF TimerFires
  <2>2. RadioTypeOK' /\ Same(radio', radio)
    BY <1>6, Statuses DEF TimerFires, SameWish, Same
  <2> QED BY <1>6, <2>1, <2>2, SameListed DEF TimerFires, SameWish, Same
<1>7. CASE TimerKills
  <2>1. VerdictInv' /\ (Happy' <=> Happy)
    BY <1>7, Beside DEF TimerKills
  <2>2. RadioTypeOK' /\ Same(radio', radio)
    <3> DEFINE kid == IF radio.kid = "runs" THEN "exited" ELSE radio.kid
               status == IF radio.kid = "runs" THEN 2 ELSE radio.status
    <3>1. kid \in {"none", "runs", "exited", "reaped", "done"}
      OBVIOUS
    <3>3. status \in 0 .. 2
      <4>1. radio.status \in 0 .. 2
        OBVIOUS
      <4> QED BY <4>1, Statuses
    <3>2. radio' = [radio EXCEPT !.killer = FALSE, !.timer = "off", !.kid = kid, !.status = status]
      BY <1>7 DEF TimerKills
    <3> HIDE DEF kid, status
    <3> QED BY <3>1, <3>3, <3>2 DEF SameWish, Same
  <2> QED BY <1>7, <2>1, <2>2, SameListed DEF TimerKills, SameWish, Same
<1>8. CASE FindAdapter
  <2>1. at \notin After /\ at' \notin After /\ UNCHANGED said
    BY <1>8 DEF FindAdapter, Return, Result, Missing, After
  <2>2. RadioTypeOK' /\ Same(radio', radio)
    BY <1>8, Returned DEF FindAdapter, Return
  <2>3. RadioInv'
    BY <1>8, <2>1, <2>2, Working, SameListed DEF FindAdapter, Return, Result, Missing, SameWish, Same
  <2> QED BY <1>8, <2>1, <2>2, <2>3, Working DEF FindAdapter, Return, Result, Missing
<1>9. CASE WifiStart
  <2>1. at \notin After /\ at' \notin After /\ UNCHANGED said
    BY <1>9 DEF WifiStart, After
  <2>2. RadioTypeOK'
    BY <1>9 DEF WifiStart
  <2>3. RadioInv'
    BY <1>9, <2>1, Working DEF WifiStart
  <2> QED BY <1>9, <2>1, <2>2, <2>3, Working DEF WifiStart
<1>10. CASE CheckNetwork
  <2>1. at \notin After /\ at' \notin After /\ UNCHANGED said
    BY <1>10 DEF CheckNetwork, Return, Result, Missing, After
  <2>2. RadioTypeOK' /\ Same(radio', radio)
    BY <1>10, Returned DEF CheckNetwork, Return
  <2>3. RadioInv'
    BY <1>10, <2>1, <2>2, Working, SameListed DEF CheckNetwork, Return, Result, Missing, SameWish, Same
  <2> QED BY <1>10, <2>1, <2>2, <2>3, Working DEF CheckNetwork, Return, Result, Missing
<1>11. CASE CheckAddress
  <2>1. at \notin After /\ at' \notin After /\ UNCHANGED said
    BY <1>11 DEF CheckAddress, Return, Result, Missing, After
  <2>2. RadioTypeOK' /\ Same(radio', radio)
    BY <1>11, Returned DEF CheckAddress, Return
  <2>3. RadioInv'
    BY <1>11, <2>1, <2>2, Working, SameListed DEF CheckAddress, Return, Result, Missing, SameWish, Same
  <2> QED BY <1>11, <2>1, <2>2, <2>3, Working DEF CheckAddress, Return, Result, Missing
<1>12. CASE Connect
  <2>1. at \notin After /\ at' \notin After /\ UNCHANGED said
    BY <1>12 DEF Connect, Result, After
  <2>2. RadioTypeOK' /\ Same(radio', radio)
    <3>1. radio' = [radio EXCEPT !.kid = "none", !.status = 0, !.tried = TRUE]
      BY <1>12 DEF Connect
    <3> QED BY <3>1, Statuses DEF SameWish, Same
  <2>3. RadioInv'
    BY <1>12, <2>1, <2>2, Working, SameListed DEF Connect, Result, SameWish, Same
  <2> QED BY <1>12, <2>1, <2>2, <2>3, Working DEF Connect, Result
<1>13. CASE BluetoothStart
  <2>1. at \notin After /\ at' \notin After /\ UNCHANGED said
    BY <1>13 DEF BluetoothStart, After
  <2>2. RadioTypeOK'
    BY <1>13 DEF BluetoothStart
  <2>3. RadioInv'
    <3>1. UNCHANGED radio /\ ~Happy' /\ ~Happy
      BY <1>13, <2>1, Working DEF BluetoothStart
    <3>2. Listed' <=> Listed
      BY <3>1, SameListed DEF SameWish
    <3> QED BY <1>13, <3>1, <3>2 DEF BluetoothStart
  <2> QED BY <1>13, <2>1, <2>2, <2>3, Working DEF BluetoothStart
<1>14. CASE ScanOn
  <2>1. at \notin After /\ at' \notin After /\ UNCHANGED said
    BY <1>14 DEF ScanOn, Return, Result, Missing, After
  <2>2. RadioTypeOK' /\ Same(radio', radio)
    BY <1>14, Returned DEF ScanOn, Return
  <2>3. RadioInv'
    BY <1>14, <2>1, <2>2, Working, SameListed DEF ScanOn, Return, Result, Missing, SameWish, Same
  <2> QED BY <1>14, <2>1, <2>2, <2>3, Working DEF ScanOn, Return, Result, Missing
<1>15. CASE ListDevices
  <2>1. at \notin After /\ at' \notin After /\ UNCHANGED said
    BY <1>15 DEF ListDevices, Result, After
  <2>2. PICK found \in BOOLEAN:
          /\ found => Listed
          /\ radio' = [radio EXCEPT !.kid = "none", !.status = 0, !.found = found]
    BY <1>15 DEF ListDevices
  <2>3. RadioTypeOK' /\ radio'.list = radio.list /\ radio'.name = radio.name /\ radio'.mac = radio.mac
           /\ radio'.found = found
    BY <2>2, Statuses
  <2>4. RadioInv'
    <3>1. Listed' <=> Listed
      BY <2>3, SameListed DEF SameWish
    <3> QED BY <1>15, <2>1, <2>2, <2>3, <3>1, Working DEF ListDevices, Result
  <2> QED BY <1>15, <2>1, <2>3, <2>4, Working DEF ListDevices, Result
<1>16. CASE ScanOff
  <2>1. at \notin After /\ at' \notin After /\ UNCHANGED said
    BY <1>16 DEF ScanOff, Return, Result, Missing, After
  <2>2. RadioTypeOK' /\ Same(radio', radio)
    BY <1>16, Returned DEF ScanOff, Return
  <2>3. RadioInv'
    BY <1>16, <2>1, <2>2, Working, SameListed DEF ScanOff, Return, Result, Missing, SameWish, Same
  <2> QED BY <1>16, <2>1, <2>2, <2>3, Working DEF ScanOff, Return, Result, Missing
<1> QED BY <1>1, <1>2, <1>3, <1>4, <1>5, <1>6, <1>7, <1>8, <1>9, <1>10, <1>11, <1>12, <1>13, <1>14, <1>15, <1>16
        DEF RadioNext, RadioMain, Command, Wifi, Bluetooth, Timeout

-----------------------------------------------------------------------------
(* The steps all programs have, and the theorems. *)

LEMMA TypesKept ==
    /\ CpuTypeOK /\ UNCHANGED cpu => CpuTypeOK'
    /\ MemTypeOK /\ UNCHANGED mem => MemTypeOK'
    /\ HddTypeOK /\ UNCHANGED hdd => HddTypeOK'
    /\ LanTypeOK /\ UNCHANGED lan => LanTypeOK'
    /\ AskTypeOK /\ UNCHANGED ask => AskTypeOK'
    /\ RadioTypeOK /\ UNCHANGED radio => RadioTypeOK'
<1>1. CpuTypeOK /\ UNCHANGED cpu => CpuTypeOK'
  BY DEF CpuTypeOK
<1>2. MemTypeOK /\ UNCHANGED mem => MemTypeOK'
  BY DEF MemTypeOK
<1>3. HddTypeOK /\ UNCHANGED hdd => HddTypeOK'
  BY DEF HddTypeOK
<1>4. LanTypeOK /\ UNCHANGED lan => LanTypeOK'
  BY DEF LanTypeOK
<1>5. AskTypeOK /\ UNCHANGED ask => AskTypeOK'
  BY DEF AskTypeOK
<1>6. RadioTypeOK /\ UNCHANGED radio => RadioTypeOK'
  BY DEF RadioTypeOK
<1> QED BY <1>1, <1>2, <1>3, <1>4, <1>5, <1>6

\* One part of the invariant says nothing of the steps of the other programs.
LEMMA Others ==
    ASSUME UNCHANGED program
    PROVE  /\ CpuInv /\ UNCHANGED cpu => CpuInv'
           /\ MemInv /\ UNCHANGED mem => MemInv'
           /\ HddInv /\ UNCHANGED hdd => HddInv'
           /\ LanInv /\ UNCHANGED lan => LanInv'
           /\ AskInv /\ UNCHANGED ask => AskInv'
           /\ RadioInv /\ UNCHANGED radio => RadioInv'
<1> USE DEF program
<1>1. Happy' <=> Happy
  BY DEF Happy
<1>2. CpuInv /\ UNCHANGED cpu => CpuInv'
  BY <1>1 DEF CpuInv
<1>3. MemInv /\ UNCHANGED mem => MemInv'
  BY <1>1 DEF MemInv, Matching
<1>4. HddInv /\ UNCHANGED hdd => HddInv'
  BY <1>1 DEF HddInv, Failed
<1>5. LanInv /\ UNCHANGED lan => LanInv'
  BY <1>1 DEF LanInv, LanPassed
<1>6. AskInv /\ UNCHANGED ask => AskInv'
  BY <1>1 DEF AskInv
<1>7. RadioInv /\ UNCHANGED radio => RadioInv'
  BY <1>1, SameListed DEF RadioInv, SameWish
<1> QED BY <1>2, <1>3, <1>4, <1>5, <1>6, <1>7

\* A part says little of the other programs, too, wherever their main goes.
LEMMA Elsewhere ==
    ASSUME prog' = prog
    PROVE  /\ prog # "cpu" => CpuInv'
           /\ MemInv /\ prog # "mem" /\ UNCHANGED mem => MemInv'
           /\ HddInv /\ prog # "hdd" /\ UNCHANGED hdd => HddInv'
           /\ LanInv /\ prog # "lan" /\ UNCHANGED lan => LanInv'
           /\ AskInv /\ prog \notin {"sound", "mic", "video"} /\ UNCHANGED ask => AskInv'
           /\ prog \notin {"wifi", "bluetooth"} => RadioInv'
BY DEF CpuInv, MemInv, HddInv, LanInv, AskInv, RadioInv

LEMMA InitIInv == Init => IInv
<1> SUFFICES ASSUME Init PROVE IInv
  OBVIOUS
<1> USE DEF Init, InitProgram, Programs
<1>1. ProgramTypeOK /\ VerdictInv /\ ~Happy /\ at = "start" /\ stop = "no"
  BY DEF ProgramTypeOK, VerdictInv, Happy, Ended, After, Verdicts
<1>2. CpuTypeOK /\ CpuInv
  BY <1>1, CpuAssumption DEF InitCpu, CpuTypeOK, CpuInv, Idle
<1>3. MemTypeOK /\ MemInv
  <2> DEFINE S == [manage: BOOLEAN, swap: {TRUE}, buf: {"none"}, pattern: {0}, rounds: {0},
                     bitA: 0 .. 2, bitB: 0 .. 2, cut: {FALSE}]
  <2>1. [manage |-> TRUE, swap |-> TRUE, buf |-> "none", pattern |-> 0, rounds |-> 0,
          bitA |-> 0, bitB |-> 0, cut |-> FALSE]
          \in S
    OBVIOUS
  <2>2. mem \in StartOf({"mem"}, S)
    BY DEF InitMem
  <2>3. mem \in S
    <3> HIDE DEF S
    <3> QED BY <2>1, <2>2, StartTyped
  <2>4. MemTypeOK
    <3>1. 0 \in 0 .. MaxRounds
      BY MemAssumption
    <3> QED BY <2>3, <3>1, Statuses DEF MemTypeOK
  <2> QED BY <1>1, <2>3, <2>4 DEF MemInv
<1>4. HddTypeOK /\ HddInv
  <2> DEFINE S == [stress: BOOLEAN, asked: {<<>>}, plan: {<<>>}, turns: {0}, attempt: {0}, dd: {"none"},
                     status: {0}, fast: {FALSE}, lines: {0}, dog: {"off"}, good: {{}}]
  <2>1. [stress |-> TRUE, asked |-> <<>>, plan |-> <<>>, turns |-> 0, attempt |-> 0, dd |-> "none",
          status |-> 0, fast |-> FALSE, lines |-> 0, dog |-> "off", good |-> {}]
          \in S
    OBVIOUS
  <2>2. hdd \in StartOf({"hdd"}, S)
    BY DEF InitHdd
  <2>3. hdd \in S
    <3> HIDE DEF S
    <3> QED BY <2>1, <2>2, StartTyped
  <2>4. HddTypeOK
    <3>1. 0 \in 0 .. MaxTurns /\ 0 \in 0 .. MaxLines
      BY HddAssumption
    <3> QED BY <2>3, <3>1, Statuses DEF HddTypeOK, Plans
  <2> QED BY <1>1, <2>3, <2>4 DEF HddInv
<1>5. LanTypeOK /\ LanInv
  <2> DEFINE S == [stress: BOOLEAN, limit: 0 .. 1, seq: {0}, result: {"none"}, warnings: {0},
                     failures: {0}, net: {{}}, answered: {TRUE}, misread: {FALSE}, monitor: {"none"},
                     object: {FALSE}, finished: {TRUE}]
  <2>1. [stress |-> TRUE, limit |-> 0, seq |-> 0, result |-> "none", warnings |-> 0, failures |-> 0,
          net |-> {}, answered |-> TRUE, misread |-> FALSE, monitor |-> "none", object |-> FALSE,
          finished |-> TRUE]
          \in S
    OBVIOUS
  <2>2. lan \in StartOf({"lan"}, S)
    BY DEF InitLan
  <2>3. lan \in S
    <3> HIDE DEF S
    <3> QED BY <2>1, <2>2, StartTyped
  <2>4. LanTypeOK
    <3>1. 0 \in Nat /\ 0 \in 0 .. 1
      OBVIOUS
    <3> QED BY <2>3, <3>1 DEF LanTypeOK
  <2> QED BY <1>1, <2>3, <2>4 DEF LanInv
<1>6. AskTypeOK /\ AskInv
  <2> DEFINE S == [works: BOOLEAN, eof: BOOLEAN, player: {"none"}, kid: {"none"}, pid: {"zero"},
                     quit: {FALSE}, recorder: {"none"}]
  <2>1. [works |-> TRUE, eof |-> TRUE, player |-> "none", kid |-> "none", pid |-> "zero",
          quit |-> FALSE, recorder |-> "none"]
          \in S
    OBVIOUS
  <2>2. ask \in StartOf({"sound", "mic", "video"}, S)
    BY DEF InitAsk
  <2>3. ask \in S
    <3> HIDE DEF S
    <3> QED BY <2>1, <2>2, StartTyped
  <2>4. AskTypeOK
    BY <2>3 DEF AskTypeOK
  <2> QED BY <1>1, <2>3, <2>4 DEF AskInv
<1>7. RadioTypeOK /\ RadioInv
  <2> DEFINE S == [adapter: BOOLEAN, known: IF prog = "wifi" THEN BOOLEAN ELSE {FALSE},
                     link: IF prog = "wifi" THEN {"off", "linked", "address"} ELSE {"off"},
                     list: IF prog = "bluetooth" THEN SUBSET Devices ELSE {{}},
                     name: {"", "lamp"}, mac: {"", "aa"}, tried: {FALSE}, found: {FALSE},
                     kid: {"none"}, status: {0}, timer: {"off"}, killer: {FALSE}]
  <2>1. [adapter |-> TRUE, known |-> FALSE, link |-> "off", list |-> {}, name |-> "", mac |-> "",
          tried |-> FALSE, found |-> FALSE, kid |-> "none", status |-> 0, timer |-> "off",
          killer |-> FALSE]
          \in S
    OBVIOUS
  <2>2. radio \in StartOf({"wifi", "bluetooth"}, S)
    BY DEF InitRadio
  <2>3. radio \in S
    <3> HIDE DEF S
    <3> QED BY <2>1, <2>2, StartTyped
  <2>4. RadioTypeOK
    <3>1. /\ (IF prog = "wifi" THEN BOOLEAN ELSE {FALSE}) \subseteq BOOLEAN
          /\ (IF prog = "wifi" THEN {"off", "linked", "address"} ELSE {"off"})
                \subseteq {"off", "linked", "address"}
          /\ (IF prog = "bluetooth" THEN SUBSET Devices ELSE {{}}) \subseteq SUBSET Devices
      OBVIOUS
    <3> QED BY <2>3, <3>1, Statuses DEF RadioTypeOK
  <2> QED BY <1>1, <2>3, <2>4 DEF RadioInv
<1> QED BY <1>1, <1>2, <1>3, <1>4, <1>5, <1>6, <1>7 DEF IInv, TypeOK

\* The steps that are the same in all programs: the verdict, the end and the stop.
LEMMA CommonStep ==
    ASSUME IInv, Common
    PROVE  IInv'
<1> USE DEF IInv, TypeOK, ProgramTypeOK, Common, States, At, Go, Say
<1>1. /\ UNCHANGED <<prog, cpu, mem, hdd, lan, ask, radio>>
      /\ CpuTypeOK' /\ MemTypeOK' /\ HddTypeOK' /\ LanTypeOK' /\ AskTypeOK' /\ RadioTypeOK'
  <2>1. UNCHANGED <<prog, cpu, mem, hdd, lan, ask, radio>>
    BY DEF PrintVerdict, Leave, Signal, Handle, KillSelf
  <2> QED BY <2>1, TypesKept
<1>2. ProgramTypeOK' /\ VerdictInv'
  <2> USE DEF VerdictInv, After, Ended, Verdicts, Alive
  <2>1. CASE PrintVerdict
    <3>1. said = <<>> /\ at' = "leave" /\ stop' = stop /\ prog' = prog
      BY <2>1 DEF PrintVerdict
    <3>2. said' \in {<<"OK">>, <<"ERR">>}
      BY <2>1, <3>1 DEF PrintVerdict
    <3>3. said' \in Seq(Verdicts)
      <4>1. \A v \in Verdicts: <<v>> \in Seq(Verdicts)
        OBVIOUS
      <4> QED BY <3>2, <4>1
    <3>4. said' \in {<<v>> : v \in Verdicts}
      BY <3>2
    <3>5. said' # <<>>
      BY <3>2
    <3> QED BY <3>1, <3>3, <3>4, <3>5
  <2>2. CASE Leave
    BY <2>2 DEF Leave
  <2>3. CASE Signal \/ Handle
    BY <2>3 DEF Signal, Handle
  <2>4. CASE KillSelf
    BY <2>4 DEF KillSelf
  <2> QED BY <2>1, <2>2, <2>3, <2>4
<1>3. Happy' => Happy
  BY DEF PrintVerdict, Leave, Signal, Handle, KillSelf, VerdictInv, Happy, After
<1>4. /\ at' = at \/ at' \in {"leave", "end"}
      /\ at' = at \/ at = "ok" \/ at = "err" \/ at = "leave" \/ stop = "handled"
  BY DEF PrintVerdict, Leave, Signal, Handle, KillSelf
<1>5. CpuInv'
  BY <1>1, <1>3, <1>4 DEF CpuInv
<1>6. MemInv'
  <2>1. prog = "mem" => stop' = stop \/ stop' = "sent"
    BY DEF PrintVerdict, Leave, Signal, Handle, KillSelf
  <2>2. prog = "mem" /\ at' = "end" => at = "end" \/ stop = "handled"
    BY DEF PrintVerdict, Leave, Signal, Handle, KillSelf
  <2> QED BY <1>1, <1>3, <1>4, <2>1, <2>2 DEF MemInv, Matching
<1>7. HddInv'
  <2>1. prog = "hdd" /\ hdd.dd = "runs" => at' = at \/ at' = "end"
    BY DEF PrintVerdict, Leave, Signal, Handle, KillSelf, HddInv
  <2> QED BY <1>1, <1>3, <1>4, <2>1 DEF HddInv, Failed
<1>8. LanInv'
  <2>1. prog = "lan" /\ at' # at => at \in {"ok", "err", "leave"} \/ at' = "end"
    BY <1>4 DEF KillSelf, PrintVerdict, Leave, Signal, Handle
  <2> QED BY <1>1, <1>3, <1>4, <2>1 DEF LanInv, LanPassed
<1>9. AskInv'
  BY <1>1, <1>3 DEF AskInv
<1>10. RadioInv'
  BY <1>1, <1>3, SameListed DEF RadioInv, SameWish
<1> QED BY <1>1, <1>2, <1>5, <1>6, <1>7, <1>8, <1>9, <1>10

LEMMA NextIInv == IInv /\ [Next]_vars => IInv'
<1> SUFFICES ASSUME IInv, [Next]_vars PROVE IInv'
  OBVIOUS
<1> USE DEF IInv, TypeOK
<1>1. CASE Common
  BY <1>1, CommonStep
<1>2. CASE CpuNext /\ NotCpu
  BY <1>2, CpuStep, Others, Elsewhere, TypesKept DEF NotCpu
<1>3. CASE MemNext /\ NotMem
  BY <1>3, MemStep, Others, Elsewhere, TypesKept DEF NotMem
<1>4. CASE HddNext /\ NotHdd
  BY <1>4, HddStep, Others, Elsewhere, TypesKept DEF NotHdd
<1>5. CASE LanNext /\ NotLan
  BY <1>5, LanStep, Others, Elsewhere, TypesKept DEF NotLan
<1>6. CASE AskNext /\ NotAsk
  BY <1>6, AskStep, Others, Elsewhere, TypesKept DEF NotAsk
<1>7. CASE RadioNext /\ NotRadio
  BY <1>7, RadioStep, Others, Elsewhere, TypesKept DEF NotRadio
<1>8. CASE UNCHANGED vars
  <2>1. UNCHANGED program /\ UNCHANGED <<cpu, mem, hdd, lan, ask, radio>>
    BY <1>8 DEF vars, program
  <2>2. VerdictInv'
    BY <2>1, Beside DEF program
  <2>3. TypeOK'
    BY <2>1, TypesKept DEF program, ProgramTypeOK
  <2> QED BY <2>1, <2>2, <2>3, Others
<1> QED BY <1>1, <1>2, <1>3, <1>4, <1>5, <1>6, <1>7, <1>8 DEF Next

THEOREM Invariance == Spec => []IInv
BY InitIInv, NextIInv, PTL DEF Spec

\* The state of every program keeps its type.
THEOREM TypeCorrect == Spec => []TypeOK
<1>1. IInv => TypeOK
  BY DEF IInv
<1> QED BY <1>1, Invariance, PTL

\* A program says TEST OK only when what it tests has passed: PrintVerdict is
\* reached from ok alone, and every way to ok goes by the last check of the
\* program (cpu, mem, hdd, lan, sound, video, wifi, bluetooth).
THEOREM OkJustified == Spec => []OkMeansPassed
<1>1. IInv => OkMeansPassed
  <2> SUFFICES ASSUME IInv, NEW i \in DOMAIN said, said[i] = "OK" PROVE Passed
    BY DEF OkMeansPassed
  <2>1. said = <<"OK">>
    BY DEF IInv, VerdictInv, Verdicts
  <2>2. Happy
    BY <2>1 DEF Happy
  <2>3. prog = "hdd" => HddPassed
    BY <2>2 DEF IInv, HddInv, HddPassed, Modes
  <2> QED BY <2>2, <2>3 DEF IInv, CpuInv, MemInv, LanInv, AskInv, RadioInv, Passed, CpuPassed,
             MemPassed, AskPassed, WifiPassed, BluetoothPassed
<1> QED BY <1>1, Invariance, PTL

\* A program gives its verdict once, and ends without one only when it was
\* stopped or when the watchdog of dd ended it.
THEOREM VerdictOnce == Spec => []OneVerdict
<1>1. IInv => OneVerdict
  <2> SUFFICES ASSUME IInv PROVE OneVerdict
    OBVIOUS
  <2>1. Len(said) = IF said = <<>> THEN 0 ELSE 1
    BY DEF IInv, VerdictInv, Verdicts
  <2> QED BY <2>1 DEF IInv, VerdictInv, OneVerdict
<1> QED BY <1>1, Invariance, PTL

\* mem leaves the machine with its swap, wherever SIGTERM met it, if not within
\* swapoff itself.
THEOREM SwapKept == Spec => []SwapRestored
<1>1. IInv => SwapRestored
  BY DEF IInv, MemInv, SwapRestored, Ended
<1> QED BY <1>1, Invariance, PTL

\* The thread of CLinkSpeedMonitor never runs without its object, which an
\* exception of the frame destroys.
THEOREM MonitorSafe == Spec => []MonitorHasObject
<1>1. IInv => MonitorHasObject
  BY DEF IInv, LanInv, MonitorHasObject
<1> QED BY <1>1, Invariance, PTL
=============================================================================
