------------------------------- MODULE MemTest -------------------------------
(***************************************************************************)
(* The program mem.  Both halves of a buffer are filled with a pattern and *)
(* compared, then with the inverted pattern; one bit of each half stands   *)
(* for the memory, and may be stuck.  Swap is turned off for the time of   *)
(* the test, and turned on by main or by the handler of a stop.            *)
(***************************************************************************)
EXTENDS TestProgram

CONSTANT MaxRounds    \* bound: rounds in the time of the test

ASSUME MemAssumption == MaxRounds \in Nat

VARIABLE mem

MemTypeOK ==
    mem \in [manage: BOOLEAN, swap: BOOLEAN, buf: {"none", "held", "freed"}, pattern: 0 .. 1,
             rounds: 0 .. MaxRounds, bitA: 0 .. 2, bitB: 0 .. 2, cut: BOOLEAN]

Works == 2            \* a bit that is not stuck at 0 or 1

InitMem ==
    mem \in StartOf({"mem"},
       [manage: BOOLEAN, swap: {TRUE}, buf: {"none"}, pattern: {0}, rounds: {0},
        bitA: 0 .. 2, bitB: 0 .. 2, cut: {FALSE}])

MemStart ==
    /\ At("mem", "start")
    /\ Go(IF mem.manage THEN "swapoff" ELSE "alloc")
    /\ UNCHANGED mem

\* The child of system("/sbin/swapoff -a"), which works on under a handler.
SwapOffChild ==
    /\ prog = "mem" /\ at = "swapoff"
    /\ mem' = [mem EXCEPT !.swap = FALSE]
    /\ UNCHANGED program

\* A failure is only logged.
SwapOffDone == At("mem", "swapoff") /\ Go("alloc") /\ UNCHANGED mem

\* InitializeMemoryBuffer asks for less and less; nothing is an exception.
Allocate ==
    /\ At("mem", "alloc")
    /\ \/ Go("lock") /\ mem' = [mem EXCEPT !.buf = "held"]
       \/ Throw /\ UNCHANGED mem

\* mlock, and the first round.
Lock ==
    /\ At("mem", "lock")
    /\ Go("first") \/ Throw
    /\ \E p \in 0 .. 1: mem' = [mem EXCEPT !.pattern = p]

Stored(bit, pattern) == IF bit = Works THEN pattern ELSE bit

\* VerifyMemoryMatching.
Matching(pattern) == Stored(mem.bitA, pattern) = Stored(mem.bitB, pattern)

FirstPass ==
    /\ At("mem", "first")
    /\ IF Matching(mem.pattern) THEN Go("second") ELSE Throw
    /\ UNCHANGED mem

SecondPass ==
    /\ At("mem", "second")
    /\ IF Matching(1 - mem.pattern) THEN Go("round") ELSE Throw
    /\ UNCHANGED mem

\* Another round while there is time.
NextRound ==
    /\ At("mem", "round")
    /\ \/ mem.rounds < MaxRounds /\ Go("first")
       \/ Go("ok")
    /\ \E p \in 0 .. 1: mem' = [mem EXCEPT !.rounds = IF @ < MaxRounds THEN @ + 1 ELSE @,
                                           !.pattern = p]

\* ReleaseResources in main: free, the pointer, swapon.
Free ==
    /\ At("mem", "leave") /\ Go("null")
    /\ mem' = [mem EXCEPT !.buf = IF @ = "held" THEN "freed" ELSE @]

Null == At("mem", "null") /\ Go("swapon") /\ mem' = [mem EXCEPT !.buf = "none"]

\* Fault: main leaves the swap to the handler.
SwapOnFault == At("mem", "swapon") /\ Go("end") /\ UNCHANGED mem

SwapOn == At("mem", "swapon") /\ Go("end") /\ mem' = [mem EXCEPT !.swap = @ \/ mem.manage]

\* HandleShutdown: ReleaseResources in the handler.  A buffer that main has
\* just freed is freed again: the process may go on, or its SIGSEGV waits for
\* the main thread, which never leaves the handler.
Shutdown ==
    /\ prog = "mem" /\ Alive /\ stop = "sent"
    /\ \/ /\ stop' = "handled"
          /\ mem' = [mem EXCEPT !.buf = "none", !.swap = @ \/ mem.manage, !.cut = (at = "swapoff")]
       \/ /\ mem.buf = "freed"
          /\ stop' = "hung"
          /\ UNCHANGED mem
    /\ UNCHANGED <<prog, at, said>>

MemMain == MemStart \/ SwapOffDone \/ Allocate \/ Lock \/ FirstPass \/ SecondPass \/ NextRound
              \/ Free \/ Null \/ SwapOn

MemNext == MemMain \/ SwapOffChild \/ Shutdown

\* The halves answer alike to both patterns: what a comparison can tell.
MemPassed == mem.bitA = mem.bitB
=============================================================================
