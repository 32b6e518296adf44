----------------------------- MODULE TestProgram -----------------------------
(***************************************************************************)
(* What the programs that test the devices have in common.  The main       *)
(* thread works through its test, prints one line TEST OK, TEST WARNING or *)
(* TEST ERR for the runner and leaves; anything that goes wrong is an      *)
(* exception that main catches.  The runner stops a program with SIGTERM:  *)
(* the handler runs in the main thread, wherever that is, and main never   *)
(* goes on after it.                                                       *)
(***************************************************************************)
EXTENDS Naturals, Sequences

Programs == {"cpu", "mem", "hdd", "lan", "sound", "mic", "video", "wifi", "bluetooth"}

VARIABLES
    prog,             \* the program that was started
    at,               \* where its main thread is
    said,             \* the verdicts it has printed
    stop              \* how far a signal to stop has come

program == <<prog, at, said, stop>>

Verdicts == {"OK", "WARNING", "ERR"}

ProgramTypeOK ==
    /\ prog \in Programs
    /\ said \in Seq(Verdicts)
    /\ stop \in {"no", "sent", "handled", "hung"}

InitProgram ==
    /\ prog \in Programs
    /\ at = "start"
    /\ said = <<>>
    /\ stop = "no"

\* The states a program may start in; the state of the others does not matter.
StartOf(programs, states) ==
    IF prog \in programs THEN states ELSE {CHOOSE s \in states: TRUE}

Alive == at # "end"

\* Main of p is at loc, and not under the handler of a signal.
At(p, loc) == prog = p /\ at = loc /\ stop \in {"no", "sent"}

Go(loc) == at' = loc /\ UNCHANGED <<prog, said, stop>>

Throw == Go("err")

Say(verdict, loc) == said' = Append(said, verdict) /\ at' = loc /\ UNCHANGED <<prog, stop>>

\* The two ends of the try block of main.
PrintVerdict ==
    \E p \in Programs:
       \/ At(p, "ok") /\ Say("OK", "leave")
       \/ At(p, "err") /\ Say("ERR", "leave")

\* The end of main; the children go with the process.
Leave == \E p \in Programs \ {"mem"}: At(p, "leave") /\ Go("end")

\* A child runs its command, or there is an error of fork or exec.
RunProcess == {"runs", "failed"}

\* The runner stops the test.
Signal == Alive /\ stop = "no" /\ stop' = "sent" /\ UNCHANGED <<prog, at, said>>

\* TAbort in the main thread.
Handle == stop = "sent" /\ Alive /\ stop' = "handled" /\ UNCHANGED <<prog, at, said>>

\* killchilds and killself at the end of the handler.
KillSelf == stop = "handled" /\ Go("end")
=============================================================================
