------------------------------- MODULE UiLoop -------------------------------
(***************************************************************************)
(* How the threads of sberdevtest call into the user-interface thread:     *)
(* TUI::DoLock, run by the worker threads (test execution, sensor monitor, *)
(* autostart timer), and the loop TUI::Run of the main thread.             *)
(*                                                                         *)
(* A worker locks UI->mutex, stores the event number in do_event and       *)
(* waits for event_done, which is sticky and reset by the thread it wakes. *)
(* The loop polls the keyboard first and, when there is no key, runs the   *)
(* handler of a posted event, clears do_event and sets event_done.  A key  *)
(* may set fexit (TUI::exit); the loop then ends and sets event_done once  *)
(* more for whoever still waits.                                           *)
(***************************************************************************)
EXTENDS Naturals

CONSTANTS
    Workers,          \* the threads other than the main one
    Parsers,          \* those that also lock UI->mutex on their own (UILOCK)
    NoWorker          \* no thread: a free mutex, do_event = 0

ASSUME WorkersAssumption ==
    /\ NoWorker \notin Workers
    /\ Parsers \subseteq Workers

VARIABLES
    pc,               \* pc[w]: where worker w stands in DoLock
    owner,            \* the owner of UI->mutex
    posted,           \* do_event, named by the worker that stored it
    flag,             \* event_done.flag
    fexit,
    mpc,              \* where the main thread stands in Run
    handled           \* history: workers whose handler ran in this call

loopVars == <<pc, owner, posted, flag, fexit, mpc, handled>>

WorkerPcs == {"idle", "lock", "post", "wait", "unlock", "parse"}
MainPcs   == {"poll", "handler", "clear", "set", "final", "returned"}

\* Values and shapes of the state.
LoopTypeOK ==
    /\ pc \in [Workers -> WorkerPcs]
    /\ owner \in Workers \cup {NoWorker}
    /\ posted \in Workers \cup {NoWorker}
    /\ flag \in BOOLEAN
    /\ fexit \in BOOLEAN
    /\ mpc \in MainPcs
    /\ handled \in SUBSET Workers

LoopInit ==
    /\ pc = [w \in Workers |-> "idle"]
    /\ owner = NoWorker
    /\ posted = NoWorker
    /\ flag = FALSE
    /\ fexit = FALSE
    /\ mpc = "poll"
    /\ handled = {}

Goto(w, from, to) ==
    /\ pc[w] = from
    /\ pc' = [pc EXCEPT ![w] = to]

MainGoto(from, to) ==
    /\ mpc = from
    /\ mpc' = to

-----------------------------------------------------------------------------
(* The worker threads *)

\* DoLock entered; with fexit set it returns at once and nothing changes.
EnterDoLock(w) ==
    /\ ~fexit
    /\ Goto(w, "idle", "lock")
    /\ UNCHANGED <<owner, posted, flag, fexit, mpc, handled>>

LockMutex(w) ==
    /\ owner = NoWorker
    /\ owner' = w
    /\ Goto(w, "lock", "post")
    /\ UNCHANGED <<posted, flag, fexit, mpc, handled>>

PostEvent(w) ==
    /\ Goto(w, "post", "wait")
    /\ posted' = w
    /\ UNCHANGED <<owner, flag, fexit, mpc, handled>>

\* Fault: wait( FALSE ), the flag stays set.
WakeWithoutReset(w) ==
    /\ flag
    /\ Goto(w, "wait", "unlock")
    /\ UNCHANGED <<owner, posted, flag, fexit, mpc, handled>>

\* event_done.wait( ) returns and resets the flag.
Wake(w) ==
    /\ flag
    /\ Goto(w, "wait", "unlock")
    /\ flag' = FALSE
    /\ UNCHANGED <<owner, posted, fexit, mpc, handled>>

\* The end of the UILOCK scope and of DoLock.
UnlockMutex(w) ==
    /\ Goto(w, "unlock", "idle")
    /\ owner' = NoWorker
    /\ handled' = handled \ {w}
    /\ UNCHANGED <<posted, flag, fexit, mpc>>

\* Fault: no UILOCK around the sensor records.
BeginParseUnlocked(w) ==
    /\ w \in Parsers
    /\ Goto(w, "idle", "parse")
    /\ UNCHANGED <<owner, posted, flag, fexit, mpc, handled>>

\* UILOCK around the sensor records: no event is posted.
BeginParse(w) ==
    /\ w \in Parsers
    /\ owner = NoWorker
    /\ owner' = w
    /\ Goto(w, "idle", "parse")
    /\ UNCHANGED <<posted, flag, fexit, mpc, handled>>

EndParse(w) ==
    /\ Goto(w, "parse", "idle")
    /\ owner' = NoWorker
    /\ UNCHANGED <<posted, flag, fexit, mpc, handled>>

-----------------------------------------------------------------------------
(* The main thread *)

\* A key whose handler calls TUI::exit (other keys leave this state alone).
ExitKey ==
    /\ mpc = "poll"
    /\ ~fexit
    /\ fexit' = TRUE
    /\ UNCHANGED <<pc, owner, posted, flag, mpc, handled>>

\* Fault: the test do_event != 0 is missing.
TakeEventAlways ==
    /\ ~fexit
    /\ MainGoto("poll", "handler")
    /\ UNCHANGED <<pc, owner, posted, flag, fexit, handled>>

\* Fault: event_done is set before the handler runs.
TakeEventSetFirst ==
    /\ ~fexit
    /\ posted # NoWorker
    /\ MainGoto("poll", "handler")
    /\ flag' = TRUE
    /\ UNCHANGED <<pc, owner, posted, fexit, handled>>

\* getch( ) found no key and do_event # 0: DoEvent( do_event ) starts.
TakeEvent ==
    /\ ~fexit
    /\ posted # NoWorker
    /\ MainGoto("poll", "handler")
    /\ UNCHANGED <<pc, owner, posted, flag, fexit, handled>>

HandlerReturns ==
    /\ MainGoto("handler", "clear")
    /\ handled' = handled \cup {posted}
    /\ UNCHANGED <<pc, owner, posted, flag, fexit>>

ClearEvent ==
    /\ MainGoto("clear", "set")
    /\ posted' = NoWorker
    /\ UNCHANGED <<pc, owner, flag, fexit, handled>>

\* Fault: event_done is not set after the handler.
SetDoneForgotten ==
    /\ MainGoto("set", "poll")
    /\ UNCHANGED <<pc, owner, posted, flag, fexit, handled>>

SetDone ==
    /\ MainGoto("set", "poll")
    /\ flag' = TRUE
    /\ UNCHANGED <<pc, owner, posted, fexit, handled>>

LeaveLoop ==
    /\ fexit
    /\ MainGoto("poll", "final")
    /\ UNCHANGED <<pc, owner, posted, flag, fexit, handled>>

\* Fault: Run returns without the last event_done.set( ).
FinalSetForgotten ==
    /\ MainGoto("final", "returned")
    /\ UNCHANGED <<pc, owner, posted, flag, fexit, handled>>

FinalSet ==
    /\ MainGoto("final", "returned")
    /\ flag' = TRUE
    /\ UNCHANGED <<pc, owner, posted, fexit, handled>>

-----------------------------------------------------------------------------
DoLock(w) ==
    \/ EnterDoLock(w) \/ LockMutex(w) \/ PostEvent(w) \/ Wake(w) \/ UnlockMutex(w)

Parse(w) == BeginParse(w) \/ EndParse(w)

Serve == TakeEvent \/ HandlerReturns \/ ClearEvent \/ SetDone

Run == ExitKey \/ Serve \/ LeaveLoop \/ FinalSet

LoopNext == Run \/ \E w \in Workers : DoLock(w) \/ Parse(w)

LoopSpec == LoopInit /\ [][LoopNext]_loopVars

\* Threads are scheduled, keys are not owed: ExitKey has no fairness.  The
\* sensor process is assumed to finish the block of lines it began, so that
\* the parser leaves its UILOCK.
Fairness ==
    /\ WF_loopVars(Serve)
    /\ WF_loopVars(LeaveLoop)
    /\ WF_loopVars(FinalSet)
    /\ \A w \in Workers :
         /\ WF_loopVars(PostEvent(w))
         /\ WF_loopVars(Wake(w))
         /\ WF_loopVars(UnlockMutex(w))
         /\ WF_loopVars(EndParse(w))

FairLoopSpec == LoopSpec /\ Fairness

-----------------------------------------------------------------------------
(* What the rendezvous promises *)

Holding == {"post", "wait", "unlock", "parse"}

\* UI->mutex is a mutex for the two ways it is used: the scope in DoLock and
\* the scope around the sensor records.  A parse never overlaps a posted
\* event, so the records are not read by a handler of the UI thread that a
\* DoLock caller waits for while they are half updated.
ParseExcludesHandler ==
    \A w \in Workers : pc[w] = "parse" =>
        /\ mpc \notin {"handler", "clear", "set"}
        /\ \A u \in Workers \ {w} : pc[u] \notin Holding

\* While the UI runs, DoLock returns only after the handler of its own event
\* has run: event_done, which is sticky, is never left set for the next
\* caller, who would otherwise go on without having been served.
ReturnsServed ==
    \A w \in Workers : pc[w] = "unlock" /\ ~fexit => w \in handled

\* The event stored in do_event belongs to the one worker that waits for it:
\* as long as the loop runs, no second caller overwrites it before it is cleared.
PostedWaits ==
    posted # NoWorker /\ mpc # "returned" => pc[posted] = "wait" /\ owner = posted

\* DoLock and Run implement the synchronous call of SyncCall.
CallOf(w) ==
    IF w \in handled THEN "served"
    ELSE IF mpc = "handler" /\ posted = w THEN "serving"
    ELSE IF pc[w] \in {"idle", "parse"} THEN "idle"
    ELSE "called"

SC == INSTANCE SyncCall WITH
        Threads <- Workers,
        call    <- [w \in Workers |-> CallOf(w)],
        closed  <- fexit

ImplementsSyncCall == SC!SCSpec

\* A posted event is served and its caller released, unless the UI is being
\* closed: keys, other callers and the parser cannot keep it waiting for ever.
PostedReturns ==
    \A w \in Workers : pc[w] = "wait" ~> (pc[w] = "idle" \/ fexit)

\* When the loop ends, the caller that waits is released although its event
\* is dropped.
LastWaiterReleased ==
    (mpc = "final" /\ posted # NoWorker) ~> (\E w \in Workers : pc[w] = "unlock")
=============================================================================
