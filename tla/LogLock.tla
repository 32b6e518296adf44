------------------------------ MODULE LogLock ------------------------------
(***************************************************************************)
(* The two locks of the log.  TLogPanel::AddLogEntry holds m_logMutex      *)
(* while it changes the list of lines and while it waits in DoLock for the *)
(* user-interface thread to draw it.  The UI thread logs too, from keys    *)
(* and from the handler of TEST_UPDATE, and then waits for m_logMutex      *)
(* itself; a key that scrolls the log draws the list without any lock.     *)
(*                                                                         *)
(* DoLock is the synchronous call of SyncCall, which UiLoop implements.    *)
(***************************************************************************)
EXTENDS Naturals

CONSTANTS
    Workers,          \* the threads that log: test execution, sensor monitor
    Updaters,         \* those that post TEST_UPDATE too, without the log mutex
    Main,             \* the user-interface thread
    Nobody            \* a free m_logMutex, no event being served

ASSUME LogLockAssumption ==
    /\ Updaters \subseteq Workers
    /\ Main \notin Workers
    /\ Nobody \notin Workers \cup {Main}

VARIABLES
    call, closed,     \* the synchronous calls and fexit (SyncCall)
    owner,            \* the owner of m_logMutex
    wpc,              \* where worker w stands in AddLogEntry or in its update
    mpc,              \* where the UI thread stands
    serves            \* the worker whose event is being served

lockVars == <<call, closed, owner, wpc, mpc, serves>>

SC == INSTANCE SyncCall WITH Threads <- Workers

WorkerPcs == {"idle", "want", "write", "wait", "update"}
MainPcs   == {"loop", "draw", "scroll", "handler", "want", "holds"}

\* Values and shapes of the state.
LockTypeOK ==
    /\ SC!SCTypeOK
    /\ owner \in Workers \cup {Main, Nobody}
    /\ wpc \in [Workers -> WorkerPcs]
    /\ mpc \in MainPcs
    /\ serves \in Workers \cup {Nobody}

LockInit ==
    /\ SC!SCInit
    /\ owner = Nobody
    /\ wpc = [w \in Workers |-> "idle"]
    /\ mpc = "loop"
    /\ serves = Nobody

WorkerGoto(w, from, to) ==
    /\ wpc[w] = from
    /\ wpc' = [wpc EXCEPT ![w] = to]

-----------------------------------------------------------------------------
(* The workers *)

\* toLog is called.
BeginEntry(w) ==
    /\ WorkerGoto(w, "idle", "want")
    /\ UNCHANGED <<call, closed, owner, mpc, serves>>

\* Fault: DLOCK( m_logMutex ) is missing.
LockLogWithoutWaiting(w) ==
    /\ owner' = w
    /\ WorkerGoto(w, "want", "write")
    /\ UNCHANGED <<call, closed, mpc, serves>>

\* DLOCK( m_logMutex ); the list of lines is changed from here on.
LockLog(w) ==
    /\ owner = Nobody
    /\ owner' = w
    /\ WorkerGoto(w, "want", "write")
    /\ UNCHANGED <<call, closed, mpc, serves>>

\* Fault: the mutex is released before DoLock draws the lines.
PostDrawUnlocked(w) ==
    /\ WorkerGoto(w, "write", "wait")
    /\ SC!Call(w)
    /\ owner' = Nobody
    /\ UNCHANGED <<mpc, serves>>

\* DoLock( LOG_UPDATE ), or PROGRESS_UPDATE, with the mutex held.
PostDraw(w) ==
    /\ ~closed
    /\ WorkerGoto(w, "write", "wait")
    /\ SC!Call(w)
    /\ UNCHANGED <<owner, mpc, serves>>

\* "#PROGRESS-OFF#" posts nothing, and a closed DoLock returns at once.
EndWithoutDraw(w) ==
    /\ WorkerGoto(w, "write", "idle")
    /\ owner' = Nobody
    /\ UNCHANGED <<call, closed, mpc, serves>>

\* Fault: the mutex is not released.
EndEntryKeepsLock(w) ==
    /\ SC!Return(w) \/ SC!Abandon(w)
    /\ WorkerGoto(w, "wait", "idle")
    /\ UNCHANGED <<owner, mpc, serves>>

\* DoLock returns and the scope of DLOCK ends.
EndEntry(w) ==
    /\ SC!Return(w) \/ SC!Abandon(w)
    /\ WorkerGoto(w, "wait", "idle")
    /\ owner' = Nobody
    /\ UNCHANGED <<mpc, serves>>

\* The execution thread posts TEST_UPDATE and waits, the log mutex free.
PostUpdate(w) ==
    /\ w \in Updaters
    /\ ~closed
    /\ WorkerGoto(w, "idle", "update")
    /\ SC!Call(w)
    /\ UNCHANGED <<owner, mpc, serves>>

EndUpdate(w) ==
    /\ SC!Return(w) \/ SC!Abandon(w)
    /\ WorkerGoto(w, "update", "idle")
    /\ UNCHANGED <<owner, mpc, serves>>

-----------------------------------------------------------------------------
(* The user-interface thread *)

\* A key whose handler calls toLog: the information key, a start, an editor closed.
KeyLogs ==
    /\ mpc = "loop" /\ ~closed
    /\ mpc' = "want"
    /\ UNCHANGED <<call, closed, owner, wpc, serves>>

\* A key that draws the log: scrolling, a panel shown or hidden.
KeyDraws ==
    /\ mpc = "loop" /\ ~closed
    /\ mpc' = "scroll"
    /\ UNCHANGED <<call, closed, owner, wpc, serves>>

DrawEnds ==
    /\ mpc = "scroll"
    /\ mpc' = "loop"
    /\ UNCHANGED <<call, closed, owner, wpc, serves>>

ExitKey ==
    /\ mpc = "loop"
    /\ SC!Close
    /\ UNCHANGED <<owner, wpc, mpc, serves>>

\* The handler of LOG_UPDATE draws the list.
ServeDraw(w) ==
    /\ mpc = "loop"
    /\ wpc[w] = "wait"
    /\ SC!Begin(w)
    /\ mpc' = "draw"
    /\ serves' = w
    /\ UNCHANGED <<owner, wpc>>

\* TEST_UPDATE: TTest::Update logs when it ends a run, and may not otherwise.
ServeUpdate(w) ==
    /\ mpc = "loop"
    /\ wpc[w] = "update"
    /\ SC!Begin(w)
    /\ mpc' \in {"want", "handler"}
    /\ serves' = w
    /\ UNCHANGED <<owner, wpc>>

HandlerReturns ==
    /\ mpc \in {"draw", "handler"}
    /\ SC!End(serves)
    /\ mpc' = "loop"
    /\ serves' = Nobody
    /\ UNCHANGED <<owner, wpc>>

\* Fault: DoLock waits in the UI thread as in any other.
MainLockWaits ==
    /\ mpc = "want"
    /\ owner = Nobody
    /\ owner' = Main
    /\ mpc' = "wait"
    /\ UNCHANGED <<call, closed, wpc, serves>>

\* AddLogEntry in the UI thread: DoLock draws at once, without waiting.
MainLock ==
    /\ mpc = "want"
    /\ owner = Nobody
    /\ owner' = Main
    /\ mpc' = "holds"
    /\ UNCHANGED <<call, closed, wpc, serves>>

MainUnlock ==
    /\ mpc = "holds"
    /\ owner' = Nobody
    /\ mpc' = IF serves = Nobody THEN "loop" ELSE "handler"
    /\ UNCHANGED <<call, closed, wpc, serves>>

-----------------------------------------------------------------------------
Worker(w) ==
    \/ BeginEntry(w) \/ LockLog(w) \/ PostDraw(w) \/ EndWithoutDraw(w) \/ EndEntry(w)
    \/ PostUpdate(w) \/ EndUpdate(w)

Serve(w) == ServeDraw(w) \/ ServeUpdate(w)

MainThread ==
    \/ KeyLogs \/ KeyDraws \/ DrawEnds \/ ExitKey
    \/ HandlerReturns \/ MainLock \/ MainUnlock

LockNext == MainThread \/ \E w \in Workers : Worker(w) \/ Serve(w)

LockSpec == LockInit /\ [][LockNext]_lockVars

\* Threads are scheduled and keys come with gaps in which the loop serves a
\* waiting call.  The UI thread gets a mutex that is free again and again.  No
\* key and no log entry is owed, nor is the return of an unserved call.
Fairness ==
    /\ WF_lockVars(DrawEnds) /\ WF_lockVars(HandlerReturns) /\ WF_lockVars(MainUnlock)
    /\ SF_lockVars(MainLock)
    /\ \A w \in Workers :
         /\ WF_lockVars(PostDraw(w) \/ EndWithoutDraw(w))
         /\ WF_lockVars(call[w] = "served" /\ EndEntry(w))
         /\ WF_lockVars(call[w] = "served" /\ EndUpdate(w))
         /\ SF_lockVars(Serve(w))

FairLockSpec == LockSpec /\ Fairness

-----------------------------------------------------------------------------
(* What the log promises *)

\* While the UI thread draws the log for a LOG_UPDATE, or adds an entry
\* itself, no worker changes the list: the worker that posted the event has
\* finished its change and still holds m_logMutex.
ListStable ==
    mpc \in {"draw", "holds"} => \A w \in Workers : wpc[w] # "write"

\* The UI thread adds to the list and a worker does only one after the other,
\* and m_logMutex is always owned by the thread that is inside AddLogEntry.
OneWriter ==
    /\ \A w \in Workers : wpc[w] \in {"write", "wait"} <=> owner = w
    /\ mpc = "holds" <=> owner = Main

\* The UI thread waits for m_logMutex, and its owner waits for the UI thread.
Stuck ==
    /\ mpc = "want"
    /\ \E w \in Workers : owner = w /\ wpc[w] = "wait" /\ call[w] = "called"

\* That is the only way in which a log entry fails to return: a thread that
\* has got m_logMutex gives it back, whatever keys and events come meanwhile,
\* until the program is left.
HolderReturns ==
    \A w \in Workers : owner = w ~> (owner # w \/ Stuck \/ closed)

\* A key that logs returns (menupanel.cpp: the information key shows the tests).
KeyReturns ==
    (mpc = "want" /\ serves = Nobody) ~> mpc = "loop"
=============================================================================
