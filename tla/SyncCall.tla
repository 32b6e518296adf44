------------------------------ MODULE SyncCall ------------------------------
(***************************************************************************)
(* What TUI::DoLock promises its callers: a synchronous call into the one  *)
(* user-interface thread.  A thread that calls blocks until the UI thread  *)
(* has run its event handler from the beginning to the end, once, and the  *)
(* UI thread runs one handler at a time.  Once the UI is closed (fexit) a  *)
(* call may return although nobody ran its handler.                        *)
(*                                                                         *)
(* The detailed algorithm is UiLoop, which is shown to implement this      *)
(* module.  The modules of the program's threads are composed with this    *)
(* one, not with UiLoop.                                                   *)
(***************************************************************************)
CONSTANT Threads      \* the threads that call into the UI thread

VARIABLES
    call,             \* call[t]: where the current call of t stands
    closed            \* TUI::fexit

scVars == <<call, closed>>

CallStates == {"idle", "called", "serving", "served"}

SCTypeOK ==
    /\ call \in [Threads -> CallStates]
    /\ closed \in BOOLEAN

SCInit ==
    /\ call = [t \in Threads |-> "idle"]
    /\ closed = FALSE

\* t calls DoLock and waits.
Call(t) ==
    /\ call[t] = "idle"
    /\ call' = [call EXCEPT ![t] = "called"]
    /\ UNCHANGED closed

\* The UI thread starts the handler of a waiting call.
Begin(t) ==
    /\ ~closed
    /\ call[t] = "called"
    /\ \A u \in Threads : call[u] # "serving"
    /\ call' = [call EXCEPT ![t] = "serving"]
    /\ UNCHANGED closed

\* The handler has returned.
End(t) ==
    /\ call[t] = "serving"
    /\ call' = [call EXCEPT ![t] = "served"]
    /\ UNCHANGED closed

\* The served caller goes on.
Return(t) ==
    /\ call[t] = "served"
    /\ call' = [call EXCEPT ![t] = "idle"]
    /\ UNCHANGED closed

\* The UI is closed: no handler starts any more.
Close ==
    /\ ~closed
    /\ \A t \in Threads : call[t] # "serving"
    /\ closed' = TRUE
    /\ UNCHANGED call

\* After closing a caller may go on unserved.
Abandon(t) ==
    /\ closed
    /\ call[t] = "called"
    /\ call' = [call EXCEPT ![t] = "idle"]
    /\ UNCHANGED closed

SCNext ==
    \/ Close
    \/ \E t \in Threads : Call(t) \/ Begin(t) \/ End(t) \/ Return(t) \/ Abandon(t)

SCSpec == SCInit /\ [][SCNext]_scVars
=============================================================================
