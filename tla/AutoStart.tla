----------------------------- MODULE AutoStart -----------------------------
(***************************************************************************)
(* The autostart countdown: choosing a test in the hello panel loads its   *)
(* ini and starts a one-second timer; Enter, or the end of the countdown,  *)
(* starts the complex test; another key goes back to the hello panel.      *)
(*                                                                         *)
(* Every expiration of the timer runs OnAutoStartTimerTrigger in a thread  *)
(* of its own, which waits in DoLock until the user-interface thread has   *)
(* run UpdateTick.  StopTimer deletes the timer but not the threads that   *)
(* have begun: a key is served before a posted event, so a tick may be     *)
(* served after the key that stopped the timer.                            *)
(*                                                                         *)
(* A run that still works when the user has left for the hello panel moves *)
(* the focus to the menu whenever one of its cycles ends, also while the   *)
(* countdown is shown.  Then the panels share the screen and TAB moves     *)
(* between them.                                                           *)
(***************************************************************************)
EXTENDS Integers

CONSTANTS
    Inis,             \* the ini files of the two tests and others
    NoIni,            \* no file: an empty lastini, or a file that failed to load
    Countdown,        \* the 10 seconds of ResetCountdown
    MaxPending,       \* bound: timer threads waiting in DoLock
    MaxLost,          \* bound: timers nobody can stop
    MaxOverdue        \* bound: ticks served below zero

ASSUME AutoStartAssumption ==
    /\ Inis # {}
    /\ NoIni \notin Inis
    /\ Countdown \in Nat \ {0}
    /\ MaxPending \in Nat \ {0}
    /\ MaxLost \in Nat
    /\ MaxOverdue \in Nat

VARIABLES
    view,             \* the focused panel: hello, countdown, main (menu and log)
    visible,          \* the panels on the screen
    lastini,          \* the contents of the file lastini
    ini,              \* the file loaded in Test->ini
    listed,           \* Test->iniitem points to an element of IniList
    timer,            \* m_autoStartTimer: deleted, live, or the handle of no timer
    lost,             \* live timers that m_autoStartTimer held before
    pending,          \* the timers' threads that wait in DoLock
    remaining,        \* m_remainingSeconds
    working,          \* Test->working
    cancelled         \* history: the last countdown was cancelled by a key

screen == <<view, visible>>
loaded == <<ini, listed>>
vars == <<screen, lastini, loaded, timer, lost, pending, remaining, working, cancelled>>

Views == {"hello", "countdown", "main"}

\* StopTimer leaves -1 in the handle.  StartTimerNewThread clears the handle
\* before it creates the timer, and may fail to create it or to set it off.
Timers == {"deleted", "live", "failed"}

\* Values and shapes of the state.
TypeOK ==
    /\ view \in visible
    /\ visible \subseteq Views
    /\ lastini \in Inis \cup {NoIni}
    /\ ini \in Inis \cup {NoIni}
    /\ listed \in BOOLEAN
    /\ timer \in Timers
    /\ lost \in 0 .. MaxLost
    /\ pending \in 0 .. MaxPending
    /\ remaining \in -MaxOverdue .. Countdown
    /\ working \in BOOLEAN
    /\ cancelled \in BOOLEAN

\* main shows the hello panel, whose SearchInis has loaded every file in turn
\* and ends with iniitem = IniList.end( ).
Init ==
    /\ view = "hello"
    /\ visible = {"hello"}
    /\ lastini \in Inis \cup {NoIni}
    /\ ini \in Inis \cup {NoIni}
    /\ listed = FALSE
    /\ timer = "deleted"
    /\ lost = 0
    /\ pending = 0
    /\ remaining = Countdown
    /\ working = FALSE
    /\ cancelled = FALSE

-----------------------------------------------------------------------------
\* THelloPanel::ShowPanel, which hides menu and log: SearchInis loads the files
\* in the order readdir gives them, each before it is put into IniList, and the
\* last may fail.  H are the panels hidden before.
ShowHello(H) ==
    /\ view' = "hello"
    /\ visible' = (visible \ (H \cup {"main"})) \cup {"hello"}
    /\ ini' \in Inis \cup {NoIni}
    /\ listed' = FALSE

\* The focus goes to the menu: ShowMainLayout, ShowComplexMenu.
ShowMain(H) ==
    /\ view' = "main"
    /\ visible' = (visible \ H) \cup {"main"}

\* InitTests and the press of the start button: StartComplex does nothing
\* while a run is working.
StartTest ==
    /\ ShowMain({"countdown"})
    /\ working' = TRUE

\* TAutoStartPanel::ShowPanel, after SetLastIni: without a last ini, or when
\* it cannot be loaded, back to the hello panel.  A timer that still runs loses
\* its handle to the new one.  When the new timer does not start, an error is
\* logged and the countdown stays on the screen.
ShowPanel ==
    \/ /\ ShowHello({"hello", "countdown"})
       /\ UNCHANGED <<timer, lost, cancelled>>
    \/ /\ lastini' # NoIni
       /\ view' = "countdown"
       /\ visible' = (visible \ {"hello"}) \cup {"countdown"}
       /\ ini' = lastini'
       /\ listed' = TRUE
       /\ timer' \in {"live", "failed"}
       /\ lost' = IF timer = "live" THEN lost + 1 ELSE lost
       /\ lost' <= MaxLost
       /\ cancelled' = FALSE

\* Fault: the countdown goes on from where the last one stopped.
ChooseTestNoReset(f) ==
    /\ view = "hello"
    /\ lastini' \in {f, lastini}
    /\ ShowPanel
    /\ UNCHANGED <<pending, remaining, working>>

\* Fault: the panel is shown although its ini was not loaded.
ChooseTestNoLoad(f) ==
    /\ view = "hello"
    /\ lastini' \in {f, lastini}
    /\ remaining' = Countdown
    /\ view' = "countdown"
    /\ visible' = (visible \ {"hello"}) \cup {"countdown"}
    /\ timer' = "live"
    /\ cancelled' = FALSE
    /\ UNCHANGED <<loaded, lost, pending, working>>

\* A button of the hello panel.  SetLastIni may fail to write the file, and
\* nobody looks at its result.
ChooseTest(f) ==
    /\ view = "hello"
    /\ lastini' \in {f, lastini}
    /\ remaining' = Countdown
    /\ ShowPanel
    /\ UNCHANGED <<pending, working>>

\* A timer expires: a new thread calls DoLock( TIMER_AUTOSTART ).
Expire ==
    /\ timer = "live" \/ lost > 0
    /\ pending < MaxPending
    /\ pending' = pending + 1
    /\ UNCHANGED <<screen, lastini, loaded, timer, lost, remaining, working, cancelled>>

\* Enter in the autostart panel.
EnterKey ==
    /\ view = "countdown"
    /\ timer' = "deleted"
    /\ StartTest
    /\ UNCHANGED <<lastini, loaded, lost, pending, remaining, cancelled>>

\* Fault: the keys that cancel the countdown leave the panel visible.
OtherKeyStays ==
    /\ view = "countdown"
    /\ timer' = "deleted"
    /\ ShowHello({})
    /\ cancelled' = TRUE
    /\ UNCHANGED <<lastini, lost, pending, remaining, working>>

\* Any other key that reaches the autostart panel (TAB, F9 and F10 do not).
OtherKey ==
    /\ view = "countdown"
    /\ timer' = "deleted"
    /\ ShowHello({"countdown"})
    /\ cancelled' = TRUE
    /\ UNCHANGED <<lastini, lost, pending, remaining, working>>

\* Fault: the tick is run again for a thread that has been let go.
UpdateTickTwice ==
    /\ pending' = pending - 1
    /\ remaining' = remaining - 1
    /\ UNCHANGED <<screen, lastini, loaded, timer, lost, working, cancelled>>

\* Fault: m_remainingSeconds is not counted down.
UpdateTickNoCount ==
    /\ pending > 0
    /\ pending' = pending - 1
    /\ UNCHANGED <<screen, lastini, loaded, timer, lost, remaining, working, cancelled>>

\* The event TIMER_AUTOSTART: UpdateTick looks neither at the panel nor at
\* the timer.
UpdateTick ==
    /\ pending > 0
    /\ remaining > -MaxOverdue
    /\ pending' = pending - 1
    /\ remaining' = remaining - 1
    /\ IF remaining' <= 0
         THEN timer' = "deleted" /\ StartTest
         ELSE UNCHANGED <<timer, screen, working>>
    /\ UNCHANGED <<lastini, loaded, lost, cancelled>>

\* Escape in the main menu, which an editor left during a run shows too; the
\* Escape of a running test's question is handled by the menu, whatever panel
\* the question covers.
EscapeMainMenu ==
    /\ view = "main" \/ working
    /\ ShowHello({})
    /\ UNCHANGED <<lastini, timer, lost, pending, remaining, working, cancelled>>

\* TAB, where the panels share the screen.
TabKey ==
    /\ view' \in visible \ {view}
    /\ UNCHANGED <<visible, lastini, loaded, timer, lost, pending, remaining, working, cancelled>>

\* The start button of the complex menu.
StartButton ==
    /\ view = "main"
    /\ working' = TRUE
    /\ UNCHANGED <<screen, lastini, loaded, timer, lost, pending, remaining, cancelled>>

\* A cycle of the run ends, and perhaps the run.  UpdateState moves the focus to
\* the menu, but for the run of one test.
RunUpdate ==
    /\ working
    /\ working' \in BOOLEAN
    /\ ShowMain({}) \/ UNCHANGED screen
    /\ UNCHANGED <<lastini, loaded, timer, lost, pending, remaining, cancelled>>

Next ==
    \/ \E f \in Inis : ChooseTest(f)
    \/ Expire \/ UpdateTick
    \/ EnterKey \/ OtherKey \/ EscapeMainMenu \/ TabKey \/ StartButton
    \/ RunUpdate

Spec == Init /\ [][Next]_vars

\* The timers run, and the UI loop serves a waiting thread in the gaps
\* between keys.  No key is owed.
FairSpec == Spec /\ WF_vars(Expire) /\ WF_vars(UpdateTick)

-----------------------------------------------------------------------------
\* No countdown is stopped on the screen: whatever deletes its timer (a key, the
\* tick that reaches zero, though it may be the tick of another timer) takes
\* the panel from the screen in the same step.  (Whether the timer has started at
\* all is another matter: see TimerRuns.)
TimerOwned ==
    "countdown" \in visible => timer # "deleted"

\* A running countdown has time left: a choice resets it although ticks of the
\* last countdown may have counted below zero, and the tick that reaches zero
\* stops the timer.
CountdownPositive ==
    timer # "deleted" => remaining \in 1 .. Countdown

\* The countdown ends in the test it shows: while it is alone on the screen, what
\* is loaded is the file whose name lastini holds and iniitem points into the
\* list, late ticks and lost timers notwithstanding.  (ShowMainLayout reads
\* iniitem->name when the countdown ends.)
ShownIsLoaded ==
    visible = {"countdown"} => ini = lastini /\ listed

\* A countdown with the focus, which nobody interrupts, ends, if there is a
\* timer that ticks: its own, or one that lost its handle.
CountdownEnds ==
    view = "countdown" /\ (timer = "live" \/ lost > 0) ~> view # "countdown"

\* A countdown on the screen has a timer (autostartpanel.cpp, over ShowPanel's call of
\* StartTimerNewThread: "start of the one-second timer").
TimerRuns ==
    "countdown" \in visible => timer = "live"

\* A key that cancels the autostart cancels it: no tick then starts the test
\* (autostartpanel.cpp: "any other key cancels the autostart").
CancelHolds ==
    [][cancelled /\ view = "hello" /\ ~working => ~working']_vars

\* UpdateTick is called once a second: there is one timer (autostartpanel.cpp:
\* "called every second by the timer").
OneTimer ==
    timer = "live" => lost = 0
=============================================================================
