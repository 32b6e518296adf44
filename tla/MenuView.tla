------------------------------ MODULE MenuView ------------------------------
(***************************************************************************)
(* The menu panel against the run of tests: the view it is in, the buttons *)
(* it shows, and the flags of TTest they stand for.                        *)
(*                                                                         *)
(* TEST_UPDATE comes from the execution thread through DoLock, so it is    *)
(* served between any two keys.  Which panel has the focus is left open:   *)
(* MenuEdit composes the menu with the editor that is opened from it.      *)
(***************************************************************************)
EXTENDS Naturals

CONSTANT
    MaxDones          \* bound: DONE records to come, see AtMostTwoDone of TestExec

\* TMenuPanel::MenuViewState; the constructor does not set m_currentView, and
\* nothing reads it before ShowMainMenu has.
MenuViews == {"unset", "main", "complex", "custom", "runComplex", "runCustom", "runSingle"}
RunViews == {"runComplex", "runCustom", "runSingle"}

\* A run of custom tests has one cycle ("single") or another number of them.
TestTypes == {"complex", "custom", "single"}

VARIABLES
    view,             \* m_currentView
    buttons,          \* the buttons that are visible
    lastBtn,          \* m_lastFocusedCustomBtn points to: none, live, deleted
    working, stop,    \* the flags of TTest
    testtype,         \* testtype and cyclescount
    dones             \* DONE records that the execution thread will take

menuVars == <<view, buttons>>
runVars == <<working, stop, testtype, dones>>
vars == <<menuVars, lastBtn, runVars>>

\* Values and shapes of the state.
TypeOK ==
    /\ view \in MenuViews
    /\ buttons \in {"none", "main", "complex", "custom", "running"}
    /\ lastBtn \in {"none", "live", "deleted"}
    /\ working \in BOOLEAN /\ stop \in BOOLEAN
    /\ testtype \in TestTypes
    /\ dones \in 0 .. MaxDones

-----------------------------------------------------------------------------
\* The menus.
ShowMainMenu == view' = "main" /\ buttons' = "main"
ShowComplexMenu == view' = "complex" /\ buttons' = "complex"
ShowCustomMenu == view' = "custom" /\ buttons' = "custom"

ShowRunningState(v) ==
    /\ buttons' = "running"
    /\ view' = CASE v = "complex" -> "runComplex"
                 [] v = "custom"  -> "runCustom"
                 [] OTHER         -> v

\* Fault: the end of the run of one test is not told to the menu.
UpdateOverNoView(v, b) ==
    /\ \/ testtype' = "complex" /\ ShowComplexMenu
       \/ testtype' = "custom" /\ ShowCustomMenu
       \/ testtype' = "single" /\ view' = v /\ buttons' = b
    /\ stop' = FALSE
    /\ working' = FALSE

\* TTest::Update in the view v with the buttons b: the run is over.
UpdateOver(v, b) ==
    /\ \/ testtype' = "complex" /\ ShowComplexMenu
       \/ testtype' = "custom" /\ ShowCustomMenu
       \/ testtype' = "single" /\ view' = "custom" /\ buttons' = b
    /\ stop' = FALSE
    /\ working' = FALSE

\* Its next cycle begins, with records up to a DONE.
UpdateNext(v, b) ==
    /\ \/ testtype' = "single" /\ view' = "runSingle" /\ buttons' = b
       \/ testtype' # "single" /\ ShowRunningState(v)
    /\ stop' = stop
    /\ working' = TRUE

\* StartComplex, StartCustom: nothing while a run works; a number of cycles
\* below one is over at once.
StartTest(v, b, t) ==
    IF working
      THEN view' = v /\ buttons' = b /\ UNCHANGED runVars
      ELSE /\ testtype' = t
           /\ \/ t # "single" /\ UpdateOver(v, b) /\ UNCHANGED dones
              \/ ~stop /\ dones < MaxDones /\ dones' = dones + 1 /\ UpdateNext(v, b)

\* Fault: Stop pushes DONE after what is in the pipe.
StopKeepsPipe ==
    /\ stop' = TRUE
    /\ dones' = dones + 1
    /\ UNCHANGED <<working, testtype>>

\* TTest::Stop empties the pipe and pushes DONE; a DONE that has been taken
\* already is one more.
Stop ==
    /\ stop' = TRUE
    /\ dones' \in {dones, dones + 1} /\ dones' <= MaxDones
    /\ UNCHANGED <<working, testtype>>

-----------------------------------------------------------------------------
\* The buttons of the main menu, and Back.
MenuButton ==
    /\ \/ buttons = "main" /\ (ShowComplexMenu \/ ShowCustomMenu)
       \/ buttons \in {"complex", "custom"} /\ ShowMainMenu
    /\ UNCHANGED <<lastBtn, runVars>>

StartButton ==
    /\ buttons = "complex"
    /\ StartTest(view, buttons, "complex")
    /\ UNCHANGED lastBtn

\* OnTestButtonClick, with one cycle or several.
TestButton ==
    /\ buttons = "custom"
    /\ lastBtn' = "live"
    /\ \E t \in {"custom", "single"} : StartTest(view, buttons, t)

StopButton ==
    /\ buttons = "running"
    /\ Stop
    /\ UNCHANGED <<menuVars, lastBtn>>

\* TMenuPanel::HandleEscape.
HandleEscape ==
    /\ IF working THEN Stop ELSE UNCHANGED runVars
    /\ \/ view \in {"complex", "custom"} /\ ShowMainMenu
       \/ view = "runSingle" /\ view' = "custom" /\ UNCHANGED buttons
       \/ view \notin {"complex", "custom", "runSingle"} /\ UNCHANGED menuVars
    /\ UNCHANGED lastBtn

\* TTest::InitTests deletes the buttons of the tests and makes new ones.
InitTests == lastBtn' = IF lastBtn = "live" THEN "deleted" ELSE lastBtn

\* The editor of an ini or of the scanner, opened from the menu, is left
\* (OnIniEditExit): the tests are read again if the file changed.
EditExit(changed) ==
    /\ IF changed THEN InitTests ELSE UNCHANGED lastBtn
    /\ ShowMainMenu
    /\ UNCHANGED runVars

\* The end of the countdown and Enter in it.
CountdownOver ==
    /\ InitTests
    /\ StartTest("complex", "complex", "complex")

\* TEST_UPDATE, which the execution thread calls for each DONE; one that an
\* earlier Stop left over may come when no run works.
ServeUpdate ==
    /\ dones > 0
    /\ testtype' = testtype
    /\ \/ UpdateOver(view, buttons) /\ dones' = dones - 1
       \/ ~stop /\ UpdateNext(view, buttons) /\ dones' = dones
    /\ UNCHANGED lastBtn

-----------------------------------------------------------------------------
Init ==
    /\ view = "unset"
    /\ buttons = "none"
    /\ lastBtn = "none"
    /\ working = FALSE /\ stop = FALSE
    /\ testtype = "complex"
    /\ dones = 0

Next ==
    \/ MenuButton \/ StartButton \/ TestButton \/ StopButton
    \/ HandleEscape \/ CountdownOver \/ ServeUpdate
    \/ buttons # "none" /\ \E changed \in BOOLEAN : EditExit(changed)

Spec == Init /\ [][Next]_vars

-----------------------------------------------------------------------------
\* The menu shows a run only while there is one: the views of a run and the
\* stop button go with it, whatever menu was opened over it meanwhile, and a
\* stop that is asked for is forgotten with the run it was meant for.
RunShown ==
    /\ view \in RunViews => working
    /\ buttons = "running" => working
    /\ stop => working

\* The button that ShowCustomMenu gives the focus to at the end of a run of
\* custom tests exists (menupanel.h: "pointer to the button of the test chosen
\* last").
ButtonAlive ==
    testtype = "custom" /\ view = "runCustom" => lastBtn = "live"
=============================================================================
