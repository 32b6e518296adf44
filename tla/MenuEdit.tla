------------------------------ MODULE MenuEdit ------------------------------
(***************************************************************************)
(* The menu and the editor that is opened from it, or from the hello       *)
(* panel, while a run of tests may work.                                   *)
(*                                                                         *)
(* The editor keeps the focus until it closes, but for what the execution  *)
(* thread and the timer ask of the UI thread: a cycle of the run and the   *)
(* end of the countdown show the menu over it, and the Escape of a test's  *)
(* question is handled by the menu.  Then a key of the menu may open       *)
(* another file, and the hello panel hides the editor.                     *)
(***************************************************************************)
EXTENDS Naturals

CONSTANTS MaxDones, Files, NoFile

ASSUME MenuEditAssumption ==
    /\ MaxDones \in Nat \ {0}
    /\ NoFile \notin Files

VARIABLES
    view, buttons, lastBtn, working, stop, testtype, dones,
    panel, name, text, fileWasModified, question, written, report, dropped,
    front,            \* who gets the keys: the editor, or another panel
    opener            \* m_onExitCallback: that of the menu or of the hello panel

M == INSTANCE MenuView
E == INSTANCE EditFile

menuVars == <<view, buttons, lastBtn, working, stop, testtype, dones>>
editVars == <<panel, name, text, fileWasModified, question, written, report, dropped>>
vars == <<menuVars, editVars, front, opener>>

\* Values and shapes of the state: an editor that is not shown has no keys.
TypeOK ==
    /\ M!TypeOK
    /\ E!TypeOK
    /\ front \in {"edit", "other"}
    /\ opener \in {"menu", "hello"}
    /\ front = "edit" => panel = "shown"

-----------------------------------------------------------------------------
\* F3 and the settings in the menu, F4 in the hello panel.
Open(f) ==
    /\ front = "other"
    /\ E!ShowFile(f)
    /\ opener' \in IF buttons = "none" THEN {"hello"} ELSE {"menu", "hello"}
    /\ front' = IF text' = "same" THEN "edit" ELSE front
    /\ UNCHANGED menuVars

\* Keys of the editor and of its dialogs that leave it open.
EditKey ==
    /\ front = "edit"
    /\ E!TypeKey \/ E!SaveKey \/ E!EditEscape
    /\ panel' = panel
    /\ UNCHANGED <<menuVars, front, opener>>

EditAnswer ==
    /\ \/ E!AnswerSave \/ E!AnswerClose \/ E!AnswerCancel
       \/ \E f \in Files : E!AnswerSaveAs(f)
    /\ panel' = panel
    /\ UNCHANGED <<menuVars, front, opener>>

\* Those that close it, and OnIniEditExit, OnScannerEditExit or OnHelloEditExit.
EditClose ==
    /\ (front = "edit" /\ E!EditEscape) \/ E!AnswerClose
    /\ panel' = "closed"
    /\ panel # "closed"
    /\ front' = "other"
    /\ IF opener = "menu" THEN M!EditExit(report'.changed) ELSE UNCHANGED menuVars
    /\ UNCHANGED opener

\* The hello panel hides the editor; TAB or setfocusprev may bring it back.
Hide ==
    /\ front = "other" \/ working
    /\ E!Hide
    /\ front' = "other"
    /\ UNCHANGED <<menuVars, opener>>

FocusBack ==
    /\ panel # "closed" /\ front = "other"
    /\ E!FocusBack \/ (panel = "shown" /\ UNCHANGED editVars)
    /\ front' = "edit"
    /\ UNCHANGED <<menuVars, opener>>

-----------------------------------------------------------------------------
\* Keys of the menu; Escape is also that of a test's question.
MenuKey ==
    /\ \/ front = "other" /\ (M!MenuButton \/ M!StartButton \/ M!TestButton \/ M!StopButton)
       \/ (front = "other" \/ working) /\ M!HandleEscape
    /\ front' = IF view' = view THEN front ELSE "other"
    /\ UNCHANGED <<editVars, opener>>

\* What the other threads ask for.  The run of one test leaves the focus alone.
Event ==
    /\ \/ M!CountdownOver /\ front' = "other"
       \/ M!ServeUpdate /\ front' = IF testtype = "single" THEN front ELSE "other"
    /\ UNCHANGED <<editVars, opener>>

-----------------------------------------------------------------------------
Init ==
    /\ M!Init
    /\ E!Init
    /\ front = "other"
    /\ opener = "hello"

Next ==
    \/ \E f \in Files : Open(f)
    \/ EditKey \/ EditAnswer \/ EditClose
    \/ Hide \/ FocusBack
    \/ MenuKey \/ Event

Spec == Init /\ [][Next]_vars

-----------------------------------------------------------------------------
\* The menu shows a run only while there is one, the editor's returns to the
\* main menu in the middle of a run included: see MenuView.
RunShown == M!RunShown

\* The editor never reports a change of a file it has not written, though it may
\* be hidden, covered, and opened for another file meanwhile: see EditFile.
ReportedWritten == E!ReportedWritten

\* The editor closes over a modified text only through its question: see EditFile.
ClosedByAnswer == E!ClosedByAnswer
=============================================================================
