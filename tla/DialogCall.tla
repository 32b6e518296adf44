----------------------------- MODULE DialogCall -----------------------------
(***************************************************************************)
(* The one dialog panel between the user and a test: a test module asks a  *)
(* question (<DIALOG>), the execution thread calls ShowMessage for it, the *)
(* user answers with a button, and the answer is written to the module.    *)
(* The same panel serves the dialogs of keys (F10, Escape, the editor).    *)
(*                                                                         *)
(* ShowMessage stores the set-up string, the callback and the Escape flag  *)
(* in the panel, in the thread of the caller and without a lock; SyncShow, *)
(* in the UI thread, makes the dialog of what is stored by then.  Each of  *)
(* these stores is a step here (the mode and the colour go with the set-up *)
(* string).  The DoLock of the execution thread is served when the UI      *)
(* thread is in its loop.                                                  *)
(*                                                                         *)
(* SyncHide hides the panel and gives the focus to the last of the panels  *)
(* before it.  That may be the dialog panel itself, if another panel took  *)
(* the focus from it while it was on the screen (a tick of a countdown, a  *)
(* cycle of a run): then the dialog is shown again, whatever has become of *)
(* its test.  Which panel does so when is the subject of Focus; here it    *)
(* may happen at any time.                                                 *)
(***************************************************************************)
\* Whose dialog it is: a key's, or the test's.
Owners == {"key", "test"}
NoDialog == [text |-> "none", callback |-> "none"]

VARIABLES
    setup,            \* m_setupString, of whom
    callback,         \* m_onButtonClickCallback
    escape,           \* m_shouldCloseMenuOnEscape: TRUE for the test's
    dialog,           \* the dialog that SyncShow made: its text and buttons, what
                      \*   these call
    place,            \* of the panel: [visible, focused, before]; before: it is
                      \*   in prevfocuslist
    covered,          \* history: another panel took the focus from the dialog
    upc,              \* UI thread: loop, or inside ShowMessage for a key
    epc,              \* execution thread: see Steps
    OutStream,        \* null, open, or closed (dangling)
    asked             \* the test module's question: none, waiting, answered

fields == <<setup, callback, escape>>
screenVars == <<dialog, place, covered>>
dialogVars == <<fields, screenVars, upc, epc, OutStream, asked>>

\* The execution thread: no test; reads the output of one; stores the fields of
\* a question and waits in DoLock( DIALOG_SHOW ); waits in DoLock( DIALOG_HIDE )
\* for <DIALOGCLOSE>; after the end of the test, closes and clears the stream and
\* waits in DoLock( DIALOG_HIDE ).
Steps == {"idle", "read", "setup", "callback", "escape", "show", "hide",
          "ended", "clear", "closing"}

\* Values and shapes of the state: OutStream dangles only between the closing of
\* the stream and the clearing of the pointer.
DialogTypeOK ==
    /\ setup \in Owners \cup {"none"}
    /\ callback \in Owners \cup {"none"}
    /\ escape \in BOOLEAN
    /\ dialog \in [text : Owners \cup {"none"}, callback : Owners \cup {"none"}]
    /\ place \in [visible : BOOLEAN, focused : BOOLEAN, before : BOOLEAN]
    /\ covered \in BOOLEAN
    /\ upc \in {"loop", "setup", "callback", "escape", "show"}
    /\ epc \in Steps
    /\ OutStream \in {"null", "open", "closed"}
    /\ OutStream = "null" <=> epc \in {"idle", "closing"}
    /\ OutStream = "closed" <=> epc = "clear"
    /\ asked \in {"none", "waiting", "answered"}

-----------------------------------------------------------------------------
(* The stores of ShowMessage, by either thread. *)

SetSetup(owner) == setup' = owner /\ UNCHANGED <<callback, escape>>
SetCallback(owner) == callback' = owner /\ UNCHANGED <<setup, escape>>
SetEscape(owner) == escape' = (owner = "test") /\ UNCHANGED <<setup, callback>>

\* setfocus takes the panel out of prevfocuslist.
Shown == [visible |-> TRUE, focused |-> TRUE, before |-> FALSE]

SyncShow ==
    /\ dialog' = [text |-> setup, callback |-> callback]
    /\ place' = Shown
    /\ covered' = FALSE

\* The panel after SyncHide: as it was, if it is not on the screen.  Else it is
\* hidden, and setfocusprev gives the focus to another panel, to none (there is no
\* panel before), or, if it is the last of prevfocuslist, shows it again.
Hidden ==
    LET down == [place EXCEPT !.visible = FALSE]
    IN  IF ~place.visible
          THEN {place}
          ELSE {down, [down EXCEPT !.focused = FALSE]}
               \cup (IF place.before THEN {Shown} ELSE {})

SyncHide == place' \in Hidden /\ UNCHANGED <<dialog, covered>>

\* A key that opens a dialog; SyncShow is called at the end.
KeyOpens ==
    /\ upc = "loop"
    /\ upc' = "setup"
    /\ UNCHANGED <<fields, screenVars, epc, OutStream, asked>>

KeyStores ==
    /\ \/ upc = "setup" /\ SetSetup("key") /\ upc' = "callback"
       \/ upc = "callback" /\ SetCallback("key") /\ upc' = "escape"
       \/ upc = "escape" /\ SetEscape("key") /\ upc' = "show"
    /\ UNCHANGED <<screenVars, epc, OutStream, asked>>

KeyShows ==
    /\ upc = "show"
    /\ SyncShow
    /\ upc' = "loop"
    /\ UNCHANGED <<fields, epc, OutStream, asked>>

-----------------------------------------------------------------------------
(* The focus. *)

\* Another panel takes the focus from the dialog, as the menu does in ShowMainLayout
\* and UpdateState: the dialog stays as it is, and is remembered.
Cover ==
    /\ upc = "loop"
    /\ place.focused
    /\ place' = [place EXCEPT !.focused = FALSE, !.before = TRUE]
    /\ covered' = TRUE
    /\ UNCHANGED <<fields, dialog, upc, epc, OutStream, asked>>

\* The dialog is given the focus back, and is shown if it was not: by TAB, or by the
\* editor's setfocusprev.
Uncover ==
    /\ upc = "loop"
    /\ place.before
    /\ place' = Shown
    /\ UNCHANGED <<fields, dialog, covered, upc, epc, OutStream, asked>>

-----------------------------------------------------------------------------
(* The user. *)

\* A button: the key's callback closes the dialog; the test's writes the button's
\* word to the stream if there is one, whatever the dialog's text was.  (A word for
\* a test that has not asked is read with its next question; it is not kept here.)
Button ==
    /\ upc = "loop"
    /\ place.focused
    /\ SyncHide
    /\ asked' = IF dialog.callback = "test" /\ OutStream = "open" /\ asked = "waiting"
                THEN "answered" ELSE asked
    /\ UNCHANGED <<fields, upc, epc, OutStream>>

\* Escape closes the dialog without an answer; with the flag the menu stops the
\* run, and the test is killed in due course (TestEnds), or HandleEscape moves the
\* focus (Cover).
Escape ==
    /\ upc = "loop"
    /\ place.focused
    /\ SyncHide
    /\ UNCHANGED <<fields, upc, epc, OutStream, asked>>

-----------------------------------------------------------------------------
(* The execution thread and the test module. *)

\* ExecuteProcessIO.
TestStarts ==
    /\ epc = "idle"
    /\ epc' = "read"
    /\ OutStream' = "open"
    /\ UNCHANGED <<fields, screenVars, upc, asked>>

\* A line of the module: a question (the module may ask again before it is
\* answered), or <DIALOGCLOSE>.
TestAsks ==
    /\ epc = "read"
    /\ asked' = "waiting"
    /\ epc' = "setup"
    /\ UNCHANGED <<fields, screenVars, upc, OutStream>>

TestStores ==
    /\ \/ epc = "setup" /\ SetSetup("test") /\ epc' = "callback"
       \/ epc = "callback" /\ SetCallback("test") /\ epc' = "escape"
       \/ epc = "escape" /\ SetEscape("test") /\ epc' = "show"
    /\ UNCHANGED <<screenVars, upc, OutStream, asked>>

TestCloses ==
    /\ epc = "read"
    /\ epc' = "hide"
    /\ UNCHANGED <<fields, screenVars, upc, OutStream, asked>>

\* The module ends, by itself or by a signal: WaitProcessIO closes the stream,
\* ExecuteProcessIO clears the pointer, and Close is called in any case.
TestEnds ==
    /\ epc = "read"
    /\ epc' = "ended"
    /\ asked' = "none"
    /\ UNCHANGED <<fields, screenVars, upc, OutStream>>

CloseStream ==
    /\ epc = "ended"
    /\ epc' = "clear"
    /\ OutStream' = "closed"
    /\ UNCHANGED <<fields, screenVars, upc, asked>>

\* Fault: the pointer to the stream is not cleared.
ClearStreamKept ==
    /\ epc = "clear"
    /\ epc' = "closing"
    /\ UNCHANGED <<fields, screenVars, upc, OutStream, asked>>

\* Fault: no Close after a test.
ClearStreamNoClose ==
    /\ epc = "clear"
    /\ epc' = "idle"
    /\ OutStream' = "null"
    /\ UNCHANGED <<fields, screenVars, upc, asked>>

ClearStream ==
    /\ epc = "clear"
    /\ epc' = "closing"
    /\ OutStream' = "null"
    /\ UNCHANGED <<fields, screenVars, upc, asked>>

\* DIALOG_SHOW and DIALOG_HIDE, served by the UI thread in its loop.
ServeShow ==
    /\ upc = "loop" /\ epc = "show"
    /\ SyncShow
    /\ epc' = "read"
    /\ UNCHANGED <<fields, upc, OutStream, asked>>

ServeHide ==
    /\ upc = "loop" /\ epc \in {"hide", "closing"}
    /\ SyncHide
    /\ epc' = IF epc = "hide" THEN "read" ELSE "idle"
    /\ UNCHANGED <<fields, upc, OutStream, asked>>

-----------------------------------------------------------------------------
DialogInit ==
    /\ setup = "none" /\ callback = "none" /\ escape = FALSE
    /\ dialog = NoDialog
    /\ place = [visible |-> FALSE, focused |-> FALSE, before |-> FALSE]
    /\ covered = FALSE
    /\ upc = "loop"
    /\ epc = "idle"
    /\ OutStream = "null"
    /\ asked = "none"

DialogNext ==
    \/ KeyOpens \/ KeyStores \/ KeyShows
    \/ Cover \/ Uncover
    \/ Button \/ Escape
    \/ TestStarts \/ TestAsks \/ TestStores \/ TestCloses \/ TestEnds
    \/ CloseStream \/ ClearStream
    \/ ServeShow \/ ServeHide

DialogSpec == DialogInit /\ [][DialogNext]_dialogVars

-----------------------------------------------------------------------------
\* What the execution thread does for the end of a test, up to Close.
Ending == {"ended", "clear", "closing"}

\* Something of a test's question is on the screen: its text, or a button that would
\* write to the stream of the test at work.
QuestionShown ==
    place.visible /\ "test" \in {dialog.text, dialog.callback}

\* A question on the screen is one of the test that runs, unless another panel has
\* taken the focus from it: Close is served after anything a key may have assembled
\* from the fields the test stored meanwhile, so that the next test is not
\* answered by a question of the last.
NoStaleDialog ==
    QuestionShown => asked # "none" \/ epc \in Ending \/ covered

\* The end of a test closes its question (test.cpp: Close follows ExecuteProcessIO).
QuestionClosed ==
    QuestionShown => asked # "none" \/ epc \in Ending

\* A dialog is shown as one of the callers asked for it: its buttons call what
\* belongs to its text (dialogpanel.h: "public interface (thread-safe)").
DialogNotMixed ==
    dialog.text = dialog.callback
=============================================================================
