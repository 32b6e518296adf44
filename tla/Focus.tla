------------------------------- MODULE Focus -------------------------------
(***************************************************************************)
(* Which panel has the focus, which had it before, and which are on the    *)
(* screen: what keys, dialogs, the editor, the countdown and a run of tests *)
(* do to them.                                                             *)
(*                                                                         *)
(* A key is handled by the panel with the focus, as one step of the UI     *)
(* thread.  The thread that executes tests asks the UI thread to show a    *)
(* question (<DIALOG>), to hide it (<DIALOGCLOSE>, and after every test)   *)
(* and to update the run; the thread of a timer asks for a tick.  Each     *)
(* waits in DoLock until the UI thread is between keys (SyncCall), so any  *)
(* number of keys may come first.                                          *)
(*                                                                         *)
(* What the menu shows is the subject of MenuView, what becomes of the     *)
(* edited text of EditFile, and of two threads that ask for dialogs at the *)
(* same time of DialogCall: here their outcomes are choices.               *)
(***************************************************************************)
EXTENDS Naturals, Sequences, FiniteSets, SequencesExt

CONSTANT
    Starts            \* pairs of the setting Main/block, with which the editor is
                      \*   not offered, and the panel that main shows: the program
                      \*   panel when the device is unknown, else the hello panel

ASSUME FocusAssumption == Starts \subseteq BOOLEAN \X {"hello", "program"}

\* The panels that take keys, in the order of TUI::listpanel: main creates them
\* so.  The back and sensor panels never get the focus and are left out.
listpanel == <<"dialog", "auto", "hello", "menu", "log", "edit", "program">>
PanelNames == {"dialog", "auto", "hello", "menu", "log", "edit", "program"}

\* The dialogs, by the callback of their buttons, and the answers they offer:
\* "exit" stands for the two questions whether to leave, "ok" for the messages
\* with an Ok button, "save" for the two of the editor's F2 and F3, "close" for
\* its Escape, "flash" and "flashed" for the firmware, "test" for the question
\* of a test module.
Answers == [exit |-> {"yes", "no"}, ok |-> {"ok"}, test |-> {"yes", "no"},
            save |-> {"yes", "no"}, close |-> {"yes", "no", "cancel"},
            flash |-> {"yes", "no"}, flashed |-> {"ok"}]
Dialogs == DOMAIN Answers

VARIABLES
    block,            \* the setting Main/block
    scr,              \* [focus, prev, visible, tablock]: focuspanel,
                      \*   prevfocuslist, the panels' visible, ftablock
    shown,            \* the dialog that SyncShow made
    onExit,           \* the editor's m_onExitCallback: the menu's, the hello panel's
    epc,              \* the execution thread; working is epc # "idle"
    timer,            \* m_autoStartTimer: off, on, late (off, but one of its
                      \*   threads still waits in DoLock)
    fexit

vars == <<block, scr, shown, onExit, epc, timer, fexit>>

\* Values and shapes of the state.
TypeOK ==
    /\ block \in BOOLEAN
    /\ scr \in [focus : PanelNames, prev : Seq(PanelNames),
                visible : SUBSET PanelNames, tablock : BOOLEAN]
    /\ shown \in Dialogs
    /\ onExit \in {"menu", "hello"}
    /\ epc \in {"idle", "test", "show", "hide", "update"}
    /\ timer \in {"off", "on", "late"}
    /\ fexit \in BOOLEAN

-----------------------------------------------------------------------------
\* The screen s after the operations of TUI and TUIPanel.

\* Fault: the panel is not taken out of the list of the panels before.
setfocusTwice(s, p) ==
    IF s.focus = p
      THEN [s EXCEPT !.visible = @ \cup {p}]
      ELSE [s EXCEPT !.focus = p,
                     !.prev = Append(@, s.focus),
                     !.visible = @ \cup {p}]

\* prevfocuslist.remove: what is not p, in the same order.
Without(list, p) ==
    LET kept   == {i \in DOMAIN list : list[i] # p}
        nth(k) == CHOOSE i \in kept : Cardinality({j \in kept : j <= i}) = k
    IN  [k \in 1 .. Cardinality(kept) |-> list[nth(k)]]

setfocus(s, p) ==
    IF s.focus = p
      THEN [s EXCEPT !.visible = @ \cup {p}]
      ELSE [s EXCEPT !.focus = p,
                     !.prev = Append(Without(@, p), s.focus),
                     !.visible = @ \cup {p}]

\* Fault: the panel gets the focus back but is not shown.
setfocusprevHidden(s) ==
    IF s.prev = <<>>
      THEN s
      ELSE [s EXCEPT !.focus = Last(s.prev), !.prev = Front(@)]

setfocusprev(s) ==
    IF s.prev = <<>>
      THEN s
      ELSE [s EXCEPT !.focus = Last(s.prev),
                     !.prev = Front(@),
                     !.visible = @ \cup {Last(s.prev)}]

\* Fault: a hidden panel loses the focus and no other panel gets it.
hideUnfocused(s, P) ==
    [s EXCEPT !.visible = @ \ P,
              !.focus = IF @ \in P THEN "none" ELSE @]

hide(s, P) == [s EXCEPT !.visible = @ \ P]

tablock(s, lock) == [s EXCEPT !.tablock = lock]

\* The end of TDialogPanel::SyncShow (every caller's set-up string is well
\* formed).
SyncShow(s) == setfocus(tablock(s, TRUE), "dialog")

\* Fault: a dialog is hidden without unlocking TAB.
SyncHideKeepsLock(s) ==
    IF "dialog" \notin s.visible
      THEN s
      ELSE setfocusprev(hide(s, {"dialog"}))

SyncHide(s) ==
    IF "dialog" \notin s.visible
      THEN s
      ELSE setfocusprev(tablock(hide(s, {"dialog"}), FALSE))

\* TBackPanel::ShowMainLayout; the views of the menu end in showfocused.
ShowMenu(s) == setfocus(s, "menu")

ShowMainLayout(s) ==
    LET m == ShowMenu(s) IN [m EXCEPT !.visible = @ \cup {"log"}]

\* THelloPanel::ShowPanel, with HideMainLayout.
HelloShow(s) == setfocus(hide(s, {"edit", "menu", "log"}), "hello")

\* TUI::tabpanel: the next visible panel of the list, from the focused one on.
TabTargets(s) ==
    LET n == Len(listpanel)
        here == CHOOSE i \in 1 .. n : listpanel[i] = s.focus
        after(k) == listpanel[((here - 1 + k) % n) + 1]
        open(k) == after(k) \in s.visible
    IN  {after(k) : k \in {j \in 1 .. n - 1 :
            open(j) /\ \A i \in 1 .. j - 1 : ~open(i)}}

-----------------------------------------------------------------------------
\* ShowMessage in the UI thread, over the screen s.
ShowMessage(s, k) == scr' = SyncShow(s) /\ shown' = k

\* The screen becomes s, without a dialog.
Screen(s) == scr' = s /\ UNCHANGED shown

\* TTest::Update from the screen s: the run is over (a complex run ends with a
\* message), or its next cycle begins; a run of one test leaves the focus alone.
Update(s) ==
    /\ epc' \in {"idle", "test"}
    /\ \/ Screen(ShowMenu(s))
       \/ Screen(s)
       \/ epc' = "idle" /\ ShowMessage(ShowMenu(s), "ok")

\* StartComplex, StartCustom: nothing while a run works.
StartTest(s) ==
    IF epc # "idle" THEN Screen(s) /\ UNCHANGED epc ELSE Update(s)

\* TMenuPanel::HandleEscape, by the view of the menu: see MenuView.
HandleEscape(s) == scr' \in {HelloShow(s), ShowMenu(s), s}

\* TEditPanel::ShowFile: a file that cannot be opened gives a message.
ShowFile(callback) ==
    /\ onExit' = callback
    /\ \/ Screen(setfocus(tablock(scr, TRUE), "edit"))
       \/ ShowMessage(scr, "ok")

\* TEditPanel::ClosePanel from the screen s, with its callback.
ClosePanel(s) ==
    LET below == setfocusprev(tablock(hide(s, {"edit"}), FALSE))
    IN  Screen(IF onExit = "hello" THEN HelloShow(below) ELSE ShowMainLayout(below))

-----------------------------------------------------------------------------
\* Keys of the dialog: Enter on a button runs the callback, which closes the
\* dialog first.
ButtonOk(closed) ==
    /\ shown \in {"ok", "test"}
    /\ Screen(closed)
    /\ UNCHANGED fexit

ButtonExit(closed, answer) ==
    /\ shown = "exit"
    /\ fexit' = (answer = "yes")
    /\ Screen(closed)

\* SaveFile may fail, with a message.
ButtonSave(closed, answer) ==
    /\ shown = "save"
    /\ \/ Screen(closed)
       \/ answer = "yes" /\ ShowMessage(closed, "ok")
    /\ UNCHANGED fexit

ButtonClose(closed, answer) ==
    /\ shown = "close"
    /\ \/ answer \in {"yes", "no"} /\ ClosePanel(closed)
       \/ answer = "yes" /\ ShowMessage(closed, "ok")
       \/ answer = "cancel" /\ Screen(closed)
    /\ UNCHANGED fexit

ButtonFirmware(closed, answer) ==
    /\ \/ shown = "flash" /\ answer = "yes" /\ \E k \in {"flashed", "ok"} : ShowMessage(closed, k)
       \/ shown = "flash" /\ answer = "no" /\ Screen(closed)
       \/ shown = "flashed" /\ Screen(HelloShow(hide(closed, {"program"})))
    /\ UNCHANGED fexit

DialogButton(answer) ==
    /\ scr.focus = "dialog"
    /\ answer \in Answers[shown]
    /\ LET closed == SyncHide(scr)
       IN  \/ ButtonOk(closed)
           \/ ButtonExit(closed, answer)
           \/ ButtonSave(closed, answer)
           \/ ButtonClose(closed, answer)
           \/ ButtonFirmware(closed, answer)
    /\ UNCHANGED <<onExit, epc, timer>>

\* TDialogPanel::event: the questions of tests ask for the menu's Escape.
DialogEscape ==
    /\ scr.focus = "dialog"
    /\ IF shown = "test" THEN HandleEscape(SyncHide(scr)) ELSE scr' = SyncHide(scr)
    /\ UNCHANGED <<shown, onExit, epc, timer, fexit>>

\* F10 in any panel, Escape in the hello and the program panel: whether to leave.
HaltKey ==
    /\ ShowMessage(scr, "exit")
    /\ UNCHANGED <<onExit, epc, timer, fexit>>

ExitKey ==
    /\ scr.focus \in {"hello", "program"}
    /\ ShowMessage(scr, "exit")
    /\ UNCHANGED <<onExit, epc, timer, fexit>>

TabKey ==
    /\ ~scr.tablock
    /\ \E p \in TabTargets(scr) : Screen(setfocus(scr, p))
    /\ UNCHANGED <<onExit, epc, timer, fexit>>

\* The button of the program panel: is the input complete?
ApplyKey ==
    /\ scr.focus = "program"
    /\ \E k \in {"flash", "ok"} : ShowMessage(scr, k)
    /\ UNCHANGED <<onExit, epc, timer, fexit>>

-----------------------------------------------------------------------------
\* A test is chosen in the hello panel: the countdown, or the hello panel again
\* when its ini cannot be loaded.  (An older timer loses its handle: AutoStart.)
ChooseTest ==
    /\ scr.focus = "hello"
    /\ \/ /\ Screen(setfocus(hide(scr, {"hello"}), "auto"))
          /\ timer' = "on"
       \/ /\ Screen(HelloShow(hide(scr, {"hello", "auto"})))
          /\ UNCHANGED timer
    /\ UNCHANGED <<onExit, epc, fexit>>

\* StopTimer: a thread that has begun goes on.
StopTimer == timer' = IF timer = "on" THEN "late" ELSE timer

\* Enter in the countdown, and its end; any other key there.
CountdownOver ==
    /\ StartTest(ShowMainLayout(hide(scr, {"auto"})))
    /\ UNCHANGED <<onExit, fexit>>

EnterKey ==
    /\ scr.focus = "auto"
    /\ StopTimer
    /\ CountdownOver

OtherKey ==
    /\ scr.focus = "auto"
    /\ StopTimer
    /\ Screen(HelloShow(hide(scr, {"auto"})))
    /\ UNCHANGED <<onExit, epc, fexit>>

\* Keys of the menu: the buttons that start a run (the others keep the focus),
\* Escape (also in the log panel).
StartButton ==
    /\ scr.focus = "menu"
    /\ StartTest(scr)
    /\ UNCHANGED <<onExit, timer, fexit>>

MenuEscape ==
    /\ scr.focus \in {"menu", "log"}
    /\ HandleEscape(scr)
    /\ UNCHANGED <<shown, onExit, epc, timer, fexit>>

\* F3 or the settings in the menu, F4 in the hello panel: the editor.
EditKey ==
    /\ ~block
    /\ \/ scr.focus = "menu" /\ ShowFile("menu")
       \/ scr.focus = "hello" /\ ShowFile("hello")
    /\ UNCHANGED <<epc, timer, fexit>>

\* Keys of the editor: F2 and F3; Escape, with a question when the text changed.
SaveKey ==
    /\ scr.focus = "edit"
    /\ ShowMessage(scr, "save")
    /\ UNCHANGED <<onExit, epc, timer, fexit>>

EditEscape ==
    /\ scr.focus = "edit"
    /\ ClosePanel(scr) \/ ShowMessage(scr, "close")
    /\ UNCHANGED <<onExit, epc, timer, fexit>>

-----------------------------------------------------------------------------
\* The other threads.  A tick counts down, and at zero starts the test, whatever
\* panel has the focus.  The last waiting thread of a stopped timer may end.
UpdateTick ==
    /\ timer # "off"
    /\ \/ /\ timer' \in IF timer = "on" THEN {"on"} ELSE {"off", "late"}
          /\ UNCHANGED <<scr, shown, onExit, epc, fexit>>
       \/ /\ timer' \in {"off", "late"}
          /\ CountdownOver

\* A running test: its question; its <DIALOGCLOSE> or its end, after which Close
\* is called in any case; and the DONE record.  Each call waits in DoLock.
Post ==
    /\ epc = "test"
    /\ epc' \in {"show", "hide", "update"}
    /\ UNCHANGED <<scr, shown, onExit, timer, fexit>>

\* The UI thread serves DIALOG_SHOW, DIALOG_HIDE and TEST_UPDATE.
ServeShow ==
    /\ epc = "show"
    /\ epc' = "test"
    /\ ShowMessage(scr, "test")
    /\ UNCHANGED <<onExit, timer, fexit>>

ServeHide ==
    /\ epc = "hide"
    /\ epc' = "test"
    /\ Screen(SyncHide(scr))
    /\ UNCHANGED <<onExit, timer, fexit>>

ServeUpdate ==
    /\ epc = "update"
    /\ Update(scr)
    /\ UNCHANGED <<onExit, timer, fexit>>

-----------------------------------------------------------------------------
\* main shows the first panel.
Init ==
    /\ \E start \in Starts :
          /\ block = start[1]
          /\ scr = [focus |-> start[2], prev |-> <<>>, visible |-> {start[2]},
                    tablock |-> FALSE]
    /\ shown = "ok"
    /\ onExit = "hello"
    /\ epc = "idle"
    /\ timer = "off"
    /\ fexit = FALSE

Key ==
    \/ \E answer \in UNION {Answers[k] : k \in Dialogs} : DialogButton(answer)
    \/ DialogEscape \/ HaltKey \/ ExitKey \/ TabKey \/ ApplyKey
    \/ ChooseTest \/ EnterKey \/ OtherKey
    \/ StartButton \/ MenuEscape
    \/ EditKey \/ SaveKey \/ EditEscape

Event == UpdateTick \/ Post \/ ServeShow \/ ServeHide \/ ServeUpdate

Next ==
    /\ ~fexit
    /\ Key \/ Event
    /\ UNCHANGED block

Spec == Init /\ [][Next]_vars

-----------------------------------------------------------------------------
\* The panel that gets the keys is on the screen, whatever was hidden meanwhile.
\* (The dialog is left out: hidden with no panel before it, it keeps the focus.)
FocusShown ==
    scr.focus # "dialog" => scr.focus \in scr.visible

\* TUI remembers each panel once, and never the focused one: the list of panels
\* does not grow with every dialog, and no panel is given back the focus from
\* itself.
FocusOnce ==
    LET all == Append(scr.prev, scr.focus)
    IN  Cardinality(ToSet(all)) = Len(all)

\* Where the editor is not offered, TAB is locked only by a dialog that is on the
\* screen: runs, countdowns and timers that move the focus do not leave it locked.
LockCovered ==
    block => (scr.tablock => "dialog" \in scr.visible)
=============================================================================
