---------------------------- MODULE PanelProofs ----------------------------
(***************************************************************************)
(* Proofs about the menu with the editor (MenuEdit) and about the dialog   *)
(* that a test and the keys share (DialogCall).                            *)
(***************************************************************************)
EXTENDS MenuEdit, DialogCall, TLAPS

-----------------------------------------------------------------------------
(* The menu and the run. *)

\* A run of one test has no stop button: UpdateOver leaves the buttons of such a
\* run alone, so RunShown needs to know which they are.
NoStopForSingle == testtype = "single" => buttons # "running"

RunInv == M!TypeOK /\ M!RunShown /\ NoStopForSingle

\* The updates of a run (TTest::Update), whatever view and buttons it starts from.
LEMMA UpdatePreserves ==
    ASSUME M!TypeOK, NEW v \in M!MenuViews, NEW b \in {"none", "main", "complex", "custom", "running"},
           v \in M!RunViews => working,
           testtype' \in M!TestTypes, testtype' = "single" => b # "running",
           M!UpdateOver(v, b) \/ (M!UpdateNext(v, b) /\ ~stop)
    PROVE  /\ view' \in M!MenuViews
           /\ buttons' \in {"none", "main", "complex", "custom", "running"}
           /\ working' \in BOOLEAN /\ stop' = FALSE
           /\ view' \in M!RunViews => working'
           /\ buttons' = "running" => working'
           /\ testtype' = "single" => buttons' # "running"
<1>1. CASE M!UpdateOver(v, b)
  BY <1>1 DEF M!UpdateOver, M!ShowComplexMenu, M!ShowCustomMenu, M!MenuViews,
     M!RunViews, M!TestTypes
<1>2. CASE M!UpdateNext(v, b) /\ ~stop
  BY <1>2 DEF M!UpdateNext, M!ShowRunningState, M!MenuViews, M!RunViews, M!TestTypes, M!TypeOK
<1> QED BY <1>1, <1>2

\* StartTest with the arguments that its callers pass.
LEMMA StartPreserves ==
    ASSUME RunInv, NEW v \in M!MenuViews, NEW b \in {"main", "complex", "custom"},
           NEW t \in M!TestTypes,
           v \in M!RunViews => working,
           M!StartTest(v, b, t), lastBtn' \in {"none", "live", "deleted"},
           MaxDones \in Nat
    PROVE  RunInv'
<1>1. CASE working
  BY <1>1 DEF RunInv, NoStopForSingle, M!StartTest, M!TypeOK, M!RunShown,
     M!MenuViews, M!RunViews, M!runVars
<1>2. CASE ~working
  <2>1. /\ testtype' = t
        /\ dones' \in 0 .. MaxDones
        /\ M!UpdateOver(v, b) \/ (M!UpdateNext(v, b) /\ ~stop)
    BY <1>2 DEF RunInv, M!StartTest, M!TypeOK
  <2>2. /\ view' \in M!MenuViews
        /\ buttons' \in {"none", "main", "complex", "custom", "running"}
        /\ working' \in BOOLEAN /\ stop' = FALSE
        /\ view' \in M!RunViews => working'
        /\ buttons' = "running" => working'
        /\ testtype' = "single" => buttons' # "running"
    BY <2>1, UpdatePreserves DEF RunInv
  <2> QED BY <2>1, <2>2 DEF RunInv, NoStopForSingle, M!TypeOK, M!RunShown
<1> QED BY <1>1, <1>2

\* The actions of the menu.
LEMMA MenuPreserves ==
    ASSUME RunInv, MaxDones \in Nat,
           \/ M!MenuButton \/ M!StartButton \/ M!TestButton \/ M!StopButton
           \/ M!HandleEscape \/ M!CountdownOver \/ M!ServeUpdate
           \/ \E changed \in BOOLEAN : M!EditExit(changed)
    PROVE  RunInv'
<1> USE DEF RunInv
<1>1. CASE M!MenuButton
  BY <1>1 DEF M!MenuButton, M!ShowComplexMenu, M!ShowCustomMenu, M!ShowMainMenu,
     M!runVars, M!TypeOK, M!RunShown, M!MenuViews, M!RunViews, NoStopForSingle
<1>2. CASE M!StartButton
  BY <1>2, StartPreserves DEF M!StartButton, M!TypeOK, M!RunShown, M!TestTypes
<1>3. CASE M!TestButton
  <2>1. PICK t \in {"custom", "single"} : M!StartTest(view, buttons, t)
    BY <1>3 DEF M!TestButton
  <2> QED BY <1>3, <2>1, StartPreserves DEF M!TestButton, M!TypeOK, M!RunShown, M!TestTypes
<1>4. CASE M!StopButton
  BY <1>4 DEF M!StopButton, M!Stop, M!menuVars, M!TypeOK, M!RunShown, NoStopForSingle
<1>5. CASE M!HandleEscape
  <2>1. /\ working' = working /\ testtype' = testtype /\ lastBtn' = lastBtn
        /\ stop' \in BOOLEAN
        /\ stop' => working
        /\ dones' \in 0 .. MaxDones
    <3>1. lastBtn' = lastBtn /\ (IF working THEN M!Stop ELSE UNCHANGED M!runVars)
      BY <1>5 DEF M!HandleEscape
    <3>2. CASE working
      BY <3>1, <3>2 DEF M!Stop, M!TypeOK
    <3>3. CASE ~working
      BY <3>1, <3>3 DEF M!runVars, M!TypeOK, M!RunShown
    <3> QED BY <3>2, <3>3
  <2>2. \/ view' = "main" /\ buttons' = "main"
        \/ view' = "custom" /\ buttons' = buttons
        \/ view' = view /\ buttons' = buttons
    BY <1>5 DEF M!HandleEscape, M!ShowMainMenu, M!menuVars
  <2>3. view' \in M!MenuViews /\ buttons' \in {"none", "main", "complex", "custom", "running"}
    BY <2>2 DEF M!TypeOK, M!MenuViews
  <2>4. /\ working' \in BOOLEAN
        /\ testtype' \in M!TestTypes /\ lastBtn' \in {"none", "live", "deleted"}
    BY <2>1, Zenon DEF M!TypeOK
  <2>5. M!RunShown'
    <3>1. CASE view' = view /\ buttons' = buttons
      BY <2>1, <3>1 DEF M!RunShown
    <3>2. CASE view' # view \/ buttons' # buttons
      BY <2>1, <2>2, <3>2 DEF M!RunShown, M!RunViews
    <3> QED BY <3>1, <3>2
  <2>6. NoStopForSingle'
    BY <2>1, <2>2 DEF NoStopForSingle
  <2> QED BY <2>1, <2>3, <2>4, <2>5, <2>6, Zenon DEF M!TypeOK
<1>6. CASE M!CountdownOver
  <2>1. /\ M!StartTest("complex", "complex", "complex")
        /\ lastBtn' \in {"none", "live", "deleted"}
    BY <1>6 DEF M!CountdownOver, M!InitTests, M!TypeOK
  <2> QED BY <2>1, StartPreserves DEF M!MenuViews, M!RunViews, M!TestTypes
<1>7. CASE M!ServeUpdate
  <2>1. /\ testtype' = testtype /\ lastBtn' = lastBtn
        /\ dones' \in 0 .. MaxDones
        /\ M!UpdateOver(view, buttons) \/ (M!UpdateNext(view, buttons) /\ ~stop)
    BY <1>7 DEF M!ServeUpdate, M!TypeOK
  <2>2. /\ view' \in M!MenuViews
        /\ buttons' \in {"none", "main", "complex", "custom", "running"}
        /\ working' \in BOOLEAN /\ stop' = FALSE
        /\ view' \in M!RunViews => working'
        /\ buttons' = "running" => working'
        /\ testtype' = "single" => buttons' # "running"
    BY <2>1, UpdatePreserves DEF M!TypeOK, M!RunShown, NoStopForSingle
  <2> QED BY <2>1, <2>2 DEF NoStopForSingle, M!TypeOK, M!RunShown
<1>8. CASE \E changed \in BOOLEAN : M!EditExit(changed)
  BY <1>8 DEF M!EditExit, M!InitTests, M!ShowMainMenu, M!runVars, M!TypeOK,
     M!RunShown, M!MenuViews, M!RunViews, NoStopForSingle
<1> QED BY <1>1, <1>2, <1>3, <1>4, <1>5, <1>6, <1>7, <1>8

-----------------------------------------------------------------------------
(* The editor. *)

\* An editor that was never opened asks nothing.
NamedWhenAsking == question # "none" => name \in Files

EditInv == E!TypeOK /\ E!ReportedWritten /\ NamedWhenAsking

\* The actions of the editor.
LEMMA EditPreserves ==
    ASSUME EditInv,
           \/ \E f \in Files : E!ShowFile(f)
           \/ E!TypeKey \/ E!SaveKey \/ E!EditEscape
           \/ E!AnswerSave \/ E!AnswerClose \/ E!AnswerCancel
           \/ \E f \in Files : E!AnswerSaveAs(f)
           \/ E!Hide \/ E!FocusBack
    PROVE  EditInv'
<1> USE DEF EditInv, NamedWhenAsking, E!TypeOK, E!ReportedWritten
<1>1. CASE \E f \in Files : E!ShowFile(f)
  BY <1>1 DEF E!ShowFile
<1>2. CASE E!TypeKey
  BY <1>2 DEF E!TypeKey
<1>3. CASE E!SaveKey
  BY <1>3 DEF E!SaveKey
<1>4. CASE E!EditEscape
  BY <1>4 DEF E!EditEscape, E!ClosePanel
<1>5. CASE E!AnswerSave
  BY <1>5 DEF E!AnswerSave, E!SaveDone, E!SaveFailed
<1>6. CASE E!AnswerClose
  <2>1. CASE E!SaveDone(name) /\ E!ClosePanel(TRUE)
    BY <1>6, <2>1 DEF E!AnswerClose, E!SaveDone, E!ClosePanel
  <2>2. CASE E!SaveFailed /\ UNCHANGED <<panel, report>>
    BY <1>6, <2>2 DEF E!AnswerClose, E!SaveFailed
  <2>3. CASE E!ClosePanel(fileWasModified) /\ UNCHANGED <<text, written, fileWasModified>>
    BY <1>6, <2>3 DEF E!AnswerClose, E!ClosePanel
  <2> QED BY <1>6, <2>1, <2>2, <2>3 DEF E!AnswerClose
<1>7. CASE E!AnswerCancel
  BY <1>7 DEF E!AnswerCancel
<1>8. CASE \E f \in Files : E!AnswerSaveAs(f)
  BY <1>8 DEF E!AnswerSaveAs, E!SaveDone, E!SaveFailed
<1>9. CASE E!Hide
  BY <1>9 DEF E!Hide
<1>10. CASE E!FocusBack
  BY <1>10 DEF E!FocusBack
<1> QED BY <1>1, <1>2, <1>3, <1>4, <1>5, <1>6, <1>7, <1>8, <1>9, <1>10

-----------------------------------------------------------------------------
(* The two together. *)

IInv ==
    /\ RunInv /\ EditInv
    /\ front \in {"edit", "other"} /\ opener \in {"menu", "hello"}
    /\ front = "edit" => panel = "shown"

LEMMA InitIInv == Init => IInv
<1> SUFFICES ASSUME Init PROVE IInv
  OBVIOUS
<1>1. RunInv
  <2>1. dones \in 0 .. MaxDones
    BY MenuEditAssumption DEF Init, M!Init
  <2> QED BY <2>1, Zenon DEF Init, M!Init, RunInv, NoStopForSingle, M!TypeOK, M!RunShown,
          M!MenuViews, M!RunViews, M!TestTypes
<1>2. EditInv
  BY DEF Init, E!Init, EditInv, NamedWhenAsking, E!TypeOK, E!ReportedWritten, E!NoReport
<1> QED BY <1>1, <1>2 DEF Init, IInv

LEMMA MenuUnchanged ==
    ASSUME RunInv, UNCHANGED menuVars
    PROVE  RunInv'
BY DEF menuVars, RunInv, NoStopForSingle, M!TypeOK, M!RunShown, M!MenuViews,
       M!RunViews, M!TestTypes

LEMMA EditUnchanged ==
    ASSUME EditInv, UNCHANGED editVars
    PROVE  EditInv'
BY DEF editVars, EditInv, NamedWhenAsking, E!TypeOK, E!ReportedWritten, E!NoReport

LEMMA NextIInv == IInv /\ [Next]_vars => IInv'
<1> SUFFICES ASSUME IInv, [Next]_vars PROVE IInv'
  OBVIOUS
<1> USE DEF IInv
<1>0. MaxDones \in Nat
  BY MenuEditAssumption
<1>1. ASSUME NEW f \in Files, Open(f) PROVE IInv'
  <2>1. RunInv'
    BY <1>1, MenuUnchanged DEF Open
  <2>2. EditInv'
    BY <1>1, EditPreserves DEF Open
  <2>3. text' = "same" => panel' = "shown"
    BY <1>1 DEF Open, E!ShowFile
  <2> QED BY <1>1, <2>1, <2>2, <2>3 DEF Open
<1>2. CASE EditKey
  BY <1>2, MenuUnchanged, EditPreserves DEF EditKey
<1>3. CASE EditAnswer
  BY <1>3, MenuUnchanged, EditPreserves DEF EditAnswer
<1>4. CASE EditClose
  <2>1. EditInv'
    BY <1>4, EditPreserves DEF EditClose
  <2>2. report'.changed \in BOOLEAN
    <3>1. PICK c \in BOOLEAN : E!ClosePanel(c)
      BY <1>4 DEF EditClose, E!EditEscape, E!AnswerClose, EditInv, E!TypeOK
    <3> QED BY <3>1 DEF E!ClosePanel
  <2>3. RunInv'
    BY <1>0, <1>4, <2>2, MenuUnchanged, MenuPreserves DEF EditClose
  <2> QED BY <1>4, <2>1, <2>3 DEF EditClose
<1>5. CASE Hide
  BY <1>5, MenuUnchanged, EditPreserves DEF Hide
<1>6. CASE FocusBack
  <2>1. panel' = "shown"
    BY <1>6 DEF FocusBack, E!FocusBack, editVars
  <2> QED BY <1>6, <2>1, MenuUnchanged, EditPreserves, EditUnchanged DEF FocusBack
<1>7. CASE MenuKey
  <2>1. RunInv'
    BY <1>0, <1>7, MenuPreserves DEF MenuKey
  <2> QED BY <1>7, <2>1, EditUnchanged DEF MenuKey, editVars
<1>8. CASE Event
  <2>1. RunInv'
    BY <1>0, <1>8, MenuPreserves DEF Event
  <2> QED BY <1>8, <2>1, EditUnchanged DEF Event, editVars
<1>9. CASE UNCHANGED vars
  <2>1. RunInv' /\ EditInv'
    BY <1>9, MenuUnchanged, EditUnchanged DEF vars
  <2> QED BY <1>9, <2>1 DEF vars, editVars
<1> QED BY <1>1, <1>2, <1>3, <1>4, <1>5, <1>6, <1>7, <1>8, <1>9 DEF Next

-----------------------------------------------------------------------------
\* Values and shapes of the state, and an editor that is not shown has no keys:
\* TypeOK of MenuEdit.
THEOREM MenuEditTypeOK == Spec => []TypeOK
<1>1. IInv => TypeOK
  BY DEF IInv, RunInv, EditInv, TypeOK
<1> QED BY InitIInv, NextIInv, <1>1, PTL DEF Spec

\* The menu shows a run, or its stop button, only while there is one, and a stop
\* that was asked for does not outlive the run: TTest::Update, Stop and the
\* Escape of the menu, in whatever order the threads and the editor bring them.
THEOREM MenuRunShown == Spec => []RunShown
<1>1. IInv => RunShown
  BY DEF IInv, RunInv, RunShown
<1> QED BY InitIInv, NextIInv, <1>1, PTL DEF Spec

\* The editor reports a change only of a file that it has written: SaveFile,
\* ShowFile and the answers of the dialogs.
THEOREM EditorReportsWritten == Spec => []ReportedWritten
<1>1. IInv => ReportedWritten
  BY DEF IInv, EditInv, ReportedWritten
<1> QED BY InitIInv, NextIInv, <1>1, PTL DEF Spec

-----------------------------------------------------------------------------
\* What a step may not do: close the editor over a modified text without the
\* question.
ClosesByAnswer ==
    panel # "closed" /\ panel' = "closed" /\ text = "modified" => question = "close"

LEMMA NextCloses == [Next]_vars => [ClosesByAnswer]_E!vars
<1> SUFFICES ASSUME [Next]_vars, panel # "closed", panel' = "closed", text = "modified"
             PROVE  question = "close"
  BY DEF ClosesByAnswer
<1>1. ASSUME NEW f \in Files, Open(f) PROVE FALSE
  BY <1>1 DEF Open, E!ShowFile
<1>2. CASE EditKey
  BY <1>2 DEF EditKey
<1>3. CASE EditAnswer
  BY <1>3 DEF EditAnswer
<1>4. CASE EditClose
  BY <1>4 DEF EditClose, E!EditEscape, E!AnswerClose
<1>5. CASE Hide
  BY <1>5 DEF Hide, E!Hide
<1>6. CASE FocusBack
  BY <1>6 DEF FocusBack, E!FocusBack, editVars
<1>7. CASE MenuKey \/ Event \/ UNCHANGED vars
  BY <1>7 DEF MenuKey, Event, vars, editVars
<1> QED BY <1>1, <1>2, <1>3, <1>4, <1>5, <1>6, <1>7 DEF Next

\* The editor closes over a modified text only through its question, though it
\* may be hidden, covered and opened again meanwhile: Close and ClosePanel.
THEOREM EditorClosedByAnswer == Spec => ClosedByAnswer
<1>1. [Next]_vars => [ClosesByAnswer]_E!vars
  BY NextCloses
<1> QED BY <1>1, PTL DEF Spec, ClosedByAnswer, E!ClosedByAnswer, ClosesByAnswer

-----------------------------------------------------------------------------
(* The dialog of a test and of the keys. *)

\* The test that is at work has asked.
Asking == asked # "none" \/ epc \in Ending

\* While no test asks, a key that assembles a dialog has stored in the panel what
\* it has passed: the execution thread stores nothing, and its last stores come
\* before the Close that is served when no key is at work.
KeyStored ==
    /\ epc \in {"setup", "callback", "escape", "show"} => asked # "none"
    /\ ~Asking /\ upc \in {"callback", "escape", "show"} => setup = "key"
    /\ ~Asking /\ upc \in {"escape", "show"} => callback = "key"

\* The dialog panel is among those before only if one of them took the focus.
BeforeCovered == place.before => covered

DialogInv == DialogTypeOK /\ NoStaleDialog /\ KeyStored /\ BeforeCovered

LEMMA InitDialogInv == DialogInit => DialogInv
<1> SUFFICES ASSUME DialogInit PROVE DialogInv
  OBVIOUS
<1>1. DialogTypeOK
  <2>1. dialog \in [text : Owners \cup {"none"}, callback : Owners \cup {"none"}]
    BY DEF DialogInit, NoDialog
  <2> QED BY <2>1 DEF DialogInit, DialogTypeOK, Steps
<1>2. NoStaleDialog /\ KeyStored /\ BeforeCovered
  BY DEF DialogInit, NoDialog, NoStaleDialog, QuestionShown, KeyStored, BeforeCovered
<1> QED BY <1>1, <1>2 DEF DialogInv

\* SyncHide leaves the panel on the screen only if another panel had taken the focus
\* from it.
LEMMA HideCovered ==
    ASSUME DialogTypeOK, BeforeCovered, SyncHide
    PROVE  /\ place' \in [visible : BOOLEAN, focused : BOOLEAN, before : BOOLEAN]
           /\ place'.visible => covered
           /\ place'.before => covered
           /\ UNCHANGED <<dialog, covered>>
<1>1. CASE ~place.visible
  BY <1>1 DEF SyncHide, Hidden, DialogTypeOK, BeforeCovered
<1>2. ASSUME place' = [place EXCEPT !.visible = FALSE] PROVE
        /\ place' \in [visible : BOOLEAN, focused : BOOLEAN, before : BOOLEAN]
        /\ ~place'.visible /\ (place'.before <=> place.before)
  BY <1>2 DEF DialogTypeOK
<1>3. ASSUME place' = [[place EXCEPT !.visible = FALSE] EXCEPT !.focused = FALSE] PROVE
        /\ place' \in [visible : BOOLEAN, focused : BOOLEAN, before : BOOLEAN]
        /\ ~place'.visible /\ (place'.before <=> place.before)
  BY <1>3 DEF DialogTypeOK
<1>4. ASSUME place.before, place' = Shown PROVE
        /\ place' \in [visible : BOOLEAN, focused : BOOLEAN, before : BOOLEAN]
        /\ covered /\ ~place'.before
  BY <1>4 DEF BeforeCovered, Shown
<1>5. CASE place.visible
  <2>1. \/ place' = [place EXCEPT !.visible = FALSE]
        \/ place' = [[place EXCEPT !.visible = FALSE] EXCEPT !.focused = FALSE]
        \/ place.before /\ place' = Shown
    BY <1>5, Zenon DEF SyncHide, Hidden
  <2>2. UNCHANGED <<dialog, covered>>
    BY DEF SyncHide
  <2> QED BY <2>1, <2>2, <1>2, <1>3, <1>4 DEF BeforeCovered
<1> QED BY <1>1, <1>5

LEMMA NextDialogInv == DialogInv /\ [DialogNext]_dialogVars => DialogInv'
<1> SUFFICES ASSUME DialogInv, [DialogNext]_dialogVars PROVE DialogInv'
  OBVIOUS
<1> USE DEF DialogInv, KeyStored, Asking, Ending, BeforeCovered, DialogTypeOK, NoStaleDialog,
        QuestionShown, Owners, Steps, fields, screenVars
<1>0. Shown \in [visible : BOOLEAN, focused : BOOLEAN, before : BOOLEAN] /\ ~Shown.before
  BY DEF Shown
<1>1. CASE KeyOpens \/ KeyShows
  <2>1. CASE KeyOpens
    BY <2>1 DEF KeyOpens
  <2>2. CASE KeyShows
    <3>1. dialog' \in [text : Owners \cup {"none"}, callback : Owners \cup {"none"}]
          /\ dialog'.text = setup /\ dialog'.callback = callback
      BY <2>2 DEF KeyShows, SyncShow
    <3> QED BY <1>0, <2>2, <3>1 DEF KeyShows, SyncShow
  <2> QED BY <1>1, <2>1, <2>2
<1>2. CASE KeyStores
  <2>1. CASE upc = "setup"
    BY <1>2, <2>1 DEF KeyStores, SetSetup
  <2>2. CASE upc = "callback"
    BY <1>2, <2>2 DEF KeyStores, SetCallback
  <2>3. CASE upc = "escape"
    BY <1>2, <2>3 DEF KeyStores, SetEscape
  <2> QED BY <1>2, <2>1, <2>2, <2>3 DEF KeyStores
<1>3. CASE Button \/ Escape
  <2>1. SyncHide
    BY <1>3 DEF Button, Escape
  <2> HIDE DEF DialogTypeOK
  <2>2. /\ place' \in [visible : BOOLEAN, focused : BOOLEAN, before : BOOLEAN]
        /\ place'.visible => covered
        /\ place'.before => covered
        /\ UNCHANGED <<dialog, covered>>
    BY <2>1, HideCovered
  <2> USE DEF DialogTypeOK
  <2> QED BY <1>3, <2>2 DEF Button, Escape
<1>4. CASE Cover
  <2>1. place' \in [visible : BOOLEAN, focused : BOOLEAN, before : BOOLEAN]
    BY <1>4 DEF Cover
  <2> QED BY <1>4, <2>1 DEF Cover
<1>5. CASE Uncover
  BY <1>0, <1>5 DEF Uncover
<1>6. CASE TestStarts \/ TestAsks \/ TestCloses \/ TestEnds
  BY <1>6 DEF TestStarts, TestAsks, TestCloses, TestEnds
<1>7. CASE TestStores
  <2>1. CASE epc = "setup"
    BY <1>7, <2>1 DEF TestStores, SetSetup
  <2>2. CASE epc = "callback"
    BY <1>7, <2>2 DEF TestStores, SetCallback
  <2>3. CASE epc = "escape"
    BY <1>7, <2>3 DEF TestStores, SetEscape
  <2> QED BY <1>7, <2>1, <2>2, <2>3 DEF TestStores
<1>8. CASE CloseStream \/ ClearStream
  BY <1>8 DEF CloseStream, ClearStream
<1>9. CASE ServeShow
  BY <1>0, <1>9 DEF ServeShow, SyncShow
<1>10. CASE ServeHide
  <2>1. SyncHide
    BY <1>10 DEF ServeHide
  <2> HIDE DEF DialogTypeOK
  <2>2. /\ place' \in [visible : BOOLEAN, focused : BOOLEAN, before : BOOLEAN]
        /\ place'.visible => covered
        /\ place'.before => covered
        /\ UNCHANGED <<dialog, covered>>
    BY <2>1, HideCovered
  <2> USE DEF DialogTypeOK
  <2> QED BY <1>10, <2>2 DEF ServeHide
<1>11. CASE UNCHANGED dialogVars
  BY <1>11 DEF dialogVars
<1> QED BY <1>1, <1>2, <1>3, <1>4, <1>5, <1>6, <1>7, <1>8, <1>9, <1>10, <1>11 DEF DialogNext

\* Values and shapes of the state: DialogTypeOK.
THEOREM DialogTyped == DialogSpec => []DialogTypeOK
<1>1. DialogInv => DialogTypeOK
  BY DEF DialogInv
<1> QED BY InitDialogInv, NextDialogInv, <1>1, PTL DEF DialogSpec

\* A question on the screen is one of the test that runs, unless another panel took
\* the focus from it: the Close after ExecuteProcessIO comes after anything a key has
\* shown of it.
THEOREM DialogNotStale == DialogSpec => []NoStaleDialog
<1>1. DialogInv => NoStaleDialog
  BY DEF DialogInv
<1> QED BY InitDialogInv, NextDialogInv, <1>1, PTL DEF DialogSpec
=============================================================================
