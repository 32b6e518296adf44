------------------------------ MODULE EditFile ------------------------------
(***************************************************************************)
(* The editor of the settings: its text, the file it belongs to, and what  *)
(* it tells whoever opened it when it closes.                              *)
(*                                                                         *)
(* The panel is left in other ways than by its own keys: a cycle of a run  *)
(* moves the focus to the menu, from where the hello panel (which hides    *)
(* the editor) or a file to edit may be chosen (see Focus).                *)
(***************************************************************************)
CONSTANTS
    Files,            \* names of files: the settings, one to save them as
    NoFile            \* not a name

VARIABLES
    panel,            \* the panel: closed, shown, hidden by another layout
    name,             \* m_fileName
    text,             \* the lines, against m_originalCrc: same, modified, or
                      \*   cleared by a load that failed
    fileWasModified,  \* m_fileWasModified
    question,         \* the editor's dialog: none, close, save, saveAs
    written,          \* history: the files written since ShowFile
    report,           \* history: the last call of m_onExitCallback
    dropped           \* history: a modified text was replaced without a question

vars == <<panel, name, text, fileWasModified, question, written, report, dropped>>

NoReport == [file |-> NoFile, changed |-> FALSE]

\* Values and shapes of the state.
TypeOK ==
    /\ panel \in {"closed", "shown", "hidden"}
    /\ name \in Files \/ (name = NoFile /\ panel = "closed")
    /\ text \in {"same", "modified", "cleared"}
    /\ fileWasModified \in BOOLEAN
    /\ question \in {"none", "close", "save", "saveAs"}
    /\ written \subseteq Files
    /\ report \in [file : Files, changed : BOOLEAN] \cup {NoReport}
    /\ dropped \in BOOLEAN

-----------------------------------------------------------------------------
\* ShowFile, whatever was edited before: the panel is shown, or the file cannot
\* be opened, after the lines have been cleared, and a message replaces the
\* dialog.
ShowFile(f) ==
    /\ name' = f
    /\ fileWasModified' = FALSE
    /\ written' = {}
    /\ dropped' = (dropped \/ (panel # "closed" /\ text = "modified"))
    /\ \/ text' = "same" /\ panel' = "shown" /\ UNCHANGED question
       \/ text' = "cleared" /\ question' = "none" /\ UNCHANGED panel
    /\ UNCHANGED report

\* A key of the text; what is typed may bring the old text back.
TypeKey ==
    /\ panel = "shown"
    /\ text' \in {"same", "modified"}
    /\ UNCHANGED <<panel, name, fileWasModified, question, written, report, dropped>>

\* F2 and F3.
SaveKey ==
    /\ panel = "shown"
    /\ question' \in {"save", "saveAs"}
    /\ UNCHANGED <<panel, name, text, fileWasModified, written, report, dropped>>

\* ClosePanel: the callback gets the name and the flag.
ClosePanel(changed) ==
    /\ panel' = "closed"
    /\ report' = [file |-> name, changed |-> changed]

\* Fault: the panel closes whether the text was modified or not.
EditEscapeNeverAsks ==
    /\ panel = "shown"
    /\ ClosePanel(fileWasModified)
    /\ UNCHANGED <<name, text, fileWasModified, question, written, dropped>>

\* Escape.  Cleared lines differ from the text that was loaded unless that was
\* empty.
EditEscape ==
    /\ panel = "shown"
    /\ \/ /\ text \in {"same", "cleared"}
          /\ ClosePanel(fileWasModified)
          /\ UNCHANGED question
       \/ /\ text \in {"modified", "cleared"}
          /\ question' = "close"
          /\ UNCHANGED <<panel, report>>
    /\ UNCHANGED <<name, text, fileWasModified, written, dropped>>

\* SaveToFile and what SaveFile makes of it, for the file f.
SaveDone(f) ==
    /\ text' = "same"
    /\ written' = written \cup {f}
    /\ fileWasModified' = TRUE

\* Fault: a failed save leaves the flag of the last one.
SaveFailedKeepsFlag ==
    UNCHANGED <<text, written, fileWasModified>>

SaveFailed ==
    /\ fileWasModified' = FALSE
    /\ UNCHANGED <<text, written>>

\* Buttons of the dialogs, which close them: of F2, of F3 with a name, of Escape,
\* and those that change nothing.
AnswerSave ==
    /\ question = "save"
    /\ question' = "none"
    /\ SaveDone(name) \/ SaveFailed
    /\ UNCHANGED <<panel, name, report, dropped>>

AnswerSaveAs(f) ==
    /\ question = "saveAs"
    /\ question' = "none"
    /\ name' = f
    /\ SaveDone(f) \/ SaveFailed
    /\ UNCHANGED <<panel, report, dropped>>

AnswerClose ==
    /\ question = "close"
    /\ question' = "none"
    /\ \/ SaveDone(name) /\ ClosePanel(TRUE)
       \/ SaveFailed /\ UNCHANGED <<panel, report>>
       \/ /\ ClosePanel(fileWasModified)
          /\ UNCHANGED <<text, written, fileWasModified>>
    /\ UNCHANGED <<name, dropped>>

AnswerCancel ==
    /\ question # "none"
    /\ question' = "none"
    /\ UNCHANGED <<panel, name, text, fileWasModified, written, report, dropped>>

\* HideMainLayout hides the editor; the list of panels with the focus before
\* may bring it back.
Hide ==
    /\ panel = "shown"
    /\ panel' = "hidden"
    /\ UNCHANGED <<name, text, fileWasModified, question, written, report, dropped>>

FocusBack ==
    /\ panel = "hidden"
    /\ panel' = "shown"
    /\ UNCHANGED <<name, text, fileWasModified, question, written, report, dropped>>

-----------------------------------------------------------------------------
Init ==
    /\ panel = "closed"
    /\ name = NoFile
    /\ text = "same"
    /\ fileWasModified = FALSE
    /\ question = "none"
    /\ written = {}
    /\ report = NoReport
    /\ dropped = FALSE

Next ==
    \/ \E f \in Files : ShowFile(f)
    \/ TypeKey \/ SaveKey \/ EditEscape
    \/ AnswerSave \/ AnswerClose \/ AnswerCancel
    \/ \E f \in Files : AnswerSaveAs(f)
    \/ Hide \/ FocusBack

Spec == Init /\ [][Next]_vars

-----------------------------------------------------------------------------
\* The editor never reports a change of a file it has not written, whatever
\* was saved under which name before and whatever failed: OnIniEditExit makes
\* the reported file the one that is loaded.
ReportedWritten ==
    fileWasModified => name \in written

\* The panel closes over a modified text only through the question.
ClosedByAnswer ==
    [][panel # "closed" /\ panel' = "closed" /\ text = "modified"
         => question = "close"]_vars

\* The callback learns that a file was changed (editpanel.h: "callback when the
\* editor closes", with "bool wasChanged").
WrittenReported ==
    [][panel # "closed" /\ panel' = "closed" /\ written' # {} => report'.changed]_vars

\* A modified text is not dropped without a question (editpanel.cpp: "if the
\* text has not changed, close at once").
TextKept == ~dropped
=============================================================================
