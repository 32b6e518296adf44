------------------------------ MODULE LogPanel ------------------------------
(***************************************************************************)
(* The lines of the log panel: a list, two iterators into it, and counts   *)
(* kept beside it.  Lines are numbered in the order they were begun; the   *)
(* list holds the numbers first .. last and last + 1 stands for end( ).    *)
(* An iterator that points to a line that was popped is dangling.          *)
(*                                                                         *)
(* The actions are the calls as they return.  The locks around them are in *)
(* LogLock.                                                                *)
(***************************************************************************)
EXTENDS Integers

CONSTANTS
    MaxLogSize,       \* logsize of the configuration
    Heights,          \* the heights a terminal can give the panel
    MaxLines          \* bound: lines ever logged

\* devices/pc/bin/sberdevtest.conf sets logsize to 1000, more than the rows of
\* a terminal.
ASSUME LogPanelAssumption ==
    /\ MaxLogSize \in Nat \ {0}
    /\ Heights \subseteq 1 .. (MaxLogSize - 1)
    /\ MaxLines \in Nat

VARIABLES
    first, last,      \* the lines in m_logLines
    open,             \* lines without their '\n'
    size,             \* m_currentLogSize
    lastIt,           \* m_lastLineIt
    scrollIt,         \* m_scrollLineIt
    pos,              \* m_scrollPosition
    h                 \* the height of the panel

vars == <<first, last, open, size, lastIt, scrollIt, pos, h>>
list == <<first, last, open, size>>

\* Values and shapes of the state.
TypeOK ==
    /\ first \in Nat /\ last \in Nat
    /\ open \subseteq first .. last
    /\ size \in 1 .. MaxLogSize
    /\ lastIt \in Nat /\ scrollIt \in Nat
    /\ pos \in Int
    /\ h \in Heights

\* The position of the scroll bar at the last page.
LastPage(k, r) == IF k > r THEN k - r ELSE 0

\* The panel as the first UI->resize( ) leaves it, after the constructor and
\* the entries logged until then.
Init ==
    /\ first = 1
    /\ last \in 1 .. MaxLogSize
    /\ open = {last}
    /\ size = last
    /\ h \in Heights
    /\ pos = LastPage(size, h)
    /\ lastIt = first + pos
    /\ scrollIt = lastIt

-----------------------------------------------------------------------------
\* Fault: m_currentLogSize is not taken back when a line is popped.
PushCounts(ended) ==
    /\ last < MaxLines
    /\ last' = last + 1
    /\ size' = size + 1
    /\ first' = IF size' > MaxLogSize THEN first + 1 ELSE first
    /\ open' = (open \cap (first' .. last)) \cup (IF ended THEN {} ELSE {last'})

\* push_back, and pop_front when there are too many lines.
Push(ended) ==
    /\ last < MaxLines
    /\ last' = last + 1
    /\ IF size + 1 > MaxLogSize
         THEN first' = first + 1 /\ size' = size
         ELSE first' = first /\ size' = size + 1
    /\ open' = (open \cap (first' .. last)) \cup (IF ended THEN {} ELSE {last'})

\* Fault: m_lastLineIt goes on only while the list grows.
ToLastPageStops ==
    /\ lastIt' = IF size' > size /\ size' > h THEN lastIt + 1 ELSE lastIt
    /\ scrollIt' = lastIt'
    /\ pos' = LastPage(size', h)

\* The window goes to the last page.
ToLastPage ==
    /\ lastIt' = IF size' > h THEN lastIt + 1 ELSE lastIt
    /\ scrollIt' = lastIt'
    /\ pos' = LastPage(size', h)

PushLine(ended) == Push(ended) /\ ToLastPage /\ UNCHANGED h

\* The part that appends to a line that has no '\n' yet.
ExtendLine(ended) ==
    /\ open' = IF ended THEN open \ {last} ELSE open
    /\ UNCHANGED <<first, last, size, lastIt, scrollIt, pos, h>>

\* Fault: every text begins a line.
AddLineAlwaysPushes(ended) == PushLine(ended)

\* internalAddLine.  An entry is any number of lines and then a rest, which
\* may be empty, without '\n'.
AddLine(ended) ==
    IF last \in open THEN ExtendLine(ended) ELSE PushLine(ended)

\* k steps of the loop of a page key, or the one step of an arrow key.
ScrollUp(k) ==
    LET d == IF scrollIt - first < k THEN scrollIt - first ELSE k IN
    /\ scrollIt' = scrollIt - d
    /\ pos' = pos - d
    /\ UNCHANGED <<list, lastIt, h>>

ScrollDown(k) ==
    LET d == IF lastIt - scrollIt < k THEN lastIt - scrollIt ELSE k IN
    /\ scrollIt' = scrollIt + d
    /\ pos' = pos + d
    /\ UNCHANGED <<list, lastIt, h>>

\* Fault: the page shown is kept although the height has changed.
ResizeKeepsScroll ==
    /\ h' \in Heights
    /\ lastIt' = last + 1 - (IF size < h' THEN size ELSE h')
    /\ UNCHANGED <<list, scrollIt, pos>>

\* resize: m_lastLineIt goes back from end( ) h lines, or to begin( ).
Resize ==
    /\ h' \in Heights
    /\ lastIt' = last + 1 - (IF last + 1 - first < h' THEN last + 1 - first ELSE h')
    /\ scrollIt' = lastIt'
    /\ pos' = LastPage(size, h')
    /\ UNCHANGED list

Next ==
    \/ \E ended \in BOOLEAN : AddLine(ended)
    \/ ScrollUp(1) \/ ScrollUp(h)
    \/ ScrollDown(1) \/ ScrollDown(h)
    \/ Resize

Spec == Init /\ [][Next]_vars

-----------------------------------------------------------------------------
\* Both iterators point to lines that are still in the list, in this order,
\* however often the list was popped under them: pop_front invalidates the
\* iterators to the line it removes, and nothing tests for that.
IteratorsValid ==
    /\ first <= scrollIt
    /\ scrollIt <= lastIt
    /\ lastIt <= last

\* The counts kept beside the list agree with it: the size that the scroll
\* bar is drawn from, and the position that the keys move with the iterator.
CountsAgree ==
    /\ size = last + 1 - first
    /\ pos = scrollIt - first

\* Only the last line may lack its '\n'.  draw( ) finds the last line, where
\* the progress goes, by comparing texts: an earlier line without '\n' could equal it.
OnlyLastOpen ==
    open \subseteq {last}

\* The iterators implement the window of ScrollView.
SV == INSTANCE ScrollView WITH
        n <- size, rows <- h, top <- scrollIt - first

ImplementsScrollView == SV!SVSpec
=============================================================================
