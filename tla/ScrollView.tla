----------------------------- MODULE ScrollView -----------------------------
(***************************************************************************)
(* What the log panel promises to its reader: a window of h rows over the  *)
(* last lines that were logged, at most MaxLogSize of them.  The window    *)
(* moves with the keys, never above the first line nor below the last full *)
(* page, and jumps to the last page when a line begins or the terminal is  *)
(* resized.  The detailed panel, with its iterators into a list, is        *)
(* LogPanel.                                                               *)
(***************************************************************************)
EXTENDS Naturals

CONSTANTS
    MaxLogSize,       \* lines kept
    Heights           \* rows a panel can have

VARIABLES
    n,                \* lines kept now
    rows,             \* rows of the panel
    top               \* lines above the window

svVars == <<n, rows, top>>

\* The lines above the last page of a window of r rows over k lines.
Bottom(k, r) == IF k > r THEN k - r ELSE 0

SVTypeOK ==
    /\ n \in 1 .. MaxLogSize
    /\ rows \in Heights
    /\ top \in 0 .. Bottom(n, rows)

SVInit ==
    /\ n \in 1 .. MaxLogSize
    /\ rows \in Heights
    /\ top = Bottom(n, rows)

\* A new line; the oldest one goes when there are too many.
Append ==
    /\ n' = IF n < MaxLogSize THEN n + 1 ELSE n
    /\ top' = Bottom(n', rows)
    /\ UNCHANGED rows

\* k lines up or down, as far as there are any.
Up(k) ==
    /\ top' = IF top > k THEN top - k ELSE 0
    /\ UNCHANGED <<n, rows>>

Down(k) ==
    /\ top' = IF top + k < Bottom(n, rows) THEN top + k ELSE Bottom(n, rows)
    /\ UNCHANGED <<n, rows>>

Resize ==
    /\ rows' \in Heights
    /\ top' = Bottom(n, rows')
    /\ UNCHANGED n

SVNext ==
    \/ Append \/ Resize
    \/ \E k \in {1, rows} : Up(k) \/ Down(k)

SVSpec == SVInit /\ [][SVNext]_svVars
=============================================================================
