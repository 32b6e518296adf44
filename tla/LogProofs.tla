------------------------------ MODULE LogProofs -----------------------------
(***************************************************************************)
(* The log: its panel's iterators for any log size, any terminal and any   *)
(* number of lines, then its two locks for any number of logging threads.  *)
(***************************************************************************)
EXTENDS LogPanel, LogLock, TLAPS

-----------------------------------------------------------------------------
(***************************************************************************)
(* The panel.  What makes the invariants inductive is PageInv: m_lastLineIt*)
(* is always LastPage lines after the first.  A line is popped only when   *)
(* the list holds MaxLogSize lines, more than the panel has rows, so that  *)
(* m_lastLineIt does not point to the popped line.                         *)
(***************************************************************************)
PageInv == lastIt - first = LastPage(size, h)

IInv ==
    /\ TypeOK
    /\ IteratorsValid
    /\ CountsAgree
    /\ OnlyLastOpen
    /\ PageInv

LEMMA HeightFacts ==
  ASSUME NEW r \in Heights
  PROVE  r \in Nat /\ r >= 1 /\ r < MaxLogSize
BY LogPanelAssumption

\* The first line of the last page, counted from either end of the list.
LEMMA PageFacts ==
  ASSUME NEW k \in Nat, k >= 1, NEW r \in Nat, r >= 1
  PROVE  /\ LastPage(k, r) \in Nat
         /\ LastPage(k, r) < k
         /\ k - (IF k < r THEN k ELSE r) = LastPage(k, r)
BY DEF LastPage

LEMMA InitIInv == Init => IInv
<1> SUFFICES ASSUME Init
             PROVE  IInv
  OBVIOUS
<1>1. h \in Nat /\ h >= 1 /\ h < MaxLogSize
  BY HeightFacts DEF Init
<1> QED
  BY <1>1, LogPanelAssumption
     DEF Init, IInv, TypeOK, IteratorsValid, CountsAgree, OnlyLastOpen, PageInv, LastPage

LEMMA AddStep ==
  ASSUME IInv, NEW ended \in BOOLEAN, AddLine(ended)
  PROVE  IInv'
<1>1. h \in Nat /\ h >= 1 /\ h < MaxLogSize
  BY HeightFacts DEF IInv, TypeOK
<1>2. CASE last \in open
  <2>1. /\ open' \subseteq open
        /\ UNCHANGED <<first, last, size, lastIt, scrollIt, pos, h>>
    BY <1>2, Zenon DEF AddLine, ExtendLine
  <2> QED
    BY <2>1 DEF IInv, TypeOK, IteratorsValid, CountsAgree, OnlyLastOpen, PageInv, LastPage
<1>3. CASE last \notin open
  <2>1. PushLine(ended)
    BY <1>3 DEF AddLine
  <2>2. open = {}
    BY <1>3 DEF IInv, OnlyLastOpen
  <2>3. open' \subseteq {last + 1} /\ last' = last + 1 /\ h' = h
    <3>1. open' = IF ended THEN {} ELSE {last'}
      BY <2>1, <2>2 DEF PushLine, Push
    <3>2. last' = last + 1 /\ h' = h
      BY <2>1 DEF PushLine, Push
    <3> QED BY <3>1, <3>2, Zenon
  <2>4. /\ scrollIt' = lastIt' /\ pos' = LastPage(size', h)
        /\ lastIt' = IF size' > h THEN lastIt + 1 ELSE lastIt
    BY <2>1 DEF PushLine, ToLastPage
  <2>5. CASE size + 1 > MaxLogSize
    <3>1. first' = first + 1 /\ size' = size
      BY <2>1, <2>5 DEF PushLine, Push
    <3> QED
      BY <1>1, <2>3, <2>4, <2>5, <3>1, LogPanelAssumption
         DEF IInv, TypeOK, IteratorsValid, CountsAgree, OnlyLastOpen, PageInv, LastPage
  <2>6. CASE ~(size + 1 > MaxLogSize)
    <3>1. first' = first /\ size' = size + 1
      BY <2>1, <2>6 DEF PushLine, Push
    <3> QED
      BY <1>1, <2>3, <2>4, <2>6, <3>1, LogPanelAssumption
         DEF IInv, TypeOK, IteratorsValid, CountsAgree, OnlyLastOpen, PageInv, LastPage
  <2> QED BY <2>5, <2>6
<1> QED BY <1>2, <1>3

\* What a step that leaves the list alone must keep.
LEMMA SameList ==
  ASSUME IInv, UNCHANGED <<first, last, open, size>>, h' \in Heights,
         lastIt' - first = LastPage(size, h'), lastIt' \in Nat, scrollIt' \in Nat,
         first <= scrollIt', scrollIt' <= lastIt', pos' = scrollIt' - first
  PROVE  IInv'
<1>1. h' \in Nat /\ h' >= 1
  BY HeightFacts
<1>2. OnlyLastOpen'
  BY DEF IInv, OnlyLastOpen
<1>3. TypeOK'
  <2>1. open' \subseteq first' .. last'
    BY DEF IInv, TypeOK
  <2>2. pos' \in Int
    BY DEF IInv, TypeOK
  <2> QED BY <2>1, <2>2 DEF IInv, TypeOK
<1>4. CountsAgree' /\ PageInv'
  BY DEF IInv, CountsAgree, PageInv
<1>5. lastIt' <= last
  <2>1. /\ first \in Nat /\ last \in Nat /\ size \in Nat /\ size >= 1
        /\ size = last + 1 - first
    BY LogPanelAssumption DEF IInv, TypeOK, CountsAgree
  <2> QED BY <1>1, <2>1, PageFacts
<1>6. IteratorsValid'
  BY <1>5 DEF IteratorsValid
<1> QED BY <1>2, <1>3, <1>4, <1>6 DEF IInv

LEMMA ScrollStep ==
  ASSUME IInv, NEW k \in Nat, ScrollUp(k) \/ ScrollDown(k)
  PROVE  IInv'
<1>1. UNCHANGED <<first, last, open, size>> /\ lastIt' = lastIt /\ h' = h
  BY DEF ScrollUp, ScrollDown, list
<1>2. /\ first \in Nat /\ scrollIt \in Nat /\ lastIt \in Nat
      /\ first <= scrollIt /\ scrollIt <= lastIt /\ pos = scrollIt - first
  BY DEF IInv, TypeOK, IteratorsValid, CountsAgree
<1>3. pos' = scrollIt' - first /\ scrollIt' \in Nat /\ first <= scrollIt' /\ scrollIt' <= lastIt
  <2>1. CASE ScrollUp(k)
    <3>1. CASE scrollIt - first < k
      BY <1>2, <2>1, <3>1 DEF ScrollUp
    <3>2. CASE ~(scrollIt - first < k)
      BY <1>2, <2>1, <3>2 DEF ScrollUp
    <3> QED BY <3>1, <3>2
  <2>2. CASE ScrollDown(k)
    <3>1. CASE lastIt - scrollIt < k
      BY <1>2, <2>2, <3>1 DEF ScrollDown
    <3>2. CASE ~(lastIt - scrollIt < k)
      BY <1>2, <2>2, <3>2 DEF ScrollDown
    <3> QED BY <3>1, <3>2
  <2> QED BY <2>1, <2>2
<1>4. lastIt' - first = LastPage(size, h') /\ lastIt' \in Nat /\ h' \in Heights
  BY <1>1 DEF IInv, TypeOK, PageInv
<1> QED BY <1>1, <1>3, <1>4, SameList

LEMMA ResizeStep ==
  ASSUME IInv, Resize
  PROVE  IInv'
<1>1. h' \in Heights /\ h' \in Nat /\ h' >= 1
  BY HeightFacts DEF Resize
<1>2. UNCHANGED <<first, last, open, size>>
  BY DEF Resize, list
<1>3. lastIt' = last + 1 - (IF size < h' THEN size ELSE h')
  BY DEF Resize, IInv, CountsAgree
<1>4. first \in Nat /\ last \in Nat /\ size \in Nat /\ size >= 1 /\ size = last + 1 - first
  BY LogPanelAssumption DEF IInv, TypeOK, CountsAgree
<1>5. /\ LastPage(size, h') \in Nat
      /\ size - (IF size < h' THEN size ELSE h') = LastPage(size, h')
  BY <1>1, <1>4, PageFacts
<1>7. lastIt' = first + LastPage(size, h')
  <2> DEFINE m == IF size < h' THEN size ELSE h'
  <2>1. m \in Nat
    BY <1>1, <1>4
  <2>2. lastIt' = last + 1 - m
    BY <1>3
  <2>3. size - m = LastPage(size, h')
    BY <1>5
  <2> HIDE DEF m
  <2> QED BY <1>4, <2>1, <2>2, <2>3
<1>6. scrollIt' = lastIt' /\ pos' = lastIt' - first
  <2>1. scrollIt' = lastIt' /\ pos' = LastPage(size, h')
    BY DEF Resize
  <2> QED BY <1>4, <1>5, <1>7, <2>1
<1>8. lastIt' - first = LastPage(size, h') /\ lastIt' \in Nat /\ first <= lastIt'
  BY <1>4, <1>5, <1>7
<1> QED BY <1>1, <1>2, <1>6, <1>8, SameList

THEOREM Invariance == Spec => []IInv
<1>1. IInv /\ [Next]_vars => IInv'
  <2> SUFFICES ASSUME IInv, [Next]_vars
               PROVE  IInv'
    OBVIOUS
  <2>1. h \in Nat /\ 1 \in Nat
    BY HeightFacts DEF IInv, TypeOK
  <2>2. CASE UNCHANGED vars
    BY <2>2 DEF vars, IInv, TypeOK, IteratorsValid, CountsAgree, OnlyLastOpen, PageInv, LastPage
  <2> QED BY <2>1, <2>2, AddStep, ScrollStep, ResizeStep DEF Next
<1> QED BY InitIInv, <1>1, PTL DEF Spec

\* The panel keeps its types.
THEOREM TypeCorrect == Spec => []TypeOK
<1>1. IInv => TypeOK  BY DEF IInv
<1> QED BY <1>1, Invariance, PTL

\* No iterator dangles.
THEOREM IteratorsSafe == Spec => []IteratorsValid
<1>1. IInv => IteratorsValid  BY DEF IInv
<1> QED BY <1>1, Invariance, PTL

\* The counts agree with the list and the iterators.
THEOREM CountsSafe == Spec => []CountsAgree
<1>1. IInv => CountsAgree  BY DEF IInv
<1> QED BY <1>1, Invariance, PTL

\* Only the last line can be without its '\n'.
THEOREM OpenSafe == Spec => []OnlyLastOpen
<1>1. IInv => OnlyLastOpen  BY DEF IInv
<1> QED BY <1>1, Invariance, PTL

-----------------------------------------------------------------------------
(* The window *)

LEMMA InitMaps == Init => SV!SVInit
<1> SUFFICES ASSUME Init
             PROVE  SV!SVInit
  OBVIOUS
<1>1. h \in Nat
  BY HeightFacts DEF Init
<1> QED BY <1>1, LogPanelAssumption DEF Init, LastPage, SV!SVInit, SV!Bottom

\* A line that is begun appends to the window, one that is ended later stutters.
LEMMA AddMaps ==
  ASSUME IInv, IInv', NEW ended \in BOOLEAN, AddLine(ended)
  PROVE  SV!Append \/ UNCHANGED <<size, h, scrollIt - first>>
<1>1. CASE last \in open
  <2>1. UNCHANGED <<first, size, scrollIt, h>>
    BY <1>1 DEF AddLine, ExtendLine
  <2> QED BY <2>1
<1>2. CASE last \notin open
  <2>1. PushLine(ended)
    BY <1>2 DEF AddLine
  <2>2. size' = IF size < MaxLogSize THEN size + 1 ELSE size
    BY <2>1, LogPanelAssumption DEF PushLine, Push, IInv, TypeOK
  <2>3. scrollIt' - first' = LastPage(size', h) /\ h' = h
    BY <2>1 DEF PushLine, ToLastPage, IInv, CountsAgree, TypeOK
  <2> QED BY <2>2, <2>3 DEF SV!Append, SV!Bottom, LastPage
<1> QED BY <1>1, <1>2

LEMMA UpMaps ==
  ASSUME IInv, NEW k \in Nat, ScrollUp(k)
  PROVE  SV!Up(k)
BY DEF ScrollUp, SV!Up, IInv, TypeOK, IteratorsValid, list

LEMMA DownMaps ==
  ASSUME IInv, NEW k \in Nat, ScrollDown(k)
  PROVE  SV!Down(k)
<1>1. h \in Nat
  BY HeightFacts DEF IInv, TypeOK
<1> QED
  BY <1>1 DEF ScrollDown, SV!Down, SV!Bottom, LastPage, PageInv, IInv, TypeOK, IteratorsValid, list

LEMMA ResizeMaps ==
  ASSUME IInv, Resize
  PROVE  SV!Resize
<1>1. IInv'
  BY ResizeStep
<1>2. scrollIt' - first' = LastPage(size', h')
  BY <1>1 DEF Resize, IInv, PageInv
<1>3. size' = size /\ h' \in Heights
  BY DEF Resize, list
<1> QED BY <1>2, <1>3 DEF SV!Resize, SV!Bottom, LastPage

\* The panel implements the window: it never shows lines above the first or
\* below the last page, and keeps the page that was chosen while a line grows.
THEOREM Refinement == Spec => ImplementsScrollView
<1>1. IInv /\ IInv' /\ [Next]_vars => [SV!SVNext]_<<size, h, scrollIt - first>>
  <2> SUFFICES ASSUME IInv, IInv', [Next]_vars
               PROVE  SV!SVNext \/ UNCHANGED <<size, h, scrollIt - first>>
    OBVIOUS
  <2>1. h \in Nat /\ 1 \in Nat
    BY HeightFacts DEF IInv, TypeOK
  <2>2. CASE UNCHANGED vars
    BY <2>2 DEF vars
  <2>3. ASSUME NEW k \in {1, h}, ScrollUp(k) \/ ScrollDown(k)
        PROVE  SV!SVNext
    <3>1. k \in Nat
      BY <2>1, <2>3
    <3>2. SV!Up(k) \/ SV!Down(k)
      BY <2>3, <3>1, UpMaps, DownMaps
    <3> QED BY <2>3, <3>2 DEF SV!SVNext
  <2> QED BY <2>2, <2>3, AddMaps, ResizeMaps DEF Next, SV!SVNext
<1> QED BY InitMaps, <1>1, Invariance, PTL DEF Spec, ImplementsScrollView, SV!SVSpec, SV!svVars

-----------------------------------------------------------------------------
(***************************************************************************)
(* The locks.  ListStable follows from OneWriter and from what ties the UI *)
(* thread to the worker it serves: a worker whose draw is being served is  *)
(* still in its call, hence still inside AddLogEntry, hence the owner of   *)
(* the mutex.                                                              *)
(***************************************************************************)
\* A worker with a call under way is in AddLogEntry or in its update; the one
\* that is served stays there until its handler has returned.
CallInv ==
    /\ \A w \in Workers : call[w] # "idle" => wpc[w] \in {"wait", "update"}
    /\ serves # Nobody => call[serves] = "serving"
    /\ mpc = "draw" => serves # Nobody /\ wpc[serves] = "wait"

LockIInv ==
    /\ LockTypeOK
    /\ OneWriter
    /\ CallInv

LEMMA ListStableFromLockIInv == LockIInv => ListStable
BY LogLockAssumption DEF LockIInv, LockTypeOK, OneWriter, CallInv, ListStable

LEMMA InitLockIInv == LockInit => LockIInv
BY LogLockAssumption
   DEF LockInit, LockIInv, LockTypeOK, OneWriter, CallInv, WorkerPcs, MainPcs,
       SC!SCInit, SC!SCTypeOK, SC!CallStates

\* A step of one of the workers: another worker's place, and the event that is
\* being served, are as before.
LEMMA WorkerStep ==
  ASSUME LockIInv, NEW w \in Workers, Worker(w)
  PROVE  LockIInv'
<1> USE LogLockAssumption
    DEF LockIInv, LockTypeOK, OneWriter, CallInv, WorkerPcs, MainPcs, SC!SCTypeOK, SC!CallStates,
        WorkerGoto
<1>1. CASE BeginEntry(w)
  BY <1>1 DEF BeginEntry
<1>2. CASE LockLog(w)
  BY <1>2 DEF LockLog
<1>3. CASE PostDraw(w)
  BY <1>3 DEF PostDraw, SC!Call
<1>4. CASE EndWithoutDraw(w)
  BY <1>4 DEF EndWithoutDraw
<1>5. CASE EndEntry(w)
  BY <1>5 DEF EndEntry, SC!Return, SC!Abandon
<1>6. CASE PostUpdate(w)
  BY <1>6 DEF PostUpdate, SC!Call
<1>7. CASE EndUpdate(w)
  BY <1>7 DEF EndUpdate, SC!Return, SC!Abandon
<1> QED BY <1>1, <1>2, <1>3, <1>4, <1>5, <1>6, <1>7 DEF Worker

\* A step of the UI thread that serves a worker.
LEMMA ServeStep ==
  ASSUME LockIInv, NEW w \in Workers, Serve(w)
  PROVE  LockIInv'
<1> USE LogLockAssumption
    DEF LockIInv, LockTypeOK, OneWriter, CallInv, WorkerPcs, MainPcs, SC!SCTypeOK, SC!CallStates
<1>1. CASE ServeDraw(w)
  BY <1>1 DEF ServeDraw, SC!Begin
<1>2. CASE ServeUpdate(w)
  BY <1>2 DEF ServeUpdate, SC!Begin
<1> QED BY <1>1, <1>2 DEF Serve

\* The other steps of the UI thread.
LEMMA MainStep ==
  ASSUME LockIInv, MainThread
  PROVE  LockIInv'
<1> USE LogLockAssumption
    DEF LockIInv, LockTypeOK, OneWriter, CallInv, WorkerPcs, MainPcs, SC!SCTypeOK, SC!CallStates
<1>1. CASE KeyLogs
  BY <1>1 DEF KeyLogs
<1>2. CASE KeyDraws
  BY <1>2 DEF KeyDraws
<1>3. CASE DrawEnds
  BY <1>3 DEF DrawEnds
<1>4. CASE ExitKey
  BY <1>4 DEF ExitKey, SC!Close
<1>5. CASE HandlerReturns
  BY <1>5 DEF HandlerReturns, SC!End
<1>6. CASE MainLock
  BY <1>6 DEF MainLock
<1>7. CASE MainUnlock
  BY <1>7 DEF MainUnlock
<1> QED BY <1>1, <1>2, <1>3, <1>4, <1>5, <1>6, <1>7 DEF MainThread

LEMMA StutterStep ==
  ASSUME LockIInv, UNCHANGED lockVars
  PROVE  LockIInv'
BY DEF lockVars, LockIInv, LockTypeOK, OneWriter, CallInv, SC!SCTypeOK

THEOREM LockInvariance == LockSpec => []LockIInv
<1>1. LockIInv /\ [LockNext]_lockVars => LockIInv'
  BY WorkerStep, ServeStep, MainStep, StutterStep DEF LockNext
<1> QED BY InitLockIInv, <1>1, PTL DEF LockSpec

\* The log's locks keep their types.
THEOREM LockTypeCorrect == LockSpec => []LockTypeOK
<1>1. LockIInv => LockTypeOK  BY DEF LockIInv
<1> QED BY <1>1, LockInvariance, PTL

\* m_logMutex is owned exactly by the thread that is inside AddLogEntry.
THEOREM WriterUnique == LockSpec => []OneWriter
<1>1. LockIInv => OneWriter  BY DEF LockIInv
<1> QED BY <1>1, LockInvariance, PTL

\* The list does not change while the UI thread draws it for a LOG_UPDATE or
\* adds to it.
THEOREM ListSafe == LockSpec => []ListStable
<1> QED BY ListStableFromLockIInv, LockInvariance, PTL
=============================================================================
