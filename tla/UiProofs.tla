------------------------------ MODULE UiProofs ------------------------------
(***************************************************************************)
(* The user-interface thread: TUI::DoLock and TUI::Run for any set of      *)
(* worker threads, then the countdown that its timer drives.               *)
(***************************************************************************)
EXTENDS UiLoop, AutoStart, TLAPS

-----------------------------------------------------------------------------
(* The loop and DoLock. *)

\* The workers between locking and unlocking UI->mutex are its owner.
OwnerInv == \A w \in Workers : pc[w] \in Holding <=> owner = w

\* Where the posted event is, as long as the loop runs.
PostedInv ==
    /\ mpc # "returned" /\ posted # NoWorker => pc[posted] = "wait"
    /\ mpc \in {"handler", "clear"} => posted # NoWorker
    /\ mpc = "clear" => posted \in handled
    /\ mpc \notin {"clear", "returned"} => posted \notin handled
    /\ mpc = "set" => posted = NoWorker /\ \E w \in handled : pc[w] = "wait"

\* Whom event_done is set for.
FlagInv ==
    flag => \/ mpc = "returned"
            \/ /\ mpc \in {"poll", "final"}
               /\ posted = NoWorker
               /\ \E w \in handled : pc[w] = "wait"

\* Who has been served.
HandledInv ==
    /\ \A w \in handled : pc[w] \in {"wait", "unlock"}
    /\ \A w \in Workers : pc[w] = "unlock" /\ w \notin handled => mpc = "returned"

ExitInv ==
    /\ mpc \in {"final", "returned"} => fexit
    /\ mpc \in {"handler", "clear", "set"} => ~fexit

IndInv == LoopTypeOK /\ OwnerInv /\ PostedInv /\ FlagInv /\ HandledInv /\ ExitInv

-----------------------------------------------------------------------------
LEMMA InitIndInv == LoopInit => IndInv
  BY WorkersAssumption
  DEF LoopInit, IndInv, LoopTypeOK, OwnerInv, PostedInv, FlagInv, HandledInv, ExitInv,
      WorkerPcs, MainPcs, Holding

\* Every step of a worker or of the main thread preserves the invariant.
LEMMA NextIndInv == IndInv /\ [LoopNext]_loopVars => IndInv'
<1> SUFFICES ASSUME IndInv, [LoopNext]_loopVars PROVE IndInv'
  OBVIOUS
<1> USE WorkersAssumption
    DEF IndInv, LoopTypeOK, OwnerInv, PostedInv, FlagInv, HandledInv, ExitInv,
        WorkerPcs, MainPcs, Holding
<1>1. ASSUME NEW w \in Workers, EnterDoLock(w) PROVE IndInv'
  BY <1>1 DEF EnterDoLock, Goto
<1>2. ASSUME NEW w \in Workers, LockMutex(w) PROVE IndInv'
  BY <1>2 DEF LockMutex, Goto
<1>3. ASSUME NEW w \in Workers, PostEvent(w) PROVE IndInv'
  BY <1>3 DEF PostEvent, Goto
<1>4. ASSUME NEW w \in Workers, Wake(w) PROVE IndInv'
  BY <1>4 DEF Wake, Goto
<1>5. ASSUME NEW w \in Workers, UnlockMutex(w) PROVE IndInv'
  BY <1>5 DEF UnlockMutex, Goto
<1>6. ASSUME NEW w \in Workers, BeginParse(w) PROVE IndInv'
  BY <1>6 DEF BeginParse, Goto
<1>7. ASSUME NEW w \in Workers, EndParse(w) PROVE IndInv'
  BY <1>7 DEF EndParse, Goto
<1>8. CASE ExitKey
  BY <1>8 DEF ExitKey
<1>9. CASE TakeEvent
  BY <1>9 DEF TakeEvent, MainGoto
<1>10. CASE HandlerReturns
  BY <1>10 DEF HandlerReturns, MainGoto
<1>11. CASE ClearEvent
  BY <1>11 DEF ClearEvent, MainGoto
<1>12. CASE SetDone
  BY <1>12 DEF SetDone, MainGoto
<1>13. CASE LeaveLoop
  BY <1>13 DEF LeaveLoop, MainGoto
<1>14. CASE FinalSet
  BY <1>14 DEF FinalSet, MainGoto
<1>15. CASE UNCHANGED loopVars
  BY <1>15 DEF loopVars
<1> QED
  BY <1>1, <1>2, <1>3, <1>4, <1>5, <1>6, <1>7, <1>8, <1>9, <1>10, <1>11, <1>12, <1>13, <1>14, <1>15 DEF LoopNext, Run, Serve, DoLock, Parse

THEOREM LoopInvariance == LoopSpec => []IndInv
<1>1. LoopInit => IndInv
  BY InitIndInv
<1>2. IndInv /\ [LoopNext]_loopVars => IndInv'
  BY NextIndInv
<1> QED
  BY <1>1, <1>2, PTL DEF LoopSpec
-----------------------------------------------------------------------------
\* The state of DoLock and Run has the declared types, for any set of workers.
THEOREM LoopTypeCorrect == LoopSpec => []LoopTypeOK
<1>1. IndInv => LoopTypeOK
  BY DEF IndInv
<1> QED
  BY <1>1, LoopInvariance, PTL

\* While the UI runs, DoLock returns only after the handler of its own event.
THEOREM DoLockServed == LoopSpec => []ReturnsServed
<1>1. IndInv => ReturnsServed
  BY DEF IndInv, HandledInv, ExitInv, ReturnsServed
<1> QED
  BY <1>1, LoopInvariance, PTL

\* A posted event is not overwritten before the loop has cleared it.
THEOREM PostedSafe == LoopSpec => []PostedWaits
<1>1. IndInv => PostedWaits
  BY DEF IndInv, LoopTypeOK, OwnerInv, PostedInv, PostedWaits, Holding
<1> QED
  BY <1>1, LoopInvariance, PTL

\* The parser of the sensor records never runs beside a handler or a caller.
THEOREM ParserExclusive == LoopSpec => []ParseExcludesHandler
<1>1. IndInv => ParseExcludesHandler
  <2> SUFFICES ASSUME IndInv, NEW w \in Workers, pc[w] = "parse"
               PROVE  /\ mpc \notin {"handler", "clear", "set"}
                      /\ \A u \in Workers \ {w} : pc[u] \notin Holding
    BY DEF ParseExcludesHandler
  <2>1. owner = w
    BY DEF IndInv, OwnerInv, Holding
  <2>2. \A u \in Workers \ {w} : pc[u] \notin Holding
    BY <2>1 DEF IndInv, OwnerInv
  <2>3. mpc \notin {"handler", "clear", "set"}
    BY <2>1 DEF IndInv, LoopTypeOK, OwnerInv, PostedInv, HandledInv, Holding
  <2> QED
    BY <2>2, <2>3
<1> QED
  BY <1>1, LoopInvariance, PTL

-----------------------------------------------------------------------------
(* DoLock and Run implement SyncCall *)

LEMMA InitRefines == LoopInit => SC!SCInit
  BY DEF LoopInit, SC!SCInit, CallOf

\* The two parts of SyncCall's state, as UiLoop's variables give them.
CallMap == [w \in Workers |-> CallOf(w)]

\* Only the call of w moves: the others keep their state.
LEMMA OneCallMoves ==
  ASSUME NEW w \in Workers, NEW to, CallOf(w)' = to,
         \A u \in Workers \ {w} : CallOf(u)' = CallOf(u)
  PROVE  CallMap' = [CallMap EXCEPT ![w] = to]
  BY DEF CallMap

\* Each step of UiLoop is a step of SyncCall or leaves its state alone.
LEMMA NextRefines == IndInv /\ [LoopNext]_loopVars => [SC!SCNext]_(SC!scVars)
<1> SUFFICES ASSUME IndInv, [LoopNext]_loopVars PROVE SC!SCNext \/ UNCHANGED <<CallMap, fexit>>
  BY DEF SC!scVars, CallMap
<1> USE DEF IndInv, LoopTypeOK, OwnerInv, PostedInv, FlagInv, HandledInv, ExitInv, Holding
<1> DEFINE Same == \A u \in Workers : CallOf(u)' = CallOf(u)
           Rest(w) == \A u \in Workers \ {w} : CallOf(u)' = CallOf(u)
<1>0. ASSUME Same, fexit' = fexit PROVE UNCHANGED <<CallMap, fexit>>
  BY <1>0 DEF CallMap
<1> HIDE DEF Same, Rest
<1>1. ASSUME NEW w \in Workers, EnterDoLock(w) PROVE SC!Call(w)
  <2>1. CallOf(w) = "idle" /\ CallOf(w)' = "called" /\ Rest(w) /\ fexit' = fexit
    BY <1>1 DEF EnterDoLock, Goto, CallOf, Rest
  <2> QED
    BY <2>1, OneCallMoves DEF SC!Call, CallMap, Rest
<1>2. ASSUME NEW w \in Workers, LockMutex(w) \/ PostEvent(w) \/ Wake(w) PROVE Same /\ fexit' = fexit
  BY <1>2 DEF LockMutex, PostEvent, Wake, Goto, CallOf, Same
<1>3. ASSUME NEW w \in Workers, UnlockMutex(w) PROVE SC!Return(w) \/ SC!Abandon(w)
  <2>1. CallOf(w)' = "idle" /\ Rest(w) /\ fexit' = fexit
    BY <1>3 DEF UnlockMutex, Goto, CallOf, Rest
  <2>2. \/ CallOf(w) = "served"
        \/ CallOf(w) = "called" /\ fexit
    BY <1>3 DEF UnlockMutex, Goto, CallOf
  <2> QED
    BY <2>1, <2>2, OneCallMoves DEF SC!Return, SC!Abandon, CallMap, Rest
<1>4. ASSUME NEW w \in Workers, Parse(w) PROVE Same /\ fexit' = fexit
  BY <1>4 DEF Parse, BeginParse, EndParse, Goto, CallOf, Same
<1>5. CASE ExitKey
  <2>1. Same /\ fexit' /\ ~fexit
    BY <1>5 DEF ExitKey, CallOf, Same
  <2>2. \A w \in Workers : CallOf(w) # "serving"
    BY <1>5 DEF ExitKey, CallOf
  <2> QED
    BY <2>1, <2>2 DEF SC!SCNext, SC!Close, Same
<1>6. CASE TakeEvent
  <2> PICK w \in Workers : w = posted
    BY <1>6 DEF TakeEvent, MainGoto
  <2>1. /\ ~fexit /\ fexit' = fexit
        /\ CallOf(w) = "called" /\ CallOf(w)' = "serving" /\ Rest(w)
        /\ \A u \in Workers : CallOf(u) # "serving"
    BY <1>6 DEF TakeEvent, MainGoto, CallOf, Rest
  <2>2. SC!Begin(w)
    BY <2>1, OneCallMoves DEF SC!Begin, CallMap, Rest
  <2> QED
    BY <2>1, <2>2 DEF SC!SCNext
<1>7. CASE HandlerReturns
  <2> PICK w \in Workers : w = posted
    BY <1>7 DEF HandlerReturns, MainGoto
  <2>1. /\ fexit' = fexit
        /\ CallOf(w) = "serving" /\ CallOf(w)' = "served" /\ Rest(w)
    BY <1>7 DEF HandlerReturns, MainGoto, CallOf, Rest
  <2>2. SC!End(w)
    BY <2>1, OneCallMoves DEF SC!End, CallMap, Rest
  <2> QED
    BY <2>1, <2>2 DEF SC!SCNext
<1>8. CASE ClearEvent \/ SetDone \/ LeaveLoop \/ FinalSet
  <2>1. Same /\ fexit' = fexit
    BY <1>8 DEF ClearEvent, SetDone, LeaveLoop, FinalSet, MainGoto, CallOf, Same
  <2> QED
    BY <2>1, <1>0
<1>9. CASE UNCHANGED loopVars
  <2>1. Same /\ fexit' = fexit
    BY <1>9 DEF loopVars, CallOf, Same
  <2> QED
    BY <2>1, <1>0
<1>10. ASSUME NEW w \in Workers, DoLock(w) \/ Parse(w)
       PROVE  SC!SCNext \/ UNCHANGED <<CallMap, fexit>>
  BY <1>10, <1>0, <1>1, <1>2, <1>3, <1>4 DEF DoLock, SC!SCNext
<1> QED
  BY <1>5, <1>6, <1>7, <1>8, <1>9, <1>10 DEF LoopNext, Run, Serve

\* DoLock and Run implement the synchronous call, for any set of workers: a
\* handler runs from begin to end once per call, one at a time, and only a
\* closed UI lets a caller go unserved.
THEOREM Refinement == LoopSpec => ImplementsSyncCall
<1>1. LoopInit => SC!SCInit
  BY InitRefines
<1>2. IndInv /\ [LoopNext]_loopVars => [SC!SCNext]_(SC!scVars)
  BY NextRefines
<1> QED
  BY <1>1, <1>2, LoopInvariance, PTL DEF LoopSpec, ImplementsSyncCall, SC!SCSpec

-----------------------------------------------------------------------------
(***************************************************************************)
(* The autostart countdown for any set of ini files, any length of the     *)
(* countdown, any number of waiting timer threads and lost timers.  The    *)
(* invariants are inductive together: a tick tells a running countdown     *)
(* from an ended one by the numbers only, so TimerOwned needs              *)
(* CountdownPositive.                                                      *)
(***************************************************************************)
IInv ==
    /\ TypeOK
    /\ TimerOwned
    /\ CountdownPositive
    /\ ShownIsLoaded

\* The state in parts, since no one backend reasons well about truth values and
\* numbers together: the truth values, the panels and files, the numbers.
FlagsOK ==
    listed \in BOOLEAN /\ timer \in Timers /\ working \in BOOLEAN /\ cancelled \in BOOLEAN

DataOK ==
    /\ view \in visible
    /\ visible \subseteq Views
    /\ lastini \in Inis \cup {NoIni}
    /\ ini \in Inis \cup {NoIni}

NumbersOK ==
    /\ lost \in 0 .. MaxLost
    /\ pending \in 0 .. MaxPending
    /\ remaining \in -MaxOverdue .. Countdown

LEMMA TypeParts ==
    /\ TypeOK <=> FlagsOK /\ DataOK /\ NumbersOK
    /\ TypeOK' <=> FlagsOK' /\ DataOK' /\ NumbersOK'
BY DEF TypeOK, FlagsOK, DataOK, NumbersOK

LEMMA InitIInv == Init => IInv
<1> SUFFICES ASSUME Init
             PROVE  IInv
  OBVIOUS
<1> USE DEF Init
<1>1. FlagsOK
  BY Zenon DEF FlagsOK, Timers
<1>2. DataOK
  BY DEF DataOK, Views
<1>3. NumbersOK
  BY AutoStartAssumption DEF NumbersOK
<1>4. TimerOwned /\ ShownIsLoaded
  BY DEF TimerOwned, ShownIsLoaded
<1>5. CountdownPositive
  BY DEF CountdownPositive
<1> QED BY <1>1, <1>2, <1>3, <1>4, <1>5, TypeParts DEF IInv

\* The hello panel is shown over what was there, with timer and numbers as they
\* were: no countdown comes to the screen, and it is not alone.
LEMMA HelloIInv ==
    ASSUME IInv, NEW H \in SUBSET Views, ShowHello(H),
           UNCHANGED <<lastini, lost, pending, remaining, working>>,
           cancelled' \in BOOLEAN,
           timer' = timer \/ (timer' = "deleted" /\ "countdown" \in H)
    PROVE  IInv'
<1> USE DEF IInv, ShowHello
<1>1. FlagsOK'
  BY TypeParts, Zenon DEF FlagsOK, Timers
<1>2. DataOK'
  BY TypeParts DEF DataOK, Views
<1>3. NumbersOK'
  BY TypeParts DEF NumbersOK
<1>4. TimerOwned' /\ ShownIsLoaded'
  BY DEF TimerOwned, ShownIsLoaded
<1>5. CountdownPositive'
  BY DEF CountdownPositive
<1> QED BY <1>1, <1>2, <1>3, <1>4, <1>5, TypeParts

\* The focus goes to the menu, the rest stays.
LEMMA MainIInv ==
    ASSUME IInv, NEW H \in SUBSET Views, ShowMain(H),
           UNCHANGED <<lastini, loaded, lost, cancelled>>,
           working' \in BOOLEAN, NumbersOK',
           \/ timer' = timer /\ remaining' = remaining
           \/ timer' = "deleted" /\ "countdown" \in H
    PROVE  IInv'
<1> USE DEF IInv, ShowMain, loaded
<1>1. FlagsOK'
  BY TypeParts, Zenon DEF FlagsOK, Timers
<1>2. DataOK'
  BY TypeParts DEF DataOK, Views
<1>3. TimerOwned' /\ ShownIsLoaded'
  BY DEF TimerOwned, ShownIsLoaded
<1>4. CountdownPositive'
  BY DEF CountdownPositive
<1> QED BY <1>1, <1>2, <1>3, <1>4, TypeParts

\* A choice shows the countdown anew, or the hello panel.
LEMMA ChooseIInv ==
    ASSUME IInv, NEW f \in Inis, ChooseTest(f)
    PROVE  IInv'
<1> USE DEF IInv
<1>1. remaining' = Countdown /\ pending' = pending /\ working' = working
      /\ lastini' \in Inis \cup {NoIni}
  BY TypeParts DEF ChooseTest, DataOK
<1>2. CountdownPositive'
  BY ONLY <1>1, AutoStartAssumption DEF CountdownPositive
<1>3. CASE ShowHello({"hello", "countdown"}) /\ UNCHANGED <<timer, lost, cancelled>>
  <2>1. FlagsOK'
    BY <1>1, <1>3, TypeParts, Zenon DEF FlagsOK, Timers, ShowHello
  <2>2. DataOK'
    BY <1>1, <1>3, TypeParts DEF DataOK, ShowHello, Views
  <2>3. NumbersOK'
    BY <1>1, <1>3, TypeParts, AutoStartAssumption DEF NumbersOK
  <2>4. TimerOwned' /\ ShownIsLoaded'
    BY <1>3 DEF TimerOwned, ShownIsLoaded, ShowHello
  <2> QED BY <1>2, <2>1, <2>2, <2>3, <2>4, TypeParts
<1>4. CASE ~(ShowHello({"hello", "countdown"}) /\ UNCHANGED <<timer, lost, cancelled>>)
  <2>1. /\ view' = "countdown"
        /\ visible' = (visible \ {"hello"}) \cup {"countdown"}
        /\ ini' = lastini'
        /\ listed' = TRUE /\ timer' \in {"live", "failed"} /\ cancelled' = FALSE
        /\ lost' = IF timer = "live" THEN lost + 1 ELSE lost
        /\ lost' <= MaxLost
    BY <1>4 DEF ChooseTest, ShowPanel
  <2>2. FlagsOK'
    BY <1>1, <2>1, TypeParts, Zenon DEF FlagsOK, Timers
  <2>3. DataOK'
    BY <1>1, <2>1, TypeParts DEF DataOK, Views
  <2>4. lost' \in 0 .. MaxLost
    <3>1. CASE timer = "live"
      BY <3>1, <2>1, TypeParts, AutoStartAssumption DEF NumbersOK
    <3>2. CASE timer # "live"
      BY <3>2, <2>1, TypeParts, AutoStartAssumption DEF NumbersOK
    <3> QED BY <3>1, <3>2
  <2>5. NumbersOK'
    BY <1>1, <2>4, TypeParts, AutoStartAssumption DEF NumbersOK
  <2>6. TimerOwned' /\ ShownIsLoaded'
    BY <2>1 DEF TimerOwned, ShownIsLoaded
  <2> QED BY <1>2, <2>2, <2>3, <2>5, <2>6, TypeParts
<1> QED BY <1>3, <1>4

\* A tick counts; at zero it stops the timer and starts the test.
LEMMA TickIInv ==
    ASSUME IInv, UpdateTick
    PROVE  IInv'
<1>1. NumbersOK'
  <2>1. NumbersOK
    BY TypeParts DEF IInv
  <2> QED BY <2>1, AutoStartAssumption DEF NumbersOK, UpdateTick
<1>2. CASE remaining - 1 <= 0
  <2>1. /\ timer' = "deleted" /\ ShowMain({"countdown"}) /\ working' = TRUE
        /\ UNCHANGED <<lastini, loaded, lost, cancelled>>
    BY <1>2 DEF UpdateTick, StartTest
  <2> QED BY <1>1, <2>1, MainIInv DEF Views
<1>3. CASE ~(remaining - 1 <= 0)
  <2>1. /\ UNCHANGED <<timer, screen, working, lastini, loaded, lost, cancelled>>
        /\ remaining' = remaining - 1 /\ remaining' > 0
    BY <1>3, <1>1 DEF UpdateTick, NumbersOK
  <2>2. CountdownPositive'
    <3>1. timer # "deleted" => remaining - 1 \in 1 .. Countdown
      BY <1>3, AutoStartAssumption DEF IInv, CountdownPositive
    <3> QED BY <2>1, <3>1 DEF CountdownPositive
  <2>3. FlagsOK'
    BY <2>1, TypeParts, Zenon DEF IInv, FlagsOK, Timers, loaded
  <2>4. DataOK' /\ TimerOwned' /\ ShownIsLoaded'
    BY <2>1, TypeParts DEF IInv, DataOK, TimerOwned, ShownIsLoaded, loaded, screen
  <2> QED BY <1>1, <2>2, <2>3, <2>4, TypeParts DEF IInv
<1> QED BY <1>2, <1>3

\* One step per action.
LEMMA NextIInv == IInv /\ [Next]_vars => IInv'
<1> SUFFICES ASSUME IInv, [Next]_vars
             PROVE  IInv'
  OBVIOUS
<1>0. FlagsOK /\ DataOK /\ NumbersOK
  BY TypeParts DEF IInv
<1>1. ASSUME NEW f \in Inis, ChooseTest(f)
      PROVE  IInv'
  BY <1>1, ChooseIInv
<1>2. CASE Expire
  <2>1. pending' \in 0 .. MaxPending
    BY <1>0, <1>2, AutoStartAssumption DEF Expire, NumbersOK
  <2>2. UNCHANGED <<screen, lastini, loaded, timer, lost, remaining, working, cancelled>>
    BY <1>2 DEF Expire
  <2> QED BY <2>1, <2>2
      DEF IInv, TypeOK, TimerOwned, CountdownPositive, ShownIsLoaded, screen, loaded
<1>3. CASE UpdateTick
  BY <1>3, TickIInv
<1>4. CASE EnterKey
  <2>1. NumbersOK'
    BY <1>0, <1>4 DEF EnterKey, NumbersOK
  <2> QED BY <1>4, <2>1, MainIInv DEF EnterKey, StartTest, Views
<1>5. CASE OtherKey
  BY <1>5, HelloIInv DEF OtherKey, Views
<1>6. CASE EscapeMainMenu
  <2>1. cancelled' \in BOOLEAN
    BY <1>0, <1>6, Zenon DEF EscapeMainMenu, FlagsOK
  <2> QED BY <1>6, <2>1, HelloIInv DEF EscapeMainMenu
<1>7. CASE TabKey
  BY <1>7 DEF TabKey, IInv, TypeOK, TimerOwned, CountdownPositive, ShownIsLoaded, loaded
<1>8. CASE StartButton
  BY <1>8 DEF StartButton, IInv, TypeOK, TimerOwned, CountdownPositive, ShownIsLoaded,
              screen, loaded
<1>9. CASE RunUpdate
  <2>1. CASE ShowMain({})
    <3>1. NumbersOK'
      BY <1>0, <1>9 DEF RunUpdate, NumbersOK
    <3> QED BY <1>9, <2>1, <3>1, MainIInv DEF RunUpdate
  <2>2. CASE UNCHANGED screen
    BY <1>9, <2>2 DEF RunUpdate, IInv, TypeOK, TimerOwned, CountdownPositive,
                      ShownIsLoaded, screen, loaded
  <2> QED BY <1>9, <2>1, <2>2 DEF RunUpdate
<1>10. CASE UNCHANGED vars
  BY <1>10 DEF vars, IInv, TypeOK, TimerOwned, CountdownPositive, ShownIsLoaded,
               screen, loaded
<1> QED BY <1>1, <1>2, <1>3, <1>4, <1>5, <1>6, <1>7, <1>8, <1>9, <1>10 DEF Next

THEOREM Invariance == Spec => []IInv
<1> QED BY InitIInv, NextIInv, PTL DEF Spec

\* The countdown keeps its types.
THEOREM TypeCorrect == Spec => []TypeOK
<1>1. IInv => TypeOK  BY DEF IInv
<1> QED BY <1>1, Invariance, PTL

\* No countdown is stopped on the screen, whether or not its timer has started.
THEOREM TimerSafe == Spec => []TimerOwned
<1>1. IInv => TimerOwned  BY DEF IInv
<1> QED BY <1>1, Invariance, PTL

\* A running countdown has time left, whatever late ticks have counted.
THEOREM CountdownSafe == Spec => []CountdownPositive
<1>1. IInv => CountdownPositive  BY DEF IInv
<1> QED BY <1>1, Invariance, PTL

\* A countdown alone on the screen shows the test that is loaded.
THEOREM LoadedSafe == Spec => []ShownIsLoaded
<1>1. IInv => ShownIsLoaded  BY DEF IInv
<1> QED BY <1>1, Invariance, PTL
=============================================================================
