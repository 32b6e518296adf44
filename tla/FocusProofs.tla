---------------------------- MODULE FocusProofs ----------------------------
(***************************************************************************)
(* Proofs about Focus, for either setting of Main/block and any first      *)
(* panel.  They are about what the operations of TUI do to one screen, so  *)
(* each operation has a lemma; the first of them is about the list of the  *)
(* panels before, from which setfocus removes a panel in the middle.       *)
(***************************************************************************)
EXTENDS Focus, FiniteSetTheorems, TLAPS

-----------------------------------------------------------------------------
(* The list of the panels before. *)

Distinct(list) == \A i, j \in DOMAIN list : i # j => list[i] # list[j]

\* Counting the kept places up to each of them numbers them from 1 on.
LEMMA NthKept ==
    ASSUME NEW n \in Nat, NEW kept \in SUBSET (1 .. n)
    PROVE  /\ Cardinality(kept) \in Nat
           /\ \A k \in 1 .. Cardinality(kept) :
                 \E i \in kept : Cardinality({j \in kept : j <= i}) = k
<1> DEFINE m == Cardinality(kept)
           upto(i) == {j \in kept : j <= i}
           f == [i \in kept |-> Cardinality(upto(i))]
<1>1. IsFiniteSet(kept) /\ m \in Nat
  <2>1. IsFiniteSet(1 .. n)
    BY FS_Interval
  <2>2. IsFiniteSet(kept)
    BY <2>1, FS_Subset
  <2> QED BY <2>2, FS_CardinalityType
<1>2. ASSUME NEW i \in kept
      PROVE  IsFiniteSet(upto(i)) /\ Cardinality(upto(i)) \in 1 .. m
  <2>1. IsFiniteSet(upto(i)) /\ Cardinality(upto(i)) <= m
    BY <1>1, FS_Subset
  <2>2. Cardinality(upto(i)) \in Nat /\ upto(i) # {}
    <3>1. i \in upto(i)
      OBVIOUS
    <3> QED BY <2>1, <3>1, FS_CardinalityType
  <2>3. Cardinality(upto(i)) # 0
    BY <2>1, <2>2, FS_EmptySet
  <2> HIDE DEF upto, m
  <2> QED BY <1>1, <2>1, <2>2, <2>3
<1>3. ASSUME NEW i \in kept, NEW j \in kept, i < j PROVE f[i] # f[j]
  <2>1. upto(i) \in SUBSET upto(j) /\ j \in upto(j) /\ j \notin upto(i)
    <3>1. i \in Nat /\ j \in Nat /\ \A k \in kept : k \in Nat
      OBVIOUS
    <3>2. j <= j /\ ~(j <= i) /\ \A k \in kept : k <= i => k <= j
      BY <1>3, <3>1
    <3>3. \A k : k \in upto(i) => k \in upto(j)
      BY <3>2
    <3>4. j \in upto(j) /\ j \notin upto(i)
      BY <3>2
    <3> HIDE DEF upto
    <3> QED BY <3>3, <3>4
  <2>2. IsFiniteSet(upto(j))
    BY <1>2
  <2> HIDE DEF upto
  <2>3. Cardinality(upto(i)) # Cardinality(upto(j))
    BY <2>1, <2>2, FS_Subset
  <2> QED BY <2>3
<1>4. f \in [kept -> 1 .. m]
  <2> HIDE DEF upto, m
  <2> QED BY <1>2
<1>5. ASSUME NEW i \in kept, NEW j \in kept, f[i] = f[j] PROVE i = j
  <2>1. i < j \/ j < i \/ i = j
    OBVIOUS
  <2> HIDE DEF f
  <2> QED BY <1>3, <1>5, <2>1
<1>6. \A i \in kept : f[i] = Cardinality(upto(i))
  OBVIOUS
<1> HIDE DEF f
<1>7. f \in Injection(kept, 1 .. m)
  BY <1>4, <1>5 DEF Injection, IsInjective
<1>8. IsFiniteSet(1 .. m) /\ Cardinality(1 .. m) = m
  BY <1>1, FS_Interval DEF m
<1>9. f \in Surjection(kept, 1 .. m)
  BY <1>7, <1>8, FS_Injection
<1>10. \A k \in 1 .. m : \E i \in kept : f[i] = k
  BY <1>9 DEF Surjection
<1> QED BY <1>1, <1>6, <1>10

LEMMA WithoutFacts ==
    ASSUME NEW S, NEW list \in Seq(S), NEW p
    PROVE  /\ Without(list, p) \in Seq(S)
           /\ \A k \in DOMAIN Without(list, p) :
                /\ Without(list, p)[k] # p
                /\ \E i \in DOMAIN list : Without(list, p)[k] = list[i]
           /\ Distinct(list) => Distinct(Without(list, p))
<1> DEFINE kept == {i \in DOMAIN list : list[i] # p}
           nth(k) == CHOOSE i \in kept : Cardinality({j \in kept : j <= i}) = k
           m == Cardinality(kept)
           rest == [k \in 1 .. m |-> list[nth(k)]]
<1>1. Len(list) \in Nat /\ kept \in SUBSET (1 .. Len(list))
  OBVIOUS
<1>2. m \in Nat /\ \A k \in 1 .. m : nth(k) \in kept /\ Cardinality({j \in kept : j <= nth(k)}) = k
  <2> HIDE DEF kept
  <2>1. PICK n \in Nat : n = Len(list)
    BY <1>1
  <2>2. kept \in SUBSET (1 .. n)
    BY <1>1, <2>1
  <2>3. /\ Cardinality(kept) \in Nat
        /\ \A k \in 1 .. Cardinality(kept) :
              \E i \in kept : Cardinality({j \in kept : j <= i}) = k
    BY <2>2, NthKept
  <2> QED BY <2>3
<1>3. Without(list, p) = rest
  BY DEF Without
<1>4. \A k \in 1 .. m : nth(k) \in DOMAIN list /\ list[nth(k)] # p
  <2> HIDE DEF nth, m
  <2> QED BY <1>2
<1>5. \A k, l \in 1 .. m : k # l => nth(k) # nth(l)
  <2> HIDE DEF nth, m, kept
  <2> QED BY <1>2
<1> HIDE DEF nth, m, kept
<1>6. rest \in Seq(S) /\ DOMAIN rest = 1 .. m
  BY <1>2, <1>4
<1>7. Distinct(list) => Distinct(rest)
  BY <1>4, <1>5 DEF Distinct
<1> QED BY <1>3, <1>4, <1>6, <1>7

\* A list without repetitions has as many members as places.
LEMMA DistinctCounted ==
    ASSUME NEW S, NEW list \in Seq(S), Distinct(list)
    PROVE  Cardinality(ToSet(list)) = Len(list)
<1>1. PICK n \in Nat : n = Len(list) /\ DOMAIN list = 1 .. n
  OBVIOUS
<1> DEFINE f == [i \in 1 .. n |-> list[i]]
<1>2. /\ f \in [1 .. n -> ToSet(list)]
      /\ \A i \in 1 .. n : f[i] = list[i]
      /\ \A e \in ToSet(list) : \E i \in 1 .. n : f[i] = e
  BY <1>1 DEF ToSet
<1>3. \A i, j \in 1 .. n : f[i] = f[j] => i = j
  BY <1>1, <1>2 DEF Distinct
<1> HIDE DEF f
<1>4. f \in Bijection(1 .. n, ToSet(list))
  BY <1>2, <1>3 DEF Bijection, Injection, Surjection, IsInjective
<1>5. Cardinality(ToSet(list)) = n
  BY <1>4, FS_CountingElements DEF ExistsBijection
<1> QED BY <1>1, <1>5

-----------------------------------------------------------------------------
(* The operations of TUI and of the panels. *)

\* A screen remembers each panel once, and not the focused one.
IsScreen(s) ==
    /\ s \in [focus : PanelNames, prev : Seq(PanelNames),
              visible : SUBSET PanelNames, tablock : BOOLEAN]
    /\ Distinct(s.prev)
    /\ \A i \in DOMAIN s.prev : s.prev[i] # s.focus

\* TAB is locked by a dialog only, b being Main/block.
Covered(s, b) == b => (s.tablock => "dialog" \in s.visible)

\* A screen in the middle of a handler, and one at the end of it.
Half(s, b) == IsScreen(s) /\ Covered(s, b)

Good(s, b) == Half(s, b) /\ (s.focus # "dialog" => s.focus \in s.visible)

\* What is left of the list without p, and then the panel f that had the focus.
LEMMA Remembered ==
    ASSUME NEW list \in Seq(PanelNames), Distinct(list), NEW p, NEW f \in PanelNames, p # f,
           \A i \in DOMAIN list : list[i] # f
    PROVE  LET new == Append(Without(list, p), f) IN
           new \in Seq(PanelNames) /\ Distinct(new) /\ \A i \in DOMAIN new : new[i] # p
<1>1. PICK rest \in Seq(PanelNames) : rest = Without(list, p)
  BY WithoutFacts
<1>2. /\ Distinct(rest)
      /\ \A k \in DOMAIN rest : rest[k] # p /\ \E i \in DOMAIN list : rest[k] = list[i]
  BY <1>1, WithoutFacts
<1>3. \A k \in DOMAIN rest : rest[k] # f
  BY <1>2
<1>4. PICK new : new = Append(rest, f)
  OBVIOUS
<1>5. /\ new \in Seq(PanelNames) /\ DOMAIN new = 1 .. Len(rest) + 1 /\ Len(rest) \in Nat
      /\ DOMAIN rest = 1 .. Len(rest) /\ \A k \in DOMAIN rest : new[k] = rest[k]
      /\ new[Len(rest) + 1] = f
  BY <1>4
<1>6. \A k \in DOMAIN new : k \in DOMAIN rest \/ k = Len(rest) + 1
  BY <1>5
<1>7. Distinct(new)
  BY <1>2, <1>3, <1>5, <1>6 DEF Distinct
<1>8. \A i \in DOMAIN new : new[i] # p
  BY <1>2, <1>5, <1>6
<1> QED BY <1>1, <1>4, <1>5, <1>7, <1>8

\* The list without its last panel, which gets the focus.
LEMMA Recalled ==
    ASSUME NEW list \in Seq(PanelNames), Distinct(list), list # <<>>
    PROVE  /\ Last(list) \in PanelNames /\ Front(list) \in Seq(PanelNames)
           /\ Distinct(Front(list)) /\ \A i \in DOMAIN Front(list) : Front(list)[i] # Last(list)
<1>1. Len(list) \in Nat /\ Len(list) > 0 /\ DOMAIN list = 1 .. Len(list)
  OBVIOUS
<1>0. PICK new : new = Front(list)
  OBVIOUS
<1>2. PICK n \in Nat : n = Len(list)
  BY <1>1
<1>3. n > 0 /\ DOMAIN list = 1 .. n
  BY <1>1, <1>2
<1>4. /\ new \in Seq(PanelNames) /\ DOMAIN new = 1 .. n - 1
      /\ \A k \in 1 .. n - 1 : new[k] = list[k]
  <2>1. new = [k \in 1 .. n - 1 |-> list[k]]
    BY <1>0, <1>2, <1>3 DEF Front
  <2>2. n - 1 \in Nat /\ \A k \in 1 .. n - 1 : list[k] \in PanelNames
    BY <1>3
  <2>3. [k \in 1 .. n - 1 |-> list[k]] \in Seq(PanelNames)
    BY <2>2
  <2> QED BY <2>1, <2>3
<1>5. Last(list) = list[n] /\ Last(list) \in PanelNames
  BY <1>2, <1>3 DEF Last
<1>6. \A k \in 1 .. n - 1 : k \in DOMAIN list /\ k # n
  BY <1>3
<1>7. n \in DOMAIN list
  BY <1>3
<1>8. Distinct(new) /\ \A i \in DOMAIN new : new[i] # Last(list)
  <2> SUFFICES ASSUME NEW i \in 1 .. n - 1
               PROVE  new[i] # list[n] /\ \A j \in 1 .. n - 1 : i # j => new[i] # new[j]
    BY <1>4, <1>5 DEF Distinct
  <2> QED BY <1>4, <1>6, <1>7 DEF Distinct
<1> QED BY <1>0, <1>4, <1>5, <1>8

LEMMA SetFocus ==
    ASSUME NEW s, NEW b, NEW p \in PanelNames, IsScreen(s), Covered(s, b) \/ p = "dialog"
    PROVE  Good(setfocus(s, p), b)
<1>1. PICK visible \in SUBSET PanelNames : visible = s.visible \cup {p}
  BY DEF IsScreen
<1>2. CASE s.focus = p
  <2>1. setfocus(s, p) = [s EXCEPT !.visible = visible]
    BY <1>1, <1>2 DEF setfocus, IsScreen
  <2>2. PICK u : u = [s EXCEPT !.visible = visible]
    OBVIOUS
  <2>3. /\ IsScreen(u) /\ u.focus = p /\ u.visible = visible /\ u.tablock = s.tablock
    BY <1>2, <2>2 DEF IsScreen
  <2> QED BY <1>1, <2>1, <2>2, <2>3 DEF Good, Half, Covered
<1>3. CASE s.focus # p
  <2>1. PICK prev \in Seq(PanelNames) :
           /\ prev = Append(Without(s.prev, p), s.focus)
           /\ Distinct(prev) /\ \A i \in DOMAIN prev : prev[i] # p
    BY <1>3, Remembered DEF IsScreen
  <2>2. setfocus(s, p) = [s EXCEPT !.focus = p, !.prev = prev, !.visible = visible]
    BY <1>1, <1>3, <2>1 DEF setfocus, IsScreen
  <2>3. PICK u : u = [s EXCEPT !.focus = p, !.prev = prev, !.visible = visible]
    OBVIOUS
  <2>4. /\ IsScreen(u) /\ u.focus = p /\ u.visible = visible /\ u.tablock = s.tablock
    BY <2>1, <2>3 DEF IsScreen
  <2> QED BY <1>1, <2>2, <2>3, <2>4 DEF Good, Half, Covered
<1> QED BY <1>2, <1>3

\* setfocusprev shows the panel it takes from the list.
LEMMA BelowHalf ==
    ASSUME NEW s, NEW b, Half(s, b)
    PROVE  /\ Half(setfocusprev(s), b)
           /\ s.prev # <<>> => Good(setfocusprev(s), b)
           /\ s.prev = <<>> => setfocusprev(s) = s
<1>1. CASE s.prev = <<>>
  BY <1>1 DEF setfocusprev
<1>2. CASE s.prev # <<>>
  <2>1. PICK p \in PanelNames, prev \in Seq(PanelNames) :
           /\ p = Last(s.prev) /\ prev = Front(s.prev)
           /\ Distinct(prev) /\ \A i \in DOMAIN prev : prev[i] # p
    BY <1>2, Recalled DEF Half, IsScreen
  <2>2. PICK visible \in SUBSET PanelNames : visible = s.visible \cup {p}
    BY DEF Half, IsScreen
  <2>3. setfocusprev(s) = [s EXCEPT !.focus = p, !.prev = prev, !.visible = visible]
    BY <1>2, <2>1, <2>2 DEF setfocusprev, Half, IsScreen
  <2>4. PICK u : u = [s EXCEPT !.focus = p, !.prev = prev, !.visible = visible]
    OBVIOUS
  <2>5. /\ IsScreen(u) /\ u.focus = p /\ u.visible = visible /\ u.tablock = s.tablock
    BY <2>1, <2>4 DEF Half, IsScreen
  <2> QED BY <1>2, <2>2, <2>3, <2>4, <2>5 DEF Good, Half, Covered
<1> QED BY <1>1, <1>2

LEMMA SetFocusPrev ==
    ASSUME NEW s, NEW b, Good(s, b)
    PROVE  Good(setfocusprev(s), b)
BY BelowHalf DEF Good

LEMMA HideFacts ==
    ASSUME NEW s, NEW P, IsScreen(s)
    PROVE  LET h == hide(s, P)
           IN  IsScreen(h) /\ h.focus = s.focus /\ h.visible = s.visible \ P /\ h.tablock = s.tablock
<1>1. PICK visible \in SUBSET PanelNames : visible = s.visible \ P
  BY DEF IsScreen
<1>2. PICK h : h = [s EXCEPT !.visible = visible]
  OBVIOUS
<1>3. hide(s, P) = h
  BY <1>1, <1>2 DEF hide, IsScreen
<1>4. IsScreen(h) /\ h.focus = s.focus /\ h.visible = visible /\ h.tablock = s.tablock
  BY <1>2 DEF IsScreen
<1> QED BY <1>1, <1>3, <1>4

LEMMA HideHalf ==
    ASSUME NEW s, NEW b, NEW P, Half(s, b), "dialog" \notin P
    PROVE  Half(hide(s, P), b)
BY HideFacts DEF Covered, Half

LEMMA TabLock ==
    ASSUME NEW s, NEW lock \in BOOLEAN, IsScreen(s)
    PROVE  LET u == tablock(s, lock)
           IN  IsScreen(u) /\ u.focus = s.focus /\ u.visible = s.visible /\ u.tablock = lock
BY DEF IsScreen, tablock

LEMMA SyncShowGood ==
    ASSUME NEW s, NEW b, Half(s, b)
    PROVE  Good(SyncShow(s), b)
<1>1. PICK u : u = tablock(s, TRUE)
  OBVIOUS
<1>2. IsScreen(u)
  BY <1>1, TabLock DEF Half
<1>3. Good(setfocus(u, "dialog"), b)
  BY <1>2, SetFocus DEF PanelNames
<1> QED BY <1>1, <1>3 DEF SyncShow

LEMMA SyncHideGood ==
    ASSUME NEW s, NEW b, Good(s, b)
    PROVE  Good(SyncHide(s), b)
<1> DEFINE h == hide(s, {"dialog"})
           u == tablock(h, FALSE)
<1>1. IsScreen(h) /\ h.focus = s.focus /\ h.visible = s.visible \ {"dialog"}
  BY DEF IsScreen, Half, Good, hide
<1>2. IsScreen(u) /\ u.focus = h.focus /\ u.visible = h.visible /\ u.tablock = FALSE
  <2> HIDE DEF h
  <2> QED BY <1>1, TabLock
<1>3. Good(u, b)
  <2> HIDE DEF h, u
  <2> QED BY <1>1, <1>2 DEF Covered, Half, Good
<1> QED BY <1>3, SetFocusPrev DEF SyncHide

LEMMA ShowMenuGood ==
    ASSUME NEW s, NEW b, Half(s, b)
    PROVE  Good(ShowMenu(s), b)
BY SetFocus DEF Half, ShowMenu, PanelNames

LEMMA ShowMainLayoutGood ==
    ASSUME NEW s, NEW b, Half(s, b)
    PROVE  Good(ShowMainLayout(s), b)
<1>1. ASSUME NEW m, Good(m, b) PROVE Good([m EXCEPT !.visible = @ \cup {"log"}], b)
  <2>1. PICK visible \in SUBSET PanelNames : visible = m.visible \cup {"log"}
    BY <1>1 DEF IsScreen, Half, Good, PanelNames
  <2>2. PICK u : u = [m EXCEPT !.visible = visible]
    OBVIOUS
  <2>3. [m EXCEPT !.visible = @ \cup {"log"}] = u
    BY <1>1, <2>1, <2>2 DEF IsScreen, Half, Good
  <2>4. /\ IsScreen(u) /\ u.focus = m.focus /\ u.visible = visible
        /\ u.tablock = m.tablock
    BY <1>1, <2>2 DEF IsScreen, Half, Good
  <2>5. Good(u, b)
    BY <1>1, <2>1, <2>4 DEF Good, Half, Covered
  <2> QED BY <2>3, <2>5
<1> QED BY <1>1, ShowMenuGood DEF ShowMainLayout

LEMMA HelloShowGood ==
    ASSUME NEW s, NEW b, Half(s, b)
    PROVE  Good(HelloShow(s), b)
<1>1. PICK h : h = hide(s, {"edit", "menu", "log"})
  OBVIOUS
<1>2. Half(h, b)
  BY <1>1, HideHalf
<1>3. Good(setfocus(h, "hello"), b)
  BY <1>2, SetFocus DEF Half, PanelNames
<1> QED BY <1>1, <1>3 DEF HelloShow

-----------------------------------------------------------------------------
(* What the handlers make of the screen. *)

IInv == Good(scr, block)

\* What a handler leaves.
Left == Good(scr', block)

LEMMA ScreenLeft ==
    ASSUME NEW s, Good(s, block), Screen(s)
    PROVE  Left
BY DEF Screen, Left

LEMMA ShowMessageLeft ==
    ASSUME NEW s, NEW k, Half(s, block), ShowMessage(s, k)
    PROVE  Left
BY SyncShowGood DEF ShowMessage, Left

LEMMA UpdateLeft ==
    ASSUME NEW s, Good(s, block), Update(s)
    PROVE  Left
BY ShowMenuGood, ScreenLeft, ShowMessageLeft DEF Update, Good

LEMMA StartTestLeft ==
    ASSUME NEW s, Good(s, block), StartTest(s)
    PROVE  Left
BY ScreenLeft, UpdateLeft DEF StartTest

LEMMA HandleEscapeLeft ==
    ASSUME NEW s, Good(s, block), HandleEscape(s)
    PROVE  Left
BY HelloShowGood, ShowMenuGood DEF HandleEscape, Left, Good

LEMMA ClosePanelLeft ==
    ASSUME NEW s, Good(s, block), ClosePanel(s)
    PROVE  Left
<1> DEFINE h == hide(s, {"edit"})
           u == tablock(h, FALSE)
           below == setfocusprev(u)
<1>1. IsScreen(u) /\ Covered(u, block)
  <2>1. IsScreen(h)
    BY HideHalf DEF Half, Good
  <2> HIDE DEF h
  <2>2. IsScreen(u) /\ u.tablock = FALSE
    BY <2>1, TabLock
  <2> HIDE DEF u
  <2> QED BY <2>2 DEF Covered
<1>2. Half(below, block)
  <2> HIDE DEF h, u
  <2> QED BY <1>1, BelowHalf DEF Half
<1>3. Good(HelloShow(below), block) /\ Good(ShowMainLayout(below), block)
  BY <1>2, HelloShowGood, ShowMainLayoutGood
<1> QED BY <1>3, ScreenLeft DEF ClosePanel

LEMMA CountdownOverLeft == IInv /\ CountdownOver => Left
BY HideHalf, ShowMainLayoutGood, StartTestLeft DEF IInv, Good, CountdownOver

-----------------------------------------------------------------------------
(* The values of the other variables. *)

RunsTyped == epc \in {"idle", "test", "show", "hide", "update"}

RestTyped ==
    /\ block \in BOOLEAN /\ fexit \in BOOLEAN
    /\ shown \in Dialogs
    /\ onExit \in {"menu", "hello"}
    /\ timer \in {"off", "on", "late"}

LEMMA DialogNames == Dialogs = {"exit", "ok", "test", "save", "close", "flash", "flashed"}
BY DEF Dialogs, Answers

LEMMA RestInit == Init => RestTyped /\ RunsTyped
BY FocusAssumption, DialogNames DEF Init, RestTyped, RunsTyped

LEMMA RunsStep == ASSUME RunsTyped, Key \/ Event PROVE RunsTyped'
<1>1. ASSUME NEW s, Update(s) PROVE RunsTyped'
  BY <1>1 DEF Update, RunsTyped
<1>2. ASSUME NEW s, StartTest(s) PROVE RunsTyped'
  BY <1>1, <1>2 DEF StartTest, RunsTyped
<1>3. ASSUME CountdownOver PROVE RunsTyped'
  BY <1>2, <1>3 DEF CountdownOver
<1>4. ASSUME UNCHANGED epc PROVE RunsTyped'
  BY <1>4 DEF RunsTyped
<1>5. CASE Key
  <2>1. EnterKey => CountdownOver
    BY DEF EnterKey
  <2>2. StartButton => StartTest(scr)
    BY DEF StartButton
  <2>3. \/ UNCHANGED epc \/ EnterKey \/ StartButton
    BY <1>5 DEF Key, DialogButton, DialogEscape, HaltKey, ExitKey, TabKey, ApplyKey, ChooseTest,
                OtherKey, MenuEscape, EditKey, SaveKey, EditEscape
  <2> QED BY <1>2, <1>3, <1>4, <2>1, <2>2, <2>3
<1>6. CASE Event
  <2>1. UpdateTick => UNCHANGED epc \/ CountdownOver
    BY DEF UpdateTick
  <2>2. Post \/ ServeShow \/ ServeHide => RunsTyped'
    BY DEF Post, ServeShow, ServeHide, RunsTyped
  <2>3. ServeUpdate => Update(scr)
    BY DEF ServeUpdate
  <2> QED BY <1>1, <1>3, <1>4, <1>6, <2>1, <2>2, <2>3 DEF Event
<1> QED BY <1>5, <1>6

\* The dialog on the screen is one of those of which the answers are known.
ShownTyped == shown \in Dialogs

LEMMA ShownStep == ASSUME ShownTyped, Key \/ Event PROVE ShownTyped'
<1>0. ASSUME UNCHANGED shown PROVE ShownTyped'
  BY <1>0 DEF ShownTyped
<1>1. ASSUME NEW s, NEW k \in Dialogs, ShowMessage(s, k) PROVE ShownTyped'
  BY <1>1 DEF ShowMessage, ShownTyped
<1>2. ASSUME NEW s, Screen(s) PROVE ShownTyped'
  BY <1>0, <1>2 DEF Screen
<1>3. {"exit", "ok", "test", "save", "close", "flash", "flashed"} \subseteq Dialogs
  BY DialogNames
<1>4. ASSUME NEW s, Update(s) PROVE ShownTyped'
  BY <1>1, <1>2, <1>3, <1>4 DEF Update
<1>5. ASSUME NEW s, StartTest(s) PROVE ShownTyped'
  BY <1>2, <1>4, <1>5 DEF StartTest
<1>6. ASSUME CountdownOver PROVE ShownTyped'
  BY <1>5, <1>6 DEF CountdownOver
<1>7. ASSUME NEW s, ClosePanel(s) PROVE ShownTyped'
  BY <1>2, <1>7 DEF ClosePanel
<1>8. ASSUME NEW answer, DialogButton(answer) PROVE ShownTyped'
  <2>1. PICK c : \/ ButtonOk(c) \/ ButtonExit(c, answer) \/ ButtonSave(c, answer)
                 \/ ButtonClose(c, answer) \/ ButtonFirmware(c, answer)
    BY <1>8 DEF DialogButton
  <2>2. ButtonOk(c) \/ ButtonExit(c, answer) => Screen(c)
    BY DEF ButtonOk, ButtonExit
  <2>3. ButtonSave(c, answer) => Screen(c) \/ ShowMessage(c, "ok")
    BY DEF ButtonSave
  <2>4. ButtonClose(c, answer) => ClosePanel(c) \/ ShowMessage(c, "ok") \/ Screen(c)
    BY DEF ButtonClose
  <2>5. ButtonFirmware(c, answer) => ShownTyped'
    BY <1>1, <1>2, <1>3 DEF ButtonFirmware
  <2> QED BY <1>1, <1>2, <1>3, <1>7, <2>1, <2>2, <2>3, <2>4, <2>5
<1>9. CASE Key
  <2>1. HaltKey \/ ExitKey \/ SaveKey \/ EditEscape => ShownTyped'
    BY <1>1, <1>3, <1>7 DEF HaltKey, ExitKey, SaveKey, EditEscape
  <2>2. ApplyKey \/ EditKey => ShownTyped'
    BY <1>1, <1>2, <1>3 DEF ApplyKey, EditKey, ShowFile
  <2>3. TabKey \/ ChooseTest \/ OtherKey => ShownTyped'
    BY <1>2 DEF TabKey, ChooseTest, OtherKey
  <2>4. EnterKey \/ StartButton => ShownTyped'
    BY <1>5, <1>6 DEF EnterKey, StartButton
  <2>5. DialogEscape \/ MenuEscape => ShownTyped'
    BY <1>0 DEF DialogEscape, MenuEscape
  <2> QED BY <1>8, <1>9, <2>1, <2>2, <2>3, <2>4, <2>5 DEF Key
<1>10. CASE Event
  <2>1. UpdateTick => UNCHANGED shown \/ CountdownOver
    BY DEF UpdateTick
  <2>2. Post => UNCHANGED shown
    BY DEF Post
  <2>3. ServeShow \/ ServeHide \/ ServeUpdate => ShownTyped'
    BY <1>1, <1>2, <1>3, <1>4 DEF ServeShow, ServeHide, ServeUpdate
  <2> QED BY <1>0, <1>6, <1>10, <2>1, <2>2, <2>3 DEF Event
<1> QED BY <1>9, <1>10

LEMMA RestStep == ASSUME RestTyped, Key \/ Event, UNCHANGED block PROVE RestTyped'
<1> DEFINE Flag == fexit \in BOOLEAN
           Callback == onExit \in {"menu", "hello"}
           Timer == timer \in {"off", "on", "late"}
<1>1. ShownTyped'
  BY ShownStep DEF RestTyped, ShownTyped
<1>2. CASE Key
  <2>1. Flag'
    <3>1. ASSUME NEW answer, DialogButton(answer) PROVE Flag'
      <4>1. PICK c : \/ ButtonOk(c) \/ ButtonExit(c, answer) \/ ButtonSave(c, answer)
                     \/ ButtonClose(c, answer) \/ ButtonFirmware(c, answer)
        BY <3>1 DEF DialogButton
      <4> QED BY <4>1 DEF ButtonOk, ButtonExit, ButtonSave, ButtonClose, ButtonFirmware, RestTyped
    <3>2. UNCHANGED fexit \/ \E answer : DialogButton(answer)
      BY <1>2 DEF Key, DialogEscape, HaltKey, ExitKey, TabKey, ApplyKey, ChooseTest, EnterKey,
                  CountdownOver, OtherKey, StartButton, MenuEscape, EditKey, SaveKey, EditEscape
    <3> QED BY <3>1, <3>2 DEF RestTyped
  <2>2. Callback'
    <3>1. UNCHANGED onExit \/ EditKey
      BY <1>2 DEF Key, DialogButton, DialogEscape, HaltKey, ExitKey, TabKey, ApplyKey, ChooseTest,
                  EnterKey, CountdownOver, OtherKey, StartButton, MenuEscape, SaveKey, EditEscape
    <3>2. EditKey => Callback'
      BY DEF EditKey, ShowFile
    <3> QED BY <3>1, <3>2 DEF RestTyped
  <2>3. Timer'
    <3>1. UNCHANGED timer \/ StopTimer \/ timer' = "on"
      BY <1>2 DEF Key, DialogButton, DialogEscape, HaltKey, ExitKey, TabKey, ApplyKey, ChooseTest,
                  EnterKey, OtherKey, StartButton, MenuEscape, EditKey, SaveKey, EditEscape
    <3> QED BY <3>1 DEF StopTimer, RestTyped
  <2> QED BY <1>1, <2>1, <2>2, <2>3 DEF RestTyped, ShownTyped
<1>3. CASE Event
  <2>1. UNCHANGED <<fexit, onExit>>
    BY <1>3 DEF Event, UpdateTick, CountdownOver, Post, ServeShow, ServeHide, ServeUpdate
  <2>2. Timer'
    BY <1>3 DEF Event, UpdateTick, Post, ServeShow, ServeHide, ServeUpdate, RestTyped
  <2> QED BY <1>1, <2>1, <2>2 DEF RestTyped, ShownTyped
<1> QED BY <1>2, <1>3

-----------------------------------------------------------------------------
(* The steps. *)

LEMMA DialogButtonLeft == ASSUME IInv, NEW answer, DialogButton(answer) PROVE Left
<1> DEFINE closed == SyncHide(scr)
<1>1. Good(closed, block)
  BY SyncHideGood DEF IInv
<1>2. Half(closed, block)
  BY <1>1 DEF Good
<1>3. Good(HelloShow(hide(closed, {"program"})), block)
  BY <1>2, HideHalf, HelloShowGood
<1>4. \/ ButtonOk(closed) \/ ButtonExit(closed, answer)
      \/ ButtonSave(closed, answer) \/ ButtonClose(closed, answer)
      \/ ButtonFirmware(closed, answer)
  BY DEF DialogButton
<1> HIDE DEF closed
<1>5. CASE ButtonOk(closed) \/ ButtonExit(closed, answer)
  BY <1>1, <1>5, ScreenLeft DEF ButtonOk, ButtonExit
<1>6. CASE ButtonSave(closed, answer) \/ ButtonClose(closed, answer)
  BY <1>1, <1>2, <1>6, ScreenLeft, ShowMessageLeft, ClosePanelLeft DEF ButtonSave, ButtonClose
<1>7. CASE ButtonFirmware(closed, answer)
  BY <1>1, <1>2, <1>3, <1>7, ScreenLeft, ShowMessageLeft DEF ButtonFirmware
<1> QED BY <1>4, <1>5, <1>6, <1>7

LEMMA KeyLeft == ASSUME IInv, Key PROVE Left
<1>0. Good(scr, block) /\ Half(scr, block)
  BY DEF IInv, Good
<1>1. ASSUME NEW answer, DialogButton(answer) PROVE Left
  BY <1>1, DialogButtonLeft
<1>2. CASE DialogEscape
  <2>1. Good(SyncHide(scr), block)
    BY <1>0, SyncHideGood
  <2> QED BY <1>2, <2>1, HandleEscapeLeft DEF DialogEscape, Left
<1>3. CASE HaltKey \/ ExitKey \/ ApplyKey \/ SaveKey
  BY <1>0, <1>3, ShowMessageLeft DEF HaltKey, ExitKey, ApplyKey, SaveKey
<1>4. CASE TabKey
  <2>1. PICK p \in TabTargets(scr) : Screen(setfocus(scr, p))
    BY <1>4 DEF TabKey
  <2>2. p \in PanelNames
    <3>1. p \in scr.visible
      BY DEF TabTargets
    <3> QED BY <1>0, <3>1 DEF Half, IsScreen
  <2>3. Good(setfocus(scr, p), block)
    BY <1>0, <2>2, SetFocus DEF Half
  <2> QED BY <2>1, <2>3, ScreenLeft
<1>5. CASE ChooseTest
  <2>1. /\ Good(setfocus(hide(scr, {"hello"}), "auto"), block)
        /\ Good(HelloShow(hide(scr, {"hello", "auto"})), block)
    <3>1. Half(hide(scr, {"hello"}), block) /\ Half(hide(scr, {"hello", "auto"}), block)
      BY <1>0, HideHalf
    <3>2. "auto" \in PanelNames
      BY DEF PanelNames
    <3> QED BY <3>1, <3>2, SetFocus, HelloShowGood DEF Half
  <2> QED BY <1>5, <2>1, ScreenLeft DEF ChooseTest
<1>6. CASE EnterKey
  BY <1>6, CountdownOverLeft DEF EnterKey
<1>7. CASE OtherKey
  BY <1>0, <1>7, HideHalf, HelloShowGood, ScreenLeft DEF OtherKey
<1>8. CASE StartButton
  BY <1>0, <1>8, StartTestLeft DEF StartButton
<1>9. CASE MenuEscape
  BY <1>0, <1>9, HandleEscapeLeft DEF MenuEscape
<1>10. CASE EditKey
  <2>1. Good(setfocus(tablock(scr, TRUE), "edit"), block)
    <3>1. ~block
      BY <1>10 DEF EditKey
    <3>2. PICK u : u = tablock(scr, TRUE)
      OBVIOUS
    <3>3. IsScreen(u)
      BY <1>0, <3>2, TabLock DEF Half
    <3>4. Covered(u, block)
      BY <3>1 DEF Covered
    <3> QED BY <3>2, <3>3, <3>4, SetFocus DEF PanelNames
  <2> QED BY <1>0, <1>10, <2>1, ScreenLeft, ShowMessageLeft DEF EditKey, ShowFile
<1>11. CASE EditEscape
  BY <1>0, <1>11, ClosePanelLeft, ShowMessageLeft DEF EditEscape
<1> QED BY <1>1, <1>2, <1>3, <1>4, <1>5, <1>6, <1>7, <1>8, <1>9, <1>10, <1>11 DEF Key

LEMMA EventLeft == ASSUME IInv, Event PROVE Left
<1>0. Good(scr, block) /\ Half(scr, block)
  BY DEF IInv, Good
<1>1. CASE UpdateTick
  BY <1>0, <1>1, CountdownOverLeft DEF UpdateTick, IInv, Left
<1>2. CASE Post
  BY <1>0, <1>2 DEF Post, Left
<1>3. CASE ServeShow
  BY <1>0, <1>3, ShowMessageLeft DEF ServeShow
<1>4. CASE ServeHide
  BY <1>0, <1>4, SyncHideGood, ScreenLeft DEF ServeHide
<1>5. CASE ServeUpdate
  BY <1>0, <1>5, UpdateLeft DEF ServeUpdate
<1> QED BY <1>1, <1>2, <1>3, <1>4, <1>5 DEF Event

LEMMA InitIInv == Init => IInv
<1> SUFFICES ASSUME Init PROVE IInv
  OBVIOUS
<1>1. PICK start \in Starts :
         scr = [focus |-> start[2], prev |-> <<>>, visible |-> {start[2]}, tablock |-> FALSE]
  BY DEF Init
<1>2. PICK p \in PanelNames : p = start[2]
  BY FocusAssumption DEF PanelNames
<1>3. PICK none \in Seq(PanelNames), visible \in SUBSET PanelNames, lock \in BOOLEAN :
         none = <<>> /\ visible = {p} /\ lock = FALSE
  <2>1. <<>> \in Seq(PanelNames) /\ {p} \in SUBSET PanelNames /\ FALSE \in BOOLEAN
    OBVIOUS
  <2> QED BY ONLY <2>1
<1>4. scr = [focus |-> p, prev |-> none, visible |-> visible, tablock |-> lock]
  BY <1>1, <1>2, <1>3
<1>5. DOMAIN none = {}
  BY <1>3
<1>6. IsScreen(scr)
  BY <1>4, <1>5 DEF IsScreen, Distinct
<1> QED BY <1>3, <1>4, <1>6 DEF IInv, Good, Half, Covered

LEMMA NextIInv == IInv /\ [Next]_vars => IInv'
<1> SUFFICES ASSUME IInv, [Next]_vars PROVE IInv'
  OBVIOUS
<1>1. CASE Next
  <2>1. Left /\ block' = block
    BY <1>1, KeyLeft, EventLeft DEF Next
  <2> QED BY <2>1 DEF Left, IInv
<1>2. CASE UNCHANGED vars
  BY <1>2 DEF vars, IInv
<1> QED BY <1>1, <1>2

\* The variables have their types: the screen's list of panels before is a list
\* of panels, the dialog one whose buttons the panel has a callback for.
THEOREM TypeCorrect == Spec => []TypeOK
<1> DEFINE Typed == IInv /\ RestTyped /\ RunsTyped
<1>1. Init => Typed
  BY InitIInv, RestInit
<1>2. Typed /\ [Next]_vars => Typed'
  <2> SUFFICES ASSUME Typed, [Next]_vars PROVE Typed'
    OBVIOUS
  <2>1. IInv'
    BY NextIInv
  <2>2. CASE Next
    BY <2>1, <2>2, RestStep, RunsStep DEF Next
  <2>3. CASE UNCHANGED vars
    BY <2>1, <2>3 DEF vars, RestTyped, RunsTyped
  <2> QED BY <2>2, <2>3
<1>3. Typed => TypeOK
  BY DEF IInv, Good, Half, IsScreen, RestTyped, RunsTyped, TypeOK
<1> HIDE DEF Typed
<1> QED BY <1>1, <1>2, <1>3, PTL DEF Spec

\* The panel that gets the keys is on the screen, whatever keys, runs, dialogs
\* and timers hid meanwhile: setfocus and setfocusprev show what they focus, and
\* whoever hides the focused panel calls one of them in the same handler.
THEOREM FocusedIsShown == Spec => []FocusShown
<1>1. IInv => FocusShown
  BY DEF IInv, Good, FocusShown
<1> QED BY InitIInv, NextIInv, <1>1, PTL DEF Spec

\* TUI remembers each panel once and never the focused one, however many dialogs
\* and runs take the focus from one another: setfocus takes the panel out of the
\* list before it appends the one that loses the focus.
THEOREM RememberedOnce == Spec => []FocusOnce
<1>1. ASSUME IInv PROVE FocusOnce
  <2>1. /\ scr.focus \in PanelNames /\ scr.prev \in Seq(PanelNames) /\ Distinct(scr.prev)
        /\ \A i \in DOMAIN scr.prev : scr.prev[i] # scr.focus
    BY <1>1 DEF IInv, Good, Half, IsScreen
  <2>2. PICK all \in Seq(PanelNames) : all = Append(scr.prev, scr.focus)
    <3>1. Append(scr.prev, scr.focus) \in Seq(PanelNames)
      BY <2>1
    <3> QED BY <3>1
  <2>3. PICK n \in Nat : n = Len(scr.prev) /\ DOMAIN scr.prev = 1 .. n
    BY <2>1
  <2>4. /\ DOMAIN all = 1 .. n + 1 /\ all[n + 1] = scr.focus
        /\ \A i \in 1 .. n : all[i] = scr.prev[i]
    BY <2>1, <2>2, <2>3
  <2>5. \A i \in 1 .. n + 1 : i \in 1 .. n \/ i = n + 1
    BY <2>3
  <2>6. Distinct(all)
    BY <2>1, <2>3, <2>4, <2>5 DEF Distinct
  <2>7. Cardinality(ToSet(all)) = Len(all)
    BY <2>6, DistinctCounted
  <2> QED BY <2>2, <2>7 DEF FocusOnce
<1> QED BY InitIInv, NextIInv, <1>1, PTL DEF Spec

\* Where the editor is not offered, TAB is locked only by a dialog on the screen:
\* SyncShow and SyncHide of the dialog panel, from whatever thread.
THEOREM TabLockCovered == Spec => []LockCovered
<1>1. IInv => LockCovered
  BY DEF IInv, Good, Half, Covered, LockCovered
<1> QED BY InitIInv, NextIInv, <1>1, PTL DEF Spec
=============================================================================
