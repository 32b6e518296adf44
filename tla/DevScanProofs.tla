--------------------------- MODULE DevScanProofs ---------------------------
(***************************************************************************)
(* Proofs about DevScan, one invariant on top of the other.                *)
(*                                                                         *)
(*   RunInv   runonce keeps two scans apart unless one of them decides on  *)
(*            a pid file that has changed since or deletes the file of the *)
(*            other, and then no table is filled by both.                  *)
(*   Typed    the values of the tables and of the work of a scan.          *)
(*   TabInv   what a scan that works alone has made of its table so far:   *)
(*            one record for each device it has read, then the turns of    *)
(*            the bubble sort.                                             *)
(*   WalkInv  what scan_dev has counted, HddInv what a test of a disk      *)
(*            knows, KeyInv what is left in the slots.                     *)
(*                                                                         *)
(* A reader takes many steps, and a scan may fill the table again in       *)
(* between.  The proofs about readers rest on the Rank of a device: every  *)
(* whole table has it in the same slot.                                    *)
(***************************************************************************)
EXTENDS DevScan, FiniteSetTheorems, TLAPS

FileInv ==
    /\ pidfile \in Scans \cup {NoFile, DeadPid}
    /\ pc \in [Scans -> Pcs]
    /\ seen \in [Scans -> Scans \cup {NoFile, DeadPid}]
    /\ raced \in BOOLEAN

\* Who is about to write the pid file has read one that names nobody alive.
SeenInv == \A s \in Scans : pc[s] = "write" => seen[s] \in {NoFile, DeadPid}

\* Unless runonce was passed on outdated knowledge, the file names the scan.
OwnInv == ~raced => \A s \in Scans : Active(s) => pidfile = s

RunInv == FileInv /\ SeenInv /\ OwnInv

MixInv == DOMAIN fill = Tables /\ NoMixedTable

Quiet == UNCHANGED <<pidfile, pc, seen, raced>>

\* s moves on, and not past runonce.
Move(s, to) ==
    /\ UNCHANGED <<pidfile, seen, raced>>
    /\ Go(s, to)
    /\ to \in Pcs \ {"write"}
    /\ to \in {"none", "check"} \/ Active(s)

LEMMA Names == NoFile \notin Scans /\ DeadPid \notin Scans
BY DEF NoFile, DeadPid, Scans

LEMMA InitRun == Init => RunInv /\ MixInv
BY Names DEF Init, RunInv, FileInv, SeenInv, OwnInv, MixInv, NoMixedTable, Active, Pcs

LEMMA QuietRun == RunInv /\ Quiet => RunInv'
BY DEF RunInv, FileInv, SeenInv, OwnInv, Quiet, Active

LEMMA MoveRun ==
    ASSUME RunInv, NEW s \in Scans, NEW to, Move(s, to)
    PROVE  RunInv'
BY DEF RunInv, FileInv, SeenInv, OwnInv, Move, Go, Active

LEMMA CheckRun ==
    ASSUME RunInv, NEW s \in Scans, Check(s)
    PROVE  RunInv'
<1>1. /\ pc' = [pc EXCEPT ![s] = "write"]
      /\ seen' = [seen EXCEPT ![s] = pidfile]
      /\ pidfile \in {NoFile, DeadPid}
      /\ UNCHANGED <<pidfile, raced>>
    BY DEF Check, Go, history
<1>2. FileInv'
    BY <1>1 DEF RunInv, FileInv, Pcs
<1>3. SeenInv'
    BY <1>1 DEF RunInv, FileInv, SeenInv
<1>4. OwnInv'
    BY <1>1 DEF RunInv, FileInv, OwnInv, Active
<1>5. QED
    BY <1>2, <1>3, <1>4 DEF RunInv

\* Whoever is active owns the file: then the file has changed since s read it.
LEMMA WriteRun ==
    ASSUME RunInv, NEW s \in Scans, WritePid(s)
    PROVE  RunInv'
<1>1. /\ pc' = [pc EXCEPT ![s] = "open"]
      /\ pidfile' = s
      /\ raced' = (raced \/ pidfile # seen[s])
      /\ pc[s] = "write"
      /\ seen' = seen
    BY DEF WritePid, Go
<1>2. FileInv'
    BY <1>1 DEF RunInv, FileInv, Pcs
<1>3. SeenInv'
    BY <1>1 DEF RunInv, FileInv, SeenInv
<1>4. ASSUME ~raced', NEW q \in Scans, Active(q)'
      PROVE  q = s
    <2>1. SUFFICES ASSUME q # s PROVE FALSE
        OBVIOUS
    <2>2. Active(q)
        BY <1>1, <1>4, <2>1 DEF Active, RunInv, FileInv
    <2>3. pidfile = q
        BY <1>1, <1>4, <2>2 DEF RunInv, OwnInv, FileInv
    <2>4. seen[s] \in {NoFile, DeadPid} /\ pidfile = seen[s]
        BY <1>1, <1>4 DEF RunInv, SeenInv, FileInv
    <2>5. QED
        BY <2>3, <2>4, Names
<1>5. OwnInv'
    BY <1>1, <1>4 DEF OwnInv
<1>6. QED
    BY <1>2, <1>3, <1>5 DEF RunInv

LEMMA GoneRun ==
    ASSUME RunInv, NEW s \in Scans, NEW status, Gone(s, status),
           DropFile(s) \/ (pidfile' = (IF pidfile = s THEN DeadPid ELSE pidfile) /\ raced' = raced)
    PROVE  RunInv'
<1>1. /\ pc' = [pc EXCEPT ![s] = "none"]
      /\ seen' = [seen EXCEPT ![s] = NoFile]
    BY DEF Gone, Go
<1>2. FileInv'
    BY <1>1 DEF RunInv, FileInv, DropFile, Pcs
<1>3. SeenInv'
    BY <1>1 DEF RunInv, FileInv, SeenInv
<1>4. ASSUME ~raced', NEW q \in Scans, Active(q)'
      PROVE  pidfile' = q
    <2>1. q # s /\ Active(q)
        BY <1>1, <1>4 DEF Active, RunInv, FileInv
    <2>2. ~raced
        BY <1>4 DEF DropFile, RunInv, FileInv
    <2>3. pidfile = q
        BY <2>1, <2>2 DEF RunInv, OwnInv
    <2>4. ~DropFile(s)
        BY <1>4, <2>1, <2>3 DEF DropFile
    <2>5. QED
        BY <2>1, <2>3, <2>4
<1>5. OwnInv'
    BY <1>4 DEF OwnInv
<1>6. QED
    BY <1>2, <1>3, <1>5 DEF RunInv

\* Every action is one of these five.
LEMMA StepRun == RunInv /\ [Next]_vars => RunInv'
<1> SUFFICES ASSUME RunInv, [Next]_vars PROVE RunInv'
    OBVIOUS
<1>1. CASE UNCHANGED vars
    BY <1>1, QuietRun DEF vars, Quiet
<1>2. ASSUME NEW s \in Scans, Next, ScanStep(s) PROVE RunInv'
    <2>1. CASE Check(s) BY <2>1, CheckRun
    <2>2. CASE WritePid(s) BY <2>2, WriteRun
    <2>3. CASE Collect(s)
        <3>1. Move(s, "clear") BY <2>3 DEF Collect, Move, Go, history, Active, Pcs
        <3>2. QED BY <3>1, MoveRun
    <2>4. CASE ClearTable(s)
        <3>1. \E to \in {"sort", "add"} : Move(s, to)
            BY <2>4 DEF ClearTable, Move, Go, Active, Pcs
        <3>2. QED BY <3>1, MoveRun
    <2>5. CASE AddRecord(s)
        <3>1. Move(s, "set") BY <2>5 DEF AddRecord, Move, Go, history, Active, Pcs
        <3>2. QED BY <3>1, MoveRun
    <2>6. CASE SetField(s)
        <3>1. \E to \in {"set", "sort", "add"} : Move(s, to)
            BY <2>6 DEF SetField, Move, Go, history, Active, Pcs
        <3>2. QED BY <3>1, MoveRun
    <2>7. CASE Compare(s)
        BY <2>7, QuietRun DEF Compare, Quiet, history
    <2>8. CASE SwapLeft(s)
        <3>1. Move(s, "swap") BY <2>8 DEF SwapLeft, Move, Go, history, Active, Pcs
        <3>2. QED BY <3>1, MoveRun
    <2>9. CASE SwapRight(s)
        <3>1. Move(s, "sort") BY <2>9 DEF SwapRight, Move, Go, history, Active, Pcs
        <3>2. QED BY <3>1, MoveRun
    <2>10. CASE EndTable(s)
        <3>1. Move(s, "list") BY <2>10 DEF EndTable, ToList, Move, Go, Active, Pcs
        <3>2. QED BY <3>1, MoveRun
    <2>11. CASE ListTable(s)
        <3>1. Move(s, "open") BY <2>11 DEF ListTable, Move, Go, history, Active, Pcs
        <3>2. QED BY <3>1, MoveRun
    <2>12. CASE Exit(s)
        BY <2>12, GoneRun DEF Exit
    <2>13. QED
        BY <1>2, <2>1, <2>2, <2>3, <2>4, <2>5, <2>6, <2>7, <2>8, <2>9, <2>10, <2>11, <2>12
        DEF ScanStep
<1>3. ASSUME NEW s \in Scans, FailTable(s) PROVE RunInv'
    <2>1. Move(s, "list") BY <1>3 DEF FailTable, ToList, Move, Go, Active, Pcs
    <2>2. QED BY <2>1, MoveRun
<1>4. ASSUME NEW s \in Scans, Terminate(s) PROVE RunInv'
    BY <1>4, GoneRun DEF Terminate
<1>5. ASSUME NEW s \in Scans, Crash(s) PROVE RunInv'
    BY <1>5, GoneRun DEF Crash
<1>6. CASE ScanByHand
    <2>1. Move("hand", "check") /\ "hand" \in Scans
        BY <1>6 DEF ScanByHand, Start, Move, Go, history, Pcs, Scans
    <2>2. QED BY <2>1, MoveRun
<1>7. CASE OpenScan
    <2>1. Move("child", "check") /\ "child" \in Scans
        BY <1>7 DEF OpenScan, Start, Move, Go, history, Pcs, Scans
    <2>2. QED BY <2>1, MoveRun
<1>8. CASE LoadIni \/ HddRun \/ Mount \/ HddStep
    BY <1>8, QuietRun DEF LoadIni, HddRun, Mount, HddStep, HddFind, HddMount, HddEnd, Quiet,
        devscans, history
<1>9. CASE CpuTest \/ MemTest \/ Walk \/ GetIFsFails \/ Probe \/ Report \/ EndScanDev
    BY <1>9, QuietRun DEF CpuTest, MemTest, Walk, GetIFsFails, Probe, Report, EndScanDev, Quiet,
        devscans, history
<1>10. QED
    BY <1>1, <1>2, <1>3, <1>4, <1>5, <1>6, <1>7, <1>8, <1>9 DEF Next, TesterStep

\* Two scans that own the same file are one.
LEMMA OverlapFromRun == RunInv => NoOverlap
BY DEF RunInv, OwnInv, NoOverlap

\* A table becomes mixed only when a scan clears it while another one is at
\* work on it: both are past runonce.
LEMMA StepMix == RunInv /\ MixInv /\ [Next]_vars => MixInv'
<1> SUFFICES ASSUME RunInv, MixInv, [Next]_vars PROVE MixInv'
    OBVIOUS
<1> USE DEF MixInv, NoMixedTable
<1>1. CASE UNCHANGED <<fill, raced>>
    BY <1>1
<1>2. ASSUME NEW s \in Scans, ClearTable(s) PROVE MixInv'
    <2>1. CASE \E q \in Scans \ {s} : AtWork(q, Now(s))
        <3>1. PICK q \in Scans \ {s} : AtWork(q, Now(s))
            BY <2>1
        <3>2. Active(q) /\ Active(s)
            BY <1>2, <3>1 DEF AtWork, ClearTable, Active
        <3>3. raced
            BY <3>2, OverlapFromRun DEF NoOverlap
        <3>4. QED
            BY <1>2, <3>3 DEF ClearTable
    <2>2. CASE ~ \E q \in Scans \ {s} : AtWork(q, Now(s))
        <3>1. fill' = [fill EXCEPT ![Now(s)] = "filling"] /\ raced' = raced
            BY <1>2, <2>2 DEF ClearTable
        <3>2. QED
            BY <3>1
    <2>3. QED
        BY <2>1, <2>2
<1>3. ASSUME NEW s \in Scans, EndTable(s) PROVE MixInv'
    BY <1>3 DEF EndTable
<1>4. ASSUME NEW s \in Scans, FailTable(s) PROVE MixInv'
    BY <1>4 DEF FailTable
<1>5. ASSUME NEW s \in Scans, NEW status, Gone(s, status), raced => raced' PROVE MixInv'
    BY <1>5 DEF Gone
<1>6. ASSUME NEW s \in Scans, Exit(s) \/ Terminate(s) \/ Crash(s) PROVE MixInv'
    BY <1>5, <1>6 DEF Exit, Terminate, Crash, DropFile
<1>7. ASSUME NEW s \in Scans, WritePid(s) PROVE MixInv'
    BY <1>7 DEF WritePid
<1>8. ASSUME NEW s \in Scans, ScanStep(s) PROVE MixInv'
    <2>1. CASE \/ Check(s) \/ Collect(s) \/ AddRecord(s) \/ SetField(s) \/ Compare(s)
               \/ SwapLeft(s) \/ SwapRight(s) \/ ListTable(s)
        BY <1>1, <2>1 DEF Check, Collect, AddRecord, SetField, Compare, SwapLeft, SwapRight,
            ListTable, history
    <2>2. QED
        BY <1>2, <1>3, <1>6, <1>7, <1>8, <2>1 DEF ScanStep
<1>9. CASE TesterStep \/ GetIFsFails \/ HddStep
    BY <1>1, <1>9 DEF TesterStep, OpenScan, CpuTest, MemTest, Walk, GetIFsFails, Probe, Report,
        EndScanDev, HddStep, HddFind, HddMount, HddEnd, history
<1>10. CASE LoadIni \/ ScanByHand \/ HddRun \/ Mount
    BY <1>1, <1>10 DEF LoadIni, ScanByHand, HddRun, Mount, history
<1>11. CASE UNCHANGED vars
    BY <1>1, <1>11 DEF vars
<1>12. QED
    BY <1>4, <1>6, <1>8, <1>9, <1>10, <1>11 DEF Next

LEMMA Invariants == Spec => [](RunInv /\ MixInv)
<1>1. Init => RunInv /\ MixInv
    BY InitRun
<1>2. RunInv /\ MixInv /\ [Next]_vars => (RunInv /\ MixInv)'
    BY StepRun, StepMix
<1>3. QED
    BY <1>1, <1>2, PTL DEF Spec

\* runonce keeps two scans apart, whatever is killed or crashes, unless the pid
\* file changed between the check and the write, or another one's was deleted.
THEOREM ScansApart == Spec => []NoOverlap
<1>1. RunInv => NoOverlap
    BY OverlapFromRun
<1>2. QED
    BY <1>1, Invariants, PTL

\* The tables have no lock of their own: runonce is what keeps them whole.
THEOREM TablesUnmixed == Spec => []NoMixedTable
<1>1. MixInv => NoMixedTable
    BY DEF MixInv
<1>2. QED
    BY <1>1, Invariants, PTL

-----------------------------------------------------------------------------
(* The tables and the work of a scan: their values.                        *)

Row == [Fields \cup {"id"} -> Nat]

TableValues == [alloced : Nat, count : 0 .. Capacity, idnext : Nat, slot : [Slots -> Row]]

Lists == Seq(Tables)
Rests == SUBSET Nat
Rows  == {Null} \cup Slots
Steps == Nat \ {0}
Snaps == SUBSET Devices["blk"]

Work == [todo : Lists, rest : Rests, row : Rows, f : Steps, dev : Nat, i : Nat, j : Nat,
         tmp : Row, snap : Snaps, out : Nat, rc : Nat]

Fills == {"none", "filling", "done", "failed", "mixed"}

AtTable == {"clear", "add", "set", "sort", "swap", "list"}
OnRows  == {"add", "set", "sort", "swap"}

LEMMA Constants ==
    /\ Capacity \in Nat /\ Capacity >= 1 /\ Alloc \in Nat /\ Alloc >= 1
    /\ "blk" \in Tables /\ "key" \in Fields /\ "info" \in Fields /\ "mount" \in Fields
    /\ \A t \in Tables : Devices[t] \subseteq Nat \ {0}
BY MemTableAssumption, DevScanAssumption

LEMMA BlankIsRow == BlankRow \in Row /\ \A n \in Nat : [BlankRow EXCEPT !["id"] = n] \in Row
BY DEF BlankRow, Row

LEMMA CreatedFacts ==
    /\ Created(Alloc) \in TableValues
    /\ Created(Alloc).count = 0 /\ Created(Alloc).idnext = 0 /\ Created(Alloc).alloced = Alloc
    /\ [Created(Alloc) EXCEPT !.alloced = 0] \in TableValues
    /\ [Created(Alloc) EXCEPT !.alloced = 0].count = 0
    /\ [Created(Alloc) EXCEPT !.alloced = 0].idnext = 0
BY Constants, BlankIsRow DEF Created, TableValues

LEMMA ClearedFacts ==
    ASSUME NEW T \in TableValues
    PROVE  /\ Cleared(T) \in TableValues
           /\ Cleared(T).count = 0 /\ Cleared(T).idnext = 0 /\ Cleared(T).alloced = T.alloced
<1>1. ASSUME NEW x \in 0 .. Capacity, NEW y \in Nat
      PROVE  LET N == [T EXCEPT !.count = x, !.idnext = y]
             IN  N \in TableValues /\ N.count = x /\ N.idnext = y /\ N.alloced = T.alloced
    BY DEF TableValues
<1>2. 0 \in 0 .. Capacity /\ 0 \in Nat
    BY Constants
<1>3. QED
    BY <1>1, <1>2 DEF Cleared

\* add: a blank record with the next id behind the records there are.
LEMMA AddedFacts ==
    ASSUME NEW T \in TableValues, NewSlot(T) \in Slots
    PROVE  /\ Added(T) \in TableValues
           /\ Added(T).count = T.count + 1 /\ Added(T).idnext = T.idnext + 1
           /\ Added(T).alloced >= T.alloced
           /\ T.alloced > 0 /\ T.count <= T.alloced => T.count + 1 <= Added(T).alloced
           /\ \A r \in Slots : r # T.count + 1 => Added(T).slot[r] = T.slot[r]
           /\ Added(T).slot[T.count + 1]["id"] = T.idnext
<1> DEFINE G == Grown(T)
           new == [BlankRow EXCEPT !["id"] = T.idnext]
           S == [T.slot EXCEPT ![T.count + 1] = new]
<1>1. /\ G \in TableValues /\ G.count = T.count /\ G.slot = T.slot /\ G.idnext = T.idnext
      /\ G.alloced = (IF T.count >= T.alloced THEN 2 * T.alloced ELSE T.alloced)
    BY DEF Grown, TableValues
<1>2. new \in Row /\ new["id"] = T.idnext
    BY BlankIsRow DEF TableValues, BlankRow
<1>3. Added(T) = [G EXCEPT !.slot[T.count + 1] = new, !.count = G.count + 1,
                          !.idnext = G.idnext + 1]
    BY DEF Added, NewSlot
<1> HIDE DEF G, new
<1>4. T.count + 1 \in Slots /\ T.count \in Nat /\ T.count + 1 \in 0 .. Capacity
    BY Constants DEF NewSlot, TableValues, Slots
<1>5. S \in [Slots -> Row] /\ S[T.count + 1] = new
      /\ \A r \in Slots : r # T.count + 1 => S[r] = T.slot[r]
    BY <1>2, <1>4 DEF TableValues
<1>6. Added(T) = [G EXCEPT !.slot = S, !.count = G.count + 1, !.idnext = G.idnext + 1]
    BY <1>1, <1>3
<1> HIDE DEF S
<1>7. Added(T) = [alloced |-> G.alloced, count |-> T.count + 1, idnext |-> T.idnext + 1,
                  slot |-> S]
    BY <1>1, <1>6 DEF TableValues
<1>8. T.alloced \in Nat /\ T.idnext \in Nat
    BY DEF TableValues
<1>9. Added(T) \in TableValues
    BY <1>1, <1>4, <1>5, <1>7, <1>8 DEF TableValues
<1>10. QED
    BY <1>1, <1>2, <1>4, <1>5, <1>7, <1>8, <1>9

LEMMA PutFacts ==
    ASSUME NEW T \in TableValues, NEW r \in Slots, NEW f \in Fields, NEW v \in Nat
    PROVE  /\ Put(T, r, f, v) \in TableValues
           /\ Put(T, r, f, v).count = T.count /\ Put(T, r, f, v).idnext = T.idnext
           /\ Put(T, r, f, v).alloced = T.alloced
           /\ \A q \in Slots : q # r => Put(T, r, f, v).slot[q] = T.slot[q]
           /\ Put(T, r, f, v).slot[r][f] = v
           /\ \A g \in Fields \cup {"id"} : g # f => Put(T, r, f, v).slot[r][g] = T.slot[r][g]
<1> DEFINE new == [T.slot[r] EXCEPT ![f] = v]
           S == [T.slot EXCEPT ![r] = new]
<1>1. T.slot[r] \in Row
    BY DEF TableValues
<1>2. new \in Row /\ new[f] = v /\ \A g \in Fields \cup {"id"} : g # f => new[g] = T.slot[r][g]
    BY <1>1 DEF Row
<1>3. Put(T, r, f, v) = [T EXCEPT !.slot = S]
    BY DEF Put
<1> HIDE DEF new
<1>4. S \in [Slots -> Row] /\ S[r] = new /\ \A q \in Slots : q # r => S[q] = T.slot[q]
    BY <1>2 DEF TableValues
<1> HIDE DEF S
<1>5. Put(T, r, f, v) = [alloced |-> T.alloced, count |-> T.count, idnext |-> T.idnext,
                         slot |-> S]
    BY <1>3 DEF TableValues
<1>6. QED
    BY <1>2, <1>4, <1>5 DEF TableValues

LEMMA SlotFacts ==
    ASSUME NEW T \in TableValues, NEW r \in Slots, NEW row \in Row
    PROVE  LET N == [T EXCEPT !.slot[r] = row] IN
           /\ N \in TableValues
           /\ N.count = T.count /\ N.idnext = T.idnext /\ N.alloced = T.alloced
           /\ N.slot = [T.slot EXCEPT ![r] = row]
<1> DEFINE S == [T.slot EXCEPT ![r] = row]
<1>1. S \in [Slots -> Row]
    BY DEF TableValues
<1>2. [T EXCEPT !.slot[r] = row] = [T EXCEPT !.slot = S]
    OBVIOUS
<1> HIDE DEF S
<1>3. [T EXCEPT !.slot = S]
        = [alloced |-> T.alloced, count |-> T.count, idnext |-> T.idnext, slot |-> S]
    BY DEF TableValues
<1>4. QED
    BY <1>1, <1>2, <1>3 DEF TableValues, S

LEMMA CopyDownFacts ==
    ASSUME NEW T \in TableValues, NEW r \in Slots, r + 1 \in Slots
    PROVE  LET N == CopyDown(T, r) IN
           /\ N \in TableValues
           /\ N.count = T.count /\ N.idnext = T.idnext /\ N.alloced = T.alloced
           /\ N.slot = [T.slot EXCEPT ![r] = T.slot[r + 1]]
<1>1. PICK row \in Row : row = T.slot[r + 1]
    BY DEF TableValues
<1>2. QED
    BY <1>1, SlotFacts DEF CopyDown

LEMMA CopyTmpFacts ==
    ASSUME NEW T \in TableValues, NEW r \in Nat, NEW row \in Row, r + 1 \in Slots
    PROVE  LET N == CopyTmp(T, r, row) IN
           /\ N \in TableValues
           /\ N.count = T.count /\ N.idnext = T.idnext /\ N.alloced = T.alloced
           /\ N.slot = [T.slot EXCEPT ![r + 1] = row]
<1>1. PICK q \in Slots : q = r + 1
    OBVIOUS
<1>2. QED
    BY <1>1, SlotFacts DEF CopyTmp

\* Where a devscan is, what it holds.
Placed(p, S, A) ==
    /\ p \in AtTable => S.todo # <<>>
    /\ p = "clear" => S.rest = A
    /\ p \in {"add", "set"} => S.rest \subseteq A
    /\ p = "set" => /\ S.row \in Slots /\ S.dev \in A
                    /\ S.f \in 1 .. Len(FieldsOf(Head(S.todo)))
    /\ p \notin {"sort", "swap"} => S.i = 0 /\ S.j = 0
    /\ p = "swap" => S.i + 2 \in Slots

TableInv(T) == T \in TableValues /\ T.idnext = T.count /\ T.count <= T.alloced

ScanInv ==
    /\ DOMAIN tbl = Tables /\ \A t \in Tables : TableInv(tbl[t])
    /\ scan \in [Scans -> Work]
    /\ \A s \in Scans :
         /\ Placed(pc[s], scan[s], Attached(Now(s)))
         /\ pc[s] \in OnRows => Exists(tbl[Now(s)])

AroundInv ==
    /\ left \in [Around -> Nat] /\ left["ini"] \in DOMAIN Inis
    /\ fill \in [Tables -> Fills]
    /\ mounted \subseteq Devices["blk"]

Typed == FileInv /\ ScanInv /\ AroundInv

LEMMA AttachedType ==
    ASSUME NEW t \in Tables
    PROVE  Attached(t) \subseteq Devices[t] /\ Attached(t) \subseteq Nat \ {0}
BY Constants DEF Attached

\* A devscan at a table is at one of the tables.
LEMMA AtATable ==
    ASSUME Typed, NEW s \in Scans, pc[s] \in AtTable
    PROVE  /\ scan[s] \in Work /\ scan[s].todo \in Seq(Tables) /\ scan[s].todo # <<>>
           /\ Now(s) \in Tables /\ Now(s) = Head(scan[s].todo)
           /\ tbl[Now(s)] \in TableValues /\ TableInv(tbl[Now(s)])
           /\ Attached(Now(s)) \subseteq Nat \ {0}
<1>1. scan[s] \in Work /\ Placed(pc[s], scan[s], Attached(Now(s)))
    BY DEF Typed, ScanInv
<1>2. scan[s].todo \in Seq(Tables) /\ scan[s].todo # <<>>
    BY <1>1 DEF Work, Lists, Placed
<1>3. Now(s) \in Tables
    BY <1>2 DEF Now
<1>4. TableInv(tbl[Now(s)])
    BY <1>3 DEF Typed, ScanInv
<1>5. QED
    BY <1>1, <1>2, <1>3, <1>4, AttachedType DEF Now, TableInv

\* What a step of s on its table leaves alone.
Local(s) ==
    /\ DOMAIN tbl' = Tables /\ \A u \in Tables \ {Now(s)} : tbl'[u] = tbl[u]
    /\ scan' \in [Scans -> Work]
    /\ pc' \in [Scans -> Pcs]
    /\ \A q \in Scans \ {s} : scan'[q] = scan[q] /\ pc'[q] = pc[q]

LEMMA CollectFacts ==
    ASSUME Typed, NEW s \in Scans, Collect(s)
    PROVE  /\ Local(s) /\ UNCHANGED <<tbl, fill, meta, left>>
           /\ pc[s] = "open" /\ pc'[s] = "clear"
           /\ scan'[s].todo = scan[s].todo /\ scan[s].todo # <<>>
           /\ scan'[s].rest = Attached(Now(s))
           /\ scan'[s].i = scan[s].i /\ scan'[s].j = scan[s].j
<1>1. scan[s] \in Work /\ scan[s].todo \in Seq(Tables) /\ scan[s].todo # <<>>
    BY DEF Typed, ScanInv, Work, Lists, Collect
<1>2. Attached(Now(s)) \in Rests /\ mounted \in Snaps
    <2>1. Now(s) \in Tables
        BY <1>1 DEF Now
    <2>2. QED
        BY <2>1, AttachedType DEF Typed, AroundInv, Rests, Snaps
<1>3. \A x \in Snaps, y \in Rests :
         LET W == [scan[s] EXCEPT !.snap = x, !.rest = y] IN
         /\ W \in Work
         /\ W.todo = scan[s].todo /\ W.rest = y /\ W.i = scan[s].i /\ W.j = scan[s].j
    BY <1>1 DEF Work
<1>4. scan' = [scan EXCEPT ![s] = [scan[s] EXCEPT !.snap = mounted, !.rest = Attached(Now(s))]]
    BY DEF Collect, Typed, ScanInv
<1>5. scan \in [Scans -> Work] /\ pc \in [Scans -> Pcs] /\ DOMAIN tbl = Tables
    BY DEF Typed, ScanInv, FileInv
<1>6. /\ pc' = [pc EXCEPT ![s] = "clear"] /\ UNCHANGED <<tbl, fill, meta, left>>
      /\ pc[s] = "open"
    BY DEF Collect, Go, history
<1>7. QED
    BY <1>1, <1>2, <1>3, <1>4, <1>5, <1>6 DEF Local, Pcs

LEMMA ClearFacts ==
    ASSUME Typed, NEW s \in Scans, ClearTable(s)
    PROVE  /\ Local(s) /\ UNCHANGED <<scan, meta, left>>
           /\ pc[s] = "clear" /\ pc'[s] = (IF scan[s].rest = {} THEN "sort" ELSE "add")
           /\ tbl'[Now(s)] \in TableValues /\ TableInv(tbl'[Now(s)]) /\ Exists(tbl'[Now(s)])
           /\ tbl'[Now(s)].count = 0
           /\ fill' = [fill EXCEPT ![Now(s)] = IF \E q \in Scans \ {s} : AtWork(q, Now(s))
                                                 THEN "mixed" ELSE "filling"]
<1>1. /\ pc[s] = "clear" /\ pc' = [pc EXCEPT ![s] = IF scan[s].rest = {} THEN "sort" ELSE "add"]
      /\ tbl' = [tbl EXCEPT ![Now(s)] = IF Exists(@) THEN Cleared(@) ELSE Created(Alloc)]
      /\ UNCHANGED <<scan, meta, left>>
      /\ fill' = [fill EXCEPT ![Now(s)] = IF \E q \in Scans \ {s} : AtWork(q, Now(s))
                                            THEN "mixed" ELSE "filling"]
    BY DEF ClearTable, Go
<1>2. /\ scan \in [Scans -> Work] /\ pc \in [Scans -> Pcs] /\ DOMAIN tbl = Tables
      /\ Now(s) \in Tables /\ tbl[Now(s)] \in TableValues
    BY <1>1, AtATable DEF Typed, ScanInv, FileInv, AtTable
<1>3. Local(s)
    BY <1>1, <1>2 DEF Local, Pcs
<1>4. CASE Exists(tbl[Now(s)])
    <2>1. tbl'[Now(s)] = Cleared(tbl[Now(s)])
        BY <1>1, <1>2, <1>4
    <2>2. 0 <= tbl[Now(s)].alloced
        BY <1>2 DEF TableValues
    <2>3. QED
        BY <1>1, <1>2, <1>3, <1>4, <2>1, <2>2, ClearedFacts DEF TableInv, Exists
<1>5. CASE ~Exists(tbl[Now(s)])
    <2>1. tbl'[Now(s)] = Created(Alloc)
        BY <1>1, <1>2, <1>5
    <2>2. QED
        BY <1>1, <1>2, <1>3, <2>1, CreatedFacts, Constants DEF TableInv, Exists
<1>6. QED
    BY <1>4, <1>5

LEMMA AddFacts ==
    ASSUME Typed, NEW s \in Scans, AddRecord(s)
    PROVE  /\ Local(s) /\ UNCHANGED <<fill, meta, left>>
           /\ pc[s] = "add" /\ pc'[s] = "set"
           /\ NewSlot(tbl[Now(s)]) \in Slots /\ tbl'[Now(s)] = Added(tbl[Now(s)])
           /\ scan'[s].dev \in scan[s].rest /\ scan'[s].rest = scan[s].rest \ {scan'[s].dev}
           /\ scan'[s].f = 1 /\ scan'[s].row = tbl[Now(s)].count + 1
           /\ scan'[s].todo = scan[s].todo /\ scan'[s].snap = scan[s].snap
           /\ scan'[s].i = scan[s].i /\ scan'[s].j = scan[s].j
<1>1. /\ pc[s] = "add" /\ pc' = [pc EXCEPT ![s] = "set"]
      /\ NewSlot(tbl[Now(s)]) \in Slots
      /\ tbl' = [tbl EXCEPT ![Now(s)] = Added(@)] /\ UNCHANGED <<fill, meta, left>>
    BY DEF AddRecord, Go, history
<1>2. /\ scan \in [Scans -> Work] /\ pc \in [Scans -> Pcs] /\ DOMAIN tbl = Tables
      /\ Now(s) \in Tables /\ scan[s] \in Work
    BY <1>1, AtATable DEF Typed, ScanInv, FileInv, AtTable
<1>3. PICK d \in scan[s].rest :
         scan' = [scan EXCEPT ![s] = [scan[s] EXCEPT !.dev = d, !.rest = scan[s].rest \ {d},
                                        !.f = 1, !.row = NewSlot(tbl[Now(s)])]]
    BY <1>2 DEF AddRecord, Work
<1>4. d \in Nat /\ 1 \in Steps
    BY <1>2, <1>3 DEF Work, Rests, Steps
<1>5. PICK rest \in Rests, r \in Rows, f \in Steps :
         rest = scan[s].rest \ {d} /\ r = NewSlot(tbl[Now(s)]) /\ f = 1
    BY <1>1, <1>2, <1>4 DEF Work, Rests, Rows
<1>6. PICK W : W = [scan[s] EXCEPT !.dev = d, !.rest = rest, !.f = f, !.row = r]
    OBVIOUS
<1>7. /\ W \in Work
      /\ W.dev = d /\ W.rest = rest /\ W.f = f /\ W.row = r
      /\ W.todo = scan[s].todo /\ W.snap = scan[s].snap
      /\ W.i = scan[s].i /\ W.j = scan[s].j
    <2>1. scan[s] \in Work /\ d \in Nat BY <1>2, <1>4
    <2>2. QED BY <2>1, <1>6 DEF Work
<1>8. scan' = [scan EXCEPT ![s] = W]
    BY <1>3, <1>5, <1>6
<1>9. Local(s)
    BY <1>1, <1>2, <1>7, <1>8 DEF Local, Pcs
<1>10. scan'[s] = W
    BY <1>2, <1>8
<1>11. QED
    BY <1>1, <1>2, <1>3, <1>5, <1>7, <1>9, <1>10 DEF NewSlot

LEMMA FieldNames ==
    ASSUME NEW t, NEW f \in 1 .. Len(FieldsOf(t))
    PROVE  /\ Len(FieldsOf(t)) = (IF t = "blk" THEN 3 ELSE 2)
           /\ FieldsOf(t)[1] = "key" /\ FieldsOf(t)[2] = "info"
           /\ t = "blk" => FieldsOf(t)[3] = "mount"
           /\ FieldsOf(t)[f] \in {"key", "info", "mount"}
           /\ \A g \in 1 .. Len(FieldsOf(t)) : g # f => FieldsOf(t)[g] # FieldsOf(t)[f]
<1>1. CASE t = "blk"
    <2>1. FieldsOf(t) = <<"key", "info", "mount">>
        BY <1>1 DEF FieldsOf
    <2>2. f \in {1, 2, 3}
        BY <2>1
    <2>3. QED
        BY <1>1, <2>1, <2>2
<1>2. CASE t # "blk"
    <2>1. FieldsOf(t) = <<"key", "info">>
        BY <1>2 DEF FieldsOf
    <2>2. f \in {1, 2}
        BY <2>1
    <2>3. QED
        BY <1>2, <2>1, <2>2
<1>3. QED
    BY <1>1, <1>2

LEMMA SetFacts ==
    ASSUME Typed, NEW s \in Scans, SetField(s)
    PROVE  /\ Local(s) /\ UNCHANGED <<fill, meta, left>>
           /\ pc[s] = "set"
           /\ pc'[s] = (IF scan[s].f < Len(FieldsOf(Now(s))) THEN "set"
                        ELSE IF scan[s].rest = {} THEN "sort" ELSE "add")
           /\ scan[s].f \in 1 .. Len(FieldsOf(Now(s))) /\ scan[s].row \in Slots
           /\ FieldsOf(Now(s))[scan[s].f] \in Fields
           /\ Value(s, FieldsOf(Now(s))[scan[s].f]) \in Nat
           /\ tbl'[Now(s)] = Put(tbl[Now(s)], scan[s].row, FieldsOf(Now(s))[scan[s].f],
                                 Value(s, FieldsOf(Now(s))[scan[s].f]))
           /\ scan'[s].f = scan[s].f + 1
           /\ scan'[s].todo = scan[s].todo /\ scan'[s].snap = scan[s].snap
           /\ scan'[s].dev = scan[s].dev /\ scan'[s].rest = scan[s].rest
           /\ scan'[s].row = scan[s].row
           /\ scan'[s].i = scan[s].i /\ scan'[s].j = scan[s].j
<1>1. /\ pc[s] = "set"
      /\ pc' = [pc EXCEPT ![s] = IF scan[s].f < Len(FieldsOf(Now(s))) THEN "set"
                                 ELSE IF scan[s].rest = {} THEN "sort" ELSE "add"]
      /\ tbl' = [tbl EXCEPT ![Now(s)] = Put(@, scan[s].row, FieldsOf(Now(s))[scan[s].f],
                                            Value(s, FieldsOf(Now(s))[scan[s].f]))]
      /\ UNCHANGED <<fill, meta, left>>
    BY DEF SetField, Go, history
<1>2. /\ scan \in [Scans -> Work] /\ pc \in [Scans -> Pcs] /\ DOMAIN tbl = Tables
      /\ Now(s) \in Tables /\ scan[s] \in Work /\ Now(s) = Head(scan[s].todo)
      /\ scan[s].row \in Slots /\ scan[s].f \in 1 .. Len(FieldsOf(Now(s)))
    BY <1>1, AtATable DEF Typed, ScanInv, FileInv, AtTable, Placed
<1>3. scan' = [scan EXCEPT ![s] = [scan[s] EXCEPT !.f = scan[s].f + 1]]
    BY <1>2 DEF SetField
<1>4. /\ scan'[s] \in Work /\ scan' \in [Scans -> Work]
      /\ scan'[s].f = scan[s].f + 1 /\ scan'[s].todo = scan[s].todo
      /\ scan'[s].snap = scan[s].snap /\ scan'[s].dev = scan[s].dev
      /\ scan'[s].rest = scan[s].rest /\ scan'[s].row = scan[s].row
      /\ scan'[s].i = scan[s].i /\ scan'[s].j = scan[s].j
    <2>1. \A x \in Steps :
             LET W == [scan[s] EXCEPT !.f = x] IN
             /\ W \in Work /\ W.f = x
             /\ W.todo = scan[s].todo /\ W.snap = scan[s].snap /\ W.dev = scan[s].dev
             /\ W.rest = scan[s].rest /\ W.row = scan[s].row
             /\ W.i = scan[s].i /\ W.j = scan[s].j
        BY <1>2 DEF Work
    <2>2. scan[s].f + 1 \in Steps
        BY <1>2 DEF Steps, FieldsOf
    <2>3. QED
        BY <1>2, <1>3, <2>1, <2>2
<1>5. Local(s)
    BY <1>1, <1>2, <1>3, <1>4 DEF Local, Pcs
<1>6. FieldsOf(Now(s))[scan[s].f] \in {"key", "info", "mount"}
    BY <1>2, FieldNames
<1>7. Value(s, FieldsOf(Now(s))[scan[s].f]) \in Nat
    <2>1. Value(s, "key") \in Nat /\ Value(s, "info") \in Nat /\ Value(s, "mount") \in Nat
        BY <1>2 DEF Value, Work
    <2>2. QED
        BY <1>6, <2>1
<1>8. QED
    BY <1>1, <1>2, <1>4, <1>5, <1>6, <1>7, Constants

\* An inner turn goes on to the next two neighbours, an outer one starts again.
LEMMA CompareFacts ==
    ASSUME Typed, NEW s \in Scans, Compare(s)
    PROVE  /\ Local(s) /\ UNCHANGED <<tbl, pc, fill, meta, left>>
           /\ pc[s] = "sort" /\ Outer(s) /\ (Inner(s) => InOrder(s))
           /\ Inner(s) => scan'[s].i = scan[s].i + 1 /\ scan'[s].j = scan[s].j
           /\ ~Inner(s) => scan'[s].i = 0 /\ scan'[s].j = scan[s].j + 1
           /\ scan'[s].todo = scan[s].todo /\ scan'[s].snap = scan[s].snap
<1>1. /\ pc[s] = "sort" /\ Outer(s) /\ (Inner(s) => InOrder(s))
      /\ UNCHANGED <<tbl, pc, fill, meta, left>>
    BY DEF Compare, history
<1>2. /\ scan \in [Scans -> Work] /\ pc \in [Scans -> Pcs] /\ DOMAIN tbl = Tables
      /\ scan[s] \in Work /\ scan[s].i \in Nat /\ scan[s].j \in Nat
    BY <1>1 DEF Typed, ScanInv, FileInv, Work
<1>3. PICK i \in Nat, j \in Nat :
         /\ Inner(s) => i = scan[s].i + 1 /\ j = scan[s].j
         /\ ~Inner(s) => i = 0 /\ j = scan[s].j + 1
    <2>1. CASE Inner(s) BY <1>2, <2>1
    <2>2. CASE ~Inner(s) BY <1>2, <2>2
    <2>3. QED BY <2>1, <2>2
<1>4. PICK W : W = [scan[s] EXCEPT !.i = i, !.j = j]
    OBVIOUS
<1>5. /\ W \in Work /\ W.i = i /\ W.j = j
      /\ W.todo = scan[s].todo /\ W.snap = scan[s].snap
    BY <1>2, <1>4 DEF Work
<1>6. scan' = [scan EXCEPT ![s] = W]
    <2>1. CASE Inner(s)
        <3>1. scan' = [scan EXCEPT ![s] = [scan[s] EXCEPT !.i = i]]
            BY <1>2, <1>3, <2>1 DEF Compare, Work
        <3>2. [scan[s] EXCEPT !.i = i] = W
            BY <1>2, <1>3, <1>4, <2>1 DEF Work
        <3>3. QED
            BY <3>1, <3>2
    <2>2. CASE ~Inner(s)
        <3>1. scan' = [scan EXCEPT ![s] = [scan[s] EXCEPT !.j = j, !.i = i]]
            BY <1>2, <1>3, <2>2 DEF Compare, Work
        <3>2. [scan[s] EXCEPT !.j = j, !.i = i] = W
            BY <1>2, <1>3, <1>4, <2>2 DEF Work
        <3>3. QED
            BY <3>1, <3>2
    <2>3. QED BY <2>1, <2>2
<1>7. Local(s)
    BY <1>1, <1>2, <1>5, <1>6 DEF Local
<1>8. scan'[s] = W
    BY <1>2, <1>6
<1>9. QED
    BY <1>1, <1>3, <1>5, <1>7, <1>8

LEMMA SwapLeftFacts ==
    ASSUME Typed, NEW s \in Scans, SwapLeft(s)
    PROVE  /\ Local(s) /\ UNCHANGED <<fill, meta, left>>
           /\ pc[s] = "sort" /\ pc'[s] = "swap"
           /\ Outer(s) /\ Inner(s) /\ ~InOrder(s)
           /\ tbl'[Now(s)] = CopyDown(tbl[Now(s)], scan[s].i + 1)
           /\ scan'[s].tmp = tbl[Now(s)].slot[scan[s].i + 1]
           /\ scan'[s].i = scan[s].i /\ scan'[s].j = scan[s].j
           /\ scan'[s].todo = scan[s].todo /\ scan'[s].snap = scan[s].snap
           /\ scan[s].i + 1 \in Slots /\ scan[s].i + 2 \in Slots
<1>1. /\ pc[s] = "sort" /\ pc' = [pc EXCEPT ![s] = "swap"]
      /\ Outer(s) /\ Inner(s) /\ ~InOrder(s)
      /\ tbl' = [tbl EXCEPT ![Now(s)] = CopyDown(@, scan[s].i + 1)]
      /\ UNCHANGED <<fill, meta, left>>
    BY DEF SwapLeft, Go, history
<1>2. /\ scan \in [Scans -> Work] /\ pc \in [Scans -> Pcs] /\ DOMAIN tbl = Tables
      /\ Now(s) \in Tables /\ tbl[Now(s)] \in TableValues
      /\ scan[s] \in Work /\ scan[s].i \in Nat /\ scan[s].j \in Nat
    BY <1>1, AtATable DEF Typed, ScanInv, FileInv, AtTable, Work
<1>3. scan[s].i + 1 \in Slots /\ scan[s].i + 2 \in Slots
    BY <1>1, <1>2, Constants DEF Inner, Slots, TableValues
<1>4. PICK row \in Row : row = tbl[Now(s)].slot[scan[s].i + 1]
    BY <1>2, <1>3 DEF TableValues
<1>5. PICK W : W = [scan[s] EXCEPT !.tmp = row]
    OBVIOUS
<1>6. /\ W \in Work /\ W.tmp = row /\ W.i = scan[s].i /\ W.j = scan[s].j
      /\ W.todo = scan[s].todo /\ W.snap = scan[s].snap
    BY <1>2, <1>5 DEF Work
<1>7. scan' = [scan EXCEPT ![s] = W]
    BY <1>2, <1>4, <1>5 DEF SwapLeft, Work
<1>8. Local(s)
    BY <1>1, <1>2, <1>6, <1>7 DEF Local, Pcs
<1>9. scan'[s] = W
    BY <1>2, <1>7
<1>10. QED
    BY <1>1, <1>2, <1>3, <1>4, <1>6, <1>8, <1>9

LEMMA SwapRightFacts ==
    ASSUME Typed, NEW s \in Scans, SwapRight(s)
    PROVE  /\ Local(s) /\ UNCHANGED <<fill, meta, left>>
           /\ pc[s] = "swap" /\ pc'[s] = "sort"
           /\ tbl'[Now(s)] = CopyTmp(tbl[Now(s)], scan[s].i + 1, scan[s].tmp)
           /\ scan[s].tmp \in Row
           /\ scan'[s].i = scan[s].i + 1 /\ scan'[s].j = scan[s].j
           /\ scan'[s].todo = scan[s].todo /\ scan'[s].snap = scan[s].snap
           /\ scan[s].i \in Nat /\ scan[s].i + 2 \in Slots
<1>1. /\ pc[s] = "swap" /\ pc' = [pc EXCEPT ![s] = "sort"]
      /\ tbl' = [tbl EXCEPT ![Now(s)] = CopyTmp(@, scan[s].i + 1, scan[s].tmp)]
      /\ UNCHANGED <<fill, meta, left>>
    BY DEF SwapRight, Go, history
<1>2. /\ scan \in [Scans -> Work] /\ pc \in [Scans -> Pcs] /\ DOMAIN tbl = Tables
      /\ Now(s) \in Tables /\ scan[s] \in Work /\ scan[s].i \in Nat /\ scan[s].tmp \in Row
      /\ scan[s].i + 2 \in Slots
    BY <1>1, AtATable DEF Typed, ScanInv, FileInv, AtTable, Work, Placed
<1>3. PICK i \in Nat, row \in Row : i = scan[s].i + 1 /\ row = BlankRow
    BY <1>2, BlankIsRow
<1>4. PICK W : W = [scan[s] EXCEPT !.i = i, !.tmp = row]
    OBVIOUS
<1>5. /\ W \in Work /\ W.i = i /\ W.j = scan[s].j
      /\ W.todo = scan[s].todo /\ W.snap = scan[s].snap
    BY <1>2, <1>4 DEF Work
<1>6. scan' = [scan EXCEPT ![s] = W]
    BY <1>2, <1>3, <1>4 DEF SwapRight, Work
<1>7. Local(s)
    BY <1>1, <1>2, <1>5, <1>6 DEF Local, Pcs
<1>8. scan'[s] = W
    BY <1>2, <1>6
<1>9. QED
    BY <1>1, <1>2, <1>3, <1>5, <1>7, <1>8

LEMMA ListFacts ==
    ASSUME Typed, NEW s \in Scans, ToList(s)
    PROVE  /\ scan' \in [Scans -> Work] /\ pc' \in [Scans -> Pcs]
           /\ \A q \in Scans \ {s} : scan'[q] = scan[q] /\ pc'[q] = pc[q]
           /\ pc'[s] = "list" /\ scan'[s].todo = scan[s].todo
           /\ scan'[s].i = 0 /\ scan'[s].j = 0
<1>1. /\ scan \in [Scans -> Work] /\ pc \in [Scans -> Pcs] /\ scan[s] \in Work
    BY DEF Typed, ScanInv, FileInv
<1>2. PICK rest \in Rests, row \in Rows, f \in Steps, n \in Nat, snap \in Snaps :
         rest = {} /\ row = Null /\ f = 1 /\ n = 0 /\ snap = {}
    <2>1. {} \in Rests /\ Null \in Rows /\ 1 \in Steps /\ {} \in Snaps /\ 0 \in Nat
        BY DEF Rests, Rows, Steps, Snaps
    <2>2. QED
        BY ONLY <2>1
<1>3. PICK W : W = [scan[s] EXCEPT !.rest = rest, !.row = row, !.f = f, !.dev = n,
                                   !.snap = snap, !.i = n, !.j = n]
    OBVIOUS
<1>4. W \in Work /\ W.todo = scan[s].todo /\ W.i = n /\ W.j = n
    BY <1>1, <1>3 DEF Work
<1>5. scan' = [scan EXCEPT ![s] = W]
    BY <1>2, <1>3 DEF ToList
<1>6. QED
    BY <1>1, <1>2, <1>4, <1>5 DEF ToList, Go, Pcs

LEMMA EndTableFacts ==
    ASSUME Typed, NEW s \in Scans, EndTable(s)
    PROVE  /\ Local(s) /\ UNCHANGED <<tbl, left>>
           /\ pc[s] = "sort" /\ pc'[s] = "list" /\ ~Outer(s)
           /\ scan'[s].todo = scan[s].todo /\ scan'[s].i = 0 /\ scan'[s].j = 0
           /\ fill' = [fill EXCEPT ![Now(s)] = IF @ = "filling" THEN "done" ELSE @]
           /\ meta' = (IF Now(s) = "blk" THEN scan[s].snap ELSE meta)
BY ListFacts DEF EndTable, Local, Typed, ScanInv

LEMMA FailTableFacts ==
    ASSUME Typed, NEW s \in Scans, FailTable(s)
    PROVE  /\ Local(s) /\ UNCHANGED <<tbl, meta>>
           /\ pc[s] \in {"clear", "add"} /\ pc'[s] = "list"
           /\ scan'[s].todo = scan[s].todo /\ scan'[s].i = 0 /\ scan'[s].j = 0
           /\ fill' = [fill EXCEPT ![Now(s)] = IF AtWork(s, Now(s)) /\ @ = "filling"
                                                 THEN "failed" ELSE @]
           /\ Spend("hurt")
BY ListFacts DEF FailTable, Local, Typed, ScanInv

LEMMA ListTableFacts ==
    ASSUME Typed, NEW s \in Scans, ListTable(s)
    PROVE  /\ scan' \in [Scans -> Work] /\ pc' \in [Scans -> Pcs]
           /\ \A q \in Scans \ {s} : scan'[q] = scan[q] /\ pc'[q] = pc[q]
           /\ UNCHANGED <<tbl, fill, meta, left>>
           /\ pc[s] = "list" /\ pc'[s] = "open"
           /\ scan'[s].i = scan[s].i /\ scan'[s].j = scan[s].j
<1>1. /\ pc[s] = "list" /\ pc' = [pc EXCEPT ![s] = "open"] /\ UNCHANGED <<tbl, fill, meta, left>>
    BY DEF ListTable, Go, history
<1>2. /\ scan \in [Scans -> Work] /\ pc \in [Scans -> Pcs]
      /\ Now(s) \in Tables /\ scan[s] \in Work /\ tbl[Now(s)] \in TableValues
      /\ scan[s].todo \in Seq(Tables) /\ scan[s].todo # <<>>
    BY <1>1, AtATable DEF Typed, ScanInv, FileInv, AtTable
<1>3. scan[s].out \in Nat /\ tbl[Now(s)].count \in Nat
    BY <1>2, Constants DEF Work, TableValues
<1>4. PICK out \in Nat : out = (IF s = "child" THEN scan[s].out + tbl[Now(s)].count ELSE 0)
    BY <1>3
<1>5. Tail(scan[s].todo) \in Lists /\ <<>> \in Lists
    BY <1>2 DEF Lists
<1>6. PICK todo \in Lists, rc \in Nat :
         /\ todo = (IF Exists(tbl[Now(s)]) THEN Tail(scan[s].todo) ELSE <<>>)
         /\ rc = (IF Exists(tbl[Now(s)]) THEN 0 ELSE 1)
    BY <1>5
<1>7. PICK W : W = [scan[s] EXCEPT !.out = out, !.todo = todo, !.rc = rc]
    OBVIOUS
<1>8. W \in Work /\ W.i = scan[s].i /\ W.j = scan[s].j
    BY <1>2, <1>7 DEF Work
<1>9. scan' = [scan EXCEPT ![s] = W]
    BY <1>2, <1>4, <1>6, <1>7 DEF ListTable, Work
<1>10. QED
    BY <1>1, <1>2, <1>8, <1>9 DEF Pcs

LEMMA IdleFacts == Idle \in Work /\ Idle.i = 0 /\ Idle.j = 0 /\ Idle.todo = <<>>
BY BlankIsRow DEF Idle, Work, Lists, Rests, Rows, Steps, Snaps

LEMMA StartFacts ==
    ASSUME Typed, NEW s \in Scans, NEW tables \in Seq(Tables), Start(s, tables)
    PROVE  /\ scan' \in [Scans -> Work] /\ pc' \in [Scans -> Pcs]
           /\ \A q \in Scans \ {s} : scan'[q] = scan[q] /\ pc'[q] = pc[q]
           /\ pc'[s] = "check" /\ scan'[s].i = 0 /\ scan'[s].j = 0
<1>1. scan \in [Scans -> Work] /\ pc \in [Scans -> Pcs]
    BY DEF Typed, ScanInv, FileInv
<1>2. PICK W : W = [Idle EXCEPT !.todo = tables]
    OBVIOUS
<1>3. W \in Work /\ W.i = 0 /\ W.j = 0
    BY <1>2, IdleFacts DEF Work, Lists
<1>4. scan' = [scan EXCEPT ![s] = W] /\ pc' = [pc EXCEPT ![s] = "check"]
    BY <1>2 DEF Start, Go
<1>5. QED
    BY <1>1, <1>3, <1>4 DEF Pcs

LEMMA GoneFacts ==
    ASSUME Typed, NEW s \in Scans, NEW status, Gone(s, status)
    PROVE  /\ scan' \in [Scans -> Work] /\ pc' \in [Scans -> Pcs]
           /\ \A q \in Scans \ {s} : scan'[q] = scan[q] /\ pc'[q] = pc[q]
           /\ pc'[s] = "none" /\ scan'[s].i = 0 /\ scan'[s].j = 0
           /\ fill' \in [Tables -> Fills]
           /\ \A t \in Tables : fill'[t] = (IF AtWork(s, t) /\ fill[t] = "filling"
                                              THEN "failed" ELSE fill[t])
<1>1. scan \in [Scans -> Work] /\ pc \in [Scans -> Pcs] /\ fill \in [Tables -> Fills]
    BY DEF Typed, ScanInv, FileInv, AroundInv
<1>2. scan' = [scan EXCEPT ![s] = Idle] /\ pc' = [pc EXCEPT ![s] = "none"]
    BY DEF Gone, Go
<1>3. fill' = [t \in Tables |-> IF AtWork(s, t) /\ fill[t] = "filling" THEN "failed" ELSE fill[t]]
    BY DEF Gone
<1>4. fill' \in [Tables -> Fills]
    BY <1>1, <1>3 DEF Fills
<1>5. /\ scan' \in [Scans -> Work] /\ pc' \in [Scans -> Pcs]
      /\ \A q \in Scans \ {s} : scan'[q] = scan[q] /\ pc'[q] = pc[q]
      /\ pc'[s] = "none" /\ scan'[s] = Idle
    BY <1>1, <1>2, IdleFacts DEF Pcs
<1>6. QED
    BY <1>3, <1>4, <1>5, IdleFacts

-----------------------------------------------------------------------------
(* Every step keeps the values.                                            *)

LEMMA AttachedKept ==
    ASSUME left'["disks"] = left["disks"], NEW t
    PROVE  Attached(t)' = Attached(t)
BY DEF Attached

LEMMA ScanInvStep ==
    ASSUME Typed, NEW s \in Scans,
           scan' \in [Scans -> Work], DOMAIN tbl' = Tables,
           \A q \in Scans \ {s} : scan'[q] = scan[q] /\ pc'[q] = pc[q],
           \A t \in Tables : TableInv(tbl'[t]) /\ (Exists(tbl[t]) => Exists(tbl'[t])),
           left'["disks"] = left["disks"],
           Placed(pc'[s], scan'[s], Attached(Head(scan'[s].todo))),
           pc'[s] \in OnRows => Exists(tbl'[Head(scan'[s].todo)])
    PROVE  ScanInv'
<1>1. Placed(pc[s], scan[s], Attached(Now(s)))'
    BY DEF Attached, Now
<1>2. (pc[s] \in OnRows => Exists(tbl[Now(s)]))'
    BY DEF Now
<1>3. ASSUME NEW q \in Scans \ {s}
      PROVE  /\ Placed(pc[q], scan[q], Attached(Now(q)))'
             /\ (pc[q] \in OnRows => Exists(tbl[Now(q)]))'
    <2>1. Placed(pc[q], scan[q], Attached(Now(q)))
        BY DEF Typed, ScanInv
    <2>2. Placed(pc[q], scan[q], Attached(Now(q)))'
        BY <2>1 DEF Attached, Now
    <2>3. ASSUME pc[q] \in OnRows PROVE Exists(tbl'[Now(q)])
        <3>1. Now(q) \in Tables /\ Exists(tbl[Now(q)])
            BY <2>3, AtATable DEF Typed, ScanInv, OnRows, AtTable
        <3>2. QED
            BY <3>1
    <2>4. QED
        BY <2>2, <2>3 DEF Now
<1>4. QED
    BY <1>1, <1>2, <1>3 DEF ScanInv

\* A step of s on its table.
LEMMA LocalStep ==
    ASSUME Typed, NEW s \in Scans, Local(s), pc[s] \in AtTable,
           left'["disks"] = left["disks"], scan'[s].todo = scan[s].todo,
           TableInv(tbl'[Now(s)]), Exists(tbl[Now(s)]) => Exists(tbl'[Now(s)]),
           Placed(pc'[s], scan'[s], Attached(Now(s))),
           pc'[s] \in OnRows => Exists(tbl'[Now(s)])
    PROVE  ScanInv'
<1>1. Now(s) = Head(scan'[s].todo)
    BY DEF Now
<1>2. \A t \in Tables : TableInv(tbl'[t]) /\ (Exists(tbl[t]) => Exists(tbl'[t]))
    BY DEF Local, Typed, ScanInv
<1>3. QED
    BY <1>1, <1>2, ScanInvStep DEF Local

\* A step that leaves the tables alone.
LEMMA TablesKept ==
    ASSUME Typed, NEW s \in Scans, UNCHANGED tbl,
           scan' \in [Scans -> Work],
           \A q \in Scans \ {s} : scan'[q] = scan[q] /\ pc'[q] = pc[q],
           left'["disks"] = left["disks"],
           Placed(pc'[s], scan'[s], Attached(Head(scan'[s].todo))), pc'[s] \notin OnRows
    PROVE  ScanInv'
BY ScanInvStep DEF Typed, ScanInv

LEMMA ScansKept ==
    ASSUME Typed, UNCHANGED <<tbl, pc, scan>>, left'["disks"] = left["disks"]
    PROVE  ScanInv'
BY DEF Typed, ScanInv, Attached, Now

LEMMA SpendFacts ==
    ASSUME Typed, NEW e \in Around, e \notin {"ini", "disks"}, Spend(e)
    PROVE  /\ left' \in [Around -> Nat] /\ left'["disks"] = left["disks"]
           /\ left'["ini"] = left["ini"] /\ left'["ini"] \in DOMAIN Inis
BY DEF Typed, AroundInv, Spend, Around

LEMMA CollectTyped == ASSUME Typed, NEW s \in Scans, Collect(s) PROVE ScanInv'
<1>1. Now(s) = Head(scan'[s].todo)
    BY CollectFacts DEF Now
<1>2. Placed("clear", scan'[s], Attached(Now(s)))
    <2>1. scan[s].i = 0 /\ scan[s].j = 0
        BY CollectFacts DEF Typed, ScanInv, Placed
    <2>2. QED
        BY <2>1, CollectFacts DEF Placed
<1>3. QED
    BY <1>1, <1>2, CollectFacts, TablesKept DEF Local, OnRows

LEMMA ClearTyped == ASSUME Typed, NEW s \in Scans, ClearTable(s) PROVE ScanInv'
<1>1. Placed(pc[s], scan[s], Attached(Now(s)))
    BY DEF Typed, ScanInv
<1>2. Placed(pc'[s], scan'[s], Attached(Now(s)))
    BY <1>1, ClearFacts DEF Placed, AtTable
<1>3. QED
    BY <1>2, ClearFacts, LocalStep DEF AtTable

LEMMA AddTyped == ASSUME Typed, NEW s \in Scans, AddRecord(s) PROVE ScanInv'
<1>1. Placed(pc[s], scan[s], Attached(Now(s))) /\ Exists(tbl[Now(s)])
    BY AddFacts DEF Typed, ScanInv, OnRows
<1>2. Placed(pc'[s], scan'[s], Attached(Now(s)))
    BY <1>1, AddFacts DEF Placed, AtTable, FieldsOf, NewSlot
<1>3. tbl[Now(s)] \in TableValues /\ TableInv(tbl[Now(s)])
    BY AddFacts, AtATable DEF AtTable
<1>4. Added(tbl[Now(s)]) \in TableValues /\ TableInv(Added(tbl[Now(s)])) /\ Exists(Added(tbl[Now(s)]))
    BY <1>1, <1>3, AddFacts, AddedFacts DEF TableInv, Exists, TableValues
<1>5. QED
    BY <1>2, <1>4, AddFacts, LocalStep DEF AtTable

LEMMA SetTyped == ASSUME Typed, NEW s \in Scans, SetField(s) PROVE ScanInv'
<1>1. Placed(pc[s], scan[s], Attached(Now(s))) /\ Exists(tbl[Now(s)])
    BY SetFacts DEF Typed, ScanInv, OnRows
<1>2. Placed(pc'[s], scan'[s], Attached(Now(s)))
    <2>1. Len(FieldsOf(Now(s))) \in Nat /\ Now(s) = Head(scan'[s].todo)
        BY SetFacts, FieldNames DEF Now
    <2>2. CASE pc'[s] = "set"
        <3>1. scan[s].f < Len(FieldsOf(Now(s)))
            BY <2>2, SetFacts
        <3>2. scan[s].f + 1 \in 1 .. Len(FieldsOf(Head(scan'[s].todo)))
            BY <2>1, <3>1, SetFacts
        <3>3. QED
            BY <1>1, <2>2, <3>2, SetFacts DEF Placed, AtTable
    <2>3. CASE pc'[s] \in {"sort", "add"}
        BY <1>1, <2>3, SetFacts DEF Placed, AtTable
    <2>4. QED
        BY <2>2, <2>3, SetFacts
<1>3. tbl[Now(s)] \in TableValues /\ TableInv(tbl[Now(s)])
    BY SetFacts, AtATable DEF AtTable
<1>4. tbl'[Now(s)] \in TableValues /\ TableInv(tbl'[Now(s)]) /\ Exists(tbl'[Now(s)])
    BY <1>1, <1>3, SetFacts, PutFacts DEF TableInv, Exists
<1>5. QED
    BY <1>2, <1>4, SetFacts, LocalStep DEF AtTable

LEMMA CompareTyped == ASSUME Typed, NEW s \in Scans, Compare(s) PROVE ScanInv'
<1>1. Placed(pc[s], scan[s], Attached(Now(s))) /\ Exists(tbl[Now(s)])
    BY CompareFacts DEF Typed, ScanInv, OnRows
<1>2. Placed(pc'[s], scan'[s], Attached(Now(s)))
    BY <1>1, CompareFacts DEF Placed, AtTable
<1>3. TableInv(tbl[Now(s)])
    BY CompareFacts, AtATable DEF AtTable
<1>4. QED
    BY <1>1, <1>2, <1>3, CompareFacts, LocalStep DEF AtTable

LEMMA SwapLeftTyped == ASSUME Typed, NEW s \in Scans, SwapLeft(s) PROVE ScanInv'
<1>1. Placed(pc[s], scan[s], Attached(Now(s))) /\ Exists(tbl[Now(s)])
    BY SwapLeftFacts DEF Typed, ScanInv, OnRows
<1>2. Placed(pc'[s], scan'[s], Attached(Now(s)))
    BY <1>1, SwapLeftFacts DEF Placed, AtTable
<1>3. tbl[Now(s)] \in TableValues /\ TableInv(tbl[Now(s)])
    BY SwapLeftFacts, AtATable DEF AtTable
<1>4. tbl'[Now(s)] \in TableValues /\ TableInv(tbl'[Now(s)]) /\ Exists(tbl'[Now(s)])
    <2>1. PICK T \in TableValues, r \in Slots : T = tbl[Now(s)] /\ r = scan[s].i + 1
        BY <1>3, SwapLeftFacts
    <2>2. r + 1 \in Slots
        BY <2>1, SwapLeftFacts DEF Slots, Typed, ScanInv, Work
    <2>3. tbl'[Now(s)] = CopyDown(T, r)
        BY <2>1, SwapLeftFacts
    <2>4. QED
        <3>1. TableInv(T) /\ Exists(T) BY <1>1, <1>3, <2>1
        <3>2. CopyDown(T, r) \in TableValues /\ CopyDown(T, r).count = T.count
              /\ CopyDown(T, r).idnext = T.idnext /\ CopyDown(T, r).alloced = T.alloced
            BY <2>2, CopyDownFacts
        <3>3. QED BY <2>3, <3>1, <3>2 DEF TableInv, Exists
<1>5. QED
    BY <1>2, <1>4, SwapLeftFacts, LocalStep DEF AtTable

LEMMA SwapRightTyped == ASSUME Typed, NEW s \in Scans, SwapRight(s) PROVE ScanInv'
<1>1. Placed(pc[s], scan[s], Attached(Now(s))) /\ Exists(tbl[Now(s)])
    BY SwapRightFacts DEF Typed, ScanInv, OnRows
<1>2. Placed(pc'[s], scan'[s], Attached(Now(s)))
    BY <1>1, SwapRightFacts DEF Placed, AtTable
<1>3. tbl[Now(s)] \in TableValues /\ TableInv(tbl[Now(s)])
    BY SwapRightFacts, AtATable DEF AtTable
<1>4. scan[s].i + 1 + 1 \in Slots
    BY SwapRightFacts DEF Slots
<1>5. tbl'[Now(s)] \in TableValues /\ TableInv(tbl'[Now(s)]) /\ Exists(tbl'[Now(s)])
    <2>1. PICK T \in TableValues, r \in Nat, row \in Row :
             T = tbl[Now(s)] /\ r = scan[s].i + 1 /\ row = scan[s].tmp
        BY <1>3, SwapRightFacts
    <2>2. tbl'[Now(s)] = CopyTmp(T, r, row) /\ r + 1 \in Slots
        BY <1>4, <2>1, SwapRightFacts
    <2>3. QED
        <3>1. TableInv(T) /\ Exists(T) BY <1>1, <1>3, <2>1
        <3>2. CopyTmp(T, r, row) \in TableValues /\ CopyTmp(T, r, row).count = T.count
              /\ CopyTmp(T, r, row).idnext = T.idnext /\ CopyTmp(T, r, row).alloced = T.alloced
            BY <2>2, CopyTmpFacts
        <3>3. QED BY <2>2, <3>1, <3>2 DEF TableInv, Exists
<1>6. QED
    BY <1>2, <1>5, SwapRightFacts, LocalStep DEF AtTable

\* An end of the scan of a table.
LEMMA ListTyped ==
    ASSUME Typed, NEW s \in Scans, Local(s), UNCHANGED tbl, left'["disks"] = left["disks"],
           pc[s] \in AtTable, pc'[s] = "list", scan'[s].todo = scan[s].todo,
           scan'[s].i = 0, scan'[s].j = 0
    PROVE  ScanInv'
<1>1. Placed("list", scan'[s], Attached(Head(scan'[s].todo)))
    BY AtATable DEF Placed
<1>2. QED
    BY <1>1, TablesKept DEF Local, OnRows

LEMMA TaskFacts ==
    ASSUME Typed, tester.k \in DOMAIN Tasks
    PROVE  IsTask(Task) /\ Task.scan \in Seq(Tables)
BY DevScanAssumption DEF Typed, AroundInv, Tasks, Task, IsTask

\* What never changes: the ini and the disks that are attached.
Fixed == left' \in [Around -> Nat] /\ left'["disks"] = left["disks"] /\ left'["ini"] = left["ini"]

LEMMA SpendFixed ==
    ASSUME Typed, NEW e \in Around \ {"ini", "disks"}, Spend(e)
    PROVE  Fixed
BY SpendFacts DEF Fixed

LEMMA AroundKept ==
    ASSUME Typed, Fixed, fill' \in [Tables -> Fills], mounted' = mounted
    PROVE  AroundInv'
BY DEF Typed, AroundInv, Fixed

LEMMA ScanStepTyped == ASSUME Typed, NEW s \in Scans, ScanStep(s) PROVE ScanInv' /\ AroundInv' /\ Fixed
<1>1. scan \in [Scans -> Work] /\ left \in [Around -> Nat] /\ fill \in [Tables -> Fills]
    BY DEF Typed, ScanInv, AroundInv
<1>2. CASE Check(s) \/ WritePid(s)
    <2>1. PICK to \in {"write", "open"} :
             /\ pc' = [pc EXCEPT ![s] = to] /\ UNCHANGED <<tbl, scan, left, fill, mounted>>
             /\ pc[s] \in {"check", "write"}
        BY <1>2 DEF Check, WritePid, Go, history, outside
    <2>2. pc \in [Scans -> Pcs] /\ Placed(pc[s], scan[s], Attached(Now(s)))
        BY DEF Typed, FileInv, ScanInv
    <2>3. Placed(to, scan[s], Attached(Now(s)))
        BY <2>1, <2>2 DEF Placed, AtTable
    <2>4. Fixed
        BY <1>1, <2>1 DEF Fixed
    <2>5. QED
        BY <1>1, <2>1, <2>2, <2>3, <2>4, TablesKept, AroundKept DEF OnRows, Now, Fixed
<1>3. CASE Collect(s)
    BY <1>1, <1>3, CollectTyped, CollectFacts, AroundKept DEF Fixed, Collect, outside
<1>4. CASE ClearTable(s)
    <2>1. fill' \in [Tables -> Fills]
        BY <1>1, <1>4, ClearFacts DEF Fills
    <2>2. QED
        BY <1>1, <1>4, <2>1, ClearTyped, ClearFacts, AroundKept DEF Fixed, ClearTable, outside
<1>5. CASE AddRecord(s)
    BY <1>1, <1>5, AddTyped, AddFacts, AroundKept DEF Fixed, AddRecord, outside
<1>6. CASE SetField(s)
    BY <1>1, <1>6, SetTyped, SetFacts, AroundKept DEF Fixed, SetField, outside
<1>7. CASE Compare(s)
    BY <1>1, <1>7, CompareTyped, CompareFacts, AroundKept DEF Fixed, Compare, outside
<1>8. CASE SwapLeft(s)
    BY <1>1, <1>8, SwapLeftTyped, SwapLeftFacts, AroundKept DEF Fixed, SwapLeft, outside
<1>9. CASE SwapRight(s)
    BY <1>1, <1>9, SwapRightTyped, SwapRightFacts, AroundKept DEF Fixed, SwapRight, outside
<1>10. CASE EndTable(s)
    <2>1. fill' \in [Tables -> Fills]
        BY <1>1, <1>10, EndTableFacts DEF Fills
    <2>2. ScanInv'
        BY <1>10, EndTableFacts, ListTyped DEF AtTable
    <2>3. QED
        BY <1>1, <1>10, <2>1, <2>2, EndTableFacts, AroundKept DEF Fixed, EndTable, outside
<1>11. CASE ListTable(s)
    <2>1. Placed("open", scan'[s], Attached(Head(scan'[s].todo)))
        <3>1. scan[s].i = 0 /\ scan[s].j = 0
            BY <1>11, ListTableFacts DEF Typed, ScanInv, Placed
        <3>2. QED
            BY <1>11, <3>1, ListTableFacts DEF Placed, AtTable
    <2>2. ScanInv'
        BY <1>11, <2>1, ListTableFacts, TablesKept DEF OnRows
    <2>3. QED
        BY <1>1, <1>11, <2>2, ListTableFacts, AroundKept DEF Fixed, ListTable, outside
<1>12. ASSUME NEW status, Gone(s, status), UNCHANGED <<tbl, left, mounted>>
       PROVE  ScanInv' /\ AroundInv' /\ Fixed
    <2>1. Placed("none", scan'[s], Attached(Head(scan'[s].todo)))
        BY <1>12, GoneFacts DEF Placed, AtTable
    <2>2. ScanInv'
        BY <1>12, <2>1, GoneFacts, TablesKept DEF OnRows
    <2>3. QED
        BY <1>1, <1>12, <2>2, GoneFacts, AroundKept DEF Fixed
<1>13. CASE Exit(s)
    BY <1>12, <1>13 DEF Exit, outside
<1>14. QED
    BY <1>2, <1>3, <1>4, <1>5, <1>6, <1>7, <1>8, <1>9, <1>10, <1>11, <1>13 DEF ScanStep

\* What kills a scan or starts one.
LEMMA FaultTyped ==
    ASSUME Typed, NEW s \in Scans, FailTable(s) \/ Terminate(s) \/ Crash(s)
    PROVE  ScanInv' /\ AroundInv' /\ Fixed
<1>1. Fixed
    BY SpendFixed DEF FailTable, Terminate, Crash, Around
<1>2. CASE FailTable(s)
    <2>1. fill' \in [Tables -> Fills]
        BY <1>2, FailTableFacts DEF Typed, AroundInv, Fills
    <2>2. ScanInv'
        BY <1>1, <1>2, FailTableFacts, ListTyped DEF AtTable, Fixed
    <2>3. QED
        BY <1>1, <1>2, <2>1, <2>2, AroundKept DEF FailTable, outside
<1>3. CASE Terminate(s) \/ Crash(s)
    <2>1. Gone(s, 1) /\ UNCHANGED <<tbl, mounted>>
        BY <1>3 DEF Terminate, Crash, outside
    <2>2. Placed("none", scan'[s], Attached(Head(scan'[s].todo)))
        BY <2>1, GoneFacts DEF Placed, AtTable
    <2>3. ScanInv'
        BY <1>1, <2>1, <2>2, GoneFacts, TablesKept DEF OnRows, Fixed
    <2>4. QED
        BY <1>1, <2>1, <2>3, GoneFacts, AroundKept
<1>4. QED
    BY <1>2, <1>3

LEMMA BeginTyped ==
    ASSUME Typed, NEW s \in Scans, NEW tables \in Seq(Tables), Start(s, tables),
           Fixed, UNCHANGED <<tbl, fill, mounted>>
    PROVE  ScanInv' /\ AroundInv'
<1>1. Placed("check", scan'[s], Attached(Head(scan'[s].todo)))
    BY StartFacts DEF Placed, AtTable
<1>2. ScanInv'
    BY <1>1, StartFacts, TablesKept DEF OnRows, Fixed
<1>3. QED
    BY <1>2, AroundKept DEF Typed, AroundInv

LEMMA OtherTyped ==
    ASSUME Typed, UNCHANGED <<tbl, pc, scan, fill>>, Fixed, mounted' \subseteq Devices["blk"]
    PROVE  ScanInv' /\ AroundInv'
BY ScansKept DEF Typed, AroundInv, Fixed

LEMMA StepValues == ASSUME Typed, [Next]_vars PROVE ScanInv' /\ AroundInv' /\ Fixed
<1>1. left \in [Around -> Nat] /\ mounted \subseteq Devices["blk"]
    BY DEF Typed, AroundInv
<1>2. CASE UNCHANGED vars
    BY <1>1, <1>2, OtherTyped DEF vars, Fixed
<1>3. ASSUME NEW s \in Scans, ScanStep(s) \/ FailTable(s) \/ Terminate(s) \/ Crash(s)
      PROVE  ScanInv' /\ AroundInv' /\ Fixed
    BY <1>3, ScanStepTyped, FaultTyped
<1>4. CASE ScanByHand
    <2>1. Fixed /\ <<"blk">> \in Seq(Tables) /\ "hand" \in Scans
        BY <1>4, SpendFixed, Constants DEF ScanByHand, Around, Scans
    <2>2. QED
        BY <1>4, <2>1, BeginTyped DEF ScanByHand, outside, history
<1>5. CASE OpenScan
    <2>1. Fixed /\ Task.scan \in Seq(Tables) /\ "child" \in Scans
        BY <1>1, <1>5, TaskFacts DEF OpenScan, Fixed, Scans
    <2>2. QED
        BY <1>5, <2>1, BeginTyped DEF OpenScan, outside, history
<1>6. CASE LoadIni \/ HddRun \/ GetIFsFails
    <2>1. Fixed
        BY <1>6, SpendFixed DEF LoadIni, HddRun, GetIFsFails, Around
    <2>2. QED
        BY <1>1, <1>6, <2>1, OtherTyped DEF LoadIni, HddRun, GetIFsFails, devscans, outside, history
<1>7. CASE Mount
    <2>1. Fixed
        BY <1>7, SpendFixed DEF Mount, Around
    <2>2. mounted' \subseteq Devices["blk"]
        BY <1>1, <1>7 DEF Mount
    <2>3. QED
        BY <1>7, <2>1, <2>2, OtherTyped DEF Mount, devscans, history
<1>8. CASE HddStep
    BY <1>1, <1>8, OtherTyped DEF HddStep, HddFind, HddMount, HddEnd, devscans, history, Fixed
<1>9. CASE CpuTest \/ MemTest \/ Walk \/ Probe \/ Report \/ EndScanDev
    BY <1>1, <1>9, OtherTyped DEF CpuTest, MemTest, Walk, Probe, Report, EndScanDev, devscans,
        outside, history, Fixed
<1>10. QED
    BY <1>2, <1>3, <1>4, <1>5, <1>6, <1>7, <1>8, <1>9 DEF Next, TesterStep

LEMMA InitTyped == Init => Typed
<1> SUFFICES ASSUME Init PROVE Typed
    OBVIOUS
<1>1. FileInv
    BY InitRun DEF RunInv
<1>2. AroundInv
    BY DevScanAssumption DEF Init, AroundInv, Fills
<1>3. \A t \in Tables : TableInv(tbl[t])
    BY CreatedFacts DEF Init, TableInv, TableValues
<1>4. ScanInv
    BY <1>3, IdleFacts DEF Init, ScanInv, Placed, AtTable, OnRows
<1>5. QED
    BY <1>1, <1>2, <1>4 DEF Typed

LEMMA StepTyped == RunInv /\ Typed /\ [Next]_vars => Typed'
BY StepRun, StepValues DEF Typed, RunInv

-----------------------------------------------------------------------------
(* What the work of a scan makes of a table, step by step.                 *)

Complete(t, row, snap) ==
    /\ row["info"] = 1
    /\ t = "blk" => (row["mount"] = 1 <=> row["key"] \in snap)

\* The first m records stand for the devices K, one each.
Filled(t, slot, m, K, snap) ==
    /\ \A r \in 1 .. m : slot[r]["key"] \in K /\ Complete(t, slot[r], snap)
    /\ \A d \in K : \E r \in 1 .. m : slot[r]["key"] = d
    /\ \A r, q \in 1 .. m : r # q => slot[r]["key"] # slot[q]["key"]

IdsInUse(slot, n) ==
    /\ \A r \in 1 .. n : slot[r]["id"] \in 0 .. n - 1
    /\ \A k \in 0 .. n - 1 : \E r \in 1 .. n : slot[r]["id"] = k

WholeRows(t, slot, n, K, snap) == Filled(t, slot, n, K, snap) /\ IdsInUse(slot, n)

\* The bubble sort: slot i + 1 holds the greatest key so far of this turn, the
\* last j slots the greatest of all.
Bubble(slot, n, i, j) ==
    /\ i + j < n \/ (n = 0 /\ i = 0 /\ j = 0)
    /\ \A r \in 1 .. i : slot[r]["key"] < slot[i + 1]["key"]
    /\ \A q \in n - j + 1 .. n : \A r \in 1 .. q - 1 : slot[r]["key"] < slot[q]["key"]

Sorted(slot, n) == \A r, q \in 1 .. n : r < q => slot[r]["key"] < slot[q]["key"]

\* What SetField writes of the device that S is at.
Written(S, f) ==
    CASE f = "key" -> S.dev [] f = "info" -> 1 [] f = "mount" -> IF S.dev \in S.snap THEN 1 ELSE 0

\* A scan S at p, at work on the table T of t alone, for the devices A.
WorkOn(p, t, A, T, S) ==
    LET n == T.count IN
    /\ p \in {"add", "set"} => \A r \in 1 .. n : T.slot[r]["id"] = r - 1
    /\ p = "add" => Filled(t, T.slot, n, A \ S.rest, S.snap)
    /\ p = "set" => /\ S.row = n /\ n > 0 /\ S.dev \in A \ S.rest
                    /\ Filled(t, T.slot, n - 1, A \ (S.rest \cup {S.dev}), S.snap)
                    /\ \A g \in 1 .. S.f - 1 :
                          T.slot[n][FieldsOf(t)[g]] = Written(S, FieldsOf(t)[g])
    /\ p = "sort" => WholeRows(t, T.slot, n, A, S.snap) /\ Bubble(T.slot, n, S.i, S.j)
    /\ p = "swap" => LET slot == [T.slot EXCEPT ![S.i + 2] = S.tmp] IN
                     /\ S.i + 2 <= n
                     /\ WholeRows(t, slot, n, A, S.snap) /\ Bubble(slot, n, S.i + 1, S.j)

\* No record, no device.
LEMMA NoRows ==
    ASSUME NEW t, NEW slot, NEW A, NEW snap
    PROVE  /\ Filled(t, slot, 0, {}, snap) /\ IdsInUse(slot, 0) /\ Bubble(slot, 0, 0, 0)
           /\ Filled(t, slot, 0, A \ A, snap)
BY DEF Filled, IdsInUse, Bubble

\* One more record, with all its fields.
LEMMA FilledMore ==
    ASSUME NEW t, NEW slot, NEW slot2, NEW m \in Nat, NEW K, NEW d, NEW snap,
           Filled(t, slot, m, K, snap), d \notin K,
           \A r \in 1 .. m : slot2[r] = slot[r],
           slot2[m + 1]["key"] = d, Complete(t, slot2[m + 1], snap)
    PROVE  Filled(t, slot2, m + 1, K \cup {d}, snap)
<1>1. \A r \in 1 .. m + 1 : r \in 1 .. m \/ r = m + 1
    OBVIOUS
<1>2. \A r \in 1 .. m + 1 : slot2[r]["key"] \in K \cup {d} /\ Complete(t, slot2[r], snap)
    BY <1>1 DEF Filled
<1>3. ASSUME NEW e \in K \cup {d} PROVE \E r \in 1 .. m + 1 : slot2[r]["key"] = e
    <2>1. CASE e = d
        BY <2>1
    <2>2. CASE e \in K
        <3>1. PICK r \in 1 .. m : slot[r]["key"] = e
            BY <2>2 DEF Filled
        <3>2. slot2[r]["key"] = e /\ r \in 1 .. m + 1
            BY <3>1
        <3>3. QED
            BY <3>2
    <2>3. QED
        BY <2>1, <2>2
<1>4. ASSUME NEW r \in 1 .. m + 1, NEW q \in 1 .. m + 1, r # q
      PROVE  slot2[r]["key"] # slot2[q]["key"]
    BY <1>1, <1>4 DEF Filled
<1>5. QED
    BY <1>2, <1>3, <1>4 DEF Filled

LEMMA FilledSame ==
    ASSUME NEW t, NEW slot, NEW slot2, NEW m \in Nat, NEW K, NEW snap,
           Filled(t, slot, m, K, snap), \A r \in 1 .. m : slot2[r] = slot[r]
    PROVE  Filled(t, slot2, m, K, snap)
BY DEF Filled

\* An exchange of two neighbours changes nothing but the order.
LEMMA Swapped ==
    ASSUME NEW t, NEW slot, NEW slot2, NEW n \in Nat, NEW i \in Nat, i + 2 <= n, NEW K, NEW snap,
           WholeRows(t, slot, n, K, snap),
           slot2[i + 1] = slot[i + 2], slot2[i + 2] = slot[i + 1],
           \A r \in 1 .. n : r # i + 1 /\ r # i + 2 => slot2[r] = slot[r]
    PROVE  WholeRows(t, slot2, n, K, snap)
<1> DEFINE turn(r) == IF r = i + 1 THEN i + 2 ELSE IF r = i + 2 THEN i + 1 ELSE r
<1>1. \A r \in 1 .. n : turn(r) \in 1 .. n /\ turn(turn(r)) = r /\ slot2[r] = slot[turn(r)]
    OBVIOUS
<1>2. \A r, q \in 1 .. n : r # q => turn(r) # turn(q)
    OBVIOUS
<1> HIDE DEF turn
<1>3. \A r \in 1 .. n : /\ slot2[r]["key"] \in K /\ Complete(t, slot2[r], snap)
                        /\ slot2[r]["id"] \in 0 .. n - 1
    BY <1>1 DEF WholeRows, Filled, IdsInUse
<1>4. ASSUME NEW d \in K PROVE \E r \in 1 .. n : slot2[r]["key"] = d
    <2>1. PICK r \in 1 .. n : slot[r]["key"] = d
        BY DEF WholeRows, Filled
    <2>2. turn(r) \in 1 .. n /\ slot2[turn(r)] = slot[r]
        BY <1>1
    <2>3. QED
        BY <2>1, <2>2
<1>5. ASSUME NEW k \in 0 .. n - 1 PROVE \E r \in 1 .. n : slot2[r]["id"] = k
    <2>1. PICK r \in 1 .. n : slot[r]["id"] = k
        BY DEF WholeRows, IdsInUse
    <2>2. turn(r) \in 1 .. n /\ slot2[turn(r)] = slot[r]
        BY <1>1
    <2>3. QED
        BY <2>1, <2>2
<1>6. ASSUME NEW r \in 1 .. n, NEW q \in 1 .. n, r # q PROVE slot2[r]["key"] # slot2[q]["key"]
    BY <1>1, <1>2, <1>6 DEF WholeRows, Filled
<1>7. QED
    BY <1>3, <1>4, <1>5, <1>6 DEF WholeRows, Filled, IdsInUse

\* One turn of the inner loop on neighbours that are in order.
LEMMA BubbleOn ==
    ASSUME NEW slot, NEW n \in Nat, NEW i \in Nat, NEW j \in Nat,
           \A r \in 1 .. n : slot[r]["key"] \in Nat,
           Bubble(slot, n, i, j), i < n - j - 1, slot[i + 1]["key"] < slot[i + 2]["key"]
    PROVE  Bubble(slot, n, i + 1, j)
<1>1. ASSUME NEW r \in 1 .. i + 1 PROVE slot[r]["key"] < slot[i + 2]["key"]
    <2>1. r = i + 1 \/ (r \in 1 .. i /\ slot[r]["key"] < slot[i + 1]["key"])
        BY DEF Bubble
    <2>2. r \in 1 .. n /\ i + 1 \in 1 .. n /\ i + 2 \in 1 .. n
        OBVIOUS
    <2>3. QED
        BY <2>1, <2>2
<1>2. QED
    BY <1>1 DEF Bubble

\* The greatest key of a turn has come to its place.
LEMMA BubbleNext ==
    ASSUME NEW slot, NEW n \in Nat, NEW i \in Nat, NEW j \in Nat,
           Bubble(slot, n, i, j), ~(i < n - j - 1), j < n - 1
    PROVE  Bubble(slot, n, 0, j + 1)
<1>1. i + 1 = n - j
    BY DEF Bubble
<1>2. ASSUME NEW q \in n - (j + 1) + 1 .. n, NEW r \in 1 .. q - 1
      PROVE  slot[r]["key"] < slot[q]["key"]
    <2>1. CASE q = i + 1
        BY <1>1, <2>1 DEF Bubble
    <2>2. CASE q # i + 1
        <3>1. q \in n - j + 1 .. n
            BY <1>1, <2>2
        <3>2. QED
            BY <3>1 DEF Bubble
    <2>3. QED
        BY <2>1, <2>2
<1>3. QED
    BY <1>1, <1>2 DEF Bubble

\* An exchange of two neighbours that are out of order.
LEMMA BubbleSwap ==
    ASSUME NEW slot, NEW slot2, NEW n \in Nat, NEW i \in Nat, NEW j \in Nat,
           Bubble(slot, n, i, j), i < n - j - 1, slot[i + 2]["key"] < slot[i + 1]["key"],
           slot2[i + 1] = slot[i + 2], slot2[i + 2] = slot[i + 1],
           \A r \in 1 .. n : r # i + 1 /\ r # i + 2 => slot2[r] = slot[r]
    PROVE  Bubble(slot2, n, i + 1, j)
<1>1. ASSUME NEW r \in 1 .. i + 1 PROVE slot2[r]["key"] < slot2[i + 2]["key"]
    <2>1. CASE r = i + 1
        BY <2>1
    <2>2. CASE r # i + 1
        <3>1. r \in 1 .. i /\ slot2[r] = slot[r]
            BY <2>2
        <3>2. QED
            BY <3>1 DEF Bubble
    <2>3. QED
        BY <2>1, <2>2
<1>2. ASSUME NEW q \in n - j + 1 .. n, NEW r \in 1 .. q - 1
      PROVE  slot2[r]["key"] < slot2[q]["key"]
    <2>1. slot2[q] = slot[q] /\ q > i + 2
        OBVIOUS
    <2>2. \A e \in 1 .. q - 1 : slot[e]["key"] < slot[q]["key"]
        BY DEF Bubble
    <2>3. \E e \in 1 .. q - 1 : slot2[r] = slot[e]
        BY <2>1
    <2>4. QED
        BY <2>1, <2>2, <2>3
<1>3. QED
    BY <1>1, <1>2 DEF Bubble

LEMMA BubbleEnd ==
    ASSUME NEW slot, NEW n \in Nat, NEW i \in Nat, NEW j \in Nat,
           Bubble(slot, n, i, j), ~(j < n - 1)
    PROVE  Sorted(slot, n)
<1>1. n = 0 \/ j = n - 1
    BY DEF Bubble
<1>2. ASSUME NEW r \in 1 .. n, NEW q \in 1 .. n, r < q
      PROVE  slot[r]["key"] < slot[q]["key"]
    <2>1. q \in n - j + 1 .. n /\ r \in 1 .. q - 1
        BY <1>1, <1>2
    <2>2. QED
        BY <2>1 DEF Bubble
<1>3. QED
    BY <1>2 DEF Sorted

-----------------------------------------------------------------------------
(* What the tables hold, whoever is at work on them.                       *)

OneTable(t) ==
    /\ fill[t] # "mixed" => \A p, q \in Scans : AtWork(p, t) /\ AtWork(q, t) => p = q
    /\ fill[t] \notin {"filling", "mixed"} => \A s \in Scans : ~AtWork(s, t)
    /\ fill[t] = "done" =>
         /\ WholeRows(t, tbl[t].slot, tbl[t].count, Attached(t), meta)
         /\ Sorted(tbl[t].slot, tbl[t].count)
    /\ fill[t] = "filling" =>
         \A s \in Scans : AtWork(s, t) => WorkOn(pc[s], t, Attached(t), tbl[t], scan[s])

TabInv == \A t \in Tables : OneTable(t)

\* Only the table of the disks has a column for the mounts.
LEMMA AnySnap ==
    ASSUME NEW t, t # "blk", NEW slot, NEW n, NEW K, NEW a, NEW b, WholeRows(t, slot, n, K, a)
    PROVE  WholeRows(t, slot, n, K, b)
BY DEF WholeRows, Filled, Complete

\* A table that nobody new is at work on.
LEMMA TableKept ==
    ASSUME NEW t \in Tables, OneTable(t), left'["disks"] = left["disks"],
           tbl'[t] = tbl[t], fill'[t] = fill[t], meta' = meta \/ t # "blk",
           \A q \in Scans : AtWork(q, t)' => AtWork(q, t) /\ pc'[q] = pc[q] /\ scan'[q] = scan[q]
    PROVE  OneTable(t)'
<1>1. Attached(t)' = Attached(t)
    BY AttachedKept
<1>2. (fill[t] # "mixed" => \A p, q \in Scans : AtWork(p, t) /\ AtWork(q, t) => p = q)'
    BY DEF OneTable
<1>3. (fill[t] \notin {"filling", "mixed"} => \A s \in Scans : ~AtWork(s, t))'
    BY DEF OneTable
<1>4. ASSUME fill'[t] = "done"
      PROVE  /\ WholeRows(t, tbl'[t].slot, tbl'[t].count, Attached(t), meta')
             /\ Sorted(tbl'[t].slot, tbl'[t].count)
    BY <1>4, AnySnap DEF OneTable
<1>5. ASSUME fill'[t] = "filling", NEW s \in Scans, AtWork(s, t)'
      PROVE  WorkOn(pc'[s], t, Attached(t), tbl'[t], scan'[s])
    BY <1>5 DEF OneTable
<1>6. QED
    BY <1>1, <1>2, <1>3, <1>4, <1>5 DEF OneTable

\* The scan that was at work on it alone has failed or is gone.
LEMMA TableFailed ==
    ASSUME NEW t \in Tables, OneTable(t), NEW s \in Scans, AtWork(s, t), ~AtWork(s, t)',
           fill[t] = "filling", fill'[t] = "failed",
           \A q \in Scans \ {s} : AtWork(q, t)' => AtWork(q, t)
    PROVE  OneTable(t)'
<1>1. \A q \in Scans : ~AtWork(q, t)'
    BY DEF OneTable
<1>2. QED
    BY <1>1 DEF OneTable

\* The tables that s is not at.
LEMMA OtherTables ==
    ASSUME Typed, TabInv, NEW s \in Scans, Local(s), left'["disks"] = left["disks"],
           scan'[s].todo = scan[s].todo, \A u \in Tables \ {Now(s)} : fill'[u] = fill[u],
           meta' = meta \/ Now(s) = "blk", NEW t \in Tables, t # Now(s)
    PROVE  OneTable(t)'
<1>1. \A q \in Scans : AtWork(q, t)' => AtWork(q, t) /\ pc'[q] = pc[q] /\ scan'[q] = scan[q]
    BY DEF Local, AtWork, Now
<1>2. QED
    BY <1>1, TableKept DEF Local, TabInv

\* s stays at work on its table.
LEMMA TableWorked ==
    ASSUME Typed, TabInv, NEW s \in Scans, Local(s), left'["disks"] = left["disks"],
           scan'[s].todo = scan[s].todo, UNCHANGED <<fill, meta>>,
           pc[s] \in OnRows, pc'[s] \in OnRows,
           WorkOn(pc[s], Now(s), Attached(Now(s)), tbl[Now(s)], scan[s])
             => WorkOn(pc'[s], Now(s), Attached(Now(s)), tbl'[Now(s)], scan'[s])
    PROVE  TabInv'
<1>1. PICK t \in Tables : t = Now(s)
    BY AtATable DEF OnRows, AtTable
<1>2. OneTable(t)
    BY DEF TabInv
<1>3. Attached(t)' = Attached(t)
    BY AttachedKept
<1>4. \A q \in Scans \ {s} : AtWork(q, t)' <=> AtWork(q, t)
    BY DEF Local, AtWork, Now
<1>5. AtWork(s, t) /\ AtWork(s, t)'
    BY <1>1 DEF AtWork, Now, OnRows
<1>6. ASSUME fill[t] = "mixed" PROVE OneTable(t)'
    <2>1. fill'[t] = "mixed"
        BY <1>6
    <2>2. QED
        BY <2>1 DEF OneTable
<1>7. ASSUME fill[t] = "filling" PROVE OneTable(t)'
    <2>1. \A q \in Scans : AtWork(q, t) => q = s
        BY <1>2, <1>5, <1>7 DEF OneTable
    <2>2. WorkOn(pc'[s], t, Attached(t), tbl'[t], scan'[s])
        BY <1>1, <1>2, <1>5, <1>7 DEF OneTable
    <2>3. fill'[t] = "filling" /\ \A q \in Scans : AtWork(q, t)' => q = s
        BY <1>4, <1>7, <2>1
    <2>4. QED
        BY <1>3, <2>2, <2>3 DEF OneTable
<1>8. OneTable(t)'
    BY <1>2, <1>5, <1>6, <1>7 DEF OneTable
<1>9. QED
    BY <1>1, <1>8, OtherTables DEF TabInv

LEMMA AddWork ==
    ASSUME Typed, NEW s \in Scans, AddRecord(s), NEW t, t = Now(s), NEW A, A = Attached(t),
           WorkOn("add", t, A, tbl[t], scan[s])
    PROVE  WorkOn("set", t, A, tbl'[t], scan'[s])
<1>1. PICK T \in TableValues, n \in Nat : T = tbl[t] /\ n = T.count /\ n = T.idnext /\ n + 1 \in Slots
    BY AddFacts, AtATable DEF AtTable, TableInv, TableValues, NewSlot
<1>2. PICK N : N = Added(T)
    OBVIOUS
<1>3. /\ N.count = n + 1 /\ N.slot[n + 1]["id"] = n
      /\ \A r \in 1 .. n : N.slot[r] = T.slot[r]
    <2>1. NewSlot(T) \in Slots /\ \A r \in 1 .. n : r \in Slots /\ r # T.count + 1
        BY <1>1, Constants DEF NewSlot, Slots
    <2>2. /\ N.count = T.count + 1 /\ N.slot[T.count + 1]["id"] = T.idnext
          /\ \A r \in Slots : r # T.count + 1 => N.slot[r] = T.slot[r]
        BY <1>2, <2>1, AddedFacts
    <2>3. QED
        BY <1>1, <2>1, <2>2
<1>4. scan[s].rest \subseteq A /\ tbl'[t] = N
    BY <1>1, <1>2, AddFacts DEF Typed, ScanInv, Placed
<1>5. \A r \in 1 .. n + 1 : N.slot[r]["id"] = r - 1
    BY <1>1, <1>3 DEF WorkOn
<1>6. /\ A \ scan[s].rest = A \ (scan'[s].rest \cup {scan'[s].dev})
      /\ scan'[s].dev \in A \ scan'[s].rest
    BY <1>4, AddFacts
<1>7. Filled(t, N.slot, n, A \ scan[s].rest, scan[s].snap)
    BY <1>1, <1>3, FilledSame DEF WorkOn
<1>8. PICK S : S = scan'[s]
    OBVIOUS
<1>9. S.f = 1 /\ S.row = tbl[t].count + 1 /\ S.snap = scan[s].snap
    BY <1>8, AddFacts
<1>10. S.row = n + 1
    <2>1. tbl[t].count = n
        BY <1>1
    <2>2. QED
        BY <1>9, <2>1
<1>11. WorkOn("set", t, A, N, S)
    <2>1. \A r \in 1 .. N.count : N.slot[r]["id"] = r - 1
        BY <1>3, <1>5
    <2>2. S.row = N.count /\ N.count > 0 /\ S.dev \in A \ S.rest
        BY <1>3, <1>6, <1>8, <1>10
    <2>3. Filled(t, N.slot, N.count - 1, A \ (S.rest \cup {S.dev}), S.snap)
        <3>1. N.count - 1 = n
            BY <1>3
        <3>2. QED
            BY <1>6, <1>7, <1>8, <1>9, <3>1
    <2>4. \A g \in 1 .. S.f - 1 : FALSE
        BY <1>9
    <2>5. QED
        BY <2>1, <2>2, <2>3, <2>4 DEF WorkOn
<1>12. QED
    BY <1>4, <1>8, <1>11

LEMMA SetWork ==
    ASSUME Typed, NEW s \in Scans, SetField(s), NEW t, t = Now(s), NEW A, A = Attached(t),
           WorkOn("set", t, A, tbl[t], scan[s])
    PROVE  WorkOn(pc'[s], t, A, tbl'[t], scan'[s])
<1>1. PICK T \in TableValues, n \in Slots : T = tbl[t] /\ n = T.count
    <2>1. tbl[t] \in TableValues /\ tbl[t].count > 0
        BY SetFacts, AtATable DEF AtTable, WorkOn
    <2>2. QED
        BY <2>1 DEF TableValues, Slots
<1>2. PICK f \in Fields, v \in Nat, g \in 1 .. Len(FieldsOf(t)) :
         /\ g = scan[s].f /\ f = FieldsOf(t)[g] /\ v = Value(s, f)
    BY SetFacts
<1>3. v = Written(scan[s], f)
    BY <1>2 DEF Value, Written
<1>4. PICK N : N = Put(T, n, f, v)
    OBVIOUS
<1>5. /\ N.count = n /\ N.slot[n][f] = v
      /\ \A r \in 1 .. n - 1 : N.slot[r] = T.slot[r]
      /\ \A h \in Fields \cup {"id"} : h # f => N.slot[n][h] = T.slot[n][h]
    <2>1. \A r \in 1 .. n - 1 : r \in Slots /\ r # n
        BY Constants DEF Slots
    <2>2. /\ Put(T, n, f, v).count = T.count /\ Put(T, n, f, v).slot[n][f] = v
          /\ \A q \in Slots : q # n => Put(T, n, f, v).slot[q] = T.slot[q]
          /\ \A h \in Fields \cup {"id"} : h # f => Put(T, n, f, v).slot[n][h] = T.slot[n][h]
        BY ONLY T \in TableValues, n \in Slots, f \in Fields, v \in Nat, PutFacts
    <2>3. QED
        BY ONLY <1>1, <1>4, <2>1, <2>2
<1>6. tbl'[t] = N
    BY <1>1, <1>2, <1>4, SetFacts DEF WorkOn
<1>7. \A r \in 1 .. n : N.slot[r]["id"] = r - 1
    <2>1. \A r \in 1 .. n : T.slot[r]["id"] = r - 1
        BY <1>1 DEF WorkOn
    <2>2. f # "id"
        BY <1>2, FieldNames
    <2>3. \A r \in 1 .. n : r \in 1 .. n - 1 \/ r = n
        BY DEF Slots
    <2>4. QED
        BY <1>5, <2>1, <2>2, <2>3
<1>8. /\ Filled(t, N.slot, n - 1, A \ (scan[s].rest \cup {scan[s].dev}), scan[s].snap)
      /\ n - 1 \in Nat
    <2>1. Filled(t, T.slot, n - 1, A \ (scan[s].rest \cup {scan[s].dev}), scan[s].snap)
        BY <1>1 DEF WorkOn
    <2>2. n - 1 \in Nat
        BY DEF Slots
    <2>3. QED
        BY <1>5, <2>1, <2>2, FilledSame
<1>9. ASSUME NEW h \in 1 .. g
      PROVE  N.slot[n][FieldsOf(t)[h]] = Written(scan[s], FieldsOf(t)[h])
    <2>1. CASE h = g
        BY <1>2, <1>3, <1>5, <2>1
    <2>2. CASE h # g
        <3>1. h \in 1 .. g - 1 /\ h \in 1 .. Len(FieldsOf(t))
            BY <2>2, FieldNames
        <3>2. T.slot[n][FieldsOf(t)[h]] = Written(scan[s], FieldsOf(t)[h])
            BY <1>1, <1>2, <3>1 DEF WorkOn
        <3>3. FieldsOf(t)[h] # f /\ FieldsOf(t)[h] \in Fields
            BY <1>2, <2>2, <3>1, FieldNames, Constants
        <3>4. QED
            BY <1>5, <3>2, <3>3
    <2>3. QED
        BY <2>1, <2>2
<1>10. /\ scan'[s].f - 1 = g /\ scan'[s].row = scan[s].row /\ scan'[s].dev = scan[s].dev
       /\ scan'[s].rest = scan[s].rest /\ scan'[s].snap = scan[s].snap
       /\ scan'[s].i = 0 /\ scan'[s].j = 0
    <2>1. scan[s].i = 0 /\ scan[s].j = 0
        BY SetFacts DEF Typed, ScanInv, Placed
    <2>2. QED
        BY <1>2, <2>1, SetFacts
<1>11. CASE pc'[s] = "set"
    <2>1. Written(scan'[s], "key") = Written(scan[s], "key")
          /\ Written(scan'[s], "info") = Written(scan[s], "info")
          /\ Written(scan'[s], "mount") = Written(scan[s], "mount")
        BY <1>10 DEF Written
    <2>2. \A h \in 1 .. g : Written(scan'[s], FieldsOf(t)[h]) = Written(scan[s], FieldsOf(t)[h])
        BY <2>1, FieldNames
    <2>3. n > 0 /\ scan[s].row = n /\ scan[s].dev \in A \ scan[s].rest
        BY <1>1 DEF WorkOn, Slots
    <2>4. QED
        BY <1>5, <1>6, <1>7, <1>8, <1>9, <1>10, <1>11, <2>2, <2>3 DEF WorkOn
<1>12. CASE pc'[s] \in {"sort", "add"}
    <2>1. g = Len(FieldsOf(t))
        BY <1>2, <1>12, SetFacts, FieldNames
    <2>2. /\ N.slot[n]["key"] = scan[s].dev /\ N.slot[n]["info"] = 1
          /\ t = "blk" => N.slot[n]["mount"] = (IF scan[s].dev \in scan[s].snap THEN 1 ELSE 0)
        BY <1>9, <2>1, FieldNames DEF Written
    <2>3. Complete(t, N.slot[n], scan[s].snap)
        BY <2>2 DEF Complete
    <2>4. scan[s].dev \in A \ scan[s].rest
        BY <1>1 DEF WorkOn
    <2>5. PICK m, K : m \in Nat /\ m = n - 1 /\ K = A \ (scan[s].rest \cup {scan[s].dev})
        BY <1>8
    <2>6. n = m + 1 /\ scan[s].dev \notin K /\ K \cup {scan[s].dev} = A \ scan[s].rest
        BY <2>4, <2>5 DEF Slots
    <2>7. Filled(t, N.slot, m + 1, K \cup {scan[s].dev}, scan[s].snap)
        BY <1>8, <2>2, <2>3, <2>5, <2>6, FilledMore
    <2>8. Filled(t, N.slot, n, A \ scan[s].rest, scan[s].snap)
        BY <2>6, <2>7
    <2>9. CASE pc'[s] = "add"
        BY <1>5, <1>6, <1>7, <1>10, <2>8, <2>9 DEF WorkOn
    <2>10. CASE pc'[s] = "sort"
        <3>1. A \ scan[s].rest = A
            BY <1>12, <2>10, SetFacts
        <3>2. IdsInUse(N.slot, n)
            <4>1. \A r \in 1 .. n : r - 1 \in 0 .. n - 1
                BY DEF Slots
            <4>2. \A k \in 0 .. n - 1 : k + 1 \in 1 .. n /\ N.slot[k + 1]["id"] = k
                BY <1>7 DEF Slots
            <4>3. QED
                BY <1>7, <4>1, <4>2 DEF IdsInUse
        <3>3. Bubble(N.slot, n, 0, 0)
            BY DEF Bubble, Slots
        <3>4. QED
            BY <1>5, <1>6, <1>10, <2>8, <2>10, <3>1, <3>2, <3>3 DEF WorkOn, WholeRows
    <2>11. QED
        BY <1>12, <2>9, <2>10
<1>13. QED
    BY <1>11, <1>12, SetFacts

LEMMA CompareWork ==
    ASSUME Typed, NEW s \in Scans, Compare(s), NEW t, t = Now(s), NEW A, A = Attached(t),
           WorkOn("sort", t, A, tbl[t], scan[s])
    PROVE  WorkOn("sort", t, A, tbl'[t], scan'[s])
<1>1. PICK T \in TableValues, n \in 0 .. Capacity, i \in Nat, j \in Nat :
         T = tbl[t] /\ n = T.count /\ i = scan[s].i /\ j = scan[s].j
    BY CompareFacts, AtATable DEF AtTable, TableValues, Work
<1>2. n \in Nat /\ \A r \in 1 .. n : T.slot[r]["key"] \in Nat
    BY <1>1, Constants DEF TableValues, Row, Slots
<1>3. WholeRows(t, T.slot, n, A, scan[s].snap) /\ Bubble(T.slot, n, i, j)
    BY <1>1 DEF WorkOn
<1>4. tbl'[t] = T /\ scan'[s].snap = scan[s].snap
    BY <1>1, CompareFacts
<1>5. CASE Inner(s)
    <2>1. i < n - j - 1 /\ i + 1 \in 1 .. n /\ i + 2 \in 1 .. n
        BY <1>1, <1>2, <1>5 DEF Inner
    <2>2. ~(T.slot[i + 1]["key"] > T.slot[i + 1 + 1]["key"])
        BY <1>1, <1>5, CompareFacts DEF InOrder, OutOfOrder, Get
    <2>3. T.slot[i + 1]["key"] # T.slot[i + 2]["key"]
        BY <1>3, <2>1 DEF WholeRows, Filled
    <2>4. T.slot[i + 1]["key"] < T.slot[i + 2]["key"]
        BY <1>2, <2>1, <2>2, <2>3
    <2>5. Bubble(T.slot, n, i + 1, j)
        BY <1>2, <1>3, <2>1, <2>4, BubbleOn
    <2>6. QED
        BY <1>1, <1>3, <1>4, <1>5, <2>5, CompareFacts DEF WorkOn
<1>6. CASE ~Inner(s)
    <2>1. ~(i < n - j - 1) /\ j < n - 1
        BY <1>1, <1>2, <1>6, CompareFacts DEF Inner, Outer
    <2>2. Bubble(T.slot, n, 0, j + 1)
        BY <1>2, <1>3, <2>1, BubbleNext
    <2>3. QED
        BY <1>1, <1>3, <1>4, <1>6, <2>2, CompareFacts DEF WorkOn
<1>7. QED
    BY <1>5, <1>6

LEMMA SwapLeftWork ==
    ASSUME Typed, NEW s \in Scans, SwapLeft(s), NEW t, t = Now(s), NEW A, A = Attached(t),
           WorkOn("sort", t, A, tbl[t], scan[s])
    PROVE  WorkOn("swap", t, A, tbl'[t], scan'[s])
<1>1. PICK T \in TableValues, n \in 0 .. Capacity, i \in Nat, j \in Nat :
         T = tbl[t] /\ n = T.count /\ i = scan[s].i /\ j = scan[s].j
    BY SwapLeftFacts, AtATable DEF AtTable, TableValues, Work
<1>2. n \in Nat /\ \A r \in 1 .. n : r \in Slots /\ T.slot[r]["key"] \in Nat
    <2>1. n \in Nat /\ \A r \in 1 .. n : r \in Slots
        BY Constants DEF Slots
    <2>2. \A r \in Slots : T.slot[r]["key"] \in Nat
        BY Constants DEF TableValues, Row
    <2>3. QED
        BY <2>1, <2>2
<1>3. WholeRows(t, T.slot, n, A, scan[s].snap) /\ Bubble(T.slot, n, i, j)
    BY <1>1 DEF WorkOn
<1>4. i < n - j - 1 /\ i + 1 \in 1 .. n /\ i + 2 \in 1 .. n
    BY <1>1, <1>2, SwapLeftFacts DEF Inner
<1>5. T.slot[i + 1]["key"] > T.slot[i + 1 + 1]["key"]
    BY <1>1, SwapLeftFacts DEF InOrder, OutOfOrder, Get
<1>6. T.slot[i + 2]["key"] < T.slot[i + 1]["key"]
    BY <1>2, <1>4, <1>5
<1>7. PICK N : N = CopyDown(T, i + 1)
    OBVIOUS
<1>8. N.count = n /\ N.slot = [T.slot EXCEPT ![i + 1] = T.slot[i + 1 + 1]]
    <2>1. PICK r \in Slots : r = i + 1 /\ r + 1 \in Slots
        BY <1>2, <1>4
    <2>2. QED
        BY <1>1, <1>7, <2>1, CopyDownFacts
<1>9. PICK slot : slot = [N.slot EXCEPT ![i + 2] = T.slot[i + 1]]
    OBVIOUS
<1>10. /\ slot[i + 1] = T.slot[i + 2] /\ slot[i + 2] = T.slot[i + 1]
       /\ \A r \in 1 .. n : r # i + 1 /\ r # i + 2 => slot[r] = T.slot[r]
    <2>1. T.slot \in [Slots -> Row] /\ i + 1 \in Slots /\ i + 2 \in Slots /\ i + 1 + 1 = i + 2
        BY <1>2, <1>4 DEF TableValues
    <2>2. QED
        BY <1>2, <1>8, <1>9, <2>1
<1>11. WholeRows(t, slot, n, A, scan[s].snap)
    <2>1. i + 2 <= n
        BY <1>4
    <2>2. QED
        BY <1>2, <1>3, <1>10, <2>1, Swapped
<1>12. Bubble(slot, n, i + 1, j)
    BY <1>2, <1>3, <1>4, <1>6, <1>10, BubbleSwap
<1>13. /\ tbl'[t] = N /\ scan'[s].snap = scan[s].snap /\ scan'[s].tmp = T.slot[i + 1]
       /\ scan'[s].i = i /\ scan'[s].j = j /\ i + 2 <= n
    BY <1>1, <1>4, <1>7, SwapLeftFacts
<1>14. QED
    BY <1>8, <1>9, <1>11, <1>12, <1>13 DEF WorkOn

LEMMA SwapRightWork ==
    ASSUME Typed, NEW s \in Scans, SwapRight(s), NEW t, t = Now(s), NEW A, A = Attached(t),
           WorkOn("swap", t, A, tbl[t], scan[s])
    PROVE  WorkOn("sort", t, A, tbl'[t], scan'[s])
<1>1. PICK T \in TableValues, i \in Nat, row \in Row :
         T = tbl[t] /\ i = scan[s].i /\ row = scan[s].tmp /\ i + 2 \in Slots
    BY SwapRightFacts, AtATable DEF AtTable
<1>2. PICK N : N = CopyTmp(T, i + 1, row)
    OBVIOUS
<1>3. N.count = T.count /\ N.slot = [T.slot EXCEPT ![i + 2] = row]
    <2>1. PICK r \in Nat : r = i + 1 /\ r + 1 \in Slots /\ r + 1 = i + 2
        BY <1>1
    <2>2. QED
        BY <1>1, <1>2, <2>1, CopyTmpFacts
<1>4. /\ tbl'[t] = N /\ scan'[s].snap = scan[s].snap
      /\ scan'[s].i = i + 1 /\ scan'[s].j = scan[s].j
    BY <1>1, <1>2, SwapRightFacts
<1>5. QED
    BY <1>1, <1>3, <1>4 DEF WorkOn

\* s is away from the rows of every table after the step.
LEMMA TablesAway ==
    ASSUME TabInv, NEW s \in Scans, pc'[s] \notin OnRows,
           \A q \in Scans \ {s} : scan'[q] = scan[q] /\ pc'[q] = pc[q],
           UNCHANGED <<tbl, fill, meta>>, left'["disks"] = left["disks"]
    PROVE  TabInv'
<1>1. ASSUME NEW t \in Tables PROVE OneTable(t)'
    <2>1. \A q \in Scans : AtWork(q, t)' => AtWork(q, t) /\ pc'[q] = pc[q] /\ scan'[q] = scan[q]
        BY DEF AtWork, Now, OnRows
    <2>2. QED
        BY <2>1, TableKept DEF TabInv
<1>2. QED
    BY <1>1 DEF TabInv

LEMMA TablesSame ==
    ASSUME TabInv, UNCHANGED <<tbl, pc, scan, fill, meta>>, left'["disks"] = left["disks"]
    PROVE  TabInv'
<1>1. ASSUME NEW t \in Tables PROVE OneTable(t)'
    <2>1. \A q \in Scans : AtWork(q, t)' => AtWork(q, t) /\ pc'[q] = pc[q] /\ scan'[q] = scan[q]
        BY DEF AtWork, Now
    <2>2. QED
        BY <2>1, TableKept DEF TabInv
<1>2. QED
    BY <1>1 DEF TabInv

LEMMA ClearTables == ASSUME Typed, TabInv, NEW s \in Scans, ClearTable(s) PROVE TabInv'
<1>1. PICK t \in Tables : t = Now(s)
    BY ClearFacts, AtATable DEF AtTable
<1>2. Attached(t)' = Attached(t) /\ DOMAIN fill = Tables
    BY ClearFacts, AttachedKept DEF Typed, AroundInv
<1>3. ASSUME \E q \in Scans \ {s} : AtWork(q, t) PROVE OneTable(t)'
    <2>1. fill'[t] = "mixed"
        BY <1>1, <1>2, <1>3, ClearFacts
    <2>2. QED
        BY <2>1 DEF OneTable
<1>4. ASSUME ~ \E q \in Scans \ {s} : AtWork(q, t) PROVE OneTable(t)'
    <2>1. fill'[t] = "filling"
        BY <1>1, <1>2, <1>4, ClearFacts
    <2>2. \A q \in Scans : AtWork(q, t)' => q = s
        BY <1>4, ClearFacts DEF AtWork, Now, Local
    <2>3. WorkOn(pc'[s], t, Attached(t), tbl'[t], scan'[s])
        <3>1. scan[s].rest = Attached(t) /\ scan[s].i = 0 /\ scan[s].j = 0
            BY <1>1, ClearFacts DEF Typed, ScanInv, Placed
        <3>2. tbl'[t].count = 0 /\ scan'[s] = scan[s]
            BY <1>1, ClearFacts
        <3>3. CASE pc'[s] = "add"
            BY <3>1, <3>2, <3>3, NoRows DEF WorkOn
        <3>4. CASE pc'[s] = "sort" /\ scan[s].rest = {}
            BY <3>1, <3>2, <3>4, NoRows DEF WorkOn, WholeRows
        <3>5. QED
            BY <3>3, <3>4, ClearFacts
    <2>4. QED
        BY <1>2, <2>1, <2>2, <2>3 DEF OneTable
<1>5. ASSUME NEW u \in Tables, u # t PROVE OneTable(u)'
    <2>1. \A v \in Tables \ {Now(s)} : fill'[v] = fill[v]
        BY <1>2, ClearFacts
    <2>2. scan'[s].todo = scan[s].todo /\ Local(s) /\ left'["disks"] = left["disks"]
          /\ (meta' = meta \/ Now(s) = "blk")
        BY ClearFacts
    <2>3. QED
        BY <1>1, <1>5, <2>1, <2>2, OtherTables
<1>6. QED
    BY <1>3, <1>4, <1>5 DEF TabInv

LEMMA EndTables == ASSUME Typed, TabInv, NEW s \in Scans, EndTable(s) PROVE TabInv'
<1>1. PICK t \in Tables : t = Now(s)
    BY EndTableFacts, AtATable DEF AtTable
<1>2. Attached(t)' = Attached(t) /\ DOMAIN fill = Tables /\ OneTable(t)
    BY EndTableFacts, AttachedKept DEF Typed, AroundInv, TabInv
<1>3. AtWork(s, t) /\ ~AtWork(s, t)'
    BY <1>1, EndTableFacts DEF AtWork
<1>4. \A q \in Scans : AtWork(q, t)' => AtWork(q, t) /\ q # s
    BY <1>3, EndTableFacts DEF Local, AtWork, Now
<1>5. ASSUME fill[t] = "filling" PROVE OneTable(t)'
    <2>1. PICK T \in TableValues, n \in Nat, i \in Nat, j \in Nat :
             T = tbl[t] /\ n = T.count /\ i = scan[s].i /\ j = scan[s].j
        <3>1. tbl[t] \in TableValues /\ scan[s] \in Work
            BY <1>1, EndTableFacts, AtATable DEF AtTable
        <3>2. tbl[t].count \in Nat
            BY <3>1, Constants DEF TableValues
        <3>3. scan[s].i \in Nat /\ scan[s].j \in Nat
            BY <3>1 DEF Work
        <3>4. QED
            BY ONLY <3>1, <3>2, <3>3
    <2>2. WorkOn("sort", t, Attached(t), T, scan[s])
        BY <1>2, <1>3, <1>5, <2>1, EndTableFacts DEF OneTable
    <2>3. WholeRows(t, T.slot, n, Attached(t), scan[s].snap) /\ Bubble(T.slot, n, i, j)
        BY <2>1, <2>2 DEF WorkOn
    <2>4. ~(j < n - 1)
        BY <1>1, <2>1, EndTableFacts DEF Outer
    <2>5. Sorted(T.slot, n)
        BY <2>3, <2>4, BubbleEnd
    <2>6. WholeRows(t, T.slot, n, Attached(t), meta')
        BY <1>1, <2>3, EndTableFacts, AnySnap
    <2>7. fill'[t] = "done" /\ tbl'[t] = T /\ \A q \in Scans : ~AtWork(q, t)'
        BY <1>1, <1>2, <1>3, <1>4, <1>5, <2>1, EndTableFacts DEF OneTable
    <2>8. QED
        BY <1>2, <2>1, <2>5, <2>6, <2>7 DEF OneTable
<1>6. ASSUME fill[t] # "filling" PROVE OneTable(t)'
    <2>1. fill[t] = "mixed" /\ fill'[t] = "mixed"
        BY <1>1, <1>2, <1>3, <1>6, EndTableFacts DEF OneTable
    <2>2. QED
        BY <2>1 DEF OneTable
<1>7. ASSUME NEW u \in Tables, u # t PROVE OneTable(u)'
    <2>1. \A v \in Tables \ {Now(s)} : fill'[v] = fill[v]
        BY <1>2, EndTableFacts
    <2>2. scan'[s].todo = scan[s].todo /\ Local(s) /\ left'["disks"] = left["disks"]
          /\ (meta' = meta \/ Now(s) = "blk")
        BY EndTableFacts
    <2>3. QED
        BY <1>1, <1>7, <2>1, <2>2, OtherTables
<1>8. QED
    BY <1>5, <1>6, <1>7 DEF TabInv

\* s leaves its table as it is, in the middle of its work or before it.
LEMMA LeaveTables ==
    ASSUME Typed, TabInv, NEW s \in Scans, pc'[s] \notin OnRows,
           \A q \in Scans \ {s} : scan'[q] = scan[q] /\ pc'[q] = pc[q],
           UNCHANGED <<tbl, meta>>, left'["disks"] = left["disks"],
           \A t \in Tables : fill'[t] = (IF AtWork(s, t) /\ fill[t] = "filling"
                                           THEN "failed" ELSE fill[t])
    PROVE  TabInv'
<1>1. ASSUME NEW t \in Tables PROVE OneTable(t)'
    <2>1. \A q \in Scans : AtWork(q, t)' => /\ q # s /\ AtWork(q, t)
                                            /\ pc'[q] = pc[q] /\ scan'[q] = scan[q]
        BY DEF AtWork, Now, OnRows
    <2>2. CASE AtWork(s, t) /\ fill[t] = "filling"
        <3>1. fill'[t] = "failed"
            BY <2>2
        <3>2. ~AtWork(s, t)'
            BY <2>1
        <3>3. QED
            BY <2>1, <2>2, <3>1, <3>2, TableFailed DEF TabInv
    <2>3. CASE ~(AtWork(s, t) /\ fill[t] = "filling")
        <3>1. fill'[t] = fill[t]
            BY <2>3
        <3>2. QED
            BY <2>1, <3>1, TableKept DEF TabInv
    <2>4. QED
        BY <2>2, <2>3
<1>2. QED
    BY <1>1 DEF TabInv

LEMMA FailTables == ASSUME Typed, TabInv, NEW s \in Scans, FailTable(s) PROVE TabInv'
<1>1. left'["disks"] = left["disks"]
    BY FailTableFacts, SpendFacts DEF Around
<1>2. \A t \in Tables : t # Now(s) => ~AtWork(s, t)
    BY DEF AtWork
<1>3. \A t \in Tables : fill'[t] = (IF AtWork(s, t) /\ fill[t] = "filling"
                                      THEN "failed" ELSE fill[t])
    BY <1>2, FailTableFacts DEF Typed, AroundInv
<1>4. QED
    BY <1>1, <1>3, FailTableFacts, LeaveTables DEF Local, OnRows

LEMMA GoneTables ==
    ASSUME Typed, TabInv, NEW s \in Scans, NEW status, Gone(s, status), UNCHANGED <<tbl, meta>>,
           left'["disks"] = left["disks"]
    PROVE  TabInv'
BY GoneFacts, LeaveTables DEF OnRows

LEMMA WorkTables ==
    ASSUME Typed, TabInv, NEW s \in Scans,
           AddRecord(s) \/ SetField(s) \/ Compare(s) \/ SwapLeft(s) \/ SwapRight(s)
    PROVE  TabInv'
<1>1. CASE AddRecord(s)
    BY <1>1, AddFacts, AddWork, TableWorked DEF OnRows
<1>2. CASE SetField(s)
    BY <1>2, SetFacts, SetWork, TableWorked DEF OnRows
<1>3. CASE Compare(s)
    BY <1>3, CompareFacts, CompareWork, TableWorked DEF OnRows
<1>4. CASE SwapLeft(s)
    BY <1>4, SwapLeftFacts, SwapLeftWork, TableWorked DEF OnRows
<1>5. CASE SwapRight(s)
    BY <1>5, SwapRightFacts, SwapRightWork, TableWorked DEF OnRows
<1>6. QED
    BY <1>1, <1>2, <1>3, <1>4, <1>5

LEMMA StepTables == ASSUME Typed, TabInv, [Next]_vars PROVE TabInv'
<1>1. left'["disks"] = left["disks"]
    BY StepValues DEF Fixed
<1>2. CASE UNCHANGED vars
    BY <1>1, <1>2, TablesSame DEF vars
<1>3. ASSUME NEW s \in Scans, ScanStep(s) PROVE TabInv'
    <2>1. CASE Check(s) \/ WritePid(s)
        <3>1. PICK to \in {"write", "open"} :
                 pc' = [pc EXCEPT ![s] = to] /\ UNCHANGED <<tbl, scan, fill, meta>>
            BY <2>1 DEF Check, WritePid, Go, history
        <3>2. pc \in [Scans -> Pcs]
            BY DEF Typed, FileInv
        <3>3. QED
            BY <1>1, <3>1, <3>2, TablesAway DEF OnRows
    <2>2. CASE Collect(s)
        BY <1>1, <2>2, CollectFacts, TablesAway DEF Local, OnRows
    <2>3. CASE ListTable(s)
        BY <1>1, <2>3, ListTableFacts, TablesAway DEF OnRows
    <2>4. CASE Exit(s)
        BY <1>1, <2>4, GoneTables DEF Exit
    <2>5. QED
        BY <1>3, <2>1, <2>2, <2>3, <2>4, ClearTables, EndTables, WorkTables DEF ScanStep
<1>4. ASSUME NEW s \in Scans, FailTable(s) PROVE TabInv'
    BY <1>4, FailTables
<1>5. ASSUME NEW s \in Scans, Terminate(s) \/ Crash(s) PROVE TabInv'
    BY <1>1, <1>5, GoneTables DEF Terminate, Crash
<1>6. CASE ScanByHand
    <2>1. "hand" \in Scans /\ <<"blk">> \in Seq(Tables)
        BY Constants DEF Scans
    <2>2. QED
        BY <1>1, <1>6, <2>1, StartFacts, TablesAway DEF ScanByHand, OnRows, history
<1>7. CASE OpenScan
    <2>1. "child" \in Scans /\ Task.scan \in Seq(Tables)
        BY <1>7, TaskFacts DEF Scans, OpenScan
    <2>2. QED
        BY <1>1, <1>7, <2>1, StartFacts, TablesAway DEF OpenScan, OnRows, history
<1>8. CASE LoadIni \/ HddRun \/ Mount \/ HddStep \/ GetIFsFails
    BY <1>1, <1>8, TablesSame DEF LoadIni, HddRun, Mount, HddStep, HddFind, HddMount, HddEnd,
        GetIFsFails, devscans, history
<1>9. CASE CpuTest \/ MemTest \/ Walk \/ Probe \/ Report \/ EndScanDev
    BY <1>1, <1>9, TablesSame DEF CpuTest, MemTest, Walk, Probe, Report, EndScanDev, devscans,
        history
<1>10. QED
    BY <1>2, <1>3, <1>4, <1>5, <1>6, <1>7, <1>8, <1>9 DEF Next, TesterStep

LEMMA InitTables == Init => TabInv
BY DEF Init, TabInv, OneTable, AtWork

-----------------------------------------------------------------------------
(* A whole table lists the devices by rank: whichever scan has filled it,  *)
(* the slot of a device is the number of the devices before it.            *)

\* A sorted table of a set of keys has one record for each of them.
LEMMA RowsCounted ==
    ASSUME NEW slot, NEW m \in Nat, NEW B, Sorted(slot, m),
           \A r \in 1 .. m : slot[r]["key"] \in B /\ slot[r]["key"] \in Nat,
           \A d \in B : \E r \in 1 .. m : slot[r]["key"] = d
    PROVE  Cardinality(B) = m
<1> DEFINE f == [r \in 1 .. m |-> slot[r]["key"]]
<1>1. f \in [1 .. m -> B] /\ \A r \in 1 .. m : f[r] = slot[r]["key"]
    OBVIOUS
<1>2. ASSUME NEW r \in 1 .. m, NEW q \in 1 .. m, f[r] = f[q] PROVE r = q
    <2>1. r < q \/ q < r \/ r = q
        OBVIOUS
    <2>2. r < q => slot[r]["key"] < slot[q]["key"]
        BY DEF Sorted
    <2>3. q < r => slot[q]["key"] < slot[r]["key"]
        BY DEF Sorted
    <2>4. QED
        BY <1>1, <1>2, <2>1, <2>2, <2>3
<1>3. \A d \in B : \E r \in 1 .. m : f[r] = d
    BY <1>1
<1> HIDE DEF f
<1>4. f \in Bijection(1 .. m, B)
    BY <1>1, <1>2, <1>3 DEF Bijection, Injection, Surjection, IsInjective
<1>5. QED
    BY <1>4, FS_CountingElements DEF ExistsBijection

LEMMA Ranks ==
    ASSUME NEW slot, NEW n \in Nat, NEW A, Sorted(slot, n),
           \A r \in 1 .. n : slot[r]["key"] \in A /\ slot[r]["key"] \in Nat,
           \A d \in A : \E r \in 1 .. n : slot[r]["key"] = d
    PROVE  /\ Cardinality(A) = n
           /\ \A r \in 1 .. n : Cardinality({e \in A : e < slot[r]["key"]}) = r - 1
<1>1. Cardinality(A) = n
    BY RowsCounted
<1>2. ASSUME NEW r \in 1 .. n PROVE Cardinality({e \in A : e < slot[r]["key"]}) = r - 1
    <2> DEFINE B == {e \in A : e < slot[r]["key"]}
    <2>1. r - 1 \in Nat /\ \A q \in 1 .. r - 1 : q \in 1 .. n /\ q < r
        OBVIOUS
    <2>2. Sorted(slot, r - 1)
        BY <2>1 DEF Sorted
    <2>3. \A q \in 1 .. r - 1 : slot[q]["key"] \in B /\ slot[q]["key"] \in Nat
        BY <2>1 DEF Sorted
    <2>4. ASSUME NEW d \in B PROVE \E q \in 1 .. r - 1 : slot[q]["key"] = d
        <3>1. PICK q \in 1 .. n : slot[q]["key"] = d
            OBVIOUS
        <3>2. ~(r = q) /\ ~(r < q)
            BY <3>1 DEF Sorted
        <3>3. q \in 1 .. r - 1
            BY <3>2
        <3>4. QED
            BY <3>1, <3>3
    <2> HIDE DEF B
    <2>5. Cardinality(B) = r - 1
        BY <2>1, <2>2, <2>3, <2>4, RowsCounted
    <2>6. QED
        BY <2>5 DEF B
<1>3. QED
    BY <1>1, <1>2

Rank(t, d) == Cardinality({e \in Attached(t) : e < d})

\* What a reader may rely on when the table is whole.
LEMMA WholeFacts ==
    ASSUME Typed, TabInv, NEW t \in Tables, fill[t] = "done"
    PROVE  /\ tbl[t].count \in Nat /\ tbl[t].count <= Capacity
           /\ Cardinality(Attached(t)) = tbl[t].count
           /\ \A r \in 1 .. tbl[t].count :
                /\ tbl[t].slot[r]["key"] \in Attached(t)
                /\ tbl[t].slot[r]["key"] \in Nat \ {0}
                /\ Rank(t, tbl[t].slot[r]["key"]) = r - 1
                /\ Complete(t, tbl[t].slot[r], meta)
           /\ \A d \in Attached(t) : \E r \in 1 .. tbl[t].count : tbl[t].slot[r]["key"] = d
           /\ IdsInUse(tbl[t].slot, tbl[t].count) /\ Sorted(tbl[t].slot, tbl[t].count)
<1>1. PICK T \in TableValues : T = tbl[t] /\ T.count \in Nat /\ T.count <= Capacity
    BY Constants DEF Typed, ScanInv, TableInv, TableValues
<1>2. /\ Filled(t, T.slot, T.count, Attached(t), meta)
      /\ IdsInUse(T.slot, T.count) /\ Sorted(T.slot, T.count)
    BY <1>1 DEF TabInv, OneTable, WholeRows
<1>3. Attached(t) \subseteq Nat \ {0}
    BY AttachedType
<1>4. \A r \in 1 .. T.count : T.slot[r]["key"] \in Attached(t) /\ Complete(t, T.slot[r], meta)
    BY <1>2 DEF Filled
<1>5. \A d \in Attached(t) : \E r \in 1 .. T.count : T.slot[r]["key"] = d
    BY <1>2 DEF Filled
<1>6. /\ Cardinality(Attached(t)) = T.count
      /\ \A r \in 1 .. T.count : Rank(t, T.slot[r]["key"]) = r - 1
    BY <1>1, <1>2, <1>3, <1>4, <1>5, Ranks DEF Rank
<1>7. QED
    BY <1>1, <1>2, <1>3, <1>4, <1>5, <1>6

LEMMA WholeFromTables == Typed /\ TabInv => WholeTable
<1> SUFFICES ASSUME Typed, TabInv, NEW t \in Tables, fill[t] = "done"
             PROVE  LET T == tbl[t]
                        rows == 1 .. T.count
                    IN  /\ {T.slot[r]["key"] : r \in rows} = Attached(t)
                        /\ {T.slot[r]["id"] : r \in rows} = 0 .. Cardinality(Attached(t)) - 1
                        /\ \A r, q \in rows : r < q => T.slot[r]["key"] < T.slot[q]["key"]
                        /\ \A r \in rows : T.slot[r]["info"] = 1
                        /\ t = "blk" => \A r \in rows : T.slot[r]["mount"] = 1
                                                          <=> T.slot[r]["key"] \in meta
    BY DEF WholeTable
<1> DEFINE T == tbl[t]
           rows == 1 .. T.count
<1>1. {T.slot[r]["key"] : r \in rows} = Attached(t)
    BY WholeFacts
<1>2. {T.slot[r]["id"] : r \in rows} = 0 .. Cardinality(Attached(t)) - 1
    BY WholeFacts DEF IdsInUse
<1>3. \A r, q \in rows : r < q => T.slot[r]["key"] < T.slot[q]["key"]
    BY WholeFacts DEF Sorted
<1>4. \A r \in rows : Complete(t, T.slot[r], meta)
    BY WholeFacts
<1>5. QED
    BY <1>1, <1>2, <1>3, <1>4 DEF Complete

\* The values, runonce and the tables together are inductive.
Inv == RunInv /\ Typed /\ TabInv

LEMMA Inductive == Spec => []Inv
<1>1. Init => Inv
    BY InitRun, InitTyped, InitTables DEF Inv
<1>2. Inv /\ [Next]_vars => Inv'
    BY StepRun, StepTyped, StepTables DEF Inv
<1>3. QED
    BY <1>1, <1>2, PTL DEF Spec

\* A scan that came to its end alone leaves every device once, in order, with
\* all its fields and an id of its own: whatever the order of readdir, the scans
\* that were killed before and the ones that go on beside it.
THEOREM TablesWhole == Spec => []WholeTable
<1>1. Inv => WholeTable
    BY WholeFromTables DEF Inv
<1>2. QED
    BY <1>1, Inductive, PTL

-----------------------------------------------------------------------------
(* The walk of scan_dev over a table.                                      *)

TesterPcs == {"none", "begin", "wait", "walk", "flash"}

Testers == [pc : TesterPcs, k : Nat \ {0}, c : Nat \ {0}, r : Nat, u : Nat, found : Nat,
            errs : BOOLEAN, clean : BOOLEAN, blind : SUBSET Nat]

\* A walk is one of a scanner with a table; before it nothing is counted.
Placing(w, tasks) ==
    /\ w.pc \in {"wait", "walk", "flash"} => w.k \in DOMAIN tasks /\ tasks[w.k].scan # <<>>
    /\ w.pc \in {"none", "begin", "wait"} =>
         w.c = 1 /\ w.r = 0 /\ w.u = 0 /\ w.found = 0 /\ ~w.errs /\ w.blind = {}
    /\ \A d \in w.blind : d < w.c
    /\ w.pc \in {"walk", "flash"} => w.c <= Len(tasks[w.k].crit) + 1
    /\ w.pc = "flash" => w.c \in DOMAIN tasks[w.k].crit /\ tasks[w.k].over = "usb"

TesterTyped == tester \in Testers /\ Placing(tester, Tasks)

LEMMA IdleTesterFacts ==
    ASSUME NEW tasks
    PROVE  /\ IdleTester \in Testers /\ Placing(IdleTester, tasks)
           /\ IdleTester.pc = "none"
BY DEF IdleTester, Testers, TesterPcs, Placing, Null

LEMMA WalkFacts ==
    ASSUME Typed, TesterTyped, tester.pc \in {"walk", "flash"}
    PROVE  /\ tester.r \in Nat /\ tester.u \in Nat /\ tester.found \in Nat
           /\ tester.c \in Nat \ {0} /\ tester.c <= Len(Task.crit) + 1
           /\ Task.over \in Tables /\ Task.crit \in Seq(Nat \ {0})
           /\ WholeTables => fill[Task.over] = "done"
           /\ Task.over = "usb" => "blk" \in Tables /\ (WholeTables => fill["blk"] = "done")
<1>1. IsTask(Task) /\ Task.scan # <<>>
    BY TaskFacts DEF TesterTyped, Placing, Task
<1>2. PICK i \in DOMAIN Task.scan : Task.over = Task.scan[i]
    BY <1>1 DEF IsTask
<1>3. Task.over \in Tables
    BY <1>1, <1>2 DEF IsTask
<1>4. Task.over = "usb" => \E j \in DOMAIN Task.scan : Task.scan[j] = "blk"
    BY <1>1 DEF IsTask
<1>5. tester.c <= Len(Task.crit) + 1
    BY DEF TesterTyped, Placing, Task
<1>6. /\ tester.r \in Nat /\ tester.u \in Nat /\ tester.found \in Nat
      /\ tester.c \in Nat \ {0}
    BY DEF TesterTyped, Testers
<1>7. QED
    BY <1>1, <1>2, <1>3, <1>4, <1>5, <1>6, Constants DEF WholeTables, IsTask

LEMMA NextFacts ==
    ASSUME Typed, NEW t \in Tables, NEW q \in Nat, NEW r, r = NextRecord(tbl[t], q)
    PROVE  /\ r = Null \/ (r \in 1 .. tbl[t].count /\ r = q + 1)
           /\ r = Null => q >= tbl[t].count
           /\ r \in Nat
           /\ r # Null => tbl[t].slot[r] \in Row /\ tbl[t].slot[r]["key"] \in Nat
<1>1. tbl[t] \in TableValues /\ tbl[t].count \in Nat /\ tbl[t].count <= Capacity
    BY Constants DEF Typed, ScanInv, TableInv, TableValues
<1>2. /\ r = Null \/ (r \in 1 .. tbl[t].count /\ r = q + 1)
      /\ r = Null => q >= tbl[t].count
      /\ r \in Nat
    BY <1>1 DEF NextRecord, Null
<1>3. ASSUME r # Null PROVE tbl[t].slot[r] \in Row
    <2>1. r \in Slots
        BY <1>1, <1>2, <1>3, Constants DEF Slots
    <2>2. QED
        BY <1>1, <2>1 DEF TableValues
<1>4. QED
    BY <1>2, <1>3, Constants DEF Row

\* NextTask and AfterScan begin with nothing counted.
LEMMA NextTaskFacts ==
    ASSUME TesterTyped, NEW tasks
    PROVE  NextTask \in Testers /\ Placing(NextTask, tasks) /\ NextTask.pc = "begin"
<1>1. PICK to \in TesterPcs, n \in Nat \ {0} : to = "begin" /\ n = tester.k + 1
    <2>1. "begin" \in TesterPcs /\ tester.k + 1 \in Nat \ {0}
        BY DEF TesterTyped, Testers, TesterPcs
    <2>2. QED
        BY ONLY <2>1
<1>2. NextTask = [IdleTester EXCEPT !.pc = to, !.k = n]
    BY <1>1 DEF NextTask
<1>3. PICK W : W = IdleTester
    OBVIOUS
<1>4. /\ W \in Testers /\ W.c = 1 /\ W.r = 0 /\ W.u = 0 /\ W.found = 0 /\ ~W.errs
      /\ W.blind = {}
    BY <1>3, IdleTesterFacts DEF Placing
<1>5. PICK N : N = [W EXCEPT !.pc = to, !.k = n]
    OBVIOUS
<1>6. /\ N \in Testers /\ N.pc = to /\ N.c = W.c /\ N.r = W.r /\ N.u = W.u
      /\ N.found = W.found /\ N.errs = W.errs /\ N.blind = W.blind
    BY <1>4, <1>5 DEF Testers
<1>7. QED
    BY <1>1, <1>2, <1>3, <1>4, <1>5, <1>6 DEF Placing

\* The criteria before c that name a device of the machine, without those of b.
Found(task, c, b) == {d \in Present(task, b) : d < c}

\* What a walk has counted, and where it is: no slot before r holds what it
\* looks for; a disk behind a port is looked for from the slot u of that port.
Right(w, task) ==
    /\ w.found = Cardinality(Found(task, w.c, w.blind))
    /\ w.errs <=> \E d \in Found(task, w.c, w.blind) : task.crit[d] \in Poor[task.over]
    /\ w.pc = "walk" /\ w.c \in DOMAIN task.crit =>
         \A d \in Attached(task.over) : Rank(task.over, d) < w.r => d # task.crit[w.c]
    /\ w.pc = "flash" =>
         /\ task.crit[w.c] \in Attached("usb")
         /\ w.u = Rank("usb", task.crit[w.c]) + 1

CountInv == tester.pc \in {"walk", "flash"} /\ tester.clean => Right(tester, Task)

VerdictOk(item, task) ==
    item.v # "none" /\ item.clean /\ task.scan # <<>> =>
        (item.v = "OK" <=> Good(task, item.blind))

ItemsInv == \A k \in DOMAIN items : VerdictOk(items[k], Tasks[k])

WalkInv == TesterTyped /\ CountInv /\ ItemsInv

LEMMA RightKept ==
    ASSUME left'["disks"] = left["disks"], NEW w, NEW task
    PROVE  (Right(w, task)' <=> Right(w, task)) /\ (VerdictOk(w, task)' <=> VerdictOk(w, task))
BY DEF Right, VerdictOk, Good, Found, Present, Attached, Rank

LEMMA FoundFinite ==
    ASSUME NEW task, task.crit \in Seq(Nat \ {0}), NEW c \in Nat, NEW b
    PROVE  /\ IsFiniteSet(Present(task, b)) /\ IsFiniteSet(Found(task, c, b))
           /\ Cardinality(Present(task, b)) \in Nat /\ Cardinality(Found(task, c, b)) \in Nat
<1>1. Present(task, b) \subseteq 1 .. Len(task.crit) /\ Len(task.crit) \in Nat
    BY DEF Present
<1>2. IsFiniteSet(1 .. Len(task.crit))
    BY <1>1, FS_Interval
<1>3. IsFiniteSet(Present(task, b))
    BY <1>1, <1>2, FS_Subset
<1>4. IsFiniteSet(Found(task, c, b))
    BY <1>3, FS_Subset DEF Found
<1>5. QED
    BY <1>3, <1>4, FS_CardinalityType

LEMMA FoundMore ==
    ASSUME NEW task, task.crit \in Seq(Nat \ {0}), NEW c \in DOMAIN task.crit, NEW b
    PROVE  /\ c \in Present(task, b) => /\ Found(task, c + 1, b) = Found(task, c, b) \cup {c}
                                        /\ Cardinality(Found(task, c + 1, b))
                                             = Cardinality(Found(task, c, b)) + 1
           /\ c \notin Present(task, b) => Found(task, c + 1, b) = Found(task, c, b)
<1>1. \A d \in Present(task, b) : d \in Nat
    BY DEF Present
<1>2. c \in Nat
    OBVIOUS
<1>3. c \in Present(task, b) => Found(task, c + 1, b) = Found(task, c, b) \cup {c}
    BY <1>1, <1>2 DEF Found
<1>4. c \notin Present(task, b) => Found(task, c + 1, b) = Found(task, c, b)
    BY <1>1, <1>2 DEF Found
<1>5. c \notin Found(task, c, b) /\ IsFiniteSet(Found(task, c, b))
    <2>1. c \notin Found(task, c, b)
        BY <1>2 DEF Found
    <2>2. QED
        BY <1>2, <2>1, FoundFinite
<1>6. Cardinality(Found(task, c, b) \cup {c}) = Cardinality(Found(task, c, b)) + 1
    BY <1>5, FS_AddElement
<1>7. QED
    BY <1>3, <1>4, <1>6

\* The verdict on one criterion, and on to the next.
LEMMA CriterionDone ==
    ASSUME NEW task, task.crit \in Seq(Nat \ {0}), NEW c \in DOMAIN task.crit,
           NEW w \in Testers, w.c = c, Right(w, task),
           NEW N \in Testers, NEW f \in {0, 1}, NEW e \in BOOLEAN,
           N.pc = "walk", N.c = c + 1, N.r = 0, N.found = w.found + f, N.errs <=> w.errs \/ e,
           NEW b, N.blind = b, b = w.blind \/ b = w.blind \cup {c},
           f = 1 <=> c \in Present(task, b),
           c \in Present(task, b) => (e <=> task.crit[c] \in Poor[task.over]),
           c \notin Present(task, b) => ~e,
           \A d \in Attached(task.over) : Rank(task.over, d) \in Nat
    PROVE  Right(N, task)
<1>0. Found(task, c, w.blind) = Found(task, c, b)
    <2>1. \A d \in Present(task, w.blind) \cup Present(task, b) : d \in Nat
        BY DEF Present
    <2>2. c \in Nat
        OBVIOUS
    <2>3. QED
        BY <2>1, <2>2 DEF Found, Present
<1>1. Cardinality(Found(task, c, b)) \in Nat /\ w.found = Cardinality(Found(task, c, b))
    BY <1>0, FoundFinite DEF Right
<1>2. N.found = Cardinality(Found(task, c + 1, b))
    <2>1. CASE c \in Present(task, b)
        BY <1>1, <2>1, FoundMore
    <2>2. CASE c \notin Present(task, b)
        <3>1. f = 0
            BY <2>2
        <3>2. QED
            BY <1>1, <2>2, <3>1, FoundMore
    <2>3. QED
        BY <2>1, <2>2
<1>3. w.errs <=> \E d \in Found(task, c, b) : task.crit[d] \in Poor[task.over]
    BY <1>0 DEF Right
<1>4. N.errs <=> \E d \in Found(task, c + 1, b) : task.crit[d] \in Poor[task.over]
    <2>1. CASE c \in Present(task, b)
        <3>1. Found(task, c + 1, b) = Found(task, c, b) \cup {c}
            BY <2>1, FoundMore
        <3>2. QED
            BY <1>3, <2>1, <3>1
    <2>2. CASE c \notin Present(task, b)
        <3>1. Found(task, c + 1, b) = Found(task, c, b)
            BY <2>2, FoundMore
        <3>2. QED
            BY <1>3, <2>2, <3>1
    <2>3. QED
        BY <2>1, <2>2
<1>5. \A d \in Attached(task.over) : ~(Rank(task.over, d) < N.r)
    OBVIOUS
<1>6. QED
    BY <1>2, <1>4, <1>5 DEF Right

LEMMA CriterionFacts ==
    ASSUME TesterTyped, NEW f \in Nat, NEW e \in BOOLEAN, NEW N, N = NextCriterion(f, e)
    PROVE  /\ N \in Testers /\ N.pc = "walk" /\ N.k = tester.k /\ N.c = tester.c + 1
           /\ N.r = 0 /\ N.found = tester.found + f
           /\ N.errs <=> tester.errs \/ e
           /\ N.clean <=> tester.clean /\ WholeTables
           /\ N.blind = tester.blind
<1>1. tester \in Testers /\ tester.c \in Nat \ {0} /\ tester.found \in Nat
    BY DEF TesterTyped, Testers
<1>2. PICK errs \in BOOLEAN, clean \in BOOLEAN :
         errs = (tester.errs \/ e) /\ clean = (tester.clean /\ WholeTables)
    OBVIOUS
<1>3. PICK to \in TesterPcs, c \in Nat \ {0}, n \in Nat, z \in Nat :
         to = "walk" /\ c = tester.c + 1 /\ n = tester.found + f /\ z = 0
    <2>1. /\ "walk" \in TesterPcs /\ tester.c + 1 \in Nat \ {0}
          /\ tester.found + f \in Nat /\ 0 \in Nat
        BY <1>1 DEF TesterPcs
    <2>2. QED
        BY ONLY <2>1
<1>4. N = [tester EXCEPT !.pc = to, !.c = c, !.r = z, !.u = z, !.found = n, !.errs = errs,
                         !.clean = clean]
    BY <1>2, <1>3 DEF NextCriterion, Null
<1>5. /\ N \in Testers /\ N.pc = to /\ N.k = tester.k /\ N.c = c /\ N.r = z /\ N.found = n
      /\ N.errs = errs /\ N.clean = clean /\ N.blind = tester.blind
    BY <1>1, <1>4 DEF Testers
<1>6. /\ N \in Testers /\ N.pc = "walk" /\ N.k = tester.k /\ N.c = tester.c + 1
      /\ N.r = 0 /\ N.found = tester.found + f /\ N.blind = tester.blind
    BY <1>3, <1>5
<1>7. (N.errs <=> tester.errs \/ e) /\ (N.clean <=> tester.clean /\ WholeTables)
    BY <1>2, <1>5, Zenon
<1>8. QED
    BY <1>6, <1>7

LEMMA FaultyFacts ==
    ASSUME NEW over \in {"pci", "usb", "blk", "net"}, NEW row, row["info"] = 1
    PROVE  Faulty(over, row) = (row["key"] \in Poor[over])
<1>1. CASE over = "pci" BY <1>1 DEF Faulty
<1>2. CASE over = "usb" BY <1>2 DEF Faulty
<1>3. CASE over = "blk" BY <1>3 DEF Faulty
<1>4. CASE over = "net" BY <1>4 DEF Faulty
<1>5. QED
    BY <1>1, <1>2, <1>3, <1>4

\* Every device of a whole table has a rank, and a slot for it.
LEMMA RankFacts ==
    ASSUME Typed, TabInv, NEW t \in Tables, fill[t] = "done", NEW d \in Attached(t)
    PROVE  /\ Rank(t, d) \in Nat /\ Rank(t, d) + 1 \in 1 .. tbl[t].count
           /\ tbl[t].slot[Rank(t, d) + 1]["key"] = d
<1>1. PICK q \in 1 .. tbl[t].count : tbl[t].slot[q]["key"] = d
    BY WholeFacts
<1>2. Rank(t, d) = q - 1 /\ tbl[t].count \in Nat
    BY <1>1, WholeFacts
<1>3. Rank(t, d) \in Nat /\ Rank(t, d) + 1 = q
    BY <1>2
<1>4. QED
    BY <1>1, <1>3

LEMMA FaultyBoolean ==
    ASSUME NEW over \in {"pci", "usb", "blk", "net"}, NEW row
    PROVE  Faulty(over, row) \in BOOLEAN
<1>1. CASE over = "pci" BY <1>1 DEF Faulty
<1>2. CASE over = "usb" BY <1>2 DEF Faulty
<1>3. CASE over = "blk" BY <1>3 DEF Faulty
<1>4. CASE over = "net" BY <1>4 DEF Faulty
<1>5. QED
    BY <1>1, <1>2, <1>3, <1>4

\* What a step of the walk has to show of the tester it leaves.
LEMMA WalkClose ==
    ASSUME Fixed, NEW w, tester' = w, w \in Testers, w.k = tester.k, Placing(w, Tasks),
           w.pc \in {"walk", "flash"} /\ w.clean => Right(w, Task)
    PROVE  TesterTyped' /\ CountInv'
<1>1. Tasks' = Tasks /\ Task' = Task
    BY DEF Fixed, Tasks, Task
<1>2. TesterTyped'
    BY <1>1 DEF TesterTyped
<1>3. PICK task : task = Task
    OBVIOUS
<1>4. Right(w, task)' <=> Right(w, task)
    BY RightKept DEF Fixed
<1>5. CountInv'
    BY <1>1, <1>3, <1>4 DEF CountInv
<1>6. QED
    BY <1>2, <1>5

\* The step that ends a criterion: N is the tester it leaves.
LEMMA CriterionEnd ==
    ASSUME Typed, TabInv, TesterTyped, CountInv, Fixed, tester.pc \in {"walk", "flash"},
           tester.c \in DOMAIN Task.crit,
           NEW f \in {0, 1}, NEW e \in BOOLEAN, NEW N, tester' = N,
           N \in Testers, N.pc = "walk", N.k = tester.k, N.c = tester.c + 1,
           N.r = 0, N.found = tester.found + f, N.errs <=> tester.errs \/ e,
           N.clean <=> tester.clean /\ WholeTables,
           N.blind = tester.blind \/ N.blind = tester.blind \cup {tester.c},
           tester.clean /\ WholeTables =>
             /\ f = 1 <=> tester.c \in Present(Task, N.blind)
             /\ tester.c \in Present(Task, N.blind) =>
                  (e <=> Task.crit[tester.c] \in Poor[Task.over])
             /\ tester.c \notin Present(Task, N.blind) => ~e
    PROVE  TesterTyped' /\ CountInv'
<1>1. /\ tester \in Testers /\ tester.c \in Nat \ {0} /\ tester.k \in DOMAIN Tasks
      /\ Task.scan # <<>> /\ Task.crit \in Seq(Nat \ {0})
      /\ Task.over \in Tables
    BY WalkFacts DEF TesterTyped, Testers, Placing, Task
<1>2. WholeTables => fill[Task.over] = "done"
    BY WalkFacts
<1>3. Placing(N, Tasks)
    <2>1. N.c <= Len(Task.crit) + 1
        BY <1>1
    <2>2. \A d \in tester.blind : d < tester.c /\ d \in Nat
        BY <1>1 DEF TesterTyped, Placing, Testers
    <2>3. \A d \in N.blind : d < N.c
        BY <1>1, <2>2
    <2>4. QED
        BY <1>1, <2>1, <2>3 DEF Placing, Task
<1>4. ASSUME N.clean PROVE Right(N, Task)
    <2>1. tester.clean /\ WholeTables
        BY <1>4
    <2>2. \A d \in Attached(Task.over) : Rank(Task.over, d) \in Nat
        BY <1>1, <1>2, <2>1, RankFacts
    <2>3. Right(tester, Task)
        BY <2>1 DEF CountInv
    <2>4. PICK task, c : task = Task /\ c = tester.c
        OBVIOUS
    <2>5. Right(N, task)
        BY <1>1, <2>1, <2>2, <2>3, <2>4, CriterionDone
    <2>6. QED
        BY <2>4, <2>5
<1>5. QED
    BY <1>3, <1>4, WalkClose

\* No criterion from c on is among those that getIFs failed for.
LEMMA NotBlind == ASSUME TesterTyped PROVE tester.c \notin tester.blind
BY DEF TesterTyped, Testers, Placing

LEMMA CriterionStep ==
    ASSUME Typed, TabInv, TesterTyped, CountInv, Fixed, tester.pc \in {"walk", "flash"},
           tester.c \in DOMAIN Task.crit,
           NEW f \in {0, 1}, NEW e \in BOOLEAN, tester' = NextCriterion(f, e),
           tester.clean /\ WholeTables =>
             /\ f = 1 <=> tester.c \in Present(Task, tester.blind)
             /\ tester.c \in Present(Task, tester.blind) =>
                  (e <=> Task.crit[tester.c] \in Poor[Task.over])
             /\ tester.c \notin Present(Task, tester.blind) => ~e
    PROVE  TesterTyped' /\ CountInv'
<1>1. PICK N : N = NextCriterion(f, e)
    OBVIOUS
<1>2. /\ N \in Testers /\ N.pc = "walk" /\ N.k = tester.k /\ N.c = tester.c + 1
      /\ N.r = 0 /\ N.found = tester.found + f
      /\ N.errs <=> tester.errs \/ e
      /\ N.clean <=> tester.clean /\ WholeTables
      /\ N.blind = tester.blind
    BY <1>1, CriterionFacts
<1>3. QED
    BY <1>1, <1>2, CriterionEnd

\* Without the list of the interfaces the criterion counts as not found.
LEMMA BlindStep == ASSUME Typed, TabInv, TesterTyped, CountInv, GetIFsFails PROVE TesterTyped' /\ CountInv'
<1>1. /\ tester \in Testers /\ tester.pc = "walk" /\ tester.c \in DOMAIN Task.crit
      /\ tester.c \in Nat
    BY DEF TesterTyped, Testers, GetIFsFails
<1>2. Fixed
    BY SpendFixed DEF GetIFsFails, Around
<1>3. PICK f \in {0, 1}, e \in BOOLEAN : f = 0 /\ e = FALSE
    OBVIOUS
<1>4. PICK M : M = NextCriterion(f, e)
    OBVIOUS
<1>5. /\ M \in Testers /\ M.pc = "walk" /\ M.k = tester.k /\ M.c = tester.c + 1
      /\ M.r = 0 /\ M.found = tester.found + f
      /\ M.errs <=> tester.errs \/ e
      /\ M.clean <=> tester.clean /\ WholeTables
      /\ M.blind = tester.blind
    BY <1>4, CriterionFacts
<1>6. PICK b \in SUBSET Nat : b = tester.blind \cup {tester.c}
    BY <1>1 DEF Testers
<1>7. PICK N : N = [M EXCEPT !.blind = b]
    OBVIOUS
<1>8. tester' = N
    BY <1>3, <1>4, <1>5, <1>6, <1>7 DEF GetIFsFails
<1>9. /\ N \in Testers /\ N.pc = M.pc /\ N.k = M.k /\ N.c = M.c /\ N.r = M.r
      /\ N.found = M.found /\ N.errs = M.errs /\ N.clean = M.clean /\ N.blind = b
    BY <1>5, <1>7 DEF Testers
<1>10. tester.c \notin Present(Task, b)
    BY <1>6 DEF Present
<1>11. QED
    BY <1>1, <1>2, <1>3, <1>5, <1>6, <1>8, <1>9, <1>10, CriterionEnd

LEMMA WalkStep == ASSUME Typed, TabInv, TesterTyped, CountInv, Walk PROVE TesterTyped' /\ CountInv'
<1>1. /\ tester \in Testers /\ tester.pc = "walk" /\ tester.c \in DOMAIN Task.crit
      /\ tester.r \in Nat /\ tester.c \in Nat \ {0} /\ tester.u \in Nat
      /\ tester.k \in DOMAIN Tasks /\ Task.scan # <<>>
      /\ Fixed
    BY DEF TesterTyped, Testers, Walk, Placing, Task, Typed, AroundInv, Fixed
<1>2. PICK task, over, c : task = Task /\ over = task.over /\ c = tester.c
    OBVIOUS
<1>3. /\ task.crit \in Seq(Nat \ {0})
      /\ WholeTables => fill[over] = "done"
      /\ over = "usb" => "blk" \in Tables /\ (WholeTables => fill["blk"] = "done")
      /\ over \in Tables /\ over \in {"pci", "usb", "blk", "net"}
      /\ c \in DOMAIN task.crit /\ c \in Nat \ {0}
    BY <1>1, <1>2, WalkFacts, DevScanAssumption
<1>4. PICK r \in Nat : r = NextRecord(tbl[over], tester.r)
    BY <1>1, <1>3, NextFacts
<1>5. tester.clean => Right(tester, task)
    BY <1>1, <1>2 DEF CountInv
<1>6. Placing(tester, Tasks) /\ Len(task.crit) \in Nat /\ c <= Len(task.crit)
    BY <1>2, <1>3 DEF TesterTyped
<1>7. ASSUME NEW f \in {0, 1}, NEW e \in BOOLEAN, tester' = NextCriterion(f, e),
             tester.clean /\ WholeTables =>
               /\ f = 1 <=> c \in Present(task, tester.blind)
               /\ c \in Present(task, tester.blind) => (e <=> task.crit[c] \in Poor[over])
               /\ c \notin Present(task, tester.blind) => ~e
      PROVE  TesterTyped' /\ CountInv'
    BY <1>1, <1>2, <1>7, CriterionStep
<1>8. CASE r = Null
    <2>1. tester' = NextCriterion(0, FALSE)
        BY <1>2, <1>4, <1>8 DEF Walk
    <2>2. ASSUME tester.clean, WholeTables PROVE c \notin Present(task, tester.blind)
        <3>1. fill[over] = "done" /\ Right(tester, task)
            BY <1>3, <1>5, <2>2
        <3>2. tester.r >= tbl[over].count /\ tbl[over].count \in Nat
            BY <1>1, <1>3, <1>4, <1>8, <3>1, NextFacts, WholeFacts
        <3>3. ASSUME NEW d \in Attached(over) PROVE d # task.crit[c]
            <4>1. Rank(over, d) \in Nat /\ Rank(over, d) + 1 \in 1 .. tbl[over].count
                BY <1>3, <3>1, RankFacts
            <4>2. Rank(over, d) < tester.r
                BY <1>1, <3>2, <4>1
            <4>3. QED
                BY <1>1, <1>2, <3>1, <4>2 DEF Right
        <3>4. QED
            BY <1>2, <3>3 DEF Present
    <2>3. PICK f \in {0, 1}, e \in BOOLEAN : f = 0 /\ e = FALSE
        OBVIOUS
    <2>4. tester' = NextCriterion(f, e)
        BY <2>1, <2>3
    <2>5. QED
        BY <1>7, <2>2, <2>3, <2>4
<1>9. ASSUME r # Null, WholeTables
      PROVE  /\ tbl[over].slot[r]["key"] \in Attached(over)
             /\ Rank(over, tbl[over].slot[r]["key"]) = r - 1
             /\ tbl[over].slot[r]["info"] = 1 /\ r = tester.r + 1
    <2>1. fill[over] = "done"
        BY <1>3, <1>9
    <2>2. r \in 1 .. tbl[over].count /\ r = tester.r + 1
        BY <1>1, <1>3, <1>4, <1>9, NextFacts
    <2>3. /\ tbl[over].slot[r]["key"] \in Attached(over)
          /\ Rank(over, tbl[over].slot[r]["key"]) = r - 1
          /\ Complete(over, tbl[over].slot[r], meta)
        BY <1>3, <2>1, <2>2, WholeFacts
    <2>4. QED
        BY <2>2, <2>3 DEF Complete
<1>10. PICK clean \in BOOLEAN : clean = (tester.clean /\ WholeTables)
    OBVIOUS
<1>11. CASE r # Null /\ ~IsHit(tbl[over], r, "key", task.crit[c])
    <2>1. tester' = [tester EXCEPT !.r = r, !.clean = clean]
        BY <1>2, <1>4, <1>10, <1>11 DEF Walk
    <2>2. PICK N : N = tester'
        OBVIOUS
    <2>3. /\ N \in Testers /\ N.pc = tester.pc /\ N.k = tester.k /\ N.c = tester.c /\ N.r = r
          /\ N.found = tester.found /\ N.errs = tester.errs /\ N.clean = clean
          /\ N.blind = tester.blind
        BY <1>1, <2>1, <2>2 DEF Testers
    <2>4. Placing(N, Tasks)
        BY <1>1, <1>6, <2>3 DEF Placing
    <2>5. ASSUME N.clean PROVE Right(N, task)
        <3>1. WholeTables /\ Right(tester, task) /\ fill[over] = "done"
            BY <1>3, <1>5, <1>10, <2>3, <2>5
        <3>2. ASSUME NEW d \in Attached(over), Rank(over, d) < r PROVE d # task.crit[c]
            <4>1. Rank(over, d) \in Nat /\ tbl[over].slot[Rank(over, d) + 1]["key"] = d
                BY <1>3, <3>1, RankFacts
            <4>2. CASE Rank(over, d) < tester.r
                BY <1>1, <1>2, <3>1, <4>2 DEF Right
            <4>3. CASE Rank(over, d) = tester.r
                <5>1. tbl[over].slot[r]["key"] = d
                    BY <1>9, <1>11, <3>1, <4>1, <4>3
                <5>2. QED
                    BY <1>11, <5>1 DEF IsHit, Get
            <4>4. QED
                BY <1>1, <1>9, <1>11, <3>1, <3>2, <4>1, <4>2, <4>3
        <3>3. QED
            BY <1>1, <1>2, <2>3, <3>1, <3>2 DEF Right
    <2>6. QED
        BY <1>1, <1>2, <2>2, <2>3, <2>4, <2>5, WalkClose
<1>12. CASE r # Null /\ IsHit(tbl[over], r, "key", task.crit[c]) /\ over = "usb"
    <2>1. PICK to \in TesterPcs, z \in Nat : to = "flash" /\ z = 0
        BY DEF TesterPcs
    <2>2. tester' = [tester EXCEPT !.pc = to, !.u = r, !.r = z, !.clean = clean]
        BY <1>2, <1>4, <1>10, <1>12, <2>1 DEF Walk, Null
    <2>3. PICK N : N = tester'
        OBVIOUS
    <2>4. /\ N \in Testers /\ N.pc = to /\ N.k = tester.k /\ N.c = tester.c /\ N.u = r
          /\ N.found = tester.found /\ N.errs = tester.errs /\ N.clean = clean
          /\ N.blind = tester.blind
        BY <1>1, <2>2, <2>3 DEF Testers
    <2>5. Placing(N, Tasks)
        BY <1>1, <1>2, <1>6, <1>12, <2>1, <2>4 DEF Placing, Task
    <2>6. ASSUME N.clean PROVE Right(N, task)
        <3>1. WholeTables /\ Right(tester, task)
            BY <1>5, <1>10, <2>4, <2>6
        <3>2. tbl[over].slot[r]["key"] = task.crit[c]
            BY <1>12 DEF IsHit, Get
        <3>3. r = (r - 1) + 1
            OBVIOUS
        <3>4. QED
            BY <1>2, <1>9, <1>12, <2>1, <2>4, <3>1, <3>2, <3>3 DEF Right
    <2>7. QED
        BY <1>1, <1>2, <2>3, <2>4, <2>5, <2>6, WalkClose
<1>13. CASE r # Null /\ IsHit(tbl[over], r, "key", task.crit[c]) /\ over # "usb"
    <2>1. tester' = NextCriterion(1, Faulty(over, tbl[over].slot[r]))
        BY <1>2, <1>4, <1>13 DEF Walk
    <2>2. PICK e \in BOOLEAN : e = Faulty(over, tbl[over].slot[r])
        BY <1>3, FaultyBoolean
    <2>3. tbl[over].slot[r]["key"] = task.crit[c]
        BY <1>13 DEF IsHit, Get
    <2>4. ASSUME WholeTables
          PROVE  c \in Present(task, tester.blind) /\ (e <=> task.crit[c] \in Poor[over])
        <3>1. c \in Present(task, tester.blind)
            <4>1. task.crit[c] \in Attached(task.over) /\ task.over # "usb"
                BY <1>2, <1>9, <1>13, <2>3, <2>4
            <4>2. QED
                BY <1>2, <1>3, <4>1, NotBlind DEF Present
        <3>2. Faulty(over, tbl[over].slot[r]) = (tbl[over].slot[r]["key"] \in Poor[over])
            BY <1>3, <1>9, <1>13, <2>4, FaultyFacts
        <3>3. QED
            BY <2>2, <2>3, <3>1, <3>2
    <2>5. QED
        BY <1>7, <2>1, <2>2, <2>4
<1>14. QED
    BY <1>8, <1>11, <1>12, <1>13

LEMMA ProbeStep == ASSUME Typed, TabInv, TesterTyped, CountInv, Probe PROVE TesterTyped' /\ CountInv'
<1>1. /\ tester \in Testers /\ tester.pc = "flash" /\ tester.c \in DOMAIN Task.crit
      /\ tester.r \in Nat /\ tester.u \in Nat /\ Task.over = "usb"
      /\ Fixed /\ Placing(tester, Tasks)
    BY DEF TesterTyped, Testers, Probe, Placing, Task, Typed, AroundInv, Fixed
<1>2. "usb" \in Tables /\ "blk" \in Tables /\ Task.crit \in Seq(Nat \ {0})
    BY <1>1, WalkFacts
<1>3. WholeTables => fill["usb"] = "done" /\ fill["blk"] = "done"
    BY <1>1, WalkFacts
<1>4. PICK r \in Nat : r = NextRecord(tbl["blk"], tester.r)
    BY <1>1, <1>2, NextFacts
<1>5. PICK b, u : b = tbl["blk"].slot[r] /\ u = tbl["usb"].slot[tester.u]
    OBVIOUS
<1>6. PICK disk \in BOOLEAN : disk = IsHit(tbl["blk"], r, "key", Flash[u["key"]])
    BY DEF IsHit
<1>7. PICK accept \in BOOLEAN : accept = (KnownUsb(u["key"]) /\ (disk => b["info"] = 1))
    OBVIOUS
<1>8. tester' = IF r = Null \/ disk
                  THEN NextCriterion(IF accept THEN 1 ELSE 0, accept /\ Faulty("usb", u))
                  ELSE [tester EXCEPT !.r = r, !.clean = tester.clean /\ WholeTables]
    BY <1>4, <1>5, <1>6, <1>7 DEF Probe
<1>9. CASE r = Null \/ disk
    <2>1. Faulty("usb", u) \in BOOLEAN
        BY FaultyBoolean
    <2>2. PICK e \in BOOLEAN : e = (accept /\ Faulty("usb", u))
        OBVIOUS
    <2>3. PICK f \in {0, 1} : f = (IF accept THEN 1 ELSE 0)
        OBVIOUS
    <2>4. tester' = NextCriterion(f, e)
        BY <1>8, <1>9, <2>2, <2>3
    <2>5. ASSUME tester.clean, WholeTables
          PROVE  /\ f = 1 <=> tester.c \in Present(Task, tester.blind)
                 /\ e <=> tester.c \in Present(Task, tester.blind) /\
                            Task.crit[tester.c] \in Poor["usb"]
        <3>1. Right(tester, Task)
            BY <1>1, <2>5 DEF CountInv
        <3>2. PICK d : d = Task.crit[tester.c]
            OBVIOUS
        <3>3. d \in Attached("usb") /\ tester.u = Rank("usb", d) + 1
            BY <1>1, <3>1, <3>2 DEF Right
        <3>4. u["key"] = d /\ tester.u \in 1 .. tbl["usb"].count
            BY <1>2, <1>3, <1>5, <2>5, <3>3, RankFacts
        <3>5. u["info"] = 1
            <4>1. Complete("usb", u, meta)
                BY <1>2, <1>3, <1>5, <2>5, <3>4, WholeFacts
            <4>2. QED
                BY <4>1 DEF Complete
        <3>6. disk => b["info"] = 1
            <4>1. ASSUME disk PROVE Complete("blk", b, meta)
                <5>1. r # Null
                    BY <1>6, <4>1 DEF IsHit
                <5>2. r \in 1 .. tbl["blk"].count
                    BY <1>1, <1>2, <1>4, <5>1, NextFacts
                <5>3. QED
                    BY <1>2, <1>3, <1>5, <2>5, <5>2, WholeFacts
            <4>2. QED
                BY <4>1 DEF Complete
        <3>7. accept <=> KnownUsb(d)
            BY <1>7, <3>4, <3>6
        <3>8. tester.c \in Present(Task, tester.blind) <=> KnownUsb(d)
            BY <1>1, <3>2, <3>3, NotBlind DEF Present
        <3>9. Faulty("usb", u) = (d \in Poor["usb"])
            BY <3>4, <3>5, FaultyFacts
        <3>10. f = 1 <=> accept
            BY <2>3
        <3>11. e <=> accept /\ d \in Poor["usb"]
            BY <2>2, <3>9, Zenon
        <3>12. QED
            BY <3>2, <3>7, <3>8, <3>10, <3>11
    <2>6. QED
        BY <1>1, <2>4, <2>5, CriterionStep
<1>10. CASE ~(r = Null \/ disk)
    <2>1. PICK clean \in BOOLEAN : clean = (tester.clean /\ WholeTables)
        OBVIOUS
    <2>2. tester' = [tester EXCEPT !.r = r, !.clean = clean]
        BY <1>8, <1>10, <2>1
    <2>3. PICK N : N = tester'
        OBVIOUS
    <2>4. /\ N \in Testers /\ N.pc = tester.pc /\ N.k = tester.k /\ N.c = tester.c
          /\ N.u = tester.u /\ N.found = tester.found /\ N.errs = tester.errs
          /\ N.clean = clean /\ N.blind = tester.blind
        BY <1>1, <2>2, <2>3 DEF Testers
    <2>5. Placing(N, Tasks)
        BY <1>1, <2>4 DEF Placing
    <2>6. ASSUME N.clean PROVE Right(N, Task)
        <3>1. Right(tester, Task)
            BY <1>1, <2>1, <2>4, <2>6 DEF CountInv
        <3>2. QED
            BY <1>1, <2>4, <3>1 DEF Right
    <2>7. QED
        BY <1>1, <2>3, <2>4, <2>5, <2>6, WalkClose
<1>11. QED
    BY <1>9, <1>10

\* The walk begins with nothing counted.
LEMMA AfterScanStep ==
    ASSUME Typed, TabInv, TesterTyped, Fixed, NEW status, tester.pc = "wait",
           tester' = AfterScan(status)
    PROVE  TesterTyped' /\ CountInv'
<1>1. /\ tester \in Testers /\ Placing(tester, Tasks)
      /\ tester.k \in DOMAIN Tasks /\ Task.scan # <<>>
      /\ tester.c = 1 /\ tester.r = 0 /\ tester.found = 0 /\ ~tester.errs
      /\ tester.blind = {}
    BY DEF TesterTyped, Placing, Task
<1>2. \/ tester' = [tester EXCEPT !.pc = "walk", !.clean = WholeTables]
      \/ tester' = NextTask \/ tester' = IdleTester
    BY DEF AfterScan
<1>3. Tasks' = Tasks
    BY DEF Fixed, Tasks
<1>4. CASE tester' = NextTask \/ tester' = IdleTester
    <2>1. /\ tester' \in Testers /\ Placing(tester', Tasks)
          /\ tester'.pc \in {"begin", "none"}
        BY <1>4, NextTaskFacts, IdleTesterFacts
    <2>2. QED
        BY <1>3, <2>1 DEF TesterTyped, CountInv
<1>5. CASE tester' = [tester EXCEPT !.pc = "walk", !.clean = WholeTables]
    <2>1. PICK clean \in BOOLEAN, to \in TesterPcs : clean = WholeTables /\ to = "walk"
        BY DEF WholeTables, TesterPcs
    <2>2. tester' = [tester EXCEPT !.pc = to, !.clean = clean]
        BY <1>5, <2>1
    <2>3. PICK N : N = tester'
        OBVIOUS
    <2>4. /\ N \in Testers /\ N.pc = to /\ N.k = tester.k /\ N.c = 1 /\ N.r = 0
          /\ N.found = 0 /\ N.errs = tester.errs /\ N.clean = clean /\ N.blind = {}
        BY <1>1, <2>2, <2>3 DEF Testers
    <2>5. IsTask(Task)
        BY <1>1, TaskFacts
    <2>6. Placing(N, Tasks)
        BY <1>1, <2>1, <2>4, <2>5 DEF Placing, IsTask, Task
    <2>7. ASSUME N.clean PROVE Right(N, Task)
        <3>1. Task.over \in Tables /\ fill[Task.over] = "done"
            <4>1. PICK i \in DOMAIN Task.scan : Task.over = Task.scan[i]
                BY <1>1, <2>5 DEF IsTask
            <4>2. WholeTables
                <5>1. clean
                    BY <2>4, <2>7
                <5>2. QED
                    BY <2>1, <5>1
            <4>3. fill[Task.over] = "done"
                BY <4>1, <4>2 DEF WholeTables
            <4>4. Task.over \in Tables
                BY <1>1, <2>5, <4>1 DEF IsTask
            <4>5. QED
                BY <4>3, <4>4
        <3>2. Found(Task, 1, {}) = {}
            BY <1>1, <2>5 DEF Found, Present, IsTask
        <3>3. \A d \in Attached(Task.over) : ~(Rank(Task.over, d) < 0)
            BY <3>1, RankFacts
        <3>4. Cardinality({}) = 0
            BY FS_EmptySet
        <3>5. QED
            BY <1>1, <2>1, <2>4, <3>2, <3>3, <3>4 DEF Right
    <2>8. QED
        BY <2>3, <2>4, <2>6, <2>7, WalkClose
<1>6. QED
    BY <1>2, <1>4, <1>5

LEMMA TesterKept == ASSUME TesterTyped, CountInv, Fixed, tester' = tester PROVE TesterTyped' /\ CountInv'
BY WalkClose DEF TesterTyped, CountInv

LEMMA ItemsKept == ASSUME ItemsInv, Fixed, items' = items PROVE ItemsInv'
<1>1. Tasks' = Tasks /\ left'["disks"] = left["disks"]
    BY DEF Fixed, Tasks
<1>2. ASSUME NEW k \in DOMAIN items PROVE VerdictOk(items[k], Tasks[k])'
    <2>1. PICK w, task : w = items[k] /\ task = Tasks[k]
        OBVIOUS
    <2>2. VerdictOk(w, task)' <=> VerdictOk(w, task)
        BY <1>1, RightKept
    <2>3. QED
        BY <1>1, <2>1, <2>2 DEF ItemsInv
<1>3. QED
    BY <1>2 DEF ItemsInv

\* A verdict is right of the machine, which stays as it is.
LEMMA SaidFacts ==
    ASSUME ItemsInv, Fixed, NEW v, NEW clean, Say(v, clean),
           VerdictOk([v |-> v, clean |-> clean, blind |-> tester.blind], Task)
    PROVE  ItemsInv'
<1>1. Tasks' = Tasks /\ left'["disks"] = left["disks"]
    BY DEF Fixed, Tasks
<1>2. PICK item : item = [v |-> v, clean |-> clean, blind |-> tester.blind]
    OBVIOUS
<1>3. items' = items \/ items' = [items EXCEPT ![tester.k] = item]
    BY <1>2 DEF Say
<1>4. ASSUME NEW k \in DOMAIN items' PROVE VerdictOk(items'[k], Tasks[k])
    <2>1. k \in DOMAIN items /\ (items'[k] = items[k] \/ (k = tester.k /\ items'[k] = item))
        BY <1>3, <1>4
    <2>2. VerdictOk(items[k], Tasks[k])
        BY <2>1 DEF ItemsInv
    <2>3. QED
        BY <1>2, <2>1, <2>2 DEF Task
<1>5. ASSUME NEW k \in DOMAIN items' PROVE VerdictOk(items[k], Tasks[k])'
    <2>1. PICK w, task : w = items'[k] /\ task = Tasks[k]
        OBVIOUS
    <2>2. VerdictOk(w, task)' <=> VerdictOk(w, task)
        BY <1>1, RightKept
    <2>3. VerdictOk(w, task)
        BY <1>4, <1>5, <2>1
    <2>4. QED
        BY <1>1, <2>1, <2>2, <2>3
<1>6. QED
    BY <1>5 DEF ItemsInv

\* At the end of the walk everything there is has been counted.
LEMMA ReportRight ==
    ASSUME Typed, TesterTyped, CountInv, Report
    PROVE  VerdictOk([v |-> Verdict(Task.over, tester.found, Task.expected, tester.errs),
                      clean |-> tester.clean, blind |-> tester.blind], Task)
<1>1. PICK task, n, errs, b :
         task = Task /\ n = tester.found /\ errs = tester.errs /\ b = tester.blind
    OBVIOUS
<1>2. PICK good \in BOOLEAN :
         good = ((n > 0 \/ task.over = "pci") /\ n >= task.expected /\ ~errs)
    OBVIOUS
<1>3. Verdict(Task.over, tester.found, Task.expected, tester.errs) = OkIf(good)
    BY <1>1, <1>2 DEF Verdict
<1>4. OkIf(good) = "OK" <=> good
    BY DEF OkIf
<1>5. ASSUME tester.clean
      PROVE  good <=> Good(task, b)
    <2>1. tester.pc = "walk" /\ tester.c \notin DOMAIN task.crit
        BY <1>1 DEF Report
    <2>2. Right(tester, task)
        BY <1>1, <1>5, <2>1 DEF CountInv
    <2>3. /\ tester.c \in Nat \ {0} /\ tester.c <= Len(task.crit) + 1
          /\ task.crit \in Seq(Nat \ {0})
        BY <1>1, <2>1, WalkFacts
    <2>4. tester.c = Len(task.crit) + 1
        BY <2>1, <2>3
    <2>5. Found(task, tester.c, b) = Present(task, b)
        BY <2>3, <2>4 DEF Found, Present
    <2>6. n = Cardinality(Present(task, b)) /\ n \in Nat
        BY <1>1, <2>2, <2>3, <2>5, FoundFinite DEF Right
    <2>7. n = 0 <=> Present(task, b) = {}
        BY <2>3, <2>6, FoundFinite, FS_EmptySet
    <2>8. errs <=> \E c \in Present(task, b) : task.crit[c] \in Poor[task.over]
        BY <1>1, <2>2, <2>5 DEF Right
    <2>9. n > 0 <=> Present(task, b) # {}
        BY <2>6, <2>7
    <2>10. n >= task.expected <=> Cardinality(Present(task, b)) >= task.expected
        BY <2>6
    <2>11. good <=> (n > 0 \/ task.over = "pci") /\ n >= task.expected /\ ~errs
        BY <1>2
    <2>12. QED
        BY <2>8, <2>9, <2>10, <2>11, Zenon DEF Good
<1>6. QED
    BY <1>1, <1>3, <1>4, <1>5 DEF VerdictOk

LEMMA NextTaskStep ==
    ASSUME TesterTyped, Fixed, tester' = NextTask \/ tester' = IdleTester
    PROVE  TesterTyped' /\ CountInv'
<1>1. tester' \in Testers /\ Placing(tester', Tasks) /\ tester'.pc \in {"begin", "none"}
    BY NextTaskFacts, IdleTesterFacts
<1>2. QED
    BY <1>1 DEF TesterTyped, CountInv, Fixed, Tasks

LEMMA SayStep ==
    ASSUME Typed, WalkInv, Fixed, CpuTest \/ MemTest \/ Report
    PROVE  WalkInv'
<1>1. tester' = NextTask
    BY DEF CpuTest, MemTest, Report
<1>2. TesterTyped' /\ CountInv'
    BY <1>1, NextTaskStep DEF WalkInv
<1>3. CASE Report
    BY <1>2, <1>3, ReportRight, SaidFacts DEF WalkInv, Report
<1>4. CASE CpuTest \/ MemTest
    <2>1. PICK v, clean : Say(v, clean)
        BY <1>4 DEF CpuTest, MemTest
    <2>2. Task.scan = <<>>
        BY <1>4, TaskFacts DEF CpuTest, MemTest, IsTask
    <2>3. VerdictOk([v |-> v, clean |-> clean, blind |-> tester.blind], Task)
        BY <2>2 DEF VerdictOk
    <2>4. QED
        BY <1>2, <2>1, <2>3, SaidFacts DEF WalkInv
<1>5. QED
    BY <1>3, <1>4

LEMMA LoadStep == ASSUME WalkInv, Fixed, LoadIni PROVE WalkInv'
<1>1. Tasks' = Tasks
    BY DEF Fixed, Tasks
<1>2. PICK to \in TesterPcs : to = "begin"
    BY DEF TesterPcs
<1>3. tester' = [IdleTester EXCEPT !.pc = to]
    BY <1>2 DEF LoadIni
<1>4. PICK W : W = IdleTester
    OBVIOUS
<1>5. /\ W \in Testers /\ W.c = 1 /\ W.r = 0 /\ W.u = 0 /\ W.found = 0 /\ ~W.errs
      /\ W.blind = {}
    BY <1>4, IdleTesterFacts DEF Placing
<1>6. PICK N : N = [W EXCEPT !.pc = to]
    OBVIOUS
<1>7. /\ N \in Testers /\ N.pc = to /\ N.c = W.c /\ N.r = W.r /\ N.u = W.u
      /\ N.found = W.found /\ N.errs = W.errs /\ N.blind = W.blind
    BY <1>5, <1>6 DEF Testers
<1>8. tester' = N
    BY <1>3, <1>4, <1>6
<1>9. TesterTyped' /\ CountInv'
    BY <1>1, <1>2, <1>5, <1>7, <1>8 DEF TesterTyped, CountInv, Placing
<1>10. \A k \in DOMAIN items' : items'[k].v = "none"
    BY DEF LoadIni, NoVerdict
<1>11. ItemsInv'
    BY <1>10 DEF ItemsInv, VerdictOk
<1>12. QED
    BY <1>9, <1>11 DEF WalkInv

LEMMA OpenStep == ASSUME WalkInv, Fixed, OpenScan PROVE WalkInv'
<1>1. Tasks' = Tasks
    BY DEF Fixed, Tasks
<1>2. PICK to \in TesterPcs : to = "wait"
    BY DEF TesterPcs
<1>3. tester' = [tester EXCEPT !.pc = to]
    BY <1>2 DEF OpenScan
<1>4. PICK N : N = tester'
    OBVIOUS
<1>5. tester \in Testers /\ Placing(tester, Tasks) /\ tester.pc = "begin"
    BY DEF WalkInv, TesterTyped, OpenScan
<1>6. /\ N \in Testers /\ N.pc = to /\ N.k = tester.k /\ N.c = tester.c /\ N.r = tester.r
      /\ N.u = tester.u /\ N.found = tester.found /\ N.errs = tester.errs
      /\ N.blind = tester.blind
    BY <1>3, <1>4, <1>5 DEF Testers
<1>7. tester.k \in DOMAIN Tasks /\ Tasks[tester.k].scan # <<>>
    BY DEF OpenScan, Task
<1>8. Placing(N, Tasks)
    BY <1>2, <1>5, <1>6, <1>7 DEF Placing
<1>9. TesterTyped' /\ CountInv'
    BY <1>1, <1>2, <1>4, <1>6, <1>8 DEF TesterTyped, CountInv
<1>10. ItemsInv'
    BY ItemsKept DEF WalkInv, OpenScan, outside
<1>11. QED
    BY <1>9, <1>10 DEF WalkInv

LEMMA GoneStep ==
    ASSUME Typed, TabInv, WalkInv, Fixed, NEW s \in Scans, NEW status, Gone(s, status),
           items' = items
    PROVE  WalkInv'
<1>1. ItemsInv'
    BY ItemsKept DEF WalkInv
<1>2. CASE tester' = tester
    BY <1>1, <1>2, TesterKept DEF WalkInv
<1>3. CASE tester.pc = "wait" /\ tester' = AfterScan(status)
    BY <1>1, <1>3, AfterScanStep DEF WalkInv
<1>4. QED
    BY <1>2, <1>3 DEF Gone

LEMMA StepWalk == ASSUME Typed, TabInv, WalkInv, [Next]_vars PROVE WalkInv'
<1>1. Fixed
    BY StepValues
<1>2. ASSUME UNCHANGED <<tester, items>> PROVE WalkInv'
    BY <1>1, <1>2, TesterKept, ItemsKept DEF WalkInv
<1>3. CASE UNCHANGED vars
    BY <1>2, <1>3 DEF vars
<1>4. ASSUME NEW s \in Scans, Exit(s) \/ Terminate(s) \/ Crash(s) PROVE WalkInv'
    BY <1>1, <1>4, GoneStep DEF Exit, Terminate, Crash, outside
<1>5. ASSUME NEW s \in Scans, ScanStep(s) PROVE WalkInv'
    <2>1. CASE ~Exit(s)
        BY <1>2, <1>5, <2>1 DEF ScanStep, Check, WritePid, Collect, ClearTable, AddRecord, SetField,
            Compare, SwapLeft, SwapRight, EndTable, ListTable, outside
    <2>2. QED
        BY <1>4, <2>1
<1>6. ASSUME NEW s \in Scans, FailTable(s) PROVE WalkInv'
    BY <1>2, <1>6 DEF FailTable, outside
<1>7. CASE ScanByHand \/ HddRun \/ Mount \/ HddStep
    BY <1>2, <1>7 DEF ScanByHand, HddRun, Mount, HddStep, HddFind, HddMount, HddEnd, outside
<1>8. CASE CpuTest \/ MemTest \/ Report
    BY <1>1, <1>8, SayStep
<1>9. CASE LoadIni
    BY <1>1, <1>9, LoadStep
<1>10. CASE OpenScan
    BY <1>1, <1>10, OpenStep
<1>11. CASE Walk
    BY <1>1, <1>11, WalkStep, ItemsKept DEF WalkInv, Walk
<1>12. CASE Probe
    BY <1>1, <1>12, ProbeStep, ItemsKept DEF WalkInv, Probe, outside
<1>13. CASE EndScanDev
    BY <1>1, <1>13, NextTaskStep, ItemsKept DEF WalkInv, EndScanDev, outside
<1>14. CASE GetIFsFails
    BY <1>1, <1>14, BlindStep, ItemsKept DEF WalkInv, GetIFsFails, outside
<1>15. QED
    BY <1>3, <1>4, <1>5, <1>6, <1>7, <1>8, <1>9, <1>10, <1>11, <1>12, <1>13, <1>14
       DEF Next, TesterStep

LEMMA InitWalk == Init => WalkInv
BY IdleTesterFacts DEF Init, WalkInv, TesterTyped, CountInv, ItemsInv

-----------------------------------------------------------------------------
(* The test of a disk.                                                     *)

HddPcs == {"none", "find", "mount", "read", "write"}

HddTests == [pc : HddPcs, dev : Nat, r : Nat, clean : BOOLEAN, meta : Snaps]

\* A test that has found its record in a whole table knows the slot of the
\* disk, whatever has been scanned since.
HddInv ==
    /\ hdd \in HddTests /\ listed \subseteq Nat /\ meta \in Snaps
    /\ hdd.pc = "mount" /\ hdd.clean =>
         hdd.dev \in Attached("blk") /\ Rank("blk", hdd.dev) = hdd.r - 1
    /\ WriteJustified

LEMMA HddKept ==
    ASSUME HddInv, left'["disks"] = left["disks"], UNCHANGED hdd, listed' \subseteq Nat, meta' \in Snaps
    PROVE  HddInv'
<1>1. (hdd.pc = "mount" /\ hdd.clean =>
         hdd.dev \in Attached("blk") /\ Rank("blk", hdd.dev) = hdd.r - 1)'
    BY DEF HddInv, Rank, Attached
<1>2. QED
    BY <1>1 DEF HddInv, WriteJustified

LEMMA FindHdd == ASSUME Typed, TabInv, HddInv, HddFind PROVE HddInv'
<1>1. "blk" \in Tables
    BY Constants
<1>2. hdd \in HddTests /\ hdd.r \in Nat /\ hdd.dev \in Nat
    BY DEF HddInv, HddTests
<1>3. PICK r \in Nat : r = NextRecord(tbl["blk"], hdd.r)
    BY <1>1, <1>2, NextFacts
<1>4. UNCHANGED <<tbl, left, listed, meta, fill>>
    BY DEF HddFind, history
<1>5. CASE r = Null
    <2>1. hdd' = IdleHdd
        BY <1>3, <1>5 DEF HddFind
    <2>2. hdd' \in HddTests /\ hdd'.pc = "none"
        BY <2>1 DEF IdleHdd, HddTests, HddPcs, Snaps, Null
    <2>3. QED
        BY <1>4, <2>2 DEF HddInv, WriteJustified
<1>6. CASE r # Null
    <2>1. PICK to \in HddPcs :
             /\ to = (IF IsHit(tbl["blk"], r, "key", hdd.dev) THEN "mount" ELSE "find")
             /\ to \in {"mount", "find"}
        BY DEF HddPcs
    <2>2. PICK c \in BOOLEAN : c = (hdd.clean /\ fill["blk"] = "done")
        OBVIOUS
    <2>3. hdd' = [hdd EXCEPT !.r = r, !.clean = c, !.pc = to]
        BY <1>3, <1>6, <2>1, <2>2 DEF HddFind
    <2>4. hdd' \in HddTests /\ hdd'.r = r /\ hdd'.clean = c /\ hdd'.pc = to /\ hdd'.dev = hdd.dev
        BY <1>2, <2>3 DEF HddTests
    <2>5. ASSUME to = "mount", c
          PROVE  hdd.dev \in Attached("blk") /\ Rank("blk", hdd.dev) = r - 1
        <3>1. fill["blk"] = "done"
            BY <2>2, <2>5
        <3>2. tbl["blk"].slot[r]["key"] = hdd.dev
            BY <2>1, <2>5 DEF IsHit, Get
        <3>3. r \in 1 .. tbl["blk"].count
            BY <1>1, <1>2, <1>3, <1>6, NextFacts
        <3>4. QED
            BY <1>1, <3>1, <3>2, <3>3, WholeFacts
    <2>6. (hdd.pc = "mount" /\ hdd.clean =>
             hdd.dev \in Attached("blk") /\ Rank("blk", hdd.dev) = hdd.r - 1)'
        BY <1>4, <2>4, <2>5 DEF Rank, Attached
    <2>7. QED
        BY <1>4, <2>1, <2>4, <2>6 DEF HddInv, WriteJustified
<1>7. QED
    BY <1>5, <1>6

LEMMA MountHdd == ASSUME Typed, TabInv, HddInv, HddMount PROVE HddInv'
<1>1. "blk" \in Tables
    BY Constants
<1>2. hdd \in HddTests /\ hdd.r \in Nat /\ hdd.dev \in Nat /\ meta \in Snaps
    BY DEF HddInv, HddTests
<1>3. hdd.pc = "mount" /\ UNCHANGED <<left, listed, meta>>
    BY DEF HddMount, history
<1>4. PICK to \in HddPcs :
         /\ to = (IF Get(tbl["blk"], hdd.r, "mount") = 0 THEN "write" ELSE "read")
         /\ to \in {"write", "read"}
    BY DEF HddPcs
<1>5. PICK c \in BOOLEAN : c = (hdd.clean /\ fill["blk"] = "done")
    OBVIOUS
<1>6. hdd' = [hdd EXCEPT !.pc = to, !.clean = c, !.meta = meta]
    BY <1>4, <1>5 DEF HddMount
<1>7. hdd' \in HddTests /\ hdd'.clean = c /\ hdd'.pc = to /\ hdd'.dev = hdd.dev /\ hdd'.meta = meta
    BY <1>2, <1>6 DEF HddTests
<1>8. ASSUME to = "write", c PROVE hdd.dev \notin meta
    <2>1. fill["blk"] = "done" /\ hdd.clean
        BY <1>5, <1>8
    <2>2. hdd.dev \in Attached("blk") /\ Rank("blk", hdd.dev) = hdd.r - 1
        BY <1>3, <2>1 DEF HddInv
    <2>3. PICK q \in 1 .. tbl["blk"].count : tbl["blk"].slot[q]["key"] = hdd.dev
        BY <1>1, <2>1, <2>2, WholeFacts
    <2>4. Rank("blk", hdd.dev) = q - 1 /\ Complete("blk", tbl["blk"].slot[q], meta)
        BY <1>1, <2>1, <2>3, WholeFacts
    <2>5. tbl["blk"].count \in Nat
        BY <1>1, <2>1, WholeFacts
    <2>6. q = hdd.r
        BY <1>2, <2>2, <2>4, <2>5
    <2>7. tbl["blk"].slot[q]["mount"] = 0
        BY <1>4, <1>8, <2>6 DEF Get
    <2>8. QED
        BY <2>3, <2>4, <2>7 DEF Complete
<1>9. QED
    BY <1>3, <1>4, <1>7, <1>8 DEF HddInv, WriteJustified

LEMMA IdleHddFacts == IdleHdd \in HddTests /\ IdleHdd.pc = "none"
BY DEF IdleHdd, HddTests, HddPcs, Snaps, Null

LEMMA StepHdd == ASSUME Typed, TabInv, HddInv, TesterTyped, [Next]_vars PROVE HddInv'
<1>1. left'["disks"] = left["disks"]
    BY StepValues DEF Fixed
<1>2. listed \subseteq Nat /\ meta \in Snaps
    BY DEF HddInv
<1>3. CASE UNCHANGED vars
    BY <1>1, <1>2, <1>3, HddKept DEF vars
<1>4. ASSUME NEW s \in Scans, EndTable(s) PROVE HddInv'
    <2>1. scan[s].snap \in Snaps
        BY DEF Typed, ScanInv, Work
    <2>2. meta' \in Snaps
        BY <1>2, <1>4, <2>1, EndTableFacts
    <2>3. QED
        BY <1>1, <1>2, <1>4, <2>2, HddKept DEF EndTable, outside
<1>5. ASSUME NEW s \in Scans, ScanStep(s) PROVE HddInv'
    <2>1. CASE ~EndTable(s)
        <3>1. UNCHANGED <<hdd, listed, meta>>
            BY <1>5, <2>1 DEF ScanStep, Check, WritePid, Collect, ClearTable, AddRecord, SetField,
                Compare, SwapLeft, SwapRight, ListTable, Exit, outside, history
        <3>2. QED
            BY <1>1, <1>2, <3>1, HddKept
    <2>2. QED
        BY <1>4, <2>1
<1>6. ASSUME NEW s \in Scans, FailTable(s) \/ Terminate(s) \/ Crash(s) PROVE HddInv'
    BY <1>1, <1>2, <1>6, HddKept DEF FailTable, Terminate, Crash, outside
<1>7. CASE ScanByHand \/ OpenScan \/ LoadIni \/ Mount
    BY <1>1, <1>2, <1>7, HddKept DEF ScanByHand, OpenScan, LoadIni, Mount, outside, history
<1>8. CASE CpuTest \/ MemTest \/ GetIFsFails \/ Probe \/ Report \/ EndScanDev
    BY <1>1, <1>2, <1>8, HddKept
       DEF CpuTest, MemTest, GetIFsFails, Probe, Report, EndScanDev, outside, history
<1>9. CASE Walk
    <2>1. tester.r \in Nat /\ Task.over \in Tables
        BY <1>9, WalkFacts DEF Walk
    <2>2. PICK r : r = NextRecord(tbl[Task.over], tester.r)
        OBVIOUS
    <2>3. r # Null => Get(tbl[Task.over], r, "key") \in Nat
        BY <2>1, <2>2, NextFacts DEF Get
    <2>4. listed' = listed \/ (r # Null /\ listed' = listed \cup {Get(tbl[Task.over], r, "key")})
        BY <1>9, <2>2 DEF Walk, IsHit
    <2>5. listed' \subseteq Nat
        BY <1>2, <2>3, <2>4
    <2>6. QED
        BY <1>1, <1>2, <1>9, <2>5, HddKept DEF Walk, history
<1>10. CASE HddRun
    <2>1. PICK d \in listed : hdd' = [IdleHdd EXCEPT !.pc = "find", !.dev = d]
        BY <1>10 DEF HddRun
    <2>2. PICK to \in HddPcs, e \in Nat : to = "find" /\ e = d
        <3>1. "find" \in HddPcs /\ d \in Nat
            BY <1>2 DEF HddPcs
        <3>2. QED
            BY ONLY <3>1
    <2>3. hdd' = [IdleHdd EXCEPT !.pc = to, !.dev = e]
        BY <2>1, <2>2
    <2>4. hdd' \in HddTests /\ hdd'.pc = to
        BY <2>3, IdleHddFacts DEF HddTests
    <2>5. QED
        BY <1>2, <1>10, <2>2, <2>4 DEF HddRun, history, HddInv, WriteJustified
<1>11. CASE HddEnd
    BY <1>2, <1>11, IdleHddFacts DEF HddEnd, history, HddInv, WriteJustified
<1>12. QED
    BY <1>3, <1>5, <1>6, <1>7, <1>8, <1>9, <1>10, <1>11, FindHdd, MountHdd
    DEF Next, TesterStep, HddStep

LEMMA InitHdd == Init => HddInv
BY IdleHddFacts DEF Init, HddInv, WriteJustified, Snaps

-----------------------------------------------------------------------------
(* Whatever has been left in the slots of the table of the disks, a key is *)
(* that of a disk or none.                                                 *)

Keys == {0} \cup Devices["blk"]

Keyed(slot) == \A r \in Slots : slot[r]["key"] \in Keys

KeyInv ==
    /\ Keyed(tbl["blk"].slot)
    /\ \A s \in Scans : pc[s] = "swap" /\ Now(s) = "blk" => scan[s].tmp["key"] \in Keys
    /\ listed \subseteq Devices["blk"]

LEMMA KeyWork ==
    ASSUME Typed, KeyInv, NEW s \in Scans, Local(s), scan'[s].todo = scan[s].todo, listed' = listed,
           Now(s) = "blk" => /\ Keyed(tbl'["blk"].slot)
                             /\ pc'[s] = "swap" => scan'[s].tmp["key"] \in Keys,
           pc[s] \in OnRows \/ pc'[s] # "swap"
    PROVE  KeyInv'
<1>1. Keyed(tbl'["blk"].slot)
    BY Constants DEF Local, KeyInv
<1>2. ASSUME NEW q \in Scans, pc'[q] = "swap", Head(scan'[q].todo) = "blk"
      PROVE  scan'[q].tmp["key"] \in Keys
    <2>1. CASE q = s
        BY <1>2, <2>1 DEF Now
    <2>2. CASE q # s
        BY <1>2, <2>2 DEF Local, Now, KeyInv
    <2>3. QED
        BY <2>1, <2>2
<1>3. QED
    BY <1>1, <1>2 DEF KeyInv, Now

\* A step that works on no table.
LEMMA KeyAway ==
    ASSUME KeyInv, NEW s \in Scans, UNCHANGED tbl, listed' \subseteq Devices["blk"],
           \A q \in Scans \ {s} : scan'[q] = scan[q] /\ pc'[q] = pc[q], pc'[s] # "swap"
    PROVE  KeyInv'
BY DEF KeyInv, Now

LEMMA KeySame ==
    ASSUME KeyInv, UNCHANGED <<tbl, pc, scan>>, listed' \subseteq Devices["blk"]
    PROVE  KeyInv'
BY DEF KeyInv, Now

LEMMA KeySteps ==
    ASSUME Typed, KeyInv, NEW s \in Scans,
           ClearTable(s) \/ AddRecord(s) \/ SetField(s) \/ Compare(s) \/ SwapLeft(s) \/ SwapRight(s)
    PROVE  KeyInv'
<1>1. /\ listed' = listed /\ "blk" \in Tables /\ "key" \in Fields
      /\ Keyed(tbl["blk"].slot) /\ 0 \in Keys
    BY Constants DEF ClearTable, AddRecord, SetField, Compare, SwapLeft, SwapRight, outside, KeyInv,
        Keys
<1>2. pc[s] \in AtTable
    BY DEF ClearTable, AddRecord, SetField, Compare, SwapLeft, SwapRight, AtTable
<1>3. PICK T : T = tbl["blk"]
    OBVIOUS
<1>4. T \in TableValues /\ Keyed(T.slot)
    BY <1>1, <1>3 DEF Typed, ScanInv, TableInv
<1>5. CASE ClearTable(s)
    <2>1. ASSUME Now(s) = "blk" PROVE Keyed(tbl'["blk"].slot)
        <3>1. tbl'["blk"] = Cleared(T) \/ tbl'["blk"] = Created(Alloc)
            BY <1>1, <1>3, <1>5, <2>1 DEF ClearTable, Typed, ScanInv
        <3>2. Cleared(T).slot = T.slot
            BY <1>4 DEF Cleared, TableValues
        <3>3. Keyed(Created(Alloc).slot)
            BY <1>1 DEF Created, Keyed, BlankRow
        <3>4. QED
            BY <1>4, <3>1, <3>2, <3>3
    <2>2. QED
        BY <1>1, <1>5, <2>1, ClearFacts, KeyWork
<1>6. CASE AddRecord(s)
    <2>1. ASSUME Now(s) = "blk" PROVE Keyed(tbl'["blk"].slot)
        <3>1. tbl'["blk"] = Added(T) /\ NewSlot(T) \in Slots
            BY <1>3, <1>6, <2>1, AddFacts
        <3>2. \A r \in Slots : r # T.count + 1 => Added(T).slot[r] = T.slot[r]
            BY <1>4, <3>1, AddedFacts
        <3>3. Added(T).slot[T.count + 1]["key"] = 0
            <4>1. Grown(T).slot = T.slot /\ DOMAIN T.slot = Slots
                BY <1>4 DEF Grown, TableValues
            <4>2. PICK S : S = [T.slot EXCEPT ![NewSlot(T)] = [BlankRow EXCEPT !["id"] = T.idnext]]
                OBVIOUS
            <4>3. Added(T).slot = S
                BY <1>4, <4>1, <4>2 DEF Added, Grown, TableValues
            <4>4. S[NewSlot(T)]["key"] = 0
                BY <1>1, <3>1, <4>1, <4>2 DEF BlankRow
            <4>5. QED
                BY <4>3, <4>4 DEF NewSlot
        <3>4. QED
            BY <1>1, <1>4, <3>1, <3>2, <3>3 DEF Keyed
    <2>2. QED
        BY <1>1, <1>6, <2>1, AddFacts, KeyWork
<1>7. CASE SetField(s)
    <2>1. ASSUME Now(s) = "blk" PROVE Keyed(tbl'["blk"].slot)
        <3>1. PICK r \in Slots, f \in Fields, v \in Nat :
                 /\ tbl'["blk"] = Put(T, r, f, v)
                 /\ f = "key" => v = scan[s].dev
            <4>1. PICK f : f = FieldsOf(Now(s))[scan[s].f]
                OBVIOUS
            <4>2. f \in Fields /\ scan[s].row \in Slots /\ Value(s, f) \in Nat
                BY <1>7, <4>1, SetFacts
            <4>3. tbl'["blk"] = Put(T, scan[s].row, f, Value(s, f))
                BY <1>3, <1>7, <2>1, <4>1, SetFacts
            <4>4. f = "key" => Value(s, f) = scan[s].dev
                BY DEF Value
            <4>5. QED
                BY <4>2, <4>3, <4>4
        <3>2. scan[s].dev \in Devices["blk"]
            <4>1. scan[s].dev \in Attached("blk")
                BY <1>7, <2>1, SetFacts DEF Typed, ScanInv, Placed
            <4>2. QED
                BY <1>1, <4>1, AttachedType
        <3>3. /\ \A q \in Slots : q # r => Put(T, r, f, v).slot[q] = T.slot[q]
              /\ Put(T, r, f, v).slot[r][f] = v
              /\ \A g \in Fields \cup {"id"} : g # f => Put(T, r, f, v).slot[r][g] = T.slot[r][g]
            BY <1>4, PutFacts
        <3>4. Put(T, r, f, v).slot[r]["key"] \in Keys
            BY <1>1, <1>4, <3>1, <3>2, <3>3 DEF Keyed, Keys
        <3>5. QED
            BY <1>4, <3>1, <3>3, <3>4 DEF Keyed
    <2>2. pc'[s] # "swap"
        BY <1>7, SetFacts
    <2>3. QED
        BY <1>1, <1>7, <2>1, <2>2, SetFacts, KeyWork
<1>8. CASE Compare(s)
    <2>1. pc'[s] # "swap"
        BY <1>8, CompareFacts
    <2>2. QED
        BY <1>1, <1>8, <2>1, CompareFacts, KeyWork
<1>9. CASE SwapLeft(s)
    <2>1. ASSUME Now(s) = "blk"
          PROVE  Keyed(tbl'["blk"].slot) /\ scan'[s].tmp["key"] \in Keys
        <3>1. PICK r \in Slots : r = scan[s].i + 1 /\ r + 1 \in Slots
            BY <1>9, SwapLeftFacts DEF Slots, Typed, ScanInv, Work
        <3>2. tbl'["blk"] = CopyDown(T, r) /\ scan'[s].tmp = T.slot[r]
            BY <1>3, <1>9, <2>1, <3>1, SwapLeftFacts
        <3>3. CopyDown(T, r).slot = [T.slot EXCEPT ![r] = T.slot[r + 1]] /\ DOMAIN T.slot = Slots
            BY <1>4, <3>1, CopyDownFacts DEF TableValues
        <3>4. QED
            BY <1>4, <3>1, <3>2, <3>3 DEF Keyed
    <2>2. pc[s] \in OnRows
        BY <1>9, SwapLeftFacts DEF OnRows
    <2>3. QED
        BY <1>1, <1>9, <2>1, <2>2, SwapLeftFacts, KeyWork
<1>10. CASE SwapRight(s)
    <2>1. ASSUME Now(s) = "blk" PROVE Keyed(tbl'["blk"].slot)
        <3>1. PICK r \in Nat, row \in Row : r = scan[s].i + 1 /\ row = scan[s].tmp /\ r + 1 \in Slots
            <4>1. scan[s].i \in Nat /\ scan[s].tmp \in Row /\ scan[s].i + 2 \in Slots
                BY <1>10, SwapRightFacts
            <4>2. scan[s].i + 1 \in Nat /\ (scan[s].i + 1) + 1 \in Slots
                <5>1. (scan[s].i + 1) + 1 = scan[s].i + 2
                    BY <4>1
                <5>2. QED
                    BY <4>1, <5>1
            <4>3. QED
                BY <4>1, <4>2
        <3>2. tbl'["blk"] = CopyTmp(T, r, row)
            BY <1>3, <1>10, <2>1, <3>1, SwapRightFacts
        <3>3. CopyTmp(T, r, row).slot = [T.slot EXCEPT ![r + 1] = row] /\ DOMAIN T.slot = Slots
            BY <1>4, <3>1, CopyTmpFacts DEF TableValues
        <3>4. row["key"] \in Keys
            BY <1>10, <2>1, <3>1, SwapRightFacts DEF KeyInv
        <3>5. QED
            BY <1>4, <3>1, <3>2, <3>3, <3>4 DEF Keyed
    <2>2. pc'[s] # "swap"
        BY <1>10, SwapRightFacts
    <2>3. QED
        BY <1>1, <1>10, <2>1, <2>2, SwapRightFacts, KeyWork
<1>11. QED
    BY <1>5, <1>6, <1>7, <1>8, <1>9, <1>10

LEMMA StepKeys == ASSUME Typed, KeyInv, TesterTyped, [Next]_vars PROVE KeyInv'
<1>1. listed \subseteq Devices["blk"]
    BY DEF KeyInv
<1>2. CASE UNCHANGED vars
    BY <1>1, <1>2, KeySame DEF vars
<1>3. ASSUME NEW s \in Scans, Check(s) \/ WritePid(s) PROVE KeyInv'
    <2>1. PICK to \in {"write", "open"} :
             pc' = [pc EXCEPT ![s] = to] /\ UNCHANGED <<tbl, scan, listed>>
        BY <1>3 DEF Check, WritePid, Go, outside
    <2>2. pc \in [Scans -> Pcs]
        BY DEF Typed, FileInv
    <2>3. QED
        BY <1>1, <2>1, <2>2, KeyAway
<1>4. ASSUME NEW s \in Scans, Collect(s) \/ EndTable(s) \/ ListTable(s) \/ FailTable(s) PROVE KeyInv'
    <2>1. listed' = listed
        BY <1>4 DEF Collect, EndTable, ListTable, FailTable, outside
    <2>2. /\ UNCHANGED tbl /\ pc'[s] # "swap"
          /\ \A q \in Scans \ {s} : scan'[q] = scan[q] /\ pc'[q] = pc[q]
        BY <1>4, CollectFacts, EndTableFacts, ListTableFacts, FailTableFacts DEF Local
    <2>3. QED
        BY <1>1, <2>1, <2>2, KeyAway
<1>5. ASSUME NEW s \in Scans, Exit(s) \/ Terminate(s) \/ Crash(s) PROVE KeyInv'
    <2>1. UNCHANGED <<tbl, listed>> /\ \E status : Gone(s, status)
        BY <1>5 DEF Exit, Terminate, Crash, outside
    <2>2. QED
        BY <1>1, <2>1, GoneFacts, KeyAway
<1>6. CASE ScanByHand
    <2>1. "hand" \in Scans /\ <<"blk">> \in Seq(Tables)
        BY Constants DEF Scans
    <2>2. QED
        BY <1>1, <1>6, <2>1, StartFacts, KeyAway DEF ScanByHand, outside
<1>7. CASE OpenScan
    <2>1. "child" \in Scans /\ Task.scan \in Seq(Tables)
        BY <1>7, TaskFacts DEF Scans, OpenScan
    <2>2. QED
        BY <1>1, <1>7, <2>1, StartFacts, KeyAway DEF OpenScan, outside
<1>8. CASE LoadIni \/ HddRun \/ Mount \/ HddStep
    BY <1>1, <1>8, KeySame DEF LoadIni, HddRun, Mount, HddStep, HddFind, HddMount, HddEnd, devscans
<1>9. CASE CpuTest \/ MemTest \/ GetIFsFails \/ Probe \/ Report \/ EndScanDev
    BY <1>1, <1>9, KeySame
       DEF CpuTest, MemTest, GetIFsFails, Probe, Report, EndScanDev, devscans, outside
<1>10. CASE Walk
    <2>1. /\ tester.r \in Nat /\ Task.over \in Tables
          /\ Task.crit \in Seq(Nat \ {0}) /\ tester.c \in DOMAIN Task.crit
        BY <1>10, WalkFacts DEF Walk
    <2>2. PICK r, key : r = NextRecord(tbl[Task.over], tester.r) /\ key = Task.crit[tester.c]
        OBVIOUS
    <2>3. key # 0
        BY <2>1, <2>2
    <2>4. listed' = listed \/ /\ IsHit(tbl[Task.over], r, "key", key) /\ Task.over = "blk"
                              /\ listed' = listed \cup {Get(tbl[Task.over], r, "key")}
        BY <1>10, <2>2 DEF Walk
    <2>5. ASSUME IsHit(tbl["blk"], r, "key", key), Task.over = "blk"
          PROVE  Get(tbl["blk"], r, "key") \in Devices["blk"]
        <3>1. r \in Slots
            <4>1. r \in 1 .. tbl["blk"].count /\ tbl["blk"].count \in Nat
                BY <2>1, <2>2, <2>5, NextFacts DEF IsHit, Typed, ScanInv, TableInv, TableValues
            <4>2. tbl["blk"].count <= Capacity
                BY <2>1, <2>5, Constants DEF Typed, ScanInv, TableInv, TableValues
            <4>3. QED
                BY <4>1, <4>2, Constants DEF Slots
        <3>2. Get(tbl["blk"], r, "key") \in Keys /\ Get(tbl["blk"], r, "key") = key
            BY <2>5, <3>1 DEF KeyInv, Keyed, Get, IsHit
        <3>3. QED
            BY <2>3, <3>2 DEF Keys
    <2>6. listed' \subseteq Devices["blk"]
        BY <1>1, <2>4, <2>5
    <2>7. QED
        BY <1>10, <2>6, KeySame DEF Walk, devscans
<1>11. QED
    BY <1>2, <1>3, <1>4, <1>5, <1>6, <1>7, <1>8, <1>9, <1>10, KeySteps
    DEF Next, ScanStep, TesterStep

LEMMA InitKeys == Init => KeyInv
<1> SUFFICES ASSUME Init PROVE KeyInv
    OBVIOUS
<1>1. tbl["blk"].slot = [r \in Slots |-> BlankRow]
    BY Constants DEF Init, Created
<1>2. Keyed(tbl["blk"].slot)
    BY <1>1, Constants DEF Keyed, BlankRow, Keys
<1>3. QED
    BY <1>2 DEF Init, KeyInv

-----------------------------------------------------------------------------

\* The readers rely on the values and the tables, which do not rely on them.
ReadInv == Inv /\ WalkInv /\ HddInv /\ KeyInv

LEMMA Readers == Spec => []ReadInv
<1>1. Init => ReadInv
    BY InitRun, InitTyped, InitTables, InitWalk, InitHdd, InitKeys DEF ReadInv, Inv
<1>2. ReadInv /\ [Next]_vars => ReadInv'
    BY StepRun, StepTyped, StepTables, StepWalk, StepHdd, StepKeys DEF ReadInv, Inv, WalkInv
<1>3. QED
    BY <1>1, <1>2, PTL DEF Spec

\* A verdict of scan_dev that rests on whole tables is the right one for the
\* machine, however many scans have filled and sorted the tables again between
\* two records that the walk has read.
THEOREM VerdictsRight == Spec => []VerdictRight
<1>1. ReadInv => VerdictRight
    BY DEF ReadInv, WalkInv, ItemsInv, VerdictOk, VerdictRight
<1>2. QED
    BY <1>1, Readers, PTL

\* A test of a disk that read whole tables writes only to a disk that was not
\* mounted when the table was made, although it reads the key and the mount of a
\* record in two steps.
THEOREM WritesJustified == Spec => []WriteJustified
<1>1. ReadInv => WriteJustified
    BY DEF ReadInv, HddInv
<1>2. QED
    BY <1>1, Readers, PTL

\* The state keeps its values and its shape, whatever a killed scan has left in
\* the slots of a table: a test is only ever listed for a disk there is.
THEOREM TypeCorrect == Spec => []TypeOK
<1>1. ASSUME ReadInv PROVE TypeOK
    <2>1. Typed /\ TesterTyped /\ HddInv /\ KeyInv
        BY <1>1 DEF ReadInv, Inv, WalkInv
    <2>2. \A t \in Tables : IsTable(tbl[t])
        BY <2>1 DEF Typed, ScanInv, TableInv, TableValues, IsTable
    <2>3. \A s \in Scans : pc[s] \in Pcs /\ scan[s].row \in {Null} \cup Slots
        BY <2>1 DEF Typed, FileInv, ScanInv, Work, Rows
    <2>4. /\ pidfile \in Scans \cup {NoFile, DeadPid} /\ tester.pc \in TesterPcs
          /\ listed \subseteq Devices["blk"] /\ hdd.pc \in HddPcs
          /\ mounted \subseteq Devices["blk"]
        BY <2>1 DEF Typed, FileInv, AroundInv, TesterTyped, Testers, HddInv, HddTests, KeyInv
    <2>5. QED
        BY <2>2, <2>3, <2>4 DEF TypeOK, TesterPcs, HddPcs
<1>2. QED
    BY <1>1, Readers, PTL
=============================================================================
