--------------------------- MODULE SensorsProofs ---------------------------
(***************************************************************************)
(* The sensors for any number of metrics, any table and any crashes: the   *)
(* table holds one record of each metric, and the panel never loses one.   *)
(*                                                                         *)
(* MetricOnce needs only what sensorself knows at each of its steps        *)
(* (SelfInv).  KeepsMetrics reaches further: a report is read record by    *)
(* record while sensorself writes the table, waits in the pipe with others *)
(* and is shown last.  The invariant ties all the rows of one sensor to    *)
(* the table and to the report under way: what is in a row belongs to a    *)
(* complete record (CompleteInv), a later row holds what an earlier one    *)
(* does (OrderInv), and the report under way already has what was reported *)
(* of the records it has passed (ReportInv).                               *)
(***************************************************************************)
EXTENDS Sensors, SequenceTheorems, TLAPS

-----------------------------------------------------------------------------
(* Values and shapes of the state. *)

SelfPcs == {"none", "find", "add", "type", "name", "flag"}
TaskPcs == {"none", "check", "fork", "assign", "read", "done"}
SensorPcs == {"none", "create", "header", "seg", "name", "join"}
MonPcs == {"start", "assign", "read", "row", "pause", "again", "done"}

\* Values of the records, of the table and of the lines in the pipe.
Record == [Fields \cup {"id"} -> Nat]

MetricTables == [alloced : Nat, count : 0 .. Capacity, idnext : Nat, slot : [Slots -> Record]]

Line == [k : {"header", "noise", "row"}, n : Nat, segs : Seq(Int), gen : Nat]

TableTypes ==
    /\ tbl \in MetricTables
    /\ dev \in Nat

SelfRecords == [pc : SelfPcs, k : 1 .. Metrics, r : 0 .. Capacity]

SelfTypes == self \in SelfRecords

TaskTypes == task \in [pc : TaskPcs, pid : {"junk", "live", "old"}]

SensorRecords ==
    [pc : SensorPcs, r : 0 .. Capacity, row : Seq(Int), type : Nat, flag : Nat,
     stop : BOOLEAN, sig : BOOLEAN, gen : Nat]

SensorTypes == sensor \in SensorRecords

PanelTypes ==
    /\ pipe \in Seq(Line)
    /\ mon \in [pc : MonPcs, pid : {"none", "live", "old"}, call : BOOLEAN]
    /\ shown \in [k : {"none", "noise", "row"}, segs : Seq(Int), gen : Nat]

SensorsTypeOK == TableTypes /\ SelfTypes /\ TaskTypes /\ SensorTypes /\ PanelTypes

-----------------------------------------------------------------------------
(* The inductive invariant. *)

\* The panel starts a sensor when there is none, a sensor its task after the
\* table, and the task a sensorself when there is none.
ChainInv ==
    /\ mon.pc \in {"start", "pause", "again", "done"} => sensor.pc = "none"
    /\ sensor.pc \in {"none", "create"} <=> task.pc = "none"
    /\ task.pc \in {"none", "check", "fork", "done"} => self.pc = "none"

Field(r, f) == tbl.slot[r][f]

\* The fields of a record are written in the order type, name, flag.
RecordInv ==
    \A r \in 1 .. tbl.count :
        /\ Field(r, "flag") # 0 => Field(r, "name") # 0
        /\ Field(r, "name") # 0 => Field(r, "type") # 0

\* No record bears the name of the metric that sensorself adds, and self.r is
\* the record that it is writing.
SelfInv ==
    /\ self.pc \in {"add", "type", "name"} =>
          \A r \in 1 .. tbl.count : Field(r, "name") # self.k
    /\ self.pc \in {"type", "name", "flag"} => self.r \in 1 .. tbl.count
    /\ self.pc \in {"type", "name"} => Field(self.r, "name") = 0
    /\ self.pc = "name" => Field(self.r, "type") # 0
    /\ self.pc = "flag" => Field(self.r, "name") = self.k

MetricInv == MetricOnce /\ RecordInv /\ SelfInv

NamesOf(segs) == {segs[i] : i \in DOMAIN segs} \ {Stray}

\* The rows in the pipe, and the row on the screen when it comes from the
\* sensor that runs now.
RowAt(i) == i \in DOMAIN pipe /\ pipe[i].k = "row"

ShownNow == shown.k = "row" /\ shown.gen = sensor.gen

\* Some row of this sensor has the metric n.
Reported(n) ==
    \/ ShownNow /\ n \in Names(shown)
    \/ \E i \in DOMAIN pipe : RowAt(i) /\ n \in Names(pipe[i])

Complete(n) == \E r \in 1 .. tbl.count : Field(r, "flag") # 0 /\ Field(r, "name") = n

\* The pipe holds rows of the sensor that runs now, and none before it has made
\* its table.
GenInv ==
    /\ \A i \in DOMAIN pipe : RowAt(i) => pipe[i].gen = sensor.gen
    /\ shown.k = "row" => shown.gen <= sensor.gen
    /\ sensor.pc = "create" => pipe = <<>> /\ ~ShownNow

\* Nothing that a row has is missing in a later one.
OrderInv ==
    /\ \A i, j \in DOMAIN pipe :
          RowAt(i) /\ RowAt(j) /\ i <= j => Names(pipe[i]) \subseteq Names(pipe[j])
    /\ ShownNow => \A i \in DOMAIN pipe : RowAt(i) => Names(shown) \subseteq Names(pipe[i])

\* What is reported belongs to a record that is complete.
CompleteInv == \A n : Reported(n) => Complete(n)

\* The report under way has what was reported of the records it has passed, and
\* flag was read of a record that is complete now.
ReportInv ==
    sensor.pc \in {"seg", "name"} =>
        /\ sensor.r <= tbl.count
        /\ \A n \in NamesOf(sensor.row) : Complete(n)
        /\ \A r \in 1 .. tbl.count :
              Reported(Field(r, "name")) /\ r <= sensor.r =>
                 \/ Field(r, "name") \in NamesOf(sensor.row)
                 \/ sensor.pc = "name" /\ r = sensor.r /\ sensor.type # 0 /\ sensor.flag # 0
        /\ sensor.pc = "name" => sensor.r # 0
        /\ sensor.pc = "name" /\ sensor.flag # 0 => Field(sensor.r, "flag") # 0

PanelInv == GenInv /\ OrderInv

ReadingInv == PanelInv /\ CompleteInv /\ ReportInv

SensorsInv == SensorsTypeOK /\ ChainInv /\ MetricInv /\ ReadingInv

-----------------------------------------------------------------------------
(* The table, the records and the sequences. *)

USE DEF Null, Slots

LEMMA Capacities == /\ Capacity \in Nat /\ Capacity >= 1 /\ Metrics \in Nat /\ Metrics >= 1
                    /\ Alloc \in Nat
BY MemTableAssumption, SensorsAssumption

LEMMA FieldNames ==
    /\ "type" \in Fields \cup {"id"} /\ "name" \in Fields \cup {"id"}
    /\ "flag" \in Fields \cup {"id"}
BY SensorsAssumption

LEMMA BlankIsRecord == BlankRow \in Record
BY DEF BlankRow, Record

\* The operations of the table return tables.
LEMMA CreatedType ==
  Created(Alloc) \in MetricTables
BY Capacities, BlankIsRecord DEF Created, MetricTables

LEMMA AddedSlots ==
  ASSUME TableTypes, NewSlot(tbl) \in Slots
  PROVE  /\ Added(tbl) \in MetricTables
         /\ Added(tbl).count = tbl.count + 1
         /\ \A r \in 1 .. tbl.count : Added(tbl).slot[r] = tbl.slot[r]
         /\ \A f \in Fields : Added(tbl).slot[tbl.count + 1][f] = 0
<1>1. Grown(tbl) \in MetricTables
  BY DEF Grown, MetricTables, TableTypes
<1>2. Grown(tbl).count = tbl.count /\ Grown(tbl).slot = tbl.slot /\ Grown(tbl).idnext = tbl.idnext
  BY DEF Grown, MetricTables, TableTypes
<1> DEFINE new == [BlankRow EXCEPT !["id"] = tbl.idnext]
<1>3. new \in Record /\ \A f \in Fields \ {"id"} : new[f] = 0
  BY DEF MetricTables, TableTypes, Record, BlankRow
<1>4. \A f \in Fields : new[f] = 0
  BY <1>3, SensorsAssumption
<1> HIDE DEF new
<1> DEFINE G == Grown(tbl)
<1>5. Added(tbl) = [G EXCEPT !.slot[tbl.count + 1] = new, !.count = G.count + 1,
                            !.idnext = G.idnext + 1]
  BY DEF Added, NewSlot, new
<1>6. G \in MetricTables /\ G.count = tbl.count /\ G.slot = tbl.slot
  BY <1>1, <1>2
<1> HIDE DEF G
<1>7. tbl.count + 1 \in 1 .. Capacity /\ tbl.count \in Nat
  BY DEF NewSlot, TableTypes, MetricTables
<1> DEFINE S == [tbl.slot EXCEPT ![tbl.count + 1] = new]
<1>8. S \in [Slots -> Record] /\ \A r \in 1 .. tbl.count : S[r] = tbl.slot[r]
  BY <1>3, <1>7 DEF MetricTables, TableTypes
<1>9. S[tbl.count + 1] = new
  BY <1>7 DEF MetricTables, TableTypes
<1>10. Added(tbl) = [G EXCEPT !.slot = S, !.count = G.count + 1, !.idnext = G.idnext + 1]
  BY <1>5, <1>6
<1> HIDE DEF S
<1>11. Added(tbl) = [alloced |-> G.alloced, count |-> tbl.count + 1,
                     idnext |-> G.idnext + 1, slot |-> S]
  BY <1>6, <1>10 DEF MetricTables
<1>12. Added(tbl) \in MetricTables
  BY <1>6, <1>7, <1>8, <1>11, Capacities DEF MetricTables
<1> QED BY <1>4, <1>8, <1>9, <1>11, <1>12

LEMMA PutSlots ==
  ASSUME TableTypes, NEW r \in 1 .. tbl.count, NEW f \in Fields, NEW v \in Nat
  PROVE  /\ Put(tbl, r, f, v) \in MetricTables
         /\ Put(tbl, r, f, v).count = tbl.count
         /\ \A q \in 1 .. tbl.count, g \in Fields :
               Put(tbl, r, f, v).slot[q][g] = IF q = r /\ g = f THEN v ELSE tbl.slot[q][g]
<1>1. /\ r \in Slots /\ tbl.slot[r] \in Record
      /\ \A q \in 1 .. tbl.count : q \in Slots /\ tbl.slot[q] \in Record
  BY Capacities DEF MetricTables, TableTypes
<1>2. [tbl.slot[r] EXCEPT ![f] = v] \in Record
  BY <1>1 DEF Record
<1>3. Put(tbl, r, f, v) =
        [tbl EXCEPT !.slot = [tbl.slot EXCEPT ![r] = [tbl.slot[r] EXCEPT ![f] = v]]]
  BY DEF Put, TableTypes
<1>4. Put(tbl, r, f, v) \in MetricTables
  BY <1>1, <1>2, <1>3 DEF MetricTables, TableTypes
<1>5. /\ Put(tbl, r, f, v).count = tbl.count
      /\ Put(tbl, r, f, v).slot = [tbl.slot EXCEPT ![r] = [tbl.slot[r] EXCEPT ![f] = v]]
  BY <1>3 DEF MetricTables, TableTypes
<1>6. ASSUME NEW q \in 1 .. tbl.count, NEW g \in Fields
      PROVE  Put(tbl, r, f, v).slot[q][g] = IF q = r /\ g = f THEN v ELSE tbl.slot[q][g]
  <2>1. Put(tbl, r, f, v).slot[q] = IF q = r THEN [tbl.slot[r] EXCEPT ![f] = v] ELSE tbl.slot[q]
    BY <1>5, <1>1 DEF MetricTables, TableTypes
  <2>2. [tbl.slot[r] EXCEPT ![f] = v][g] = IF g = f THEN v ELSE tbl.slot[r][g]
    BY <1>1 DEF Record
  <2> QED BY <2>1, <2>2
<1> QED BY <1>4, <1>5, <1>6

-----------------------------------------------------------------------------
(* Types. *)


\* By MetricOnce at most one record bears the name, so the first one does.
LEMMA OneHit ==
  ASSUME SensorsTypeOK, MetricOnce,
         {r \in 1 .. tbl.count : IsHit(tbl, r, "name", self.k)} # {}
  PROVE  LET hits == {r \in 1 .. tbl.count : IsHit(tbl, r, "name", self.k)}
             hit == CHOOSE r \in hits : \A q \in hits : r <= q
         IN  hit \in 1 .. tbl.count /\ Field(hit, "name") = self.k
<1> DEFINE hits == {r \in 1 .. tbl.count : IsHit(tbl, r, "name", self.k)}
<1>1. PICK r \in hits : TRUE
  OBVIOUS
<1>2. r \in 1 .. tbl.count /\ tbl.slot[r]["name"] = self.k /\ self.k # 0 /\ tbl.count \in Nat
  BY <1>1 DEF IsHit, Get, SensorsTypeOK, SelfTypes, SelfRecords, TableTypes, MetricTables
<1>3. ASSUME NEW q \in hits
      PROVE  q = r
  <2>1. q \in 1 .. tbl.count /\ tbl.slot[q]["name"] = self.k
    BY <1>3 DEF IsHit, Get
  <2> QED BY <1>2, <2>1 DEF MetricOnce
<1>4. \A q \in hits : r <= q
  BY <1>2, <1>3
<1>5. (CHOOSE p \in hits : \A q \in hits : p <= q) = r
  BY <1>1, <1>3, <1>4
<1> QED BY <1>2, <1>5 DEF Field

LEMMA NoSelfType == NoSelf \in SelfRecords /\ StartSelf \in SelfRecords
BY Capacities DEF NoSelf, StartSelf, SelfPcs, SelfRecords

LEMMA SelfStepTypes ==
  ASSUME SensorsTypeOK, MetricInv, SelfStep
  PROVE  SensorsTypeOK'
<1> USE Capacities, FieldNames, SensorsAssumption
    DEF SensorsTypeOK, MetricInv, panelVars, SelfPcs
<1>1. CASE FindMetric
  <2> DEFINE hits == {r \in 1 .. tbl.count : IsHit(tbl, r, "name", self.k)}
             hit == CHOOSE r \in hits : \A q \in hits : r <= q
  <2>1. CASE hits = {}
    <3>1. self' = [self EXCEPT !.pc = "add"]
      BY <1>1, <2>1 DEF FindMetric
    <3> QED BY <1>1, <3>1
               DEF FindMetric, SelfTypes, SelfRecords, TableTypes, TaskTypes, SensorTypes,
                   PanelTypes
  <2>2. CASE hits # {}
    <3>1. self' = [self EXCEPT !.pc = "flag", !.r = hit]
      BY <1>1, <2>2 DEF FindMetric
    <3>2. hit \in 1 .. tbl.count
      BY <2>2, OneHit
    <3>3. hit \in 0 .. Capacity
      BY <3>2 DEF TableTypes, MetricTables
    <3> HIDE DEF hit
    <3>4. SelfTypes'
      BY <3>1, <3>3 DEF SelfTypes, SelfRecords
    <3> QED BY <1>1, <3>4 DEF FindMetric, TableTypes, TaskTypes, SensorTypes, PanelTypes
  <2> QED BY <2>1, <2>2
<1>2. CASE AddMetric
  <2>1. TableTypes'
    BY <1>2, AddedSlots DEF AddMetric, TableTypes
  <2>2. NewSlot(tbl) \in 0 .. Capacity /\ self' = [self EXCEPT !.pc = "type", !.r = NewSlot(tbl)]
    BY <1>2 DEF AddMetric
  <2>3. SelfTypes'
    BY <2>2 DEF SelfTypes, SelfRecords
  <2> QED BY <1>2, <2>1, <2>3 DEF AddMetric, TaskTypes, SensorTypes, PanelTypes
<1>3. ASSUME NEW f \in Fields, NEW v \in Nat, NEW to \in SelfPcs,
             f \in {"type", "name"}, SetMetric(f, v, to)
      PROVE  SensorsTypeOK'
  <2>1. self.r \in 1 .. tbl.count
    BY <1>3 DEF SetMetric, SelfInv
  <2>2. TableTypes'
    BY <1>3, <2>1, PutSlots DEF SetMetric, TableTypes
  <2> QED BY <1>3, <2>2
             DEF SetMetric, SelfGo, SelfTypes, SelfRecords, TaskTypes, SensorTypes, PanelTypes
<1>4. self.k \in Nat
  BY DEF SelfTypes, SelfRecords
<1>5. CASE SetType
  BY <1>5, <1>3 DEF SetType
<1>6. CASE SetName
  BY <1>6, <1>4, <1>3 DEF SetName
<1>7. CASE SetFlag
  <2>1. self.r \in 1 .. tbl.count
    BY <1>7 DEF SetFlag, SelfInv
  <2>2. TableTypes'
    BY <1>7, <2>1, PutSlots DEF SetFlag, TableTypes
  <2>3. NextMetric(self.k) \in 1 .. Metrics
    BY DEF NextMetric, SelfTypes, SelfRecords
  <2>4. SelfTypes'
    BY <1>7, <2>3, NoSelfType DEF SetFlag, SelfTypes, SelfRecords
  <2> QED BY <1>7, <2>2, <2>4 DEF SetFlag, TaskTypes, SensorTypes, PanelTypes
<1> QED BY <1>1, <1>2, <1>5, <1>6, <1>7 DEF SelfStep

LEMMA PipeType ==
  ASSUME PanelTypes
  PROVE  /\ \A l \in Line : Append(pipe, l) \in Seq(Line) /\ Len(Append(pipe, l)) = Len(pipe) + 1
         /\ pipe # <<>> => Head(pipe) \in Line /\ Tail(pipe) \in Seq(Line)
         /\ <<>> \in Seq(Line)
BY DEF PanelTypes

LEMMA LineTypes ==
  /\ Noise \in Line
  /\ \A n \in Nat : Header(n) \in Line
  /\ \A segs \in Seq(Int), gen \in Nat : Row(segs, gen) \in Line
<1>1. <<>> \in Seq(Int)
  OBVIOUS
<1> QED BY <1>1 DEF Noise, Header, Row, Line

LEMMA LogTypes ==
  ASSUME PanelTypes, NEW l \in Line, LogLine(l), UNCHANGED <<mon, shown>>
  PROVE  PanelTypes'
BY PipeType DEF PanelTypes, LogLine

LEMMA SelfGoneTypes ==
  ASSUME SensorsTypeOK, self' = NoSelf, UNCHANGED <<tbl, dev, task, sensor, pipe, mon, shown>>
  PROVE  SensorsTypeOK'
BY NoSelfType DEF SensorsTypeOK, TableTypes, SelfTypes, TaskTypes, SensorTypes, PanelTypes

LEMMA TaskStepTypes ==
  ASSUME SensorsTypeOK, TaskStep
  PROVE  SensorsTypeOK'
<1> USE DEF SensorsTypeOK, panelVars, table, TaskPcs
<1>1. CASE TaskCheck
  BY <1>1 DEF TaskCheck, TaskGo, TableTypes, SelfTypes, TaskTypes, SensorTypes, PanelTypes
<1>2. CASE TaskFork
  BY <1>2, NoSelfType
     DEF TaskFork, TaskGo, TableTypes, SelfTypes, TaskTypes, SensorTypes, PanelTypes
<1>3. CASE TaskAssign
  <2>1. PanelTypes'
    BY <1>3, LogTypes, LineTypes DEF TaskAssign
  <2> QED BY <1>3, <2>1 DEF TaskAssign, TableTypes, SelfTypes, TaskTypes, SensorTypes
<1>4. CASE TaskEof
  <2>1. PanelTypes'
    BY <1>4, LogTypes, LineTypes DEF TaskEof, PanelTypes
  <2> QED BY <1>4, <2>1 DEF TaskEof, TableTypes, SelfTypes, TaskTypes, SensorTypes
<1> QED BY <1>1, <1>2, <1>3, <1>4 DEF TaskStep

LEMMA NoSensorType ==
  ASSUME NEW gen \in Nat
  PROVE  [NoSensor EXCEPT !.gen = gen] \in SensorRecords
<1>1. <<>> \in Seq(Int) /\ 0 \in 0 .. Capacity
  BY Capacities
<1>2. NoSensor \in SensorRecords
  BY <1>1 DEF NoSensor, SensorRecords, SensorPcs
<1> QED BY <1>2 DEF SensorRecords
LEMMA Blanks == <<>> \in Seq(Int) /\ 0 \in 0 .. Capacity /\ Stray \in Int
BY Capacities DEF Stray

LEMMA NextType ==
  ASSUME SensorsTypeOK
  PROVE  /\ NextRecord(tbl, sensor.r) \in 0 .. Capacity
         /\ NextRecord(tbl, sensor.r) # Null =>
               /\ NextRecord(tbl, sensor.r) \in 1 .. tbl.count
               /\ NextRecord(tbl, sensor.r) = sensor.r + 1
         /\ NextRecord(tbl, sensor.r) = Null => sensor.r >= tbl.count
         /\ tbl.count \in Nat /\ sensor.r \in Nat
BY Capacities
   DEF NextRecord, SensorsTypeOK, TableTypes, MetricTables, SensorTypes, SensorRecords

LEMMA FieldType ==
  ASSUME SensorsTypeOK, NEW r \in 1 .. tbl.count, NEW f \in Fields
  PROVE  tbl.slot[r][f] \in Nat
BY Capacities DEF SensorsTypeOK, TableTypes, MetricTables, Record

LEMMA SegmentType ==
  ASSUME NEW type, NEW flag, NEW name \in Int
  PROVE  Segment(type, flag, name) \in Seq(Int)
BY Blanks DEF Segment

LEMMA SensorStepTypes ==
  ASSUME SensorsTypeOK, ReportInv, SensorStep
  PROVE  SensorsTypeOK'
<1> USE Blanks, FieldNames, SensorsAssumption
    DEF SensorsTypeOK, panelVars, table, SensorPcs
<1>1. CASE CreateTables
  <2>1. SensorTypes'
    BY <1>1 DEF CreateTables, SensorGo, SensorTypes, SensorRecords
  <2>2. TaskTypes'
    BY <1>1 DEF CreateTables, NoTask, TaskTypes, TaskPcs
  <2>3. TableTypes'
    BY <1>1, CreatedType DEF CreateTables, TableTypes
  <2> QED BY <1>1, <2>1, <2>2, <2>3 DEF CreateTables, SelfTypes, PanelTypes
<1>2. CASE PrintHeader
  <2>1. SensorTypes'
    BY <1>2 DEF PrintHeader, SensorTypes, SensorRecords
  <2>2. PanelTypes'
    BY <1>2, LogTypes, LineTypes DEF PrintHeader, TableTypes
  <2> QED BY <1>2, <2>1, <2>2 DEF PrintHeader, TableTypes, SelfTypes, TaskTypes
<1>3. CASE ReadFlag
  <2> DEFINE r == NextRecord(tbl, sensor.r)
  <2>1. r \in 0 .. Capacity /\ Get(tbl, r, "type") \in Nat /\ Get(tbl, r, "flag") \in Nat
    BY <1>3, NextType, FieldType DEF ReadFlag, Get
  <2>2. sensor' = [sensor EXCEPT !.pc = "name", !.r = r, !.type = Get(tbl, r, "type"),
                                 !.flag = Get(tbl, r, "flag")]
    BY <1>3 DEF ReadFlag
  <2> HIDE DEF r
  <2>3. SensorTypes'
    BY <2>1, <2>2 DEF SensorTypes, SensorRecords
  <2> QED BY <1>3, <2>3 DEF ReadFlag, TableTypes, SelfTypes, TaskTypes, PanelTypes
<1>4. CASE ReadName
  <2> DEFINE seg == Segment(sensor.type, sensor.flag, Get(tbl, sensor.r, "name"))
  <2>1. sensor.r \in 1 .. tbl.count
    BY <1>4 DEF ReadName, ReportInv, SensorTypes, SensorRecords, TableTypes, MetricTables
  <2>2. seg \in Seq(Int)
    BY <2>1, FieldType, SegmentType DEF Get
  <2>3. sensor' = [sensor EXCEPT !.pc = "seg", !.row = sensor.row \o seg, !.type = 0, !.flag = 0]
    BY <1>4 DEF ReadName, SensorTypes, SensorRecords
  <2> HIDE DEF seg
  <2>4. sensor.row \o seg \in Seq(Int)
    BY <2>2 DEF SensorTypes, SensorRecords
  <2>5. SensorTypes'
    BY <2>3, <2>4 DEF SensorTypes, SensorRecords
  <2> QED BY <1>4, <2>5 DEF ReadName, TableTypes, SelfTypes, TaskTypes, PanelTypes
<1>5. CASE PrintRow
  <2>1. SensorTypes'
    BY <1>5 DEF PrintRow, SensorTypes, SensorRecords
  <2>2. Row(sensor.row, sensor.gen) \in Line
    BY LineTypes DEF SensorTypes, SensorRecords
  <2>3. PanelTypes'
    BY <1>5, <2>2, LogTypes DEF PrintRow
  <2> QED BY <1>5, <2>1, <2>3 DEF PrintRow, TableTypes, SelfTypes, TaskTypes
<1>6. CASE EndReports
  BY <1>6
     DEF EndReports, SensorGo, SensorTypes, SensorRecords, TableTypes, SelfTypes, TaskTypes,
         PanelTypes
<1>7. CASE SensorJoin
  <2>1. SensorTypes'
    BY <1>7, NoSensorType DEF SensorJoin, SensorTypes, SensorRecords
  <2>2. TaskTypes'
    BY <1>7 DEF SensorJoin, NoTask, TaskTypes, TaskPcs
  <2> QED BY <1>7, <2>1, <2>2 DEF SensorJoin, TableTypes, SelfTypes, PanelTypes
<1> QED BY <1>1, <1>2, <1>3, <1>4, <1>5, <1>6, <1>7 DEF SensorStep

LEMMA SensorGoneTypes ==
  ASSUME SensorsTypeOK, SensorGone, UNCHANGED <<tbl, dev, pipe, mon, shown>>
  PROVE  SensorsTypeOK'
<1>1. SensorTypes'
  BY NoSensorType DEF SensorsTypeOK, SensorGone, SensorTypes, SensorRecords
<1>2. TaskTypes'
  BY DEF SensorGone, NoTask, TaskTypes, TaskPcs
<1>3. SelfTypes'
  BY NoSelfType DEF SensorGone, SelfTypes
<1> QED BY <1>1, <1>2, <1>3 DEF SensorsTypeOK, TableTypes, PanelTypes

LEMMA HandleStopTypes ==
  ASSUME SensorsTypeOK, HandleStop
  PROVE  SensorsTypeOK'
<1> USE DEF SensorsTypeOK
<1>1. SensorTypes'
  BY DEF HandleStop, SensorTypes, SensorRecords
<1>2. SelfTypes'
  BY NoSelfType DEF HandleStop, SelfTypes
<1>3. PanelTypes'
  BY LogTypes, LineTypes DEF HandleStop, panelVars
<1> QED BY <1>1, <1>2, <1>3 DEF HandleStop, table, TableTypes, TaskTypes

LEMMA MonStepTypes ==
  ASSUME SensorsTypeOK, MonStep
  PROVE  SensorsTypeOK'
<1> USE DEF SensorsTypeOK, table, MonPcs
<1>1. CASE MonFork
  <2>1. NoSensor \in SensorRecords
    BY Blanks DEF NoSensor, SensorRecords, SensorPcs
  <2>2. sensor.gen + 1 \in Nat
    BY DEF SensorTypes, SensorRecords
  <2>3. SensorTypes'
    BY <1>1, <2>1, <2>2 DEF MonFork, SensorTypes, SensorRecords, SensorPcs
  <2>4. PanelTypes'
    BY <1>1, PipeType DEF MonFork, MonGo, PanelTypes
  <2> QED BY <1>1, <2>3, <2>4 DEF MonFork, TableTypes, SelfTypes, TaskTypes
<1>2. CASE MonAssign
  BY <1>2 DEF MonAssign, TableTypes, SelfTypes, TaskTypes, SensorTypes, PanelTypes
<1>3. CASE ReadLine
  <2>1. PanelTypes'
    BY <1>3, PipeType DEF ReadLine, MonGo, MonCalls, PanelTypes
  <2> QED BY <1>3, <2>1 DEF ReadLine, TableTypes, SelfTypes, TaskTypes, SensorTypes
<1>4. CASE ReadRow
  <2>1. Head(pipe) \in Line /\ Tail(pipe) \in Seq(Line)
    BY <1>4, PipeType DEF ReadRow
  <2>2. shown' \in [k : {"none", "noise", "row"}, segs : Seq(Int), gen : Nat]
    BY <1>4, <2>1 DEF ReadRow, Line, PanelTypes
  <2>3. PanelTypes'
    BY <1>4, <2>1, <2>2 DEF ReadRow, MonCalls, PanelTypes
  <2> QED BY <1>4, <2>3 DEF ReadRow, TableTypes, SelfTypes, TaskTypes, SensorTypes
<1>5. CASE RowMissing
  BY <1>5 DEF RowMissing, MonCalls, TableTypes, SelfTypes, TaskTypes, SensorTypes, PanelTypes
<1>6. CASE MonWait
  BY <1>6 DEF MonWait, TableTypes, SelfTypes, TaskTypes, SensorTypes, PanelTypes
<1>7. CASE MonPause \/ MonAgain
  BY <1>7
     DEF MonPause, MonAgain, MonGo, MonCalls, TableTypes, SelfTypes, TaskTypes, SensorTypes,
         PanelTypes
<1>8. CASE MonReturns
  BY <1>8 DEF MonReturns, TableTypes, SelfTypes, TaskTypes, SensorTypes, PanelTypes
<1> QED BY <1>1, <1>2, <1>3, <1>4, <1>5, <1>6, <1>7, <1>8 DEF MonStep

LEMMA UiTypes ==
  ASSUME SensorsTypeOK, UiStep \/ UiExit
  PROVE  SensorsTypeOK'
<1>1. SensorTypes'
  BY
     DEF SensorsTypeOK, UiStep, UiExit, SetShouldExit, KillSensor, JoinMonitor, SensorTypes,
         SensorRecords
<1> QED BY <1>1
           DEF SensorsTypeOK, UiStep, UiExit, SetShouldExit, KillSensor, JoinMonitor, table,
        TableTypes, SelfTypes, TaskTypes, PanelTypes

LEMMA SensorsTypes ==
  ASSUME SensorsTypeOK, MetricInv, ReportInv, [SensorsNext]_sensorsVars
  PROVE  SensorsTypeOK'
<1>1. CASE SelfCrash
  BY <1>1, SelfGoneTypes DEF SelfCrash, table, panelVars
<1>2. CASE SensorSignal \/ SensorCrash
  BY <1>2, SensorGoneTypes, HandleStopTypes
     DEF SensorSignal, DieEarly, SensorCrash, table, panelVars
<1>3. CASE UNCHANGED sensorsVars
  BY <1>3
     DEF sensorsVars, SensorsTypeOK, TableTypes, SelfTypes, TaskTypes, SensorTypes, PanelTypes
<1> QED BY <1>1, <1>2, <1>3, SelfStepTypes, TaskStepTypes, SensorStepTypes, MonStepTypes, UiTypes
        DEF SensorsNext
-----------------------------------------------------------------------------
(* The processes. *)

LEMMA SelfStepChain ==
  ASSUME SensorsTypeOK, ChainInv, SelfStep
  PROVE  ChainInv'
<1>1. self.pc # "none"
  BY DEF SelfStep, FindMetric, AddMetric, SetType, SetName, SetMetric, SetFlag
<1>2. UNCHANGED <<mon, sensor, task>>
  BY DEF SelfStep, FindMetric, AddMetric, SetType, SetName, SetMetric, SetFlag, panelVars
<1> QED BY <1>1, <1>2 DEF ChainInv

LEMMA SensorsChain ==
  ASSUME SensorsTypeOK, ChainInv, [SensorsNext]_sensorsVars
  PROVE  ChainInv'
<1> USE DEF ChainInv, SensorsTypeOK, SelfTypes, SelfRecords, TaskTypes, SensorTypes, SensorRecords,
        PanelTypes, panelVars, table
<1>1. CASE TaskStep
  BY <1>1 DEF TaskStep, TaskCheck, TaskGo, TaskFork, TaskAssign, TaskEof
<1>2. CASE SensorStep
  <2>1. CASE CreateTables
    BY <2>1 DEF CreateTables, SensorGo, NoTask
  <2>2. CASE SensorJoin
    BY <2>2 DEF SensorJoin, NoTask, NoSensor
  <2>3. CASE PrintHeader \/ ReadFlag \/ ReadName \/ PrintRow \/ EndReports
    <3>1. /\ sensor.pc \notin {"none", "create"}
          /\ sensor'.pc \notin {"none", "create"}
          /\ UNCHANGED <<mon, task, self>>
      BY <2>3 DEF PrintHeader, ReadFlag, ReadName, PrintRow, EndReports, SensorGo
    <3> QED BY <3>1
  <2> QED BY <1>2, <2>1, <2>2, <2>3 DEF SensorStep
<1>3. CASE SensorSignal \/ SensorCrash
  <2>1. CASE HandleStop
    BY <2>1 DEF HandleStop, NoSelf
  <2>2. CASE DieEarly \/ SensorCrash
    BY <2>2 DEF DieEarly, SensorCrash, SensorGone, NoSelf, NoTask, NoSensor
  <2> QED BY <1>3, <2>1, <2>2 DEF SensorSignal
<1>4. CASE MonStep
  <2>1. CASE MonFork
    BY <2>1 DEF MonFork, MonGo, NoSensor
  <2>2. CASE \/ MonAssign \/ ReadLine \/ ReadRow \/ RowMissing
             \/ MonReturns \/ MonWait \/ MonPause \/ MonAgain
    <3>1. /\ UNCHANGED <<sensor, task, self>>
          /\ mon'.pc \in {"start", "pause", "again", "done"} => sensor.pc = "none"
      BY <2>2
         DEF MonAssign, ReadLine, ReadRow, RowMissing, MonReturns, MonWait, MonPause, MonAgain,
             MonGo, MonCalls, Eof
    <3> QED BY <3>1
  <2> QED BY <1>4, <2>1, <2>2 DEF MonStep
<1>5. CASE UiStep \/ UiExit
  <2>1. sensor'.pc = sensor.pc /\ UNCHANGED <<mon, task, self>>
    BY <1>5 DEF UiStep, UiExit, SetShouldExit, KillSensor, JoinMonitor
  <2> QED BY <2>1
<1>6. CASE SelfCrash
  BY <1>6 DEF SelfCrash, NoSelf
<1>7. CASE UNCHANGED sensorsVars
  BY <1>7 DEF sensorsVars
<1> QED BY <1>1, <1>2, <1>3, <1>4, <1>5, <1>6, <1>7, SelfStepChain DEF SensorsNext

-----------------------------------------------------------------------------
\* What a step of sensorself does to the table: a complete record stays what
\* it is, and a record is given a name only when no complete one bears it.
TableGrows ==
    /\ tbl.count <= tbl'.count
    /\ \A r \in 1 .. tbl.count :
          /\ Field(r, "flag") # 0 => Field(r, "flag")' # 0
          /\ Field(r, "name")' # Field(r, "name") =>
                Field(r, "flag") = 0 /\ ~Complete(Field(r, "name")')

LEMMA SelfStepMetric ==
  ASSUME SensorsTypeOK, SensorsTypeOK', MetricInv, SelfStep
  PROVE  MetricInv' /\ TableGrows
<1> USE FieldNames, SensorsAssumption, FieldType DEF MetricInv, Field
<1>0. /\ tbl.count \in Nat /\ tbl'.count \in Nat
      /\ self.k \in Nat /\ self.k >= 1 /\ self.pc \in SelfPcs
  BY DEF SensorsTypeOK, TableTypes, MetricTables, SelfTypes, SelfRecords
<1>1. CASE FindMetric
  <2> DEFINE hits == {r \in 1 .. tbl.count : IsHit(tbl, r, "name", self.k)}
             hit == CHOOSE r \in hits : \A q \in hits : r <= q
  <2>1. tbl' = tbl
    BY <1>1 DEF FindMetric
  <2>2. CASE hits = {}
    <3>1. \A r \in 1 .. tbl.count : tbl.slot[r]["name"] # self.k
      BY <2>2 DEF IsHit, Get
    <3>2. self'.pc = "add" /\ self'.k = self.k
      BY <1>1, <2>2 DEF FindMetric, SensorsTypeOK, SelfTypes, SelfRecords
    <3>3. SelfInv'
      BY <2>1, <3>1, <3>2 DEF SelfInv
    <3> QED BY <2>1, <3>3, <1>0 DEF MetricOnce, RecordInv, TableGrows
  <2>3. CASE hits # {}
    <3>1. hit \in 1 .. tbl.count /\ tbl.slot[hit]["name"] = self.k
      BY <2>3, OneHit
    <3>2. self' = [self EXCEPT !.pc = "flag", !.r = hit]
      BY <1>1, <2>3 DEF FindMetric
    <3> HIDE DEF hit
    <3>3. self'.pc = "flag" /\ self'.k = self.k /\ self'.r = hit
      BY <3>2 DEF SensorsTypeOK, SelfTypes, SelfRecords
    <3>4. SelfInv'
      BY <2>1, <3>1, <3>3 DEF SelfInv
    <3> QED BY <2>1, <3>4, <1>0 DEF MetricOnce, RecordInv, TableGrows
  <2> QED BY <2>2, <2>3
<1>2. CASE AddMetric
  <2>1. /\ tbl'.count = tbl.count + 1
        /\ \A r \in 1 .. tbl.count : tbl'.slot[r] = tbl.slot[r]
        /\ \A f \in Fields : tbl'.slot[tbl.count + 1][f] = 0
    BY <1>2, AddedSlots DEF AddMetric, SensorsTypeOK
  <2>2. self'.pc = "type" /\ self'.k = self.k /\ self'.r = tbl.count + 1 /\ self.pc = "add"
    BY <1>2 DEF AddMetric, NewSlot, SensorsTypeOK, SelfTypes, SelfRecords
  <2>3. \A r \in 1 .. tbl'.count : r \in 1 .. tbl.count \/ r = tbl.count + 1
    BY <2>1, <1>0
  <2>4. MetricOnce'
    BY <2>1, <2>3 DEF MetricOnce
  <2>5. RecordInv'
    BY <2>1, <2>3 DEF RecordInv
  <2>6. SelfInv'
    BY <2>1, <2>2, <2>3, <1>0 DEF SelfInv
  <2>7. TableGrows
    BY <2>1, <1>0 DEF TableGrows
  <2> QED BY <2>4, <2>5, <2>6, <2>7
<1>3. CASE SetType
  <2>1. self.r \in 1 .. tbl.count /\ self.pc = "type" /\ tbl' = Put(tbl, self.r, "type", 1)
    BY <1>3 DEF SetType, SetMetric, SelfInv
  <2>2. /\ tbl'.count = tbl.count
        /\ \A q \in 1 .. tbl.count :
              /\ tbl'.slot[q]["name"] = tbl.slot[q]["name"]
              /\ tbl'.slot[q]["flag"] = tbl.slot[q]["flag"]
              /\ tbl'.slot[q]["type"] = IF q = self.r THEN 1 ELSE tbl.slot[q]["type"]
    BY <2>1, PutSlots DEF SensorsTypeOK
  <2>3. self'.pc = "name" /\ self'.k = self.k /\ self'.r = self.r
    BY <1>3 DEF SetType, SetMetric, SelfGo, SensorsTypeOK, SelfTypes, SelfRecords
  <2>4. MetricOnce'
    BY <2>2 DEF MetricOnce
  <2>5. RecordInv'
    BY <2>2 DEF RecordInv
  <2>6. SelfInv'
    BY <2>1, <2>2, <2>3 DEF SelfInv
  <2>7. TableGrows
    BY <2>2, <1>0 DEF TableGrows
  <2> QED BY <2>4, <2>5, <2>6, <2>7
<1>4. CASE SetName
  <2>1. self.r \in 1 .. tbl.count /\ self.pc = "name" /\ tbl' = Put(tbl, self.r, "name", self.k)
    BY <1>4 DEF SetName, SetMetric, SelfInv
  <2>2. /\ tbl'.count = tbl.count
        /\ \A q \in 1 .. tbl.count :
              /\ tbl'.slot[q]["name"] = IF q = self.r THEN self.k ELSE tbl.slot[q]["name"]
              /\ tbl'.slot[q]["flag"] = tbl.slot[q]["flag"]
              /\ tbl'.slot[q]["type"] = tbl.slot[q]["type"]
    <3>1. /\ tbl'.count = tbl.count
          /\ \A q \in 1 .. tbl.count, g \in Fields :
                tbl'.slot[q][g] = IF q = self.r /\ g = "name" THEN self.k ELSE tbl.slot[q][g]
      BY ONLY <2>1, <1>0, PutSlots, SensorsAssumption, SensorsTypeOK DEF SensorsTypeOK
    <3> QED BY ONLY <3>1, SensorsAssumption
  <2>3. self'.pc = "flag" /\ self'.k = self.k /\ self'.r = self.r
    BY <1>4 DEF SetName, SetMetric, SelfGo, SensorsTypeOK, SelfTypes, SelfRecords
  <2>4. /\ \A r \in 1 .. tbl.count : tbl.slot[r]["name"] # self.k
        /\ tbl.slot[self.r]["name"] = 0 /\ tbl.slot[self.r]["type"] # 0
    BY <2>1 DEF SelfInv
  <2>5. MetricOnce'
    BY <2>2, <2>4 DEF MetricOnce
  <2>6. RecordInv'
    BY <2>1, <2>2, <2>4, <1>0 DEF RecordInv
  <2>7. SelfInv'
    BY <2>1, <2>2, <2>3 DEF SelfInv
  <2>8. TableGrows
    <3>1. tbl.slot[self.r]["flag"] = 0
      BY <2>1, <2>4 DEF RecordInv
    <3>2. ~Complete(self.k)
      BY <2>4 DEF Complete
    <3> QED BY <2>2, <3>1, <3>2, <1>0 DEF TableGrows
  <2> QED BY <2>5, <2>6, <2>7, <2>8
<1>5. CASE SetFlag
  <2>1. self.r \in 1 .. tbl.count /\ self.pc = "flag" /\ tbl' = Put(tbl, self.r, "flag", 1)
    BY <1>5 DEF SetFlag, SelfInv
  <2>2. /\ tbl'.count = tbl.count
        /\ \A q \in 1 .. tbl.count :
              /\ tbl'.slot[q]["name"] = tbl.slot[q]["name"]
              /\ tbl'.slot[q]["flag"] = IF q = self.r THEN 1 ELSE tbl.slot[q]["flag"]
              /\ tbl'.slot[q]["type"] = tbl.slot[q]["type"]
    BY <2>1, PutSlots DEF SensorsTypeOK
  <2>3. self'.pc = "find"
    BY <1>5 DEF SetFlag, StartSelf, NoSelf
  <2>4. MetricOnce'
    BY <2>2 DEF MetricOnce
  <2>5. RecordInv'
    BY <2>1, <2>2, <1>0 DEF RecordInv, SelfInv
  <2>6. SelfInv'
    BY <2>3 DEF SelfInv
  <2>7. TableGrows
    BY <2>2, <1>0 DEF TableGrows
  <2> QED BY <2>4, <2>5, <2>6, <2>7
<1> QED BY <1>1, <1>2, <1>3, <1>4, <1>5 DEF SelfStep

LEMMA SensorsMetric ==
  ASSUME SensorsTypeOK, SensorsTypeOK', ChainInv, MetricInv, [SensorsNext]_sensorsVars
  PROVE  MetricInv'
<1> USE DEF MetricInv, table, panelVars
<1>1. ASSUME tbl' = tbl, self' = self \/ self' = NoSelf \/ self' = StartSelf
      PROVE  MetricInv'
  <2>1. MetricOnce' /\ RecordInv'
    BY <1>1 DEF MetricOnce, RecordInv, Field
  <2>2. SelfInv'
    BY <1>1 DEF SelfInv, Field, NoSelf, StartSelf
  <2> QED BY <2>1, <2>2
<1>2. CASE CreateTables
  <2>1. tbl'.count = 0 /\ self' = self /\ self.pc = "none"
    BY <1>2 DEF CreateTables, Created, SensorGo, ChainInv
  <2> QED BY <2>1 DEF MetricOnce, RecordInv, SelfInv
<1>3. CASE TaskStep
  BY <1>1, <1>3 DEF TaskStep, TaskCheck, TaskFork, TaskAssign, TaskEof
<1>4. CASE PrintHeader \/ ReadFlag \/ ReadName \/ PrintRow \/ EndReports \/ SensorJoin
  BY <1>1, <1>4 DEF PrintHeader, ReadFlag, ReadName, PrintRow, EndReports, SensorJoin
<1>5. CASE SensorSignal \/ SensorCrash \/ SelfCrash
  BY <1>1, <1>5 DEF SensorSignal, SensorCrash, HandleStop, DieEarly, SensorGone, SelfCrash
<1>6. CASE MonStep
  BY <1>1, <1>6
     DEF MonStep, MonFork, MonAssign, ReadLine, ReadRow, RowMissing, MonReturns, MonWait,
         MonPause, MonAgain
<1>7. CASE UiStep \/ UiExit
  BY <1>1, <1>7 DEF UiStep, UiExit, SetShouldExit, KillSensor, JoinMonitor
<1>8. CASE UNCHANGED sensorsVars
  BY <1>1, <1>8 DEF sensorsVars
<1> QED BY <1>2, <1>3, <1>4, <1>5, <1>6, <1>7, <1>8, SelfStepMetric DEF SensorsNext, SensorStep
-----------------------------------------------------------------------------
\* A step reports nothing new.
Untold == \A n : Reported(n)' => Reported(n)

LEMMA Appended ==
  ASSUME NEW s \in Seq(Line), NEW l \in Line
  PROVE  /\ DOMAIN s = 1 .. Len(s) /\ Len(s) \in Nat
         /\ DOMAIN Append(s, l) = 1 .. Len(s) + 1
         /\ \A i \in 1 .. Len(s) : Append(s, l)[i] = s[i]
         /\ Append(s, l)[Len(s) + 1] = l
OBVIOUS

LEMMA Shifted ==
  ASSUME NEW s \in Seq(Line), s # <<>>
  PROVE  /\ DOMAIN s = 1 .. Len(s) /\ Len(s) \in Nat
         /\ 1 \in DOMAIN s /\ Head(s) = s[1]
         /\ DOMAIN Tail(s) = 1 .. Len(s) - 1
         /\ \A i \in 1 .. Len(s) - 1 : Tail(s)[i] = s[i + 1]
<1>1. Len(s) \in Nat /\ Len(s) >= 1 /\ DOMAIN s = 1 .. Len(s)
  OBVIOUS
<1>2. Tail(s) \in Seq(Line) /\ Len(Tail(s)) = Len(s) - 1
  OBVIOUS
<1> QED BY <1>1, <1>2

\* Nothing is printed, read or shown.
LEMMA PanelKept ==
  ASSUME PanelInv, UNCHANGED <<pipe, shown>>, sensor'.gen = sensor.gen,
         sensor'.pc = "create" => sensor.pc = "create"
  PROVE  PanelInv' /\ Untold
BY DEF PanelInv, GenInv, OrderInv, RowAt, ShownNow, Reported, Untold

\* A line of the log, or the header of a report.
LEMMA LogKept ==
  ASSUME PanelTypes, PanelInv, NEW l \in Line, l.k # "row", pipe' = Append(pipe, l),
         shown' = shown,
         sensor'.gen = sensor.gen, sensor'.pc # "create"
  PROVE  PanelInv' /\ Untold
<1>1. \A i : RowAt(i)' => RowAt(i) /\ pipe'[i] = pipe[i]
  BY Appended DEF RowAt, PanelTypes
<1>2. ShownNow' = ShownNow
  BY DEF ShownNow
<1>3. \A i : RowAt(i)' => i \in DOMAIN pipe
  BY <1>1 DEF RowAt
<1>4. GenInv'
  BY <1>1, <1>3 DEF PanelInv, GenInv
<1>5. OrderInv'
  BY <1>1, <1>2, <1>3 DEF PanelInv, OrderInv
<1>6. Untold
  BY <1>1, <1>2, <1>3 DEF Untold, Reported
<1> QED BY <1>4, <1>5, <1>6 DEF PanelInv

\* The next line is a row, and is shown.
ShowsHead ==
    /\ Head(pipe).k = "row"
    /\ shown' = [k |-> "row", segs |-> Head(pipe).segs, gen |-> Head(pipe).gen]

\* A line is taken from the pipe, and what is shown then is the same or, when
\* the line is a row, that row.
LEMMA ReadKept ==
  ASSUME PanelTypes, PanelInv, pipe # <<>>, pipe' = Tail(pipe), sensor' = sensor,
         sensor.gen \in Nat,
         \/ shown' = shown
         \/ shown'.k # "row"
         \/ ShowsHead
  PROVE  PanelInv' /\ Untold
<1>1. /\ 1 \in DOMAIN pipe /\ Head(pipe) = pipe[1]
      /\ DOMAIN pipe = 1 .. Len(pipe) /\ Len(pipe) \in Nat
      /\ DOMAIN pipe' = 1 .. Len(pipe) - 1
      /\ \A i \in 1 .. Len(pipe) - 1 : pipe'[i] = pipe[i + 1]
  BY Shifted DEF PanelTypes
<1>2. \A i : RowAt(i)' => /\ i \in Nat /\ i >= 1 /\ i \in DOMAIN pipe' /\ i + 1 \in DOMAIN pipe
                          /\ RowAt(i + 1) /\ pipe'[i] = pipe[i + 1]
  BY <1>1 DEF RowAt
<1>3. \A i \in DOMAIN pipe' : i \in Nat
  BY <1>1
<1>4. sensor.pc # "create"
  BY DEF PanelInv, GenInv
<1>5. CASE shown' = shown
  <2>1. ShownNow' = ShownNow
    BY <1>5 DEF ShownNow
  <2>2. GenInv'
    BY <1>2, <1>4, <1>5 DEF PanelInv, GenInv
  <2>3. OrderInv'
    BY <1>2, <1>3, <1>5, <2>1 DEF PanelInv, OrderInv
  <2>4. Untold
    BY <1>2, <1>5, <2>1 DEF Untold, Reported
  <2> QED BY <2>2, <2>3, <2>4 DEF PanelInv
<1>6. CASE shown'.k # "row"
  <2>1. ~ShownNow'
    BY <1>6 DEF ShownNow
  <2>2. GenInv'
    BY <1>2, <1>4, <1>6 DEF PanelInv, GenInv
  <2>3. OrderInv'
    BY <1>2, <1>3, <2>1 DEF PanelInv, OrderInv
  <2>4. Untold
    BY <1>2, <2>1 DEF Untold, Reported
  <2> QED BY <2>2, <2>3, <2>4 DEF PanelInv
<1>7. CASE ShowsHead
  <2>1. RowAt(1) /\ Names(shown)' = Names(pipe[1]) /\ shown'.gen = pipe[1].gen
    BY <1>1, <1>7 DEF RowAt, Names, ShowsHead
  <2>2. shown'.gen = sensor.gen
    BY <1>1, <2>1 DEF PanelInv, GenInv
  <2>3. GenInv'
    BY <1>2, <1>4, <2>2 DEF PanelInv, GenInv
  <2>4. \A i : RowAt(i)' => Names(pipe[1]) \subseteq Names(pipe[i + 1])
    <3>1. SUFFICES ASSUME NEW i, RowAt(i)'
                   PROVE  Names(pipe[1]) \subseteq Names(pipe[i + 1])
      OBVIOUS
    <3>2. i + 1 \in DOMAIN pipe /\ RowAt(i + 1) /\ 1 <= i + 1
      BY <1>2, <3>1
    <3> QED BY <1>1, <2>1, <3>2 DEF PanelInv, OrderInv
  <2>5. OrderInv'
    <3>1. ASSUME NEW i, NEW j, RowAt(i)', RowAt(j)', i <= j
          PROVE  Names(pipe'[i]) \subseteq Names(pipe'[j])
      BY <1>2, <3>1 DEF PanelInv, OrderInv
    <3>2. ASSUME NEW i, RowAt(i)'
          PROVE  Names(shown') \subseteq Names(pipe'[i])
      <4>1. Names(shown') = Names(shown)'
        BY DEF Names
      <4> QED BY <1>2, <2>1, <2>4, <3>2, <4>1
    <3> QED BY ONLY <3>1, <3>2 DEF OrderInv, Names
  <2>6. Untold
    BY <1>1, <1>2, <2>1 DEF Untold, Reported
  <2> QED BY <2>3, <2>5, <2>6 DEF PanelInv
<1> QED BY <1>5, <1>6, <1>7

\* A report is complete for what was reported before.
LEMMA RowPrinted ==
  ASSUME SensorsTypeOK, PanelInv, CompleteInv, ReportInv, PrintRow
  PROVE  PanelInv' /\ CompleteInv'
<1> DEFINE l == Row(sensor.row, sensor.gen)
<1>1. l \in Line /\ l.k = "row" /\ l.gen = sensor.gen /\ Names(l) = NamesOf(sensor.row)
  BY LineTypes DEF SensorsTypeOK, SensorTypes, SensorRecords, Row, Names, NamesOf
<1>2. pipe' = Append(pipe, l) /\ UNCHANGED <<tbl, shown>>
  BY DEF PrintRow, LogLine, table, panelVars
<1>3. sensor'.gen = sensor.gen /\ sensor'.pc = "header"
  BY DEF PrintRow, SensorsTypeOK, SensorTypes, SensorRecords
<1> HIDE DEF l
<1>4. /\ DOMAIN pipe = 1 .. Len(pipe) /\ Len(pipe) \in Nat
      /\ DOMAIN pipe' = 1 .. Len(pipe) + 1
      /\ \A i \in 1 .. Len(pipe) : pipe'[i] = pipe[i]
      /\ pipe'[Len(pipe) + 1] = l
  BY <1>1, <1>2, Appended DEF SensorsTypeOK, PanelTypes
<1>5. \A n : Reported(n) => n \in Names(l)
  <2>1. SUFFICES ASSUME NEW n, Reported(n)
                 PROVE  n \in NamesOf(sensor.row)
    BY <1>1
  <2>2. PICK r \in 1 .. tbl.count : Field(r, "name") = n
    BY <2>1 DEF CompleteInv, Complete
  <2>3. r <= sensor.r /\ sensor.pc = "seg"
    BY NextType DEF PrintRow
  <2> QED BY <2>1, <2>2, <2>3 DEF ReportInv
<1>6. \A i : RowAt(i)' => \/ RowAt(i) /\ i \in DOMAIN pipe /\ i <= Len(pipe) /\ pipe'[i] = pipe[i]
                          \/ i = Len(pipe) + 1 /\ pipe'[i] = l
  BY <1>4 DEF RowAt
<1>7. ShownNow' = ShownNow
  BY <1>2, <1>3 DEF ShownNow
<1>8. \A n : Reported(n)' => Reported(n) \/ n \in Names(l)
  BY <1>2, <1>6, <1>7 DEF Reported
<1>9. GenInv'
  BY <1>1, <1>2, <1>3, <1>6 DEF PanelInv, GenInv
<1>10. \A i : RowAt(i) => Names(pipe[i]) \subseteq Names(l)
  BY <1>5 DEF Reported, RowAt
<1>11. ShownNow => Names(shown) \subseteq Names(l)
  BY <1>5 DEF Reported
<1>12. OrderInv'
  <2>1. ASSUME NEW i, NEW j, RowAt(i)', RowAt(j)', i <= j
        PROVE  Names(pipe'[i]) \subseteq Names(pipe'[j])
    BY <1>4, <1>6, <1>10, <2>1 DEF PanelInv, OrderInv
  <2>2. ASSUME NEW i, ShownNow', RowAt(i)'
        PROVE  Names(shown') \subseteq Names(pipe'[i])
    BY <1>2, <1>6, <1>7, <1>11, <2>2 DEF PanelInv, OrderInv
  <2> QED BY <2>1, <2>2 DEF OrderInv, Names
<1>13. CompleteInv'
  <2>1. ASSUME NEW n, Reported(n)'
        PROVE  Complete(n)
    BY <1>1, <1>8, <2>1 DEF CompleteInv, ReportInv, PrintRow
  <2>2. \A n : Complete(n)' = Complete(n)
    BY <1>2 DEF Complete, Field
  <2> QED BY <2>1, <2>2 DEF CompleteInv
<1> QED BY <1>9, <1>12, <1>13 DEF PanelInv
-----------------------------------------------------------------------------
\* The report under way is as before, or there is none.
ReportGoesOn ==
    \/ sensor'.pc \notin {"seg", "name"}
    \/ /\ sensor'.pc = sensor.pc /\ sensor'.r = sensor.r /\ sensor'.row = sensor.row
       /\ sensor'.type = sensor.type /\ sensor'.flag = sensor.flag

LEMMA TableSame ==
  ASSUME SensorsTypeOK, tbl' = tbl
  PROVE  TableGrows /\ \A n : Complete(n)' = Complete(n)
BY DEF TableGrows, Field, Complete, SensorsTypeOK, TableTypes, MetricTables

LEMMA ReportKept ==
  ASSUME SensorsTypeOK, SensorsTypeOK', CompleteInv, ReportInv, TableGrows, Untold, ReportGoesOn
  PROVE  CompleteInv' /\ ReportInv'
<1>1. tbl.count \in Nat /\ tbl'.count \in Nat /\ sensor.r \in Nat
  BY DEF SensorsTypeOK, TableTypes, MetricTables, SensorTypes, SensorRecords
<1>2. \A n : Complete(n) => Complete(n)'
  <2>1. ASSUME NEW n, NEW r \in 1 .. tbl.count, Field(r, "flag") # 0, Field(r, "name") = n
        PROVE  r \in 1 .. tbl'.count /\ Field(r, "flag")' # 0 /\ Field(r, "name")' = n
    BY <1>1, <2>1 DEF TableGrows
  <2> QED BY <2>1 DEF Complete
<1>3. CompleteInv'
  BY <1>2 DEF CompleteInv, Untold
<1>4. ASSUME sensor'.pc \in {"seg", "name"}
      PROVE  ReportInv'
  <2>1. /\ sensor'.pc = sensor.pc /\ sensor'.r = sensor.r /\ sensor'.row = sensor.row
        /\ sensor'.type = sensor.type /\ sensor'.flag = sensor.flag
        /\ sensor.pc \in {"seg", "name"}
    BY <1>4 DEF ReportGoesOn
  <2>2. NamesOf(sensor.row)' = NamesOf(sensor.row)
    BY <2>1 DEF NamesOf
  <2>3. sensor.r <= tbl.count /\ tbl.count <= tbl'.count
    BY <2>1 DEF ReportInv, TableGrows
  <2>4. \A n \in NamesOf(sensor.row) : Complete(n)'
    BY <1>2, <2>1 DEF ReportInv
  <2>5. ASSUME NEW r \in 1 .. tbl'.count, Reported(Field(r, "name"))', r <= sensor.r
        PROVE  \/ Field(r, "name")' \in NamesOf(sensor.row)
               \/ sensor.pc = "name" /\ r = sensor.r /\ sensor.type # 0 /\ sensor.flag # 0
    <3>1. r \in 1 .. tbl.count
      BY <1>1, <2>3, <2>5
    <3>2. Reported(Field(r, "name")') /\ Complete(Field(r, "name")')
      BY <2>5 DEF Untold, CompleteInv
    <3>3. Field(r, "name")' = Field(r, "name")
      BY <3>1, <3>2 DEF TableGrows
    <3> QED BY <2>1, <2>5, <3>1, <3>2, <3>3 DEF ReportInv
  <2>6. ASSUME sensor.pc = "name"
        PROVE  sensor.r # 0 /\ (sensor.flag # 0 => Field(sensor.r, "flag")' # 0)
    <3>1. sensor.r \in 1 .. tbl.count /\ (sensor.flag # 0 => Field(sensor.r, "flag") # 0)
      BY <1>1, <2>3, <2>6 DEF ReportInv
    <3>2. \A r \in 1 .. tbl.count : Field(r, "flag") # 0 => Field(r, "flag")' # 0
      BY DEF TableGrows
    <3>3. \A r : Field(r, "flag")' = tbl'.slot[r]["flag"]
      BY DEF Field
    <3> QED BY <2>1, <3>1, <3>2, <3>3 DEF Field
  <2>7. sensor'.r <= tbl'.count
    BY <1>1, <2>1, <2>3
  <2> QED BY <2>1, <2>2, <2>4, <2>5, <2>6, <2>7 DEF ReportInv
<1>5. CASE sensor'.pc \notin {"seg", "name"}
  BY <1>3, <1>5 DEF ReportInv
<1> QED BY <1>3, <1>4, <1>5

\* The next record is passed: if it has been reported before, it is complete
\* and its flag and type are set now.
LEMMA ReadFlagReading ==
  ASSUME SensorsTypeOK, SensorsTypeOK', MetricInv, ReadingInv, ReadFlag
  PROVE  ReadingInv'
<1> USE FieldNames, SensorsAssumption DEF ReadingInv, MetricInv
<1> DEFINE r == NextRecord(tbl, sensor.r)
<1>1. r \in 1 .. tbl.count /\ r = sensor.r + 1 /\ tbl.count \in Nat /\ sensor.r \in Nat
  BY NextType DEF ReadFlag
<1>2. /\ sensor.pc = "seg" /\ sensor'.pc = "name" /\ sensor'.r = r /\ sensor'.row = sensor.row
      /\ sensor'.type = Field(r, "type") /\ sensor'.flag = Field(r, "flag")
      /\ sensor'.gen = sensor.gen
  BY DEF ReadFlag, Get, Field, SensorsTypeOK, SensorTypes, SensorRecords
<1>3. tbl' = tbl /\ pipe' = pipe /\ shown' = shown
  BY DEF ReadFlag, table, panelVars
<1> HIDE DEF r
<1>4. PanelInv' /\ Untold
  BY <1>2, <1>3, PanelKept
<1>5. /\ \A n : Complete(n)' = Complete(n)
      /\ \A q, f : Field(q, f)' = Field(q, f)
  BY <1>3, TableSame DEF Field
<1>6. CompleteInv'
  BY <1>4, <1>5 DEF CompleteInv, Untold
<1>7. ASSUME NEW q \in 1 .. tbl.count, Reported(Field(q, "name")), q <= r
      PROVE  \/ Field(q, "name") \in NamesOf(sensor.row)
             \/ q = r /\ Field(r, "type") # 0 /\ Field(r, "flag") # 0
  <2>1. CASE q <= sensor.r
    BY <1>2, <1>7, <2>1 DEF ReportInv
  <2>2. CASE q = r
    <3>1. PICK p \in 1 .. tbl.count : Field(p, "flag") # 0 /\ Field(p, "name") = Field(q, "name")
      BY <1>7 DEF CompleteInv, Complete
    <3>2. Field(p, "name") # 0
      BY <3>1 DEF RecordInv
    <3>3. p = q
      BY <3>1, <3>2 DEF MetricOnce, Field
    <3> QED BY <2>2, <3>1, <3>2, <3>3 DEF RecordInv
  <2> QED BY <1>1, <1>7, <2>1, <2>2
<1>8. ReportInv'
  <2>1. NamesOf(sensor.row)' = NamesOf(sensor.row)
    BY <1>2 DEF NamesOf
  <2>2. \A n \in NamesOf(sensor.row) : Complete(n)
    BY <1>2 DEF ReportInv
  <2>3. tbl'.count = tbl.count /\ sensor'.r <= tbl.count /\ sensor'.r # 0
    BY <1>1, <1>2, <1>3
  <2>4. Field(sensor.r, "flag")' = Field(r, "flag")
    BY <1>2, <1>3 DEF Field
  <2>5. ASSUME NEW q \in 1 .. tbl.count, Reported(Field(q, "name"))', q <= sensor'.r
        PROVE  \/ Field(q, "name")' \in NamesOf(sensor.row)
               \/ q = sensor'.r /\ sensor'.type # 0 /\ sensor'.flag # 0
    <3>1. Reported(Field(q, "name"))
      BY <1>4, <1>5, <2>5 DEF Untold
    <3> QED BY <1>2, <1>5, <1>7, <2>5, <3>1
  <2> QED BY <1>2, <1>5, <2>1, <2>2, <2>3, <2>4, <2>5 DEF ReportInv
<1> QED BY <1>4, <1>6, <1>8

\* What a segment adds to the names of a row.
LEMMA SegmentNames ==
  ASSUME NEW row \in Seq(Int), NEW type, NEW flag, NEW name \in Nat
  PROVE  NamesOf(row \o Segment(type, flag, name)) =
           NamesOf(row) \cup (IF type # 0 /\ flag # 0 THEN {name} ELSE {})
<1> DEFINE seg == Segment(type, flag, name)
           both == row \o seg
<1>1. /\ seg \in Seq(Int) /\ Len(seg) \in 0 .. 1
      /\ Len(seg) = 1 => seg[1] = IF flag = 0 THEN Stray ELSE name
      /\ Len(seg) = 0 <=> type = 0
  BY Blanks DEF Segment
<1> HIDE DEF seg
<1>2. /\ DOMAIN row = 1 .. Len(row) /\ Len(row) \in Nat
      /\ DOMAIN both = 1 .. Len(row) + Len(seg)
      /\ \A i \in 1 .. Len(row) + Len(seg) :
            both[i] = IF i <= Len(row) THEN row[i] ELSE seg[i - Len(row)]
  BY <1>1, ConcatProperties, LenProperties
<1> HIDE DEF both
<1>3. name # Stray
  BY DEF Stray
<1>4. CASE type = 0
  <2>1. DOMAIN both = DOMAIN row /\ \A i \in DOMAIN row : both[i] = row[i]
    BY <1>1, <1>2, <1>4
  <2> QED BY <1>4, <2>1 DEF NamesOf, both, seg
<1>5. CASE type # 0
  <2> DEFINE last == IF flag = 0 THEN Stray ELSE name
  <2>1. Len(seg) = 1 /\ seg[1] = last
    BY <1>1, <1>5
  <2> HIDE DEF last
  <2>2. /\ DOMAIN both = (DOMAIN row) \cup {Len(row) + 1}
        /\ \A i \in DOMAIN row : both[i] = row[i]
        /\ both[Len(row) + 1] = last
    BY <1>2, <2>1
  <2>3. NamesOf(both) = (NamesOf(row) \cup {last}) \ {Stray}
    BY <2>2 DEF NamesOf
  <2>4. NamesOf(both) = NamesOf(row) \cup (IF flag # 0 THEN {name} ELSE {})
    BY <1>3, <2>3 DEF last, NamesOf
  <2> QED BY <1>5, <2>4 DEF both, seg
<1> QED BY <1>4, <1>5
\* The name of the record that was complete is added to the row.
LEMMA ReadNameReading ==
  ASSUME SensorsTypeOK, SensorsTypeOK', MetricInv, ReadingInv, ReadName
  PROVE  ReadingInv'
<1> USE FieldNames, SensorsAssumption DEF ReadingInv
<1> DEFINE name == Field(sensor.r, "name")
           read == sensor.type # 0 /\ sensor.flag # 0
<1>1. /\ sensor.pc = "name" /\ sensor.r \in 1 .. tbl.count /\ tbl.count \in Nat
      /\ name \in Nat /\ sensor.row \in Seq(Int)
  <2>1. sensor.pc = "name" /\ sensor.r <= tbl.count /\ sensor.r # 0
    BY DEF ReadName, ReportInv
  <2>2. tbl.count \in Nat /\ sensor.r \in Nat /\ sensor.row \in Seq(Int)
    BY DEF SensorsTypeOK, SensorTypes, SensorRecords, TableTypes, MetricTables
  <2>3. sensor.r \in 1 .. tbl.count
    BY <2>1, <2>2
  <2> QED BY <2>1, <2>2, <2>3, FieldType DEF Field
<1>2. /\ sensor'.pc = "seg" /\ sensor'.r = sensor.r /\ sensor'.gen = sensor.gen
      /\ sensor'.row = sensor.row \o Segment(sensor.type, sensor.flag, name)
  BY DEF ReadName, Get, Field, SensorsTypeOK, SensorTypes, SensorRecords
<1>3. tbl' = tbl /\ pipe' = pipe /\ shown' = shown
  BY DEF ReadName, table, panelVars
<1>4. NamesOf(sensor.row)' = NamesOf(sensor.row) \cup (IF read THEN {name} ELSE {})
  <2>1. NamesOf(sensor.row)' = NamesOf(sensor.row \o Segment(sensor.type, sensor.flag, name))
    BY <1>2 DEF NamesOf
  <2> QED BY <1>1, <2>1, SegmentNames
<1>5. PanelInv' /\ Untold
  BY <1>2, <1>3, PanelKept
<1>6. /\ \A n : Complete(n)' = Complete(n)
      /\ \A q, f : tbl'.slot[q][f] = Field(q, f)
  BY <1>3, TableSame DEF Field
<1>7. CompleteInv'
  BY <1>5, <1>6 DEF CompleteInv, Untold
<1>8. read => Complete(name)
  BY <1>1 DEF ReportInv, Complete
<1>9. \A n \in NamesOf(sensor.row)' : Complete(n)
  BY <1>1, <1>4, <1>8 DEF ReportInv
<1>10. ASSUME NEW q \in 1 .. tbl.count, Reported(Field(q, "name"))', q <= sensor.r
       PROVE  Field(q, "name")' \in NamesOf(sensor.row)'
  <2>1. Field(q, "name")' = Field(q, "name")
    BY <1>6 DEF Field
  <2>2. Reported(Field(q, "name"))
    BY <1>5, <1>10, <2>1 DEF Untold
  <2>3. Field(q, "name") \in NamesOf(sensor.row) \/ (q = sensor.r /\ read)
    BY <1>1, <1>10, <2>2 DEF ReportInv
  <2> QED BY <1>4, <2>1, <2>3
<1>11. ReportInv'
  <2>1. tbl'.count = tbl.count /\ sensor'.r <= tbl.count
    BY <1>1, <1>2, <1>3
  <2> QED BY <1>2, <1>6, <1>9, <1>10, <2>1 DEF ReportInv
<1> QED BY <1>5, <1>7, <1>11

LEMMA SensorStepReading ==
  ASSUME SensorsTypeOK, SensorsTypeOK', MetricInv, ChainInv, ReadingInv, SensorStep
  PROVE  ReadingInv'
<1> USE DEF ReadingInv, table, panelVars
<1>1. CASE CreateTables
  <2>1. \A n : ~Reported(n)
    BY <1>1 DEF CreateTables, SensorGo, Reported, PanelInv, GenInv, ShownNow,
                SensorsTypeOK, SensorTypes, SensorRecords, PanelTypes
  <2>2. sensor'.gen = sensor.gen /\ sensor'.pc = "header" /\ pipe' = pipe /\ shown' = shown
    BY <1>1 DEF CreateTables, SensorGo, SensorsTypeOK, SensorTypes, SensorRecords
  <2>3. PanelInv' /\ Untold
    BY <2>2, PanelKept
  <2> QED BY <2>1, <2>2, <2>3 DEF Untold, CompleteInv, ReportInv
<1>2. CASE PrintHeader
  <2>1. /\ Header(dev) \in Line /\ Header(dev).k # "row" /\ pipe' = Append(pipe, Header(dev))
        /\ tbl' = tbl /\ shown' = shown
    BY <1>2, LineTypes DEF PrintHeader, LogLine, Header, SensorsTypeOK, TableTypes
  <2>2. /\ sensor'.gen = sensor.gen
        /\ sensor'.pc = "header" \/ (sensor'.pc = "seg" /\ sensor'.r = 0 /\ sensor'.row = <<>>)
    BY <1>2 DEF PrintHeader, SensorsTypeOK, SensorTypes, SensorRecords
  <2>3. PanelInv' /\ Untold
    BY <2>1, <2>2, LogKept DEF SensorsTypeOK
  <2>4. CompleteInv'
    BY <2>1, <2>3, TableSame DEF CompleteInv, Untold
  <2>5. ReportInv'
    <3>1. sensor'.pc = "seg" => NamesOf(sensor.row)' = {} /\ sensor'.r = 0
      BY <2>2 DEF NamesOf
    <3>2. tbl'.count \in Nat
      BY DEF SensorsTypeOK, TableTypes, MetricTables
    <3>3. sensor'.pc # "name"
      BY <2>2
    <3>4. \A r \in 1 .. tbl'.count : ~(r <= 0) /\ 0 <= tbl'.count
      BY <3>2
    <3> QED BY <3>1, <3>2, <3>3, <3>4 DEF ReportInv
  <2> QED BY <2>3, <2>4, <2>5
<1>3. CASE PrintRow
  <2>1. PanelInv' /\ CompleteInv'
    BY <1>3, RowPrinted
  <2>2. sensor'.pc = "header"
    BY <1>3 DEF PrintRow, SensorsTypeOK, SensorTypes, SensorRecords
  <2> QED BY <2>1, <2>2 DEF ReportInv
<1>4. CASE EndReports \/ SensorJoin
  <2>1. /\ sensor'.gen = sensor.gen /\ sensor'.pc \in {"join", "none"}
        /\ UNCHANGED <<tbl, pipe, shown>>
    BY <1>4
       DEF EndReports, SensorGo, SensorJoin, NoSensor, SensorsTypeOK, SensorTypes, SensorRecords
  <2>2. PanelInv' /\ Untold
    BY <2>1, PanelKept
  <2> QED BY <2>1, <2>2, TableSame, ReportKept DEF ReportGoesOn
<1> QED BY <1>1, <1>2, <1>3, <1>4, ReadFlagReading, ReadNameReading DEF SensorStep

\* The steps that write neither a report nor a row of the panel.
LEMMA QuietReading ==
  ASSUME SensorsTypeOK, SensorsTypeOK', ReadingInv, TableGrows, UNCHANGED <<pipe, shown>>,
         sensor'.gen = sensor.gen, ReportGoesOn, sensor'.pc = "create" => sensor.pc = "create"
  PROVE  ReadingInv'
BY PanelKept, ReportKept DEF ReadingInv

LEMMA NoiseReading ==
  ASSUME SensorsTypeOK, SensorsTypeOK', ReadingInv, tbl' = tbl, LogLine(Noise), shown' = shown,
         sensor'.gen = sensor.gen, ReportGoesOn, sensor'.pc # "create"
  PROVE  ReadingInv'
<1>1. Noise \in Line /\ Noise.k # "row" /\ pipe' = Append(pipe, Noise)
  BY LineTypes DEF LogLine, Noise
<1>2. PanelInv' /\ Untold
  BY <1>1, LogKept DEF SensorsTypeOK, ReadingInv
<1> QED BY <1>2, TableSame, ReportKept DEF ReadingInv

LEMMA TaskStepReading ==
  ASSUME SensorsTypeOK, SensorsTypeOK', ChainInv, ReadingInv, TaskStep
  PROVE  ReadingInv'
<1> USE TableSame DEF table, panelVars, ReportGoesOn
<1>1. CASE TaskCheck \/ TaskFork
  BY <1>1, QuietReading DEF TaskCheck, TaskFork
<1>2. CASE TaskAssign \/ TaskEof
  <2>1. sensor.pc # "create"
    BY <1>2 DEF TaskAssign, TaskEof, ChainInv
  <2> QED BY <1>2, <2>1, QuietReading, NoiseReading DEF TaskAssign, TaskEof
<1> QED BY <1>1, <1>2 DEF TaskStep

LEMMA SignalReading ==
  ASSUME SensorsTypeOK, SensorsTypeOK', ReadingInv, SensorSignal \/ SensorCrash
  PROVE  ReadingInv'
<1> USE TableSame DEF table, panelVars, ReportGoesOn
<1>1. CASE HandleStop
  <2>1. /\ sensor'.pc = sensor.pc /\ sensor'.r = sensor.r /\ sensor'.row = sensor.row
        /\ sensor'.type = sensor.type /\ sensor'.flag = sensor.flag /\ sensor'.gen = sensor.gen
        /\ sensor.pc # "create"
    BY <1>1 DEF HandleStop, SensorsTypeOK, SensorTypes, SensorRecords
  <2> QED BY <1>1, <2>1, NoiseReading DEF HandleStop
<1>2. CASE DieEarly \/ SensorCrash
  <2>1. sensor'.pc = "none" /\ sensor'.gen = sensor.gen /\ UNCHANGED <<tbl, pipe, shown>>
    BY <1>2 DEF DieEarly, SensorCrash, SensorGone, NoSensor
  <2> QED BY <2>1, QuietReading
<1> QED BY <1>1, <1>2 DEF SensorSignal

LEMMA MonStepReading ==
  ASSUME SensorsTypeOK, SensorsTypeOK', ReadingInv, MonStep
  PROVE  ReadingInv'
<1> USE TableSame DEF table, ReportGoesOn
<1>1. CASE MonFork
  <2>1. /\ sensor'.pc = "create" /\ sensor'.gen = sensor.gen + 1 /\ pipe' = <<>> /\ shown' = shown
        /\ shown.gen \in Nat /\ sensor.gen \in Nat
    BY <1>1 DEF MonFork, NoSensor, SensorsTypeOK, SensorTypes, SensorRecords, PanelTypes
  <2>2. shown.k = "row" => shown.gen <= sensor.gen
    BY DEF ReadingInv, PanelInv, GenInv
  <2>3. ~ShownNow' /\ (\A i : ~RowAt(i)')
    BY <2>1, <2>2 DEF ShownNow, RowAt
  <2>4. GenInv'
    BY <2>1, <2>2, <2>3 DEF GenInv
  <2>5. OrderInv'
    BY <2>3 DEF OrderInv
  <2>6. CompleteInv'
    BY <2>3 DEF CompleteInv, Reported
  <2>7. ReportInv'
    BY <2>1 DEF ReportInv
  <2> QED BY <2>4, <2>5, <2>6, <2>7 DEF ReadingInv, PanelInv
<1>2. CASE MonAssign \/ RowMissing \/ MonReturns \/ MonWait \/ MonPause \/ MonAgain
  BY <1>2, QuietReading DEF MonAssign, RowMissing, MonReturns, MonWait, MonPause, MonAgain
<1>3. CASE ReadLine \/ ReadRow
  <2>1. /\ pipe # <<>> /\ pipe' = Tail(pipe) /\ sensor' = sensor /\ tbl' = tbl
        /\ sensor.gen \in Nat
    BY <1>3 DEF ReadLine, ReadRow, SensorsTypeOK, SensorTypes, SensorRecords, PanelTypes
  <2>2. \/ shown' = shown
        \/ Head(pipe).k # "header" /\
           shown' = [k |-> Head(pipe).k, segs |-> Head(pipe).segs, gen |-> Head(pipe).gen]
    BY <1>3 DEF ReadLine, ReadRow
  <2>3. \/ shown' = shown
        \/ shown'.k # "row"
        \/ ShowsHead
    BY <2>2 DEF ShowsHead
  <2>4. PanelInv' /\ Untold
    BY <2>1, <2>3, ReadKept DEF ReadingInv, SensorsTypeOK
  <2> QED BY <2>1, <2>4, ReportKept DEF ReadingInv
<1> QED BY <1>1, <1>2, <1>3 DEF MonStep

LEMMA SensorsReading ==
  ASSUME SensorsTypeOK, SensorsTypeOK', MetricInv, ChainInv, ReadingInv, [SensorsNext]_sensorsVars
  PROVE  ReadingInv'
<1> USE DEF table, panelVars, ReportGoesOn
<1>1. CASE SelfStep
  <2>1. UNCHANGED <<sensor, pipe, shown>>
    BY <1>1 DEF SelfStep, FindMetric, AddMetric, SetType, SetName, SetMetric, SetFlag
  <2> QED BY <1>1, <2>1, SelfStepMetric, QuietReading
<1>2. CASE SelfCrash \/ UNCHANGED sensorsVars
  BY <1>2, TableSame, QuietReading DEF SelfCrash, sensorsVars
<1>3. CASE UiStep \/ UiExit
  <2>1. /\ sensor'.pc = sensor.pc /\ sensor'.r = sensor.r /\ sensor'.row = sensor.row
        /\ sensor'.type = sensor.type /\ sensor'.flag = sensor.flag /\ sensor'.gen = sensor.gen
        /\ UNCHANGED <<tbl, pipe, shown>>
    BY <1>3 DEF UiStep, UiExit, SetShouldExit, KillSensor, JoinMonitor, SensorsTypeOK,
                SensorTypes, SensorRecords
  <2> QED BY <2>1, TableSame, QuietReading
<1> QED BY <1>1, <1>2, <1>3, SensorStepReading, TaskStepReading, SignalReading, MonStepReading
        DEF SensorsNext

LEMMA InitSensorsInv == SensorsInit => SensorsInv
<1> SUFFICES ASSUME SensorsInit
             PROVE  SensorsInv
  OBVIOUS
<1> USE Blanks DEF SensorsInit
<1>1. NoSensor \in SensorRecords
  BY DEF NoSensor, SensorRecords, SensorPcs
<1>2. SensorsTypeOK
  BY <1>1, CreatedType, NoSelfType
     DEF SensorsTypeOK, TableTypes, SelfTypes, TaskTypes, SensorTypes, PanelTypes, NoTask, TaskPcs,
         MonPcs, NoRow
<1>3. ChainInv
  BY DEF ChainInv, NoSelf, NoTask, NoSensor
<1>4. MetricInv
  BY DEF MetricInv, MetricOnce, RecordInv, SelfInv, Created, NoSelf
<1>5. ~ShownNow /\ (\A i : ~RowAt(i)) /\ sensor.pc = "none" /\ shown.gen = 0 /\ sensor.gen = 0
  BY DEF ShownNow, RowAt, NoRow, NoSensor
<1>6. ReadingInv
  BY <1>5 DEF ReadingInv, PanelInv, GenInv, OrderInv, CompleteInv, Reported, ReportInv
<1> QED BY <1>2, <1>3, <1>4, <1>6 DEF SensorsInv

\* The sensors keep SensorsInv, types included.
THEOREM SensorsInvariance == SensorsSpec => []SensorsInv
<1>1. SensorsInv /\ [SensorsNext]_sensorsVars => SensorsInv'
  BY SensorsTypes, SensorsChain, SensorsMetric, SensorsReading DEF SensorsInv, ReadingInv
<1> QED BY InitSensorsInv, <1>1, PTL DEF SensorsSpec

\* A metric has one record, whatever has crashed and been started again.
THEOREM MetricsUnique == SensorsSpec => []MetricOnce
<1>1. SensorsInv => MetricOnce
  BY DEF SensorsInv, MetricInv
<1> QED BY <1>1, SensorsInvariance, PTL

\* The panel never loses a metric of the sensor that runs, but for a log line.
THEOREM MetricsKept == SensorsSpec => KeepsMetrics
<1> DEFINE Keeps == shown'.k = "row" /\ shown.k = "row" /\ shown'.gen = shown.gen
                       => Names(shown) \subseteq Names(shown')
<1>1. SensorsInv /\ [SensorsNext]_sensorsVars => [Keeps]_shown
  <2> SUFFICES ASSUME SensorsInv, [SensorsNext]_sensorsVars, shown' # shown, shown.k = "row",
                      shown'.k = "row", shown'.gen = shown.gen
               PROVE  Names(shown) \subseteq Names(shown')
    OBVIOUS
  <2>1. ReadRow
    BY
       DEF SensorsNext, sensorsVars, SelfStep, FindMetric, AddMetric, SetType, SetName,
           SetMetric,
           SetFlag, TaskStep, TaskCheck, TaskFork, TaskAssign, TaskEof, SensorStep, CreateTables,
           PrintHeader, ReadFlag, ReadName, PrintRow, EndReports, SensorJoin, SensorSignal,
           HandleStop, DieEarly, SensorCrash, SelfCrash, MonStep, MonFork, MonAssign, ReadLine,
           RowMissing, MonReturns, MonWait, MonPause, MonAgain, UiStep, UiExit, SetShouldExit,
           KillSensor, JoinMonitor,
           panelVars
  <2>2. /\ pipe # <<>> /\ Head(pipe).k = "row" /\ shown'.gen = Head(pipe).gen
        /\ Names(shown') = Names(Head(pipe))
    BY <2>1 DEF ReadRow, Names
  <2>3. 1 \in DOMAIN pipe /\ Head(pipe) = pipe[1]
    BY <2>2, Shifted DEF SensorsInv, SensorsTypeOK, PanelTypes
  <2>4. RowAt(1) /\ ShownNow
    BY <2>2, <2>3 DEF RowAt, ShownNow, SensorsInv, ReadingInv, PanelInv, GenInv
  <2> QED BY <2>2, <2>3, <2>4 DEF SensorsInv, ReadingInv, PanelInv, OrderInv
<1> QED BY <1>1, SensorsInvariance, PTL DEF SensorsSpec, KeepsMetrics
=============================================================================
