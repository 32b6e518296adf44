------------------------------ MODULE Sensors ------------------------------
(***************************************************************************)
(* How the readings of sensors reach the screen, through three processes.  *)
(* sensorself measures and writes a table in shared memory, one record for *)
(* each metric; sensor creates the table, starts sensorself in a thread    *)
(* that starts it again when it ends, and prints a report of the table at  *)
(* every turn; the monitor thread of the sensor panel starts sensor, again *)
(* whenever it ends, and reads its reports from a pipe.                    *)
(*                                                                         *)
(* Everything sensor logs goes into the same pipe: a line of its threads   *)
(* may come between the header of a report and its row.  At the exit of    *)
(* sberdevtest the processes stop each other, from the panel downwards.    *)
(***************************************************************************)
EXTENDS MemTable, Sequences

CONSTANTS
    Metrics,          \* how many metrics are configured
    Alloc,            \* the 64 records of create
    PipeRoom,         \* bound: lines in the pipe
    MaxCrashes        \* bound: crashes of sensor and of sensorself

ASSUME SensorsAssumption ==
    /\ Fields = {"type", "name", "flag"}
    /\ Metrics \in Nat \ {0}
    /\ Alloc \in Nat \ {0}

VARIABLES
    tbl,              \* g_MetricTable
    dev,              \* the records of g_DeviceTable: the one nameless device
    self,             \* sensorself
    task,             \* the thread of sensor that runs it
    sensor,           \* the main thread of sensor
    pipe,             \* what sensor has printed and the panel has not read
    mon,              \* MonitorThread of the panel: [pc, pid, call]; call: it waits
                      \*   for UI->mutex or in DoLock
    shown,            \* m_sensorRecords[0]
    ui,               \* the main thread of sberdevtest
    crashes,
    missed            \* history: a signal to stop reached nobody

sensorsVars == <<tbl, dev, self, task, sensor, pipe, mon, shown, ui, crashes, missed>>
table == <<tbl, dev>>
panelVars == <<mon, shown, ui>>

NoSelf == [pc |-> "none", k |-> 1, r |-> Null]
NoTask == [pc |-> "none", pid |-> "junk"]
NoSensor == [pc |-> "none", r |-> Null, row |-> <<>>, type |-> 0, flag |-> 0,
             stop |-> FALSE, sig |-> FALSE, gen |-> 0]
NoRow == [k |-> "none", segs |-> <<>>, gen |-> 0]

Stray == -1

Header(n) == [k |-> "header", n |-> n, segs |-> <<>>, gen |-> 0]
Noise == [k |-> "noise", n |-> 0, segs |-> <<>>, gen |-> 0]
Row(segs, gen) == [k |-> "row", n |-> 0, segs |-> segs, gen |-> gen]

SensorsInit ==
    /\ tbl = Created(Alloc)
    /\ dev = 0
    /\ self = NoSelf
    /\ task = NoTask
    /\ sensor = NoSensor
    /\ pipe = <<>>
    /\ mon = [pc |-> "start", pid |-> "none", call |-> FALSE]
    /\ shown = NoRow
    /\ ui = "run"
    /\ crashes = 0
    /\ missed = FALSE

\* A log line; the pipe holds so many.
LogLine(line) ==
    /\ Len(pipe) < PipeRoom
    /\ pipe' = Append(pipe, line)

-----------------------------------------------------------------------------
(* sensorself: every metric is updated once at the start, then in cycles.  *)

\* The metrics are registered in the order of the configuration ...
StartSelf == [NoSelf EXCEPT !.pc = "find"]

\* ... and measured in the same order, again and again.
NextMetric(k) == IF k = Metrics THEN 1 ELSE k + 1

SelfGo(to) == self' = [self EXCEPT !.pc = to]

\* Fault: the first record of the device is taken for that of the metric.
FindMetricFault ==
    /\ self.pc = "find"
    /\ dev' = 1
    /\ self' = [self EXCEPT !.r = NextRecord(tbl, Null),
                            !.pc = IF tbl.count = 0 THEN "add" ELSE "name"]
    /\ UNCHANGED <<tbl, task, sensor, pipe, panelVars, crashes, missed>>

\* Fault: a metric is added without being looked for.
FindMetricAdds ==
    /\ self.pc = "find"
    /\ dev' = 1
    /\ SelfGo("add")
    /\ UNCHANGED <<tbl, task, sensor, pipe, panelVars, crashes, missed>>

\* update_sensor_metric: the record of the device, made when there is none,
\* and the record of the metric, looked for by its name.
FindMetric ==
    /\ self.pc = "find"
    /\ dev' = 1
    /\ LET hits == {r \in 1 .. tbl.count : IsHit(tbl, r, "name", self.k)} IN
       self' = IF hits = {} THEN [self EXCEPT !.pc = "add"]
               ELSE [self EXCEPT !.pc = "flag", !.r = CHOOSE r \in hits : \A q \in hits : r <= q]
    /\ UNCHANGED <<tbl, task, sensor, pipe, panelVars, crashes, missed>>

\* add: the bound of the model's memory is in the guard.
AddMetric ==
    /\ self.pc = "add"
    /\ NewSlot(tbl) \in Slots
    /\ self' = [self EXCEPT !.pc = "type", !.r = NewSlot(tbl)]
    /\ tbl' = Added(tbl)
    /\ UNCHANGED <<dev, task, sensor, pipe, panelVars, crashes, missed>>

\* The fields are written one by one.
SetMetric(f, v, to) ==
    /\ self.pc = f
    /\ SelfGo(to)
    /\ tbl' = Put(tbl, self.r, f, v)
    /\ UNCHANGED <<dev, task, sensor, pipe, panelVars, crashes, missed>>

SetType == SetMetric("type", 1, "name")
SetName == SetMetric("name", self.k, "flag")

\* The flag, with the value; then the next metric.
SetFlag ==
    /\ self.pc = "flag"
    /\ tbl' = Put(tbl, self.r, "flag", 1)
    /\ self' = [StartSelf EXCEPT !.k = NextMetric(self.k)]
    /\ UNCHANGED <<dev, task, sensor, pipe, panelVars, crashes, missed>>

SelfStep == FindMetric \/ AddMetric \/ SetType \/ SetName \/ SetFlag

SelfCrash ==
    /\ self.pc # "none"
    /\ crashes < MaxCrashes
    /\ crashes' = crashes + 1
    /\ self' = NoSelf
    /\ UNCHANGED <<table, task, sensor, pipe, panelVars, missed>>

-----------------------------------------------------------------------------
(* sensor: TaskExecutionThread.                                            *)

TaskGo(from, to) == task.pc = from /\ task' = [task EXCEPT !.pc = to]

TaskCheck ==
    /\ TaskGo("check", IF sensor.stop THEN "done" ELSE "fork")
    /\ UNCHANGED <<table, self, sensor, pipe, panelVars, crashes, missed>>

\* sensorself runs before its pid is stored in process_id.
TaskFork ==
    /\ TaskGo("fork", "assign")
    /\ self' = StartSelf
    /\ UNCHANGED <<table, sensor, pipe, panelVars, crashes, missed>>

TaskAssign ==
    /\ task.pc = "assign"
    /\ task' = [pc |-> "read", pid |-> "live"]
    /\ LogLine(Noise)
    /\ UNCHANGED <<table, self, sensor, panelVars, crashes, missed>>

\* Fault: the thread ends when its process has ended.
TaskEofFault ==
    /\ task.pc = "read" /\ self.pc = "none"
    /\ task' = [pc |-> "done", pid |-> "old"]
    /\ UNCHANGED <<table, self, sensor, pipe, panelVars, crashes, missed>>

\* The end of its output: the process is waited for; its line with <BUG> may be
\* passed on.
TaskEof ==
    /\ task.pc = "read" /\ self.pc = "none"
    /\ task' = [pc |-> "check", pid |-> "old"]
    /\ LogLine(Noise) \/ UNCHANGED pipe
    /\ UNCHANGED <<table, self, sensor, panelVars, crashes, missed>>

TaskStep == TaskCheck \/ TaskFork \/ TaskAssign \/ TaskEof

-----------------------------------------------------------------------------
(* sensor: main, LogSensorStatus and the signal to stop.                   *)

SensorGo(from, to) == sensor.pc = from /\ sensor' = [sensor EXCEPT !.pc = to]

CreateTables ==
    /\ SensorGo("create", "header")
    /\ tbl' = Created(Alloc)
    /\ dev' = 0
    /\ task' = [NoTask EXCEPT !.pc = "check"]
    /\ UNCHANGED <<self, pipe, panelVars, crashes, missed>>

\* "+1 devices", then the row of the device.
PrintHeader ==
    /\ sensor.pc = "header"
    /\ ~sensor.stop
    /\ LogLine(Header(dev))
    /\ sensor' = [sensor EXCEPT !.pc = IF dev = 0 THEN "header" ELSE "seg",
                                !.r = Null, !.row = <<>>]
    /\ UNCHANGED <<table, self, task, panelVars, crashes, missed>>

\* stringformat reads the type and the flag of the next record first ...
ReadFlag ==
    /\ sensor.pc = "seg"
    /\ NextRecord(tbl, sensor.r) # Null
    /\ LET r == NextRecord(tbl, sensor.r) IN
       sensor' = [sensor EXCEPT !.pc = "name", !.r = r, !.type = Get(tbl, r, "type"),
                                !.flag = Get(tbl, r, "flag")]
    /\ UNCHANGED <<table, self, task, pipe, panelVars, crashes, missed>>

\* ... then the strings.  A field that is not set yet is a zero character, at
\* which the segment ends: it is empty without the type, and a single stray
\* character without the flag.
Segment(type, flag, name) ==
    IF type = 0 THEN <<>> ELSE IF flag = 0 THEN <<Stray>> ELSE <<name>>

ReadName ==
    /\ sensor.pc = "name"
    /\ sensor' = [sensor EXCEPT !.pc = "seg",
                     !.row = @ \o Segment(sensor.type, sensor.flag, Get(tbl, sensor.r, "name")),
                     !.type = 0, !.flag = 0]
    /\ UNCHANGED <<table, self, task, pipe, panelVars, crashes, missed>>

PrintRow ==
    /\ sensor.pc = "seg"
    /\ NextRecord(tbl, sensor.r) = Null
    /\ LogLine(Row(sensor.row, sensor.gen))
    /\ sensor' = [sensor EXCEPT !.pc = "header", !.row = <<>>, !.r = Null]
    /\ UNCHANGED <<table, self, task, panelVars, crashes, missed>>

\* The loop ends when the flag is set.
EndReports ==
    /\ sensor.stop
    /\ SensorGo("header", "join")
    /\ UNCHANGED <<table, self, task, pipe, panelVars, crashes, missed>>

\* killself, after the thread has ended.
SensorJoin ==
    /\ sensor.pc = "join"
    /\ task.pc = "done"
    /\ sensor' = [NoSensor EXCEPT !.gen = sensor.gen]
    /\ task' = NoTask
    /\ UNCHANGED <<table, self, pipe, panelVars, crashes, missed>>

\* Fault: the signal is not passed on to sensorself.
HandleStopFault ==
    /\ sensor.sig
    /\ sensor.pc \notin {"none", "create"}
    /\ sensor' = [sensor EXCEPT !.stop = TRUE, !.sig = FALSE]
    /\ LogLine(Noise)
    /\ UNCHANGED <<table, self, task, panelVars, crashes, missed>>

\* SIGTERM: OnShutdownSignal in the main thread, between any two of its steps.
\* It prints, sets the flag and sends SIGTERM to process_id, which is not set
\* before the first process runs and belongs to nobody after one has ended.
HandleStop ==
    /\ sensor.sig
    /\ sensor.pc \notin {"none", "create"}
    /\ sensor' = [sensor EXCEPT !.stop = TRUE, !.sig = FALSE]
    /\ LogLine(Noise)
    /\ self' = IF task.pid = "live" THEN NoSelf ELSE self
    /\ missed' = (missed \/ task.pc \in {"fork", "assign"})
    /\ UNCHANGED <<table, task, panelVars, crashes>>

\* Gone before its handler was installed, or by a fault of its own; sensorself
\* gets the signal of its parent's death.
SensorGone ==
    /\ sensor' = [NoSensor EXCEPT !.gen = sensor.gen]
    /\ task' = NoTask
    /\ self' = NoSelf

DieEarly ==
    /\ sensor.sig /\ sensor.pc = "create"
    /\ SensorGone
    /\ UNCHANGED <<table, pipe, panelVars, crashes, missed>>

SensorCrash ==
    /\ sensor.pc # "none"
    /\ crashes < MaxCrashes
    /\ crashes' = crashes + 1
    /\ SensorGone
    /\ UNCHANGED <<table, pipe, panelVars, missed>>

SensorStep ==
    \/ CreateTables \/ PrintHeader \/ ReadFlag \/ ReadName \/ PrintRow
    \/ EndReports \/ SensorJoin

SensorSignal == HandleStop \/ DieEarly

-----------------------------------------------------------------------------
(* The sensor panel: MonitorThread.                                        *)

MonGo(from, to) ==
    /\ mon.pc = from /\ ~mon.call
    /\ mon' = [mon EXCEPT !.pc = to]

\* The thread goes on in a call of the user interface.
MonCalls(from, to) ==
    /\ mon.pc = from /\ ~mon.call
    /\ mon' = [mon EXCEPT !.pc = to, !.call = TRUE]

\* The condition of the loop has been evaluated; sensor runs before its pid is
\* stored in m_sensorPid.
MonFork ==
    /\ MonGo("start", "assign")
    /\ sensor' = [NoSensor EXCEPT !.pc = "create", !.gen = sensor.gen + 1]
    /\ pipe' = <<>>
    /\ UNCHANGED <<table, self, task, shown, ui, crashes, missed>>

MonAssign ==
    /\ mon.pc = "assign"
    /\ mon' = [mon EXCEPT !.pc = "read", !.pid = "live"]
    /\ UNCHANGED <<table, self, task, sensor, pipe, shown, ui, crashes, missed>>

\* A line that is no header is skipped, one with <BUG> put into the log panel; after
\* a header UI->mutex is locked for the rows it announces, and DoLock( SENSOR_UPDATE )
\* follows when there are none.
ReadLine ==
    /\ pipe # <<>>
    /\ pipe' = Tail(pipe)
    /\ LET line == Head(pipe)
           to == IF line.n = 0 THEN "read" ELSE "row"
       IN  \/ line.k # "row" /\ MonCalls("read", to)
           \/ line.k # "header" /\ MonGo("read", to)
    /\ UNCHANGED <<table, self, task, sensor, shown, ui, crashes, missed>>

\* The next line is the row, whatever it is.  A log line counts as row 0, and a
\* header as a row of a device that does not exist.  DoLock( SENSOR_UPDATE ) follows.
ReadRow ==
    /\ MonCalls("row", "read")
    /\ pipe # <<>>
    /\ pipe' = Tail(pipe)
    /\ LET line == Head(pipe) IN
       shown' = IF line.k = "header" THEN shown
                ELSE [k |-> line.k, segs |-> line.segs, gen |-> line.gen]
    /\ UNCHANGED <<table, self, task, sensor, ui, crashes, missed>>

\* The mutex is got, or the panel or the log is drawn; when the UI is closed a call may
\* return unserved.
MonReturns ==
    /\ mon.call
    /\ mon' = [mon EXCEPT !.call = FALSE]
    /\ UNCHANGED <<table, self, task, sensor, pipe, shown, ui, crashes, missed>>

Eof == sensor.pc = "none" /\ pipe = <<>>

RowMissing ==
    /\ Eof
    /\ MonCalls("row", "read")
    /\ UNCHANGED <<table, self, task, sensor, pipe, shown, ui, crashes, missed>>

MonWait ==
    /\ Eof
    /\ mon.pc = "read" /\ ~mon.call
    /\ mon' = [mon EXCEPT !.pc = IF ui \in {"run", "exit"} THEN "pause" ELSE "done",
                          !.pid = "old"]
    /\ UNCHANGED <<table, self, task, sensor, pipe, shown, ui, crashes, missed>>

\* Three seconds later: a line of the log ...
MonPause ==
    /\ MonCalls("pause", "again")
    /\ UNCHANGED <<table, self, task, sensor, pipe, shown, ui, crashes, missed>>

\* ... and the condition of the loop.
MonAgain ==
    /\ MonGo("again", IF ui \in {"run", "exit"} THEN "start" ELSE "done")
    /\ UNCHANGED <<table, self, task, sensor, pipe, shown, ui, crashes, missed>>

MonStep ==
    \/ MonFork \/ MonAssign \/ ReadLine \/ ReadRow \/ RowMissing
    \/ MonReturns \/ MonWait \/ MonPause \/ MonAgain

-----------------------------------------------------------------------------
(* The exit of sberdevtest: the destructor of the panel.                   *)

\* TUI::Run has returned: no more events are served.
UiExit ==
    /\ ui = "run"
    /\ ui' = "exit"
    /\ UNCHANGED <<table, self, task, sensor, pipe, mon, shown, crashes, missed>>

SetShouldExit ==
    /\ ui = "exit"
    /\ ui' = "kill"
    /\ UNCHANGED <<table, self, task, sensor, pipe, mon, shown, crashes, missed>>

\* SIGTERM to m_sensorPid, unless it is -1 still; then nothing is waited for.
KillSensor ==
    /\ ui = "kill"
    /\ ui' = IF mon.pid = "none" THEN "ended" ELSE "join"
    /\ sensor' = IF mon.pid = "live" /\ sensor.pc # "none" THEN [sensor EXCEPT !.sig = TRUE]
                 ELSE sensor
    /\ missed' = (missed \/ mon.pc \in {"start", "assign"})
    /\ UNCHANGED <<table, self, task, pipe, mon, shown, crashes>>

JoinMonitor ==
    /\ ui = "join"
    /\ mon.pc = "done"
    /\ ui' = "ended"
    /\ UNCHANGED <<table, self, task, sensor, pipe, mon, shown, crashes, missed>>

UiStep == SetShouldExit \/ KillSensor \/ JoinMonitor

-----------------------------------------------------------------------------

SensorsNext ==
    \/ SelfStep \/ TaskStep \/ SensorStep \/ SensorSignal \/ MonStep \/ UiStep
    \/ UiExit \/ SelfCrash \/ SensorCrash

SensorsSpec == SensorsInit /\ [][SensorsNext]_sensorsVars

\* When the UI is closed the return of a call is owed to nobody: Run sets event_done
\* once more when it ends, which releases one caller of DoLock, and the execution
\* thread or that of a timer may be the one (LastWaiterReleased of UiLoop).
MonOwed == (mon.call => ui = "run") /\ MonStep

\* Every thread goes on when it can, a signal is delivered, and the pauses end.
\* Nobody has to exit or to crash.
FairSensorsSpec ==
    /\ SensorsSpec
    /\ WF_sensorsVars(SelfStep) /\ SF_sensorsVars(TaskStep)
    /\ WF_sensorsVars(SensorStep) /\ SF_sensorsVars(SensorSignal)
    /\ WF_sensorsVars(MonOwed) /\ WF_sensorsVars(UiStep)

-----------------------------------------------------------------------------

Names(row) == {row.segs[i] : i \in DOMAIN row.segs} \ {Stray}

\* A metric has one record, however often sensorself is started again over the
\* table that it has left (update_sensor_metric looks the name up first).
MetricOnce ==
    \A r, q \in 1 .. tbl.count :
        /\ tbl.slot[r]["name"] = tbl.slot[q]["name"]
        /\ tbl.slot[r]["name"] # 0
        => r = q

\* As long as one sensor runs the panel never loses a metric it has shown, but
\* for a line of the log that it takes for the row: a report read while the
\* table grows or while sensorself is down is not shorter than the one before.
KeepsMetrics ==
    [][shown'.k = "row" /\ shown.k = "row" /\ shown'.gen = shown.gen
          => Names(shown) \subseteq Names(shown')]_shown

\* After the last crash the panel comes to show all the metrics: whatever has
\* ended is started again, and a report misread is followed by one that is
\* read well.
CatchesUp == []<>(1 .. Metrics \subseteq Names(shown) \/ ui # "run")

\* No call of the user interface keeps the monitor thread for ever.
MonCallsReturn == []<>~mon.call

\* The destructor of the panel returns, if the calls of the monitor thread do, unless
\* a signal reached a pid of nobody while the process it was meant for was just being
\* started.  (Without the condition the join can hang: PanelDtorReturns.)
StopCompletes == MonCallsReturn => (ui = "join" ~> (ui = "ended" \/ missed))

\* What one would expect when the program is left, and the code does not do.
PanelDtorReturns == ui = "join" ~> (ui = "ended" \/ missed)
=============================================================================
