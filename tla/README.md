# A TLA+ model of SberDevTest

`sberdevtest` is a terminal program that tests the hardware of a device. A user
chooses a test configuration (an ini file), the devices of the machine are searched
and checked against it, a countdown starts the complex test, test programs run as child
processes one after the other, and a log shows what they print. The program has one
thread for the user interface and several workers that call into it; around it are the
scanners of devices, the sensor programs and the test programs, each a process with
threads, children and timers of its own, some of them sharing tables in memory.
This directory models the parts where those threads and processes meet.

- Modules: `*.tla`; instances for TLC: `MC*.tla` with `MC*.cfg`; proofs: `*Proofs.tla`.
- `PROJECT.json` lists components, runs, the source lines of every definition,
  mutants (how a slip in the code would break each property), findings, hazards,
  theorems.

## 1. Inventory

Paths are relative to `src/sberdevtest/sources/sberdevtest/` unless they begin
with `sberutil/` (`src/sberutils/sources/sberutil/`).

| Component | State | Operations | Talks to | What must be right |
|---|---|---|---|---|
| UI loop, `TUI` (`ui.cpp`) | `do_event`, `event_done`, `mutex`, `fexit`, focus lists | `Run`, `DoLock`, `DoEvent`, `setfocus`, `exit` | every worker through `DoLock`; panels by callbacks | a caller is served once, by its own event; nobody is left waiting |
| Test runner, `TTest` (`test.cpp`) | `working`, `stop`, `cycle`, `exepipe`, `childpid`, lists of tests | `StartComplex`, `StartCustom`, `Update`, `Stop`, `Kill`, the execution thread, the destructor | UI by `DoLock(TEST_UPDATE)`, child processes, log, dialogs | a run ends, is counted and reported once; Stop stops; leaving joins |
| Test totals (`test.cpp` 626-664, 1033-1128) | counters of `TComplexItem`, verdicts | `ComplexItemAddResult`, end of `Update` | log, network client | the verdict agrees with the results |
| Autostart and hello panel (`autostartpanel.cpp`, `hellopanel.cpp`) | the countdown, its timer, `lastini`, `iniitem` | choose, tick, Enter, other key | timer threads by `DoLock`, `TTest` | what starts is what was shown; cancel cancels |
| Log panel (`logpanel.cpp`) | list of lines, two iterators, counts, `m_logMutex`, a file | `AddLogEntry`, scroll keys, `resize`, `FinalizeAndCopyLog` | every thread through `toLog`; UI by `DoLock(LOG_UPDATE)` | entries do not mix; iterators stay valid; nobody waits for ever |
| Dialog panel and focus (`dialogpanel.cpp`, `ui.cpp` 375-446) | the dialog's set-up and buttons, `focuspanel`, `prevfocuslist`, `ftablock` | `ShowMessage`, `ShowInput`, `Close`, `setfocus`, `setfocusprev`, TAB | test modules (`<DIALOG>`), UI | the keys go to a panel that is shown; the question on the screen is that of the test that runs |
| Sensor panel (`sensorpanel.cpp`) | records, pid, `m_shouldExit` | parse, refresh, restart, destructor | the sensor process, UI | records are not drawn half written; no metric is lost; leaving joins |
| Menu panel (`menupanel.cpp`) | the view, its buttons, the last button | keys and buttons, `UpdateState` | `TTest`, editor | views follow the run |
| Edit panel (`editpanel.cpp`) | the file, the text, the flag of the last save | keys, dialogs, `ShowFile`, `ClosePanel` | whoever opened it, by a callback | a text is not lost unasked; what is reported was written |
| Hello, back, program panels | layouts, firmware input | keys and buttons | focus, other programs | - |
| Text editor (`uimemo.cpp`) | lines, cursor | keys | edit panel | cursor inside the text |
| Network client (`tcpclient.cpp`) | a socket | connect, send, close | server | - |
| Processes, pipes, timers (`sberutil/sysutils.cpp`) | pipes, timers, `Tmutex`, `Tevent` | `RunProcessIO`, `ReadPipe`, `StartTimer*` | all | framing of records; time-outs hit the right process |
| Debug system (`sberutil/debugsystem.cpp`) | log files, units | logging, `kill_process_and_childs` | all | - |
| Shared-memory table (`sberutil/memtbl.cpp`) | records in shared memory, their number, a `lock()` that is empty | create, open, clear, add, get, set, find, next, sort | scanners, hdd, sensor programs | a whole scan leaves a whole table |
| Configuration (`sberutil/config.cpp`) | sections and keys | load, read | all | - |
| Scan helpers (`sberutil/scan.cpp`, `netservice.cpp`) | open tables, sockets | `Tscan::open`, its searches; ioctls, ping | scan_dev, lan | - |
| Device scanners (`../devscan/`, `../scan_dev/`) | four tables, the pid file of `runonce`, the verdicts | fill and sort the tables, find and judge the devices of an ini | `TTest::Scanner`, hdd | two scans stay apart; a verdict fits the machine; the loading of an ini ends |
| Sensor programs (`../sensor/`, `../sensorself/`) | tables of devices and metrics, pids, a flag to stop | measure, report, restart, stop | sensor panel by a pipe | one record for a metric; reports are complete |
| Test programs (`../cpu`, `mem`, `hdd`, `lan`, `sound`, `video`, `wifi`, `bluetooth`) | each its own: cores, a buffer and swap, a watchdog, a link monitor, a player | the test, its retries and time-outs, the handler of SIGTERM | the runner by stdout and signals, their children | TEST OK means passed; what was changed is restored; it ends |

The behaviours that are hard to test, nearly all across threads or processes:

- a worker blocks in `DoLock` until the UI thread is idle, with whatever other lock
  it holds (`m_logMutex`);
- keys are served before events, so an event may be served long after the state that
  caused it has gone (ticks of the countdown);
- `Stop`, in the UI thread, reads the pipe that the execution thread reads;
- `childpid` is written by one thread after the child is already running, and used
  by another;
- leaving the program while workers wait in `DoLock`, join and kill;
- a run, a countdown or a question of a test moves the focus while the user is in
  another panel: the editor, a dialog, the countdown;
- the fields of the one dialog panel are stored by two threads without a lock;
- lists and iterators that are changed and drawn by different threads;
- tables in shared memory that one process clears, fills and sorts while others walk them;
- processes that crash and are started again over the tables they have left, and a panel
  that stops a process which is just being started;
- signal handlers that do the whole clean-up, anywhere in the main thread of a test program;
- watchdogs and time-outs that race with the end of the child they guard.

The list with lines, and the properties that cover them, is `hazards` in `PROJECT.json`.

## 2. Modules and code

```
SyncCall   <--- implemented by ---  UiLoop        UiProofs         MCUiLoop
   ^ INSTANCE                       (ui.cpp, sysutils.cpp)
   |
LogLock    (logpanel.cpp x DoLock)                LogProofs        MCLogLock
TestExec   (test.cpp x DoLock, sysutils.cpp)      TestExecProofs   MCTestExec
AutoStart  (autostartpanel, hellopanel x DoLock)  UiProofs         MCAutoStart
Focus      (ui.cpp 375-446 and every panel)       FocusProofs      MCFocus
DialogCall (dialogpanel.cpp x test.cpp)           PanelProofs      MCDialogCall
MenuView   (menupanel.cpp x test.cpp)  --+
EditFile   (editpanel.cpp)             --+-- MenuEdit  PanelProofs  MCMenuEdit
ScrollView <--- implemented by ---  LogPanel      LogProofs        MCLogPanel

MemTable (memtbl.cpp)  --+-- DevScan  (devscan, scan_dev, scan.cpp, hdd.cpp)  DevScanProofs  MCDevScan
                         +-- Sensors  (sensorself, sensor, sensorpanel.cpp)   SensorsProofs  MCSensors
TestProgram (debugsystem.cpp, the main of every test program)
   +-- CpuTest, MemTest, HddTest, LanTest, AskTest, RadioTest --> Programs    ProgramsProofs MCPrograms
```

A proof module EXTENDS the components that it is about, two of them in `UiProofs`, `LogProofs` and
`PanelProofs`. Where two components would use a name for different things, one puts its own name before it:
`LoopNext`, `LockTypeOK`, `DialogInit`, `SensorsSpec`.

**SyncCall** is what `TUI::DoLock` promises: a call is made, begun, ended and
returned from, one handler at a time; after the UI is closed a call may return
unserved. `LogLock` composes its threads with `SyncCall` by INSTANCE; `TestExec` and
`AutoStart` have one kind of caller and state the same protocol in their own
actions (`epc = "update"`, `pending`).

**UiLoop** is how it is done: `mutex`, `do_event` and the sticky `event_done`, the
loop that prefers keys to events, and the last `event_done.set()` of `Run`. Each
assignment that another thread can see is a step. `ParseExcludesHandler` includes
the second use of the mutex, the scope in which the sensor thread changes its records.

**TestExec** is `TTest` with its two threads. `mpc` is where the UI thread stands
(in the loop, in `Stop`, `Kill`, the destructor), `epc` where the execution thread
stands. A child has a state of its own and may exit, or die of the signal it got,
at any time. `Update` is one action, because it runs in the UI thread while the
execution thread waits for it. What the code computes from the output of a test is
abstracted to "a result was recorded" (`results`). MODULE and COMMAND records and
the dialogs of a test behave like a TEST record as far as pipe, pid and stop go.

**AutoStart**: `pending` counts the timer threads that wait in `DoLock`. `ini` and
`listed` are `Test->ini` and "`iniitem` is not `end()`". `view` is the panel with the
focus and `visible` the panels on the screen, which are several when a cycle of a run
has moved the focus from the countdown to the menu. `timer` is the handle `m_autoStartTimer`: `"deleted"` (-1), `"live"`,
or `"failed"` when `StartTimerNewThread` could not start one, which shows the countdown all the same. `lost` counts
live timers whose handle it no longer holds.

**Focus** follows `focuspanel`, `prevfocuslist`, the panels' `visible` and `ftablock` (the
record `scr`) through every key of every panel and every event that the other threads
post. The operations of `TUI` are operators on `scr`, so that a handler that hides, unlocks
and moves the focus twice is one action. What a handler decides by other state (the view of the
menu, whether a file opens) is a choice, so the properties hold for all of it.

**MenuView** is the menu's view against `working`, `stop` and the DONE records to come;
**EditFile** is the edited text against the file and the flag that the callback gets.
**MenuEdit** instantiates both and adds who gets the keys (`front`) and who opened the
editor: keys of the menu come only when the editor has lost the focus, which the
events of the execution thread and of the timer bring about, and leaving the editor calls the menu's
`OnIniEditExit`.

**DialogCall** takes `ShowMessage` apart into the stores it makes, in two threads, and follows a
question of a test module to its answer; `OutStream` is the pointer the answer is written through. `place` is where the
panel is: on the screen, with the focus, in `prevfocuslist`. `SyncHide` is all of `setfocusprev`, which may show the dialog
again; `Cover` and `Uncover` are the other panels that take the focus from it and give it back, at any
time (which does so when is Focus). The history variable `covered` remembers that one has.

**LogLock** is `AddLogEntry` seen from all threads: `m_logMutex`, and the call into
the UI made with the mutex held. The UI thread logs from keys (`KeyLogs`) and from
the handler of `TEST_UPDATE`.

**LogPanel** is the data under those locks: lines are numbered, an iterator is the
number of a line (`end()` is `last + 1`), so popping a line under an iterator is
visible as `scrollIt < first`. **ScrollView** says what the reader of the log sees,
in terms of sizes only.

**MemTable** is `TmemTable` as operators on a table: slots of fields, `count` and `alloced`. `add`
takes a slot as it is and blanks it, `sort` swaps records by copying through a third, and the lock of
its methods does nothing, so the modules that use it make every access a step.

**DevScan** follows the loading of an ini. `tester` is scan_dev: for every scanner of the ini it runs a
devscan, waits, and walks the tables it then finds (`Walk`, `Probe`, `Report`). A second devscan may be
started by hand. `Check` and `WritePid` are the two halves of `runonce`; `AddRecord`, `SetField`, `Compare`,
`SwapLeft` and the like are single stores into the tables; a devscan may be killed anywhere. `hdd` is
the beginning of the disk test, which looks its disk up and then asks the same slot for the mount point.
History variables: `raced` (a devscan passed `runonce` on a pid file that had changed since it was read, or
one deleted the file of another), `blind` (the criteria for which `getIFs` failed, `GetIFsFails`), `fill` (how far
and by how many a table was filled) and `meta` (the mounts the table of disks was made from).

**Sensors** has sensorself, the thread of sensor that starts it again, the main thread and the signal
handler of sensor, the pipe of its log lines, the monitor thread of the panel and the destructor that stops
it. A report is a header and a row printed in two calls. The monitor thread waits for `UI->mutex`, in `DoLock` and in
the log: `mon.call`, which `MonReturns` ends. `Noise` is any other line the process logs.
`missed` remembers that a signal went to a pid of nobody, because the process was just being started.

**TestProgram** is what the test programs share: where the main thread is (`at`), the verdicts printed
(`said`), and the stop: the handler runs in the main thread, wherever that is, and main never goes on.
**CpuTest** has the queue of computations with a thread per core; **MemTest** the two halves of the buffer,
swap, and the handler that releases both a second time; **HddTest** dd, its three attempts and the watchdog;
**LanTest** the pings and the monitor thread of the link, whose object lives in a frame that an exception may
leave; **AskTest** sound, microphone and video, which ask the user and wait as long as it takes (`UserAsked`), and the playback
thread; **RadioTest** wifi and bluetooth, which run commands with a time-out. **Programs** composes them: one program is started,
and may be stopped at any time.

## 3. Runs

The longest runs, `devscan` and `sensors`, take about a minute each, the others less.

| Run | Shows |
|---|---|
| `ui_loop` | the rendezvous implements `SyncCall`; no event is lost or overwritten, nobody returns unserved, waiting callers are released |
| `test_exec` | a working run always has its DONE record to come; no test of a stopped run starts; complex runs are complete and in order; leaving joins the execution thread if its calls of the UI return |
| `autostart` | a countdown on the screen has not been stopped and is whole; it ends when a timer ticks for it; what starts is what is shown |
| `log_lock` | the list is quiet while it is drawn for an event, and a thread keeps the log mutex only when the UI thread waits for it |
| `log_panel` | iterators never dangle, the panel implements `ScrollView` |
| `focus` | keys go to a panel that is shown; `prevfocuslist` holds no panel twice; without the editor only a dialog on the screen locks TAB |
| `menu_edit` | the menu shows a run only while there is one; the editor reports only what was written, and closes over a modified text only by its question |
| `dialog_call` | a question on the screen is one of the test that runs, if no other panel has taken the focus from the dialog |
| `devscan` | two scans pass `runonce` together only in its race; a whole scan leaves every device once, sorted, with all its fields, whatever killed scans left; verdicts and decisions to write made from whole tables are right, for the network interfaces that could be looked at; the loading of an ini ends |
| `write_spares_mounted` | **violated**: the disk test reads the mount point while a devscan fills the record anew, and writes to a mounted disk |
| `sensors` | a metric has one record however often sensorself is started; the panel loses no metric it has shown and comes to show all; its destructor returns but for `missed`, if the monitor thread's calls of the UI return |
| `programs` | TEST OK means that the last attempt of everything passed; one verdict; swap is on again; the link monitor does not outlive its object; each program ends or waits for the answer of the user |

The violated property states what a comment of the program says; the quotation is under `findings`.

### Properties that do not hold

These are defined in the modules too, stated from comments and texts of the program or from what one would
expect. TLC refutes each of them when it is put into the configuration named; they are no runs of the project.

- `StopReturns` (TestExec, one test, one cycle): `ReadPipe` is said to return 0 on a timeout
  (`test.cpp:777`), but it selects and then reads without one. The execution thread takes the record that
  `Stop` has selected; `Stop` blocks in `read` and the thread in `DoLock` while the program is left.
- `FinishedStaysFinished` (TestExec, one test, three cycles): a Stop that meets a DONE already taken leaves a
  second one in the pipe, and the run logged as finished (`test.cpp:1045`) goes on with its next cycle.
- `CancelHolds` (AutoStart, as in `autostart`): "any other key cancels the autostart"
  (`autostartpanel.cpp:81`), but a tick that already waits in `DoLock` is served after the key: it can start
  the test, from the hello panel, with `iniitem` at `end()`.
- `KeyReturns` (LogLock, as in `log_lock`): a key that logs, such as `i` (`menupanel.cpp:83`), waits for
  `m_logMutex`, whose owner waits in `DoLock` for the UI thread: neither goes on.
- `KillReachesChild` (TestExec, one test, three cycles): DELETE
  between the fork and the assignment of `childpid` signals nobody.
- `OneTimer` (AutoStart): a test is chosen again while the timer of a countdown that a run's cycle
  left still lives; its handle is overwritten, and both timers tick.
- `ButtonAlive` (MenuView, as `M!ButtonAlive` in MenuEdit): settings changed during a run of custom
  tests delete the button that `ShowCustomMenu` gives the focus to at the end.
- `WrittenReported` (EditFile): a save that succeeded and then one that failed: the callback is told
  that nothing changed.
- `TextKept` (EditFile): a cycle of a run moves the focus from a modified text to the menu, where
  another file is opened over it.
- `ExecutionOrder` without its `~late` (TestExec, three starts): the second DONE of a Stop outlives its run and ends the
  next one before its tests are read, and a third run starts them once more.
- `DtorReturns` (TestExec, one test, one cycle) and `PanelDtorReturns` (Sensors, as in `sensors`): when the program is
  left, the last `event_done.set()` of `Run` (`ui.cpp:357`) releases one caller of `DoLock`. Another stays
  in it or at `UI->mutex`, and the destructor that joins its thread does not return.
- `TimerRuns` (AutoStart): when `StartTimerNewThread` fails, only an error is logged
  (`autostartpanel.cpp` 131-132): the countdown stays on the screen and nothing counts.
- `QuestionClosed` (DialogCall): `Close` hides the question by `SyncHide`, whose `setfocusprev` shows the panel last
  remembered (`ui.cpp` 434-443). After another panel took the focus from the dialog, that is the dialog
  itself, and the question of an ended test is on the screen again.
- `VerdictOfMachine` (DevScan): when `getIFs` fails (`lan_scan.cpp` 40-44), a network interface that is there is reported
  as not found.
- `EndsUnasked` (Programs): sound, microphone and video wait in `fgets` for the user without a time limit
  (`sound.cpp:102`, `sound.cpp:175`, `video.cpp:113`).
- `DialogNotMixed` (DialogCall): a dialog is shown with the text of one caller and the buttons of the other.

### Bounds

- `ui_loop`: three workers, the number the program has (execution, sensors, timer);
  a fourth would only queue at the mutex. No counters, so no other bound.
- `test_exec`: two tests, two cycles, two runs, so that there is a next test, a next
  cycle and a next run for a stale record to fall into. Two pids suffice, since a pid is
  only compared with that of the present and of the last child. The bounds are the
  guards `starts < MaxStarts` and `n \in 0 .. MaxCycles`.
- `autostart`: a countdown of three seconds (the code's is ten) has a first, a middle
  and a last tick; two waiting threads (`MaxPending`) let ticks of an old countdown
  be served before and after a new one. One timer can be lost (`MaxLost`), and ticks served
  below zero are counted to -2 (`MaxOverdue`): below zero every tick does the same.
- `log_lock`: the two threads that log; the timer thread does not.
- `log_panel`: nine lines through a list of five pop four of them, with panels of 1, 2
  and 4 rows, shorter than the list in all its phases and longer at the beginning.
- `focus`: no counter and no bound; `Starts` picks the known device with the editor and the
  unknown one without it, the two pairs of settings with the most panels each.
- `menu_edit`: two names of files, the settings and another to save them as; two DONE records to
  come (`MaxDones`), as many as there can be (`DonesBounded`, a theorem about TestExec).
- `dialog_call`: no constants; one test at a time is what the execution thread runs.
- `devscan`: three disks at most, one device of pci and of usb, two network cards; tables that begin with one
  slot and grow to four. `Setups` says what may happen around a load of an ini: a scan by hand and a crash or a
  failure; a scan by hand next to more disks; the ini with disks only; a second load, a mount and a test of a
  disk. The properties relate two scans, or a scan and a reader: two of each are enough.
- `sensors`, `devscan`: `Capacity` bounds the memory that a table can grow to, in the guards of `AddMetric` and `AddRecord`;
  the code has no such bound, and the instances never meet it.
- `sensors`: two metrics in a table that grows for the second one; a pipe of one line, so that every print
  waits for the reader; one crash of either process, anywhere.
- `programs`: two cores, two computations of two passes, a second round of the memory and of the modes of dd, two
  lines of dd, three pings. dd's three attempts are the code's. A bit of each half stands for the memory; it
  may be stuck at 0 or 1.

### Fairness

- Threads run: weak fairness for their steps. Users owe nothing: no key is fair.
- The UI loop serves an event only in a round of `getch` that finds no key (`ui.cpp`
  324-346). Keys come with gaps, so serving is strongly fair (`ServeUpdate`, `Serve`)
  where a key's handler can take the UI thread away from the loop, and weakly fair in
  `UiLoop`, where handling a key is no state.
- A child process ends some day (`Child`): without it no run of tests ends.
- After closing nobody is owed the return of a call of the UI: `Run` releases one caller (`LastWaiterReleased` of
  `UiLoop`), and which one is open. So `TestExec` has `OwedStep` (the steps of the execution thread but those in a call
  when `fexit` is set), `Sensors` has `MonOwed`, and `LogLock` owes no unserved return. What ends only if
  those calls return says so: `QuitJoins` follows from `CallsReturn`, and `StopCompletes` from `MonCallsReturn`.
- `DevScan`: devscan, scan_dev and hdd go on when they can; nobody has to start, kill or mount, and `getIFs` never has
  to fail.
- `Sensors`: threads and processes go on. The delivery of a signal and the thread of sensor that runs
  sensorself are strongly fair: a full pipe disables their logging again and again while the panel empties it.
- `Programs`: main with its handler, the threads, timers that expire, and a file that is played to its end.
  What the code waits for without a time limit and that is no user is assumed to return: the command that sets the
  volume, and those that mem gives to `system()`. Nothing is assumed of dd, the commands of wifi and
  bluetooth, the answers to pings or the runner: the time-outs have to see to it that a program ends. Nor is the answer
  of the user owed: the fair steps of main leave out those where it waits for one (`UserAsked`), and `ProgramEnds`
  exempts a program that waits so for ever and is not stopped.
- A mutex that becomes free again and again is got by the UI thread (`SF(MainLock)`).

## 4. Proofs

Proved with TLAPS for every value of the constants that the named assumptions allow: every safety
property of the passing runs, invariants and action properties, the two refinements, and the type
invariant of every component (that of `Sensors` as a part of `SensorsInvariance`).

| Theorems (module) | Inductive invariant, and why the rest of it is needed |
|---|---|
| `DoLockServed`, `PostedSafe`, `ParserExclusive`, `Refinement` (`UiProofs`) | `IndInv`: who is past the mutex owns it (`OwnerInv`), where an event can be posted (`PostedInv`), and that `event_done` is set only between a served event and its caller's waking, or at the end (`FlagInv`, `HandledInv`, `ExitInv`). Without `FlagInv` a sticky flag could be left for the next caller. |
| `TimerSafe`, `CountdownSafe`, `LoadedSafe` (`UiProofs`) | `IInv`, the three together: a tick tells a running countdown from an ended one by the numbers only, whether or not the timer could be started, and a countdown on the screen has its ini loaded unless the hello panel or the menu is there too. |
| `RunNotLost`, `DoneUnique`, `StopEmpties`, `StopTakenBack`, `OneVerdict`, `PidSafe` (`TestExecProofs`) | `IndInv`: the properties themselves, with the places the main thread can be in when a run works (`MainInv`) and which pids the two threads hold (`PidInv`). |
| `RunCounted`, `TestsInOrder` (`TestExecProofs`) | `RunInv`, on top of `IndInv`: the tests in the pipe are in the order of the list and come after the one in hand, which comes after the last started one (`OrderInv`); an ended run has none (`IdleInv`); and every result is counted or its record is still to come (`ResultInv`). All of it but `late`, when a Stop has met a DONE already taken. |
| `DonesBounded` (`TestExecProofs`) | `AtMostTwoDone`, inductive with `IndInv`: a run is started over one DONE record at most, and Stop pushes into a pipe that it has emptied. |
| `WriterUnique`, `ListSafe` (`LogProofs`) | `LockIInv`, with `CallInv`: a worker that waits has a call, and the call that is served is the one `serves` names. |
| `IteratorsSafe`, `CountsSafe`, `OpenSafe`, `Refinement` (`LogProofs`) | `IInv`, with `PageInv`: `m_lastLineIt` begins the last page. It is the fact that ties the iterator, moved by one per line, to the formula of `m_scrollPosition`. |
| `MenuEditTypeOK`, `MenuRunShown`, `EditorReportsWritten`, `EditorClosedByAnswer` (`PanelProofs`) | `IInv` is `RunInv` and `EditInv`, with the owner of the keys. `RunInv` adds that the run of one test has no stop button (its end leaves the buttons alone); `EditInv`, that only an editor with a file has a question. |
| `DialogTyped`, `DialogNotStale` (`PanelProofs`) | `DialogInv`, with `KeyStored`: a key that assembles a dialog while no test works has stored every field it has passed, so nothing of a test can be assembled for the screen after its `Close`; and with `BeforeCovered`: the dialog is in `prevfocuslist` only if another panel took the focus from it, so else `Close` takes it from the screen. |
| `FocusedIsShown`, `RememberedOnce`, `TabLockCovered` (`FocusProofs`) | `IInv` is `Good(scr, block)`, and there is a lemma per operation of `TUI` and of the panels. In the middle of a handler the focused panel may be hidden (`Half`); every handler that hides it ends in `setfocus`. `Without` removes a panel from anywhere in the list: `NthKept` numbers the places it keeps. |
| `ScansApart`, `TablesUnmixed` (`DevScanProofs`) | `RunInv` and `MixInv`, for any tables, devices and inis: who is about to write the pid file has read one that names nobody alive (`SeenInv`), and unless `raced` the file names the scan that is past `runonce` (`OwnInv`), so there is one at most; and only such a scan fills a table. |
| `TablesWhole` (`DevScanProofs`) | `Inv`: with `RunInv` the values of the state (`Typed`, with `Placed` for the registers of a scan at each of its steps) and `TabInv`. The latter says of a whole table what `WholeTable` says, and of one that a scan alone is filling (`WorkOn`) how far it is: the rows so far complete, the one in hand up to its field, and each pass of the bubble sort with the largest keys at the end, one swap of three copies in the middle of it. |
| `VerdictsRight`, `WritesJustified` (`DevScanProofs`) | `ReadInv`, on top of `Inv`. A device has the same slot in every whole table, as many as there are smaller keys (`Rank`), so a reader that met only whole tables has met the same one, though it was cleared and filled in between. `WalkInv`: what scan_dev has counted is right for the slots behind it, without the criteria of `blind`; `HddInv`: the slot that hdd has found is that of its disk. |
| `TypeCorrect` (`DevScanProofs`) | `KeyInv`, on top of that: whatever killed scans have left in the slots, a key is 0 or that of a disk, and what a load lists are disks. |
| `MetricsUnique`, `MetricsKept` (`SensorsProofs`) | `SensorsInv`: who is a child of whom (`ChainInv`); that no record bears the name sensorself is adding, and which fields its record has by now (`MetricInv`); that the rows in the pipe are of the sensor that runs (`GenInv`), each with all that an earlier one had (`OrderInv`), all of it of complete records (`CompleteInv`), and that the report under way has what was reported of the records it has passed (`ReportInv`). |
| `OkJustified`, `VerdictOnce`, `SwapKept`, `MonitorSafe` (`ProgramsProofs`) | `IInv` has a part for each program, which ties the place of main to what the program has done: `CpuInv` (a bad core is still to be joined or has set the status), `MemInv` (where swap is off), `HddInv` (a mode is still in the plan or its last dd was good), `LanInv` (the monitor has ended wherever its object is gone), `AskInv`, `RadioInv`; and `VerdictInv` for all of them. |

The two theorems `Refinement` prove that `UiLoop` implements `SyncCall` and
`LogPanel` implements `ScrollView`: initial states map to initial states, and every step to a
step or a stutter.

The type invariants, `ReturnsServed`, `ReportedOnce`, `PidIsOfChild`, `CountdownPositive`, `OneWriter`, `OnlyLastOpen`, `AtMostTwoDone` and
the invariants of `PostedSafe`, `StopTakenBack` and `CountsSafe` are proved for every instance and are in no
run: the runs keep to what is deeper.

Assumptions: those of `UiLoop`, `TestExec`, `AutoStart`, `LogLock`, `Focus`, `MenuEdit`, `MemTable`, `Sensors`,
`CpuTest`, `MemTest`, `HddTest` and `LanTest` only say what kinds of values the constants are. Two say more:

- `LogPanelAssumption`: the configured `logsize` exceeds the height of the
  panel. The configuration in `src/devices/pc/bin/sberdevtest.conf` sets it to 1000; the code does
  not check it.
- `DevScanAssumption`, by `IsTask`: a scanner that walks a table has had it scanned, as the strings that the scanners give
  to `Tscan` say: `" usb blk com "`, `" pci blk "`, `" net "`, `" pci "`; those of the processor and of the
  memory scan none. Keys of devices are not 0, which a blank record has.

Only model-checked: liveness (`PostedReturns`, `LastWaiterReleased`, `RunEnds`, `QuitJoins`,
`CountdownEnds`, `HolderReturns`, `LoadEnds`, `CatchesUp`, `StopCompletes`, `ProgramEnds`), which TLAPS cannot
prove under fairness.

## 5. What is left out, and why

- `TestExec`: a record is taken from the pipe in one read (header and data are two in
  the code, so that two readers could take the halves of one another). SLEEP records only delay. The list of tests is
  fixed while a run works: the editor can reload it meanwhile, a use after free that MenuView
  shows in part (`ButtonAlive`). The
  log and dialog calls of the execution thread are in `LogLock`, not here. `fork` is
  assumed to succeed. `childpid` is not set by the constructor: `Init` leaves it 0 or a
  pid that is nobody's.
- `AutoStart`: F9 and F10 do not reach the panel; the dialogs above the countdown are in
  Focus. An exception while loading shows the hello panel, which `ShowPanel` allows at any time.
- `Focus`: the back and the sensor panel never get the focus and are left out. The thread that
  asks for a question and the keys are not interleaved inside `ShowMessage` (that is DialogCall).
  `SyncHide` looks at `visible`, not at the focus: a dialog that another panel has taken the focus from is
  hidden by giving the focus to the panel last remembered, which may be one that was closed. No text
  says which panel it should be, so no property does.
- `MenuEdit`: which file a key opens is a choice; the buttons of a dialog of the editor can be
  pressed as long as the dialog was not replaced. The text is the same, modified or cleared.
- `DialogCall`: an answer written for a test that has not asked waits in its pipe for the next question, which the model
  leaves out. An answer written through a closed stream, which is undefined in the code, writes nothing
  in the model. Dialogs of the keys are one dialog; `<IN>` writes to the stream in the thread that
  owns it.
- `LogPanel`: starts after the first `UI->resize()`; a text that contains several
  lines is several `AddLine` steps, between which nothing else can happen but drawing.
- `LogLock`: scrolling draws without a lock (`KeyDraws`). `ListStable` leaves it out: it is a
  data race of the code, and nothing there says otherwise.
- `DevScan`: readers map a table once; a table that an `add` outgrows (more than eight records) moves, which the
  mapping of a reader does not see: the model's readers always see the present one. The option X, which destroys the
  tables, is used by nothing. A pid file whose number belongs to another process by now is waited for without
  end; the model reuses no pid. As in the code: `isKnownDevice` of usb_scan takes
  `driver.find(kd)` for a truth, so every driver that does not begin with `kd` is known; a failed enumeration is not reported by the exit code; a scanner
  whose `open` fails prints no verdict; nobody reads the listing in the pipe; without cpufreq the verdict on the
  processor uses the present frequency.
- `Sensors`: sensorself is gone before sensor is started again three seconds later (its parent's death kills
  it). Two crashes while a record is added (the bound is one) would leave a nameless record. The flag of a
  disk's temperature (`sensorself.cpp:281`) can never be `#`. With `m_sensorPid` at -1 the destructor does not
  join. What the UI thread does in a call of the monitor thread is the matter of `UiLoop`; here the call returns at
  any time, or after closing perhaps never.
- `Programs`: children die with their program. The timers that refresh the progress are output; in the code the one of
  hdd may signal a child already waited for, and the handler of cpu may read a pool that was freed. The handler logs
  and frees, which is not safe in a signal handler; of that the model has the second release of mem's buffer,
  after which the program hangs in its own handler (`hung`). `mem.cut`: a stop within the command that turns swap off.
  As in the code: cpu with no known test says TEST OK, and only the last pass of a stress is judged; hdd that may only
  write, on a mounted disk, says TEST OK after nothing; the message of the watchdog is no verdict; lan without addresses
  to ping says TEST OK, a degraded link is only logged, and the answer to an earlier ping can be taken for the present
  one (`misread`); bluetooth takes a device that bluetoothctl remembers, whether it is in range or not; the recorder of
  the microphone is never waited for.
- Test totals, the cursor and lines of the memo, the ini parser and the network client are not modelled: each is computed
  in one thread, with no state that another actor or a later failure could disturb.
- Events `COMPLEXSTART`, `COMPLEXSTOP` and `RESCANINI` are handled but nobody posts them.
- Formatting, colours, key decoding and the log files are output.

## 6. Plan

What could come next, in this order:

1. The sequence of destructors at exit, with the several callers of `DoLock` of which `Run` releases one: which of the
   joins returns. It would compose `SyncCall` with the threads of `TestExec` and `Sensors`, and replace their conditions
   `CallsReturn` and `MonCallsReturn`.
2. The records of exepipe in two reads, and the growth of a shared table under a reader.
3. The safety halves of the liveness properties as theorems (what no step may undo on the way to the end of a run, a
   countdown, a load), which would leave to TLC only that the steps are taken.
