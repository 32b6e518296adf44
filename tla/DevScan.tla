------------------------------ MODULE DevScan ------------------------------
(***************************************************************************)
(* The search for devices.  When an ini is loaded, TTest::Scanner runs     *)
(* scan_dev; each of its scanners runs devscan, which fills the tables in  *)
(* shared memory, and then walks them for the devices of its configuration *)
(* and prints the verdict of a check.  A test of a disk (hdd) is another   *)
(* process: it reads the table of the block devices that the last devscan  *)
(* has left, and writes to the disk only when the table says it is not     *)
(* mounted.                                                                *)
(*                                                                         *)
(* devscan is also a tool of its own: two of them are kept apart only by   *)
(* the file of runonce.  Readers are kept apart from a scan by nothing, so *)
(* every access to a table is a step.                                      *)
(***************************************************************************)
EXTENDS MemTable, Sequences

CONSTANTS
    Tables,           \* the tables that are scanned, of "pci", "usb", "blk", "net"
    Devices,          \* [Tables -> sets of devices], a device is its place in the order
    Alloc,            \* the 8 records of create
    Inis,             \* inis, each the scanners of read_conf in order
    Mounted,          \* the disks that are mounted at first
    Poor,             \* [Tables -> devices that miss a limit of their criterion]
    Flash,            \* [devices of "usb" -> the block device behind it, or Null]
    UsbDriver,        \* [devices of "usb" -> driver]
    KnownIds,         \* devices of "usb" with a VID:PID of known_vid_pid
    KnownDrivers,     \* known_drivers of the configuration
    Machine,          \* the processor and the memory: cores, max, cur, mem
    PipeRoom,         \* lines that fit into the pipe to scan_dev
    Setups            \* bounds: the ini, and how often what happens around

Scans == {"child", "hand"}      \* the devscan of scan_dev, one started by hand
NoFile == "no file"
DeadPid == "dead"               \* the pid of a process that is gone

\* The ini and the number of disks attached; scans by hand, loads of the ini, devscans killed and tables or lists of
\* interfaces that cannot be read, mounts and unmounts, tests of a disk.
Around == {"ini", "disks", "hand", "load", "hurt", "mount", "hdd"}

\* A scanner of read_conf: the check of the processor or of the memory scans no
\* table; a walk scans the table it goes over, one over "usb" that of the disks too.
IsTask(task) ==
    LET scanned == {task.scan[i] : i \in DOMAIN task.scan} IN
    /\ task.scan \in Seq(Tables)
    /\ task.name \in {"cpu", "mem"} => task.scan = <<>>
    /\ task.scan # <<>> =>
         /\ task.crit \in Seq(Nat \ {0})
         /\ task.over \in scanned /\ (task.over = "usb" => "blk" \in scanned)

ASSUME DevScanAssumption ==
    /\ "blk" \in Tables /\ Tables \subseteq {"pci", "usb", "blk", "net"}
    /\ {"key", "info", "mount"} \subseteq Fields
    /\ \A t \in Tables : Devices[t] \subseteq Nat \ {0}
    /\ Alloc \in Nat \ {0}
    /\ Mounted \subseteq Devices["blk"]
    /\ \A i \in DOMAIN Inis : \A k \in DOMAIN Inis[i] : IsTask(Inis[i][k])
    /\ Setups \subseteq [Around -> Nat]
    /\ \A b \in Setups : b["ini"] \in DOMAIN Inis

VARIABLES
    tbl,              \* the tables; alloced = 0 before the first create
    pidfile,          \* /run/g_DebugSystem.devscan.pid
    pc,               \* where each devscan is
    seen,             \* what it last read from the pid file
    scan,             \* its work
    tester,           \* scan_dev
    items,            \* ScannerItems: the verdicts TTest::Scanner has read
    listed,           \* the disks of the hdd tests in TestList
    hdd,              \* the test of a disk
    mounted,          \* the disks that are mounted now
    left,             \* bound: the ini, the disks and what may still happen
    raced,            \* history: runonce was passed on outdated knowledge
    fill,             \* history: filling, done, failed, or mixed by two scans
    meta              \* history: the mounts the table of disks was made from

vars == <<tbl, pidfile, pc, seen, scan, tester, items, listed, hdd, mounted, left, raced, fill, meta>>
devscans == <<pidfile, pc, seen, scan>>
outside == <<items, listed, hdd, mounted>>
history == <<raced, fill, meta>>

Idle == [todo |-> <<>>, rest |-> {}, row |-> Null, f |-> 1, dev |-> 0,
         i |-> 0, j |-> 0, tmp |-> BlankRow, snap |-> {}, out |-> 0, rc |-> 0]

IdleTester == [pc |-> "none", k |-> 1, c |-> 1, r |-> Null, u |-> Null, found |-> 0,
               errs |-> FALSE, clean |-> TRUE, blind |-> {}]

IdleHdd == [pc |-> "none", dev |-> 0, r |-> Null, clean |-> TRUE, meta |-> {}]

NoVerdict == [v |-> "none", clean |-> TRUE, blind |-> {}]

Init ==
    /\ tbl = [t \in Tables |-> [Created(Alloc) EXCEPT !.alloced = 0]]
    /\ pidfile = NoFile
    /\ pc = [s \in Scans |-> "none"]
    /\ seen = [s \in Scans |-> NoFile]
    /\ scan = [s \in Scans |-> Idle]
    /\ tester = IdleTester
    /\ items = <<>>
    /\ listed = {}
    /\ hdd = IdleHdd
    /\ mounted = Mounted
    /\ left \in Setups
    /\ raced = FALSE
    /\ fill = [t \in Tables |-> "none"]
    /\ meta = {}

Attached(t) == IF t = "blk" THEN {d \in Devices[t] : d <= left["disks"]} ELSE Devices[t]

Spend(e) == left[e] > 0 /\ left' = [left EXCEPT ![e] = @ - 1]

-----------------------------------------------------------------------------
(* What scan_dev does next when the devscan it has waited for is gone.     *)

Tasks == Inis[left["ini"]]

Task == Tasks[tester.k]

NextTask == [IdleTester EXCEPT !.pc = "begin", !.k = tester.k + 1]

\* The tables this walk uses were filled by one whole scan each.
WholeTables == \A i \in DOMAIN Task.scan : fill[Task.scan[i]] = "done"

\* Tscan::open fails on a bad status or a table that does not exist: a scanner
\* gives up without a verdict, read_conf gives up altogether.
AfterScan(status) ==
    LET opened == status = 0 /\ \A i \in DOMAIN Task.scan : Exists(tbl[Task.scan[i]])
    IN  IF opened /\ Task.name # "main" THEN [tester EXCEPT !.pc = "walk", !.clean = WholeTables]
        ELSE IF opened \/ Task.name # "main" THEN NextTask
        ELSE IdleTester

-----------------------------------------------------------------------------
(* devscan: runonce, then the tables of the command line one by one.       *)

Alive(s) == pc[s] # "none"

\* Past runonce and not yet gone.
Active(s) == pc[s] \notin {"none", "check", "write"}

Now(s) == Head(scan[s].todo)

Go(s, to) == pc' = [pc EXCEPT ![s] = to]

Start(s, tables) ==
    /\ Go(s, "check")
    /\ scan' = [scan EXCEPT ![s] = [Idle EXCEPT !.todo = tables]]

\* Fault: nobody is waited for.
CheckFault(s) ==
    /\ pc[s] = "check"
    /\ Go(s, "write")
    /\ seen' = [seen EXCEPT ![s] = pidfile]
    /\ UNCHANGED <<tbl, pidfile, scan, tester, outside, left, history>>

\* Fault: a file left over is waited for as well.
CheckStaleFault(s) ==
    /\ pc[s] = "check"
    /\ pidfile = NoFile
    /\ Go(s, "write")
    /\ seen' = [seen EXCEPT ![s] = pidfile]
    /\ UNCHANGED <<tbl, pidfile, scan, tester, outside, left, history>>

\* One turn of the loop of runonce.  Whoever is alive is waited for, 10 ms at
\* a time: then nothing changes.
Check(s) ==
    /\ pc[s] = "check"
    /\ pidfile \in {NoFile, DeadPid}
    /\ Go(s, "write")
    /\ seen' = [seen EXCEPT ![s] = pidfile]
    /\ UNCHANGED <<tbl, pidfile, scan, tester, outside, left, history>>

\* Fault: the file is not written.
WritePidFault(s) ==
    /\ pc[s] = "write"
    /\ Go(s, "open")
    /\ UNCHANGED <<tbl, pidfile, seen, scan, tester, outside, left, raced, fill, meta>>

WritePid(s) ==
    /\ pc[s] = "write"
    /\ pidfile' = s
    /\ raced' = (raced \/ pidfile # seen[s])
    /\ Go(s, "open")
    /\ UNCHANGED <<tbl, seen, scan, tester, outside, left, fill, meta>>

\* The mounts are collected, and the devices of /sys are there to be read.
Collect(s) ==
    /\ pc[s] = "open"
    /\ scan[s].todo # <<>>
    /\ Go(s, "clear")
    /\ scan' = [scan EXCEPT ![s].snap = mounted,
                            ![s].rest = Attached(Now(s))]
    /\ UNCHANGED <<tbl, pidfile, seen, tester, outside, left, history>>

\* At work on the records of a table.
AtWork(s, t) == pc[s] \in {"add", "set", "sort", "swap"} /\ Now(s) = t

\* Create the table unless it exists, open it and clear it.
ClearTable(s) ==
    /\ pc[s] = "clear"
    /\ LET t == Now(s) IN
       /\ tbl' = [tbl EXCEPT ![t] = IF Exists(@) THEN Cleared(@) ELSE Created(Alloc)]
       /\ fill' = [fill EXCEPT ![t] = IF \E q \in Scans \ {s} : AtWork(q, t)
                                        THEN "mixed" ELSE "filling"]
    /\ Go(s, IF scan[s].rest = {} THEN "sort" ELSE "add")
    /\ UNCHANGED <<pidfile, seen, scan, tester, outside, left, raced, meta>>

FieldsOf(t) == IF t = "blk" THEN <<"key", "info", "mount">> ELSE <<"key", "info">>

\* The next device in the order of readdir gets a blank record; Capacity bounds
\* the memory, which the code does not.
AddRecord(s) ==
    /\ pc[s] = "add"
    /\ NewSlot(tbl[Now(s)]) \in Slots
    /\ Go(s, "set")
    /\ \E d \in scan[s].rest :
          scan' = [scan EXCEPT ![s].dev = d, ![s].rest = @ \ {d},
                               ![s].f = 1, ![s].row = NewSlot(tbl[Now(s)])]
    /\ tbl' = [tbl EXCEPT ![Now(s)] = Added(@)]
    /\ UNCHANGED <<pidfile, seen, tester, outside, left, history>>

Value(s, f) ==
    CASE f = "key"   -> scan[s].dev
      [] f = "info"  -> 1
      [] f = "mount" -> IF scan[s].dev \in scan[s].snap THEN 1 ELSE 0

\* Its fields are written one after the other, name first.
SetField(s) ==
    /\ pc[s] = "set"
    /\ LET t == Now(s)
           f == FieldsOf(t)[scan[s].f]
       IN  /\ tbl' = [tbl EXCEPT ![t] = Put(@, scan[s].row, f, Value(s, f))]
           /\ scan' = [scan EXCEPT ![s].f = @ + 1]
           /\ Go(s, IF scan[s].f < Len(FieldsOf(t)) THEN "set"
                    ELSE IF scan[s].rest = {} THEN "sort" ELSE "add")
    /\ UNCHANGED <<pidfile, seen, tester, outside, left, history>>

\* The bubble sort reads the count of the header again at every turn.
InOrder(s) == ~OutOfOrder(tbl[Now(s)], scan[s].i + 1, "key")

Inner(s) == scan[s].i < tbl[Now(s)].count - scan[s].j - 1

Outer(s) == scan[s].j < tbl[Now(s)].count - 1

Compare(s) ==
    /\ pc[s] = "sort"
    /\ Outer(s)
    /\ Inner(s) => InOrder(s)
    /\ scan' = IF Inner(s) THEN [scan EXCEPT ![s].i = @ + 1]
               ELSE [scan EXCEPT ![s].j = @ + 1, ![s].i = 0]
    /\ UNCHANGED <<tbl, pidfile, pc, seen, tester, outside, left, history>>

SwapLeft(s) ==
    LET i == scan[s].i + 1 IN
    /\ pc[s] = "sort"
    /\ Outer(s) /\ Inner(s) /\ ~InOrder(s)
    /\ Go(s, "swap")
    /\ scan' = [scan EXCEPT ![s].tmp = tbl[Now(s)].slot[i]]
    /\ tbl' = [tbl EXCEPT ![Now(s)] = CopyDown(@, i)]
    /\ UNCHANGED <<pidfile, seen, tester, outside, left, history>>

SwapRight(s) ==
    /\ pc[s] = "swap"
    /\ Go(s, "sort")
    /\ tbl' = [tbl EXCEPT ![Now(s)] = CopyTmp(@, scan[s].i + 1, scan[s].tmp)]
    /\ scan' = [scan EXCEPT ![s].i = @ + 1, ![s].tmp = BlankRow]
    /\ UNCHANGED <<pidfile, seen, tester, outside, left, history>>

ToList(s) ==
    /\ Go(s, "list")
    /\ scan' = [scan EXCEPT ![s] = [@ EXCEPT !.rest = {}, !.row = Null, !.f = 1, !.dev = 0, !.snap = {},
                                              !.i = 0, !.j = 0]]

EndTable(s) ==
    LET t == Now(s) IN
    /\ pc[s] = "sort"
    /\ ~Outer(s)
    /\ ToList(s)
    /\ fill' = [fill EXCEPT ![t] = IF @ = "filling" THEN "done" ELSE @]
    /\ meta' = IF t = "blk" THEN scan[s].snap ELSE meta
    /\ UNCHANGED <<tbl, pidfile, seen, tester, outside, left, raced>>

\* An exception of a scan: the table stays as it is, the result -1 is ignored.
FailTable(s) ==
    /\ pc[s] \in {"clear", "add"}
    /\ Spend("hurt")
    /\ ToList(s)
    /\ fill' = [fill EXCEPT ![Now(s)] = IF AtWork(s, Now(s)) /\ @ = "filling" THEN "failed" ELSE @]
    /\ UNCHANGED <<tbl, pidfile, seen, tester, outside, raced, meta>>

\* Without "silent" the table is printed: the child writes into a pipe from
\* which scan_dev reads nothing.  A table that does not exist ends devscan.
ListTable(s) ==
    LET t == Now(s)
        lines == scan[s].out + tbl[t].count
    IN  /\ pc[s] = "list"
        /\ s = "child" => lines <= PipeRoom
        /\ Go(s, "open")
        /\ scan' = [scan EXCEPT ![s].out = IF s = "child" THEN lines ELSE 0,
                                ![s].todo = IF Exists(tbl[t]) THEN Tail(@) ELSE <<>>,
                                ![s].rc = IF Exists(tbl[t]) THEN 0 ELSE 1]
        /\ UNCHANGED <<tbl, pidfile, seen, tester, outside, left, history>>

\* The file of runonce is deleted, whoever wrote it.
DropFile(s) ==
    /\ pidfile' = NoFile
    /\ raced' = (raced \/ pidfile \in Scans \ {s})

\* s is gone; what it was at work on stays as it is.
Gone(s, status) ==
    /\ Go(s, "none")
    /\ seen' = [seen EXCEPT ![s] = NoFile]
    /\ scan' = [scan EXCEPT ![s] = Idle]
    /\ fill' = [t \in Tables |-> IF AtWork(s, t) /\ fill[t] = "filling" THEN "failed" ELSE fill[t]]
    /\ tester' = IF s = "child" /\ tester.pc = "wait" THEN AfterScan(status) ELSE tester

\* The destructor of g_DebugSystem; the status says nothing of a failed scan.
Exit(s) ==
    /\ pc[s] = "open"
    /\ scan[s].todo = <<>>
    /\ DropFile(s)
    /\ Gone(s, scan[s].rc)
    /\ UNCHANGED <<tbl, outside, left, meta>>

\* SIGTERM: TAbort, killself.  A devscan that waits in runonce has set the name
\* of the file already.
Terminate(s) ==
    /\ Alive(s)
    /\ Spend("hurt")
    /\ DropFile(s)
    /\ Gone(s, 1)
    /\ UNCHANGED <<tbl, outside, meta>>

\* SIGKILL: the file stays and names nobody.
Crash(s) ==
    /\ Alive(s)
    /\ Spend("hurt")
    /\ pidfile' = IF pidfile = s THEN DeadPid ELSE pidfile
    /\ Gone(s, 1)
    /\ UNCHANGED <<tbl, outside, raced, meta>>

ScanByHand ==
    /\ ~Alive("hand")
    /\ Spend("hand")
    /\ Start("hand", <<"blk">>)
    /\ UNCHANGED <<tbl, pidfile, seen, tester, outside, history>>

-----------------------------------------------------------------------------
(* scan_dev: the scanners of read_conf, each with a devscan of its own.    *)

\* InitTests clears the lists and runs scan_dev.
LoadIni ==
    /\ tester.pc = "none"
    /\ Spend("load")
    /\ tester' = [IdleTester EXCEPT !.pc = "begin"]
    /\ items' = [k \in DOMAIN Tasks |-> NoVerdict]
    /\ listed' = {}
    /\ UNCHANGED <<tbl, devscans, hdd, mounted, history>>

\* Tscan::open runs devscan and waits for it.
OpenScan ==
    /\ tester.pc = "begin"
    /\ tester.k \in DOMAIN Tasks
    /\ Task.scan # <<>>
    /\ ~Alive("child")
    /\ Start("child", Task.scan)
    /\ tester' = [tester EXCEPT !.pc = "wait"]
    /\ UNCHANGED <<tbl, pidfile, seen, outside, left, history>>

Say(verdict, clean) ==
    items' = IF Task.active
               THEN [items EXCEPT ![tester.k] = [v |-> verdict, clean |-> clean, blind |-> tester.blind]]
             ELSE items

OkIf(good) == IF good THEN "OK" ELSE "ERR"

\* The processor: cores by lscpu or /proc/cpuinfo, the frequency by cpufreq or,
\* without it, the current one.
CpuTest ==
    /\ tester.pc = "begin" /\ tester.k \in DOMAIN Tasks
    /\ Task.name = "cpu"
    /\ \E freq \in {Machine.max, Machine.cur} :
          Say(OkIf(Machine.cores >= Task.cores /\ freq >= Task.freq), TRUE)
    /\ tester' = NextTask
    /\ UNCHANGED <<tbl, devscans, listed, hdd, mounted, left, history>>

\* The memory, with 5% of tolerance; /proc/meminfo may be unreadable.
MemTest ==
    /\ tester.pc = "begin" /\ tester.k \in DOMAIN Tasks
    /\ Task.name = "mem"
    /\ \E total \in {Machine.mem, 0} :
          Say(OkIf(total > 0 /\ 100 * total >= 95 * Task.size), total > 0)
    /\ tester' = NextTask
    /\ UNCHANGED <<tbl, devscans, listed, hdd, mounted, left, history>>

\* An error of the criterion on the record found: its data may be missing.  The
\* speed of a network interface is not read from the table.
Faulty(over, row) ==
    CASE over \in {"blk", "usb"} -> row["info"] = 0 \/ row["key"] \in Poor[over]
      [] over = "pci"           -> row["info"] = 1 /\ row["key"] \in Poor[over]
      [] over = "net"           -> row["key"] \in Poor[over]

\* isKnownDevice: driver.find(kd) is nonzero unless the driver begins with kd.
KnownUsb(d) == d \in KnownIds \/ \E kd \in KnownDrivers : UsbDriver[d] # kd

NextCriterion(found, errs) ==
    [tester EXCEPT !.pc = "walk", !.c = @ + 1, !.r = Null, !.u = Null,
                   !.found = @ + found, !.errs = @ \/ errs, !.clean = @ /\ WholeTables]

\* One step of the walk over the table: to the next record, which may be the
\* one the criterion asks for.
Walk ==
    /\ tester.pc = "walk"
    /\ tester.c \in DOMAIN Task.crit
    /\ LET T == tbl[Task.over]
           r == NextRecord(T, tester.r)
           hit == IsHit(T, r, "key", Task.crit[tester.c])
       IN  /\ tester' = IF r = Null THEN NextCriterion(0, FALSE)
                        ELSE IF ~hit THEN [tester EXCEPT !.r = r, !.clean = @ /\ WholeTables]
                        ELSE IF Task.over = "usb"
                          THEN [tester EXCEPT !.pc = "flash", !.u = r, !.r = Null,
                                              !.clean = @ /\ WholeTables]
                        ELSE NextCriterion(1, Faulty(Task.over, T.slot[r]))
           /\ listed' = IF hit /\ Task.over = "blk" THEN listed \cup {Get(T, r, "key")} ELSE listed
    /\ UNCHANGED <<tbl, devscans, items, hdd, mounted, left, history>>

\* findAndCheckLan asks for the list of the interfaces before it walks; when getIFs
\* fails the device counts as not found, and blind remembers its criterion.
GetIFsFails ==
    /\ tester.pc = "walk"
    /\ tester.c \in DOMAIN Task.crit
    /\ Task.over = "net" /\ tester.r = Null
    /\ Spend("hurt")
    /\ tester' = [NextCriterion(0, FALSE) EXCEPT !.blind = @ \cup {tester.c}]
    /\ UNCHANGED <<tbl, devscans, outside, history>>

\* fUsb: is there a disk behind the port?  An empty one counts as no device.
Probe ==
    /\ tester.pc = "flash"
    /\ LET r == NextRecord(tbl["blk"], tester.r)
           b == tbl["blk"].slot[r]
           u == tbl["usb"].slot[tester.u]
           disk == IsHit(tbl["blk"], r, "key", Flash[u["key"]])
           accept == KnownUsb(u["key"]) /\ (disk => b["info"] = 1)
       IN  tester' = IF r = Null \/ disk
                       THEN NextCriterion(IF accept THEN 1 ELSE 0, accept /\ Faulty("usb", u))
                       ELSE [tester EXCEPT !.r = r, !.clean = @ /\ WholeTables]
    /\ UNCHANGED <<tbl, devscans, outside, left, history>>

\* Fault: every device that is expected and one more.
VerdictFault(over, found, expected, errs) ==
    OkIf((found > 0 \/ over = "pci") /\ found > expected /\ ~errs)

\* No device at all is an error, except for PCI when none is expected.
Verdict(over, found, expected, errs) ==
    OkIf((found > 0 \/ over = "pci") /\ found >= expected /\ ~errs)

Report ==
    /\ tester.pc = "walk"
    /\ tester.c \notin DOMAIN Task.crit
    /\ Say(Verdict(Task.over, tester.found, Task.expected, tester.errs), tester.clean)
    /\ tester' = NextTask
    /\ UNCHANGED <<tbl, devscans, listed, hdd, mounted, left, history>>

EndScanDev ==
    /\ tester.pc = "begin"
    /\ tester.k \notin DOMAIN Tasks
    /\ tester' = IdleTester
    /\ UNCHANGED <<tbl, devscans, outside, left, history>>

-----------------------------------------------------------------------------
(* The test of a disk.                                                     *)

HddRun ==
    /\ hdd.pc = "none"
    /\ Exists(tbl["blk"])
    /\ Spend("hdd")
    /\ \E d \in listed : hdd' = [IdleHdd EXCEPT !.pc = "find", !.dev = d]
    /\ UNCHANGED <<tbl, devscans, tester, items, listed, mounted, history>>

\* Fault: the first record is taken.
HddFindFault ==
    /\ hdd.pc = "find"
    /\ LET r == NextRecord(tbl["blk"], hdd.r) IN
       hdd' = IF r = Null THEN IdleHdd
              ELSE [hdd EXCEPT !.r = r, !.clean = @ /\ fill["blk"] = "done", !.pc = "mount"]
    /\ UNCHANGED <<tbl, devscans, tester, items, listed, mounted, left, history>>

\* find walks to the record of the device; without one the test ends with an
\* error.
HddFind ==
    /\ hdd.pc = "find"
    /\ LET r == NextRecord(tbl["blk"], hdd.r) IN
       hdd' = IF r = Null THEN IdleHdd
              ELSE [hdd EXCEPT !.r = r, !.clean = @ /\ fill["blk"] = "done",
                       !.pc = IF IsHit(tbl["blk"], r, "key", hdd.dev) THEN "mount" ELSE "find"]
    /\ UNCHANGED <<tbl, devscans, tester, items, listed, mounted, left, history>>

\* rec.str(BLK_MOUNT): what the slot found holds by now.
HddMount ==
    /\ hdd.pc = "mount"
    /\ hdd' = [hdd EXCEPT !.pc = IF Get(tbl["blk"], hdd.r, "mount") = 0 THEN "write" ELSE "read",
                          !.clean = @ /\ fill["blk"] = "done", !.meta = meta]
    /\ UNCHANGED <<tbl, devscans, tester, items, listed, mounted, left, history>>

HddEnd ==
    /\ hdd.pc \in {"read", "write"}
    /\ hdd' = IdleHdd
    /\ UNCHANGED <<tbl, devscans, tester, items, listed, mounted, left, history>>

Mount ==
    /\ Spend("mount")
    /\ \E d \in Devices["blk"] :
          mounted' = IF d \in mounted THEN mounted \ {d} ELSE mounted \cup {d}
    /\ UNCHANGED <<tbl, devscans, tester, items, listed, hdd, history>>

-----------------------------------------------------------------------------

ScanStep(s) ==
    \/ Check(s) \/ WritePid(s) \/ Collect(s) \/ ClearTable(s)
    \/ AddRecord(s) \/ SetField(s) \/ Compare(s) \/ SwapLeft(s) \/ SwapRight(s)
    \/ EndTable(s) \/ ListTable(s) \/ Exit(s)

TesterStep == OpenScan \/ CpuTest \/ MemTest \/ Walk \/ Probe \/ Report \/ EndScanDev

HddStep == HddFind \/ HddMount \/ HddEnd

Next ==
    \/ \E s \in Scans : ScanStep(s) \/ FailTable(s) \/ Terminate(s) \/ Crash(s)
    \/ TesterStep \/ GetIFsFails
    \/ HddStep
    \/ LoadIni \/ ScanByHand \/ HddRun \/ Mount

Spec == Init /\ [][Next]_vars

\* Every process goes on when it can; nobody has to start, kill or mount.
FairSpec ==
    /\ Spec
    /\ \A s \in Scans : WF_vars(ScanStep(s))
    /\ WF_vars(TesterStep)
    /\ WF_vars(HddStep)
-----------------------------------------------------------------------------

Pcs == {"none", "check", "write", "open", "clear", "add", "set", "sort", "swap", "list"}

\* Values and shapes of the state.
TypeOK ==
    /\ \A t \in Tables : Exists(tbl[t]) => IsTable(tbl[t])
    /\ pidfile \in Scans \cup {NoFile, DeadPid}
    /\ \A s \in Scans : pc[s] \in Pcs /\ scan[s].row \in {Null} \cup Slots
    /\ tester.pc \in {"none", "begin", "wait", "walk", "flash"}
    /\ listed \subseteq Devices["blk"]
    /\ hdd.pc \in {"none", "find", "mount", "read", "write"}
    /\ mounted \subseteq Devices["blk"]

\* runonce (debugsystem.cpp) keeps two scans apart unless one of them decided
\* on a pid file that has changed since, or a devscan deleted the file of
\* another: a crash, a kill and a file left over do not matter.
NoOverlap == ~raced => \A p, q \in Scans : Active(p) /\ Active(q) => p = q

\* No table is filled by two scans at once, as long as runonce works: the
\* methods of TmemTable have no lock of their own.
NoMixedTable == (\E t \in Tables : fill[t] = "mixed") => raced

\* A scan that came to its end alone leaves every device once, in order, with
\* all its fields and with an id of its own, whatever the order of readdir was
\* and whatever killed scans have left in the slots.
WholeTable ==
    \A t \in Tables : fill[t] = "done" =>
        LET T == tbl[t]
            rows == 1 .. T.count
        IN  /\ {T.slot[r]["key"] : r \in rows} = Attached(t)
            /\ {T.slot[r]["id"] : r \in rows} = 0 .. Cardinality(Attached(t)) - 1
            /\ \A r, q \in rows : r < q => T.slot[r]["key"] < T.slot[q]["key"]
            /\ \A r \in rows : T.slot[r]["info"] = 1
            /\ t = "blk" => \A r \in rows : T.slot[r]["mount"] = 1 <=> T.slot[r]["key"] \in meta

\* What a check finds in the machine: the devices of its criteria, without those of
\* blind.
Present(task, blind) ==
    {c \in DOMAIN task.crit \ blind : /\ task.crit[c] \in Attached(task.over)
                                      /\ task.over = "usb" => KnownUsb(task.crit[c])}

\* The devices that are expected are there, and none of them misses a limit.
Good(task, blind) ==
    /\ Cardinality(Present(task, blind)) >= task.expected
    /\ Present(task, blind) # {} \/ task.over = "pci"
    /\ \A c \in Present(task, blind) : task.crit[c] \notin Poor[task.over]

\* A verdict made from whole tables is the right one for the machine, whatever
\* ran in between; a network interface is taken for absent when the list of the
\* interfaces could not be read for its criterion (without that: VerdictOfMachine).
VerdictRight ==
    \A k \in DOMAIN items :
        LET task == Tasks[k] IN
        items[k].v # "none" /\ items[k].clean /\ task.scan # <<>> =>
            (items[k].v = "OK" <=> Good(task, items[k].blind))

\* What one would expect of the verdict, and getIFs may spoil.
VerdictOfMachine ==
    \A k \in DOMAIN items :
        items[k].v # "none" /\ items[k].clean /\ Tasks[k].scan # <<>> =>
            (items[k].v = "OK" <=> Good(Tasks[k], {}))

\* The test of a disk that read whole tables only writes to a disk that was
\* not mounted when the table was made.
WriteJustified == hdd.pc = "write" /\ hdd.clean => hdd.dev \notin hdd.meta

\* The loading of an ini comes to an end: no scan waits forever for the file
\* of one that crashed, and what a scan prints fits into the pipe.
LoadEnds == tester.pc # "none" ~> tester.pc = "none"

\* hdd.cpp:271: "Запрет на запись, если раздел примонтирован (во избежание
\* порчи данных)".
WriteSparesMounted == hdd.pc = "write" => hdd.dev \notin mounted
=============================================================================
