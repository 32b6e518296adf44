------------------------------ MODULE RadioTest ------------------------------
(***************************************************************************)
(* The programs wifi and bluetooth: commands that are run one after the    *)
(* other, each with a time-out, whose thread may be late and act when its  *)
(* command has ended, or on the command after it.                          *)
(***************************************************************************)
EXTENDS TestProgram

VARIABLE radio

Devices == [name: {"lamp", "phone"}, mac: {"aa", "bb"}]

RadioTypeOK ==
    radio \in [adapter: BOOLEAN, known: BOOLEAN, link: {"off", "linked", "address"},
               list: SUBSET Devices, name: {"", "lamp"}, mac: {"", "aa"}, tried: BOOLEAN,
               found: BOOLEAN, kid: {"none", "runs", "exited", "reaped", "done"}, status: 0 .. 2,
               timer: {"off", "armed"}, killer: BOOLEAN]

\* The adapter as it is, and what it has: wifi a link to the network, if that
\* is known, bluetooth a list of devices, of which one is wanted by its name,
\* by its address, or by both.
InitRadio ==
    radio \in StartOf({"wifi", "bluetooth"},
       [adapter: BOOLEAN, known: IF prog = "wifi" THEN BOOLEAN ELSE {FALSE},
        link: IF prog = "wifi" THEN {"off", "linked", "address"} ELSE {"off"},
        list: IF prog = "bluetooth" THEN SUBSET Devices ELSE {{}},
        name: {"", "lamp"}, mac: {"", "aa"}, tried: {FALSE}, found: {FALSE},
        kid: {"none"}, status: {0}, timer: {"off"}, killer: {FALSE}])

\* RunProcessIOTimeout at loc; a command that cannot be run gives -1.
RunCommand ==
    /\ at \in {"adapter", "iw", "ip", "connect", "scan", "devices", "off"}
    /\ At("wifi", at) \/ At("bluetooth", at)
    /\ radio.kid = "none"
    /\ \E started \in RunProcess:
          radio' = IF started = "runs" THEN [radio EXCEPT !.kid = "runs", !.timer = "armed"]
                   ELSE [radio EXCEPT !.kid = "done", !.status = 1]
    /\ UNCHANGED program

\* A command that ends by itself has done its work, or failed.
CommandEnds ==
    /\ Alive
    /\ radio.kid = "runs"
    /\ \E status \in 0 .. 1:
          radio' = [radio EXCEPT !.kid = "exited", !.status = status,
                                 !.link = IF at = "connect" /\ status = 0 /\ @ = "off" /\ radio.known
                                          THEN "linked" ELSE @]
    /\ UNCHANGED program

\* The network gives an address after a while.
GetAddress ==
    /\ Alive
    /\ prog = "wifi" /\ radio.link = "linked"
    /\ radio' = [radio EXCEPT !.link = "address"]
    /\ UNCHANGED program

\* OnTimeoutKill in a thread: a command that runs is stopped.  What it was given
\* may be deleted by then, or be that of a later command.
TimerFires ==
    /\ Alive
    /\ radio.timer = "armed" /\ ~radio.killer
    /\ radio' = [radio EXCEPT !.killer = TRUE]
    /\ UNCHANGED program

\* Fault: the thread stops its timer and nothing else.
TimerKillsFault ==
    /\ Alive
    /\ radio.killer
    /\ radio' = [radio EXCEPT !.killer = FALSE, !.timer = "off"]
    /\ UNCHANGED program

TimerKills ==
    /\ Alive
    /\ radio.killer
    /\ radio' = [radio EXCEPT !.killer = FALSE, !.timer = "off",
                              !.kid = IF @ = "runs" THEN "exited" ELSE @,
                              !.status = IF radio.kid = "runs" THEN 2 ELSE @]
    /\ UNCHANGED program

\* WaitProcessIOTimeout: the child is reaped, and the timer stopped after it.
WaitCommand ==
    /\ radio.kid = "exited"
    /\ At("wifi", at) \/ At("bluetooth", at)
    /\ radio' = [radio EXCEPT !.kid = "reaped"]
    /\ UNCHANGED program

StopTimeout ==
    /\ radio.kid = "reaped"
    /\ At("wifi", at) \/ At("bluetooth", at)
    /\ radio' = [radio EXCEPT !.kid = "done", !.timer = "off"]
    /\ UNCHANGED program

\* GetProcessDataTimeout has returned at loc with a good result, or not.
Result(p, loc, good) ==
    /\ At(p, loc)
    /\ radio.kid = "done"
    /\ (radio.status = 0) = good

Return(next) == next /\ radio' = [radio EXCEPT !.kid = "none", !.status = 0]

\* findWifi and findBluetooth.
FindAdapter ==
    \E p \in {"wifi", "bluetooth"}, good \in BOOLEAN:
       /\ Result(p, "adapter", good)
       /\ Return(IF good /\ radio.adapter THEN Go(IF p = "wifi" THEN "iw" ELSE "scan") ELSE Throw)

\* Not connected: one attempt to connect, then it is an error.
Missing == IF radio.tried THEN Throw ELSE Go("connect")

\* checkConnectionToWifi: the network, and an address.
CheckNetwork ==
    \E good \in BOOLEAN:
       /\ Result("wifi", "iw", good)
       /\ Return(IF good /\ radio.link # "off" THEN Go("ip") ELSE Missing)

CheckAddress ==
    \E good \in BOOLEAN:
       /\ Result("wifi", "ip", good)
       /\ Return(IF good /\ radio.link = "address" THEN Go("ok") ELSE Missing)

\* connectToWifi, and the wait before the second check.
Connect ==
    \E good \in BOOLEAN:
       /\ Result("wifi", "connect", good)
       /\ IF good /\ radio.link # "off" THEN Go("iw") ELSE Throw
       /\ radio' = [radio EXCEPT !.kid = "none", !.status = 0, !.tried = TRUE]

\* parseBluetoothDevicesOutput: a device with the address or with the name.
Listed == \E d \in radio.list: d.mac = radio.mac \/ d.name = radio.name

\* findBluetoothNetwork: the results of the first and last command are dropped.
ScanOn == \E good \in BOOLEAN: Result("bluetooth", "scan", good) /\ Return(Go("devices"))

ListDevices ==
    \E good \in BOOLEAN:
       /\ Result("bluetooth", "devices", good)
       /\ Go("off")
       /\ radio' = [radio EXCEPT !.kid = "none", !.status = 0, !.found = good /\ Listed]

ScanOff == \E good \in BOOLEAN: Result("bluetooth", "off", good) /\ Return(IF radio.found THEN Go("ok") ELSE Throw)

\* The parameters, and the first adapter of the system when none is named.
WifiStart ==
    /\ At("wifi", "start")
    /\ Throw \/ Go("adapter")
    /\ UNCHANGED radio

\* A name or an address that is well formed.
BluetoothStart ==
    /\ At("bluetooth", "start")
    /\ IF radio.name = "" /\ radio.mac = "" THEN Throw ELSE Throw \/ Go("adapter")
    /\ UNCHANGED radio

Command == RunCommand \/ WaitCommand \/ StopTimeout \/ FindAdapter

Wifi == WifiStart \/ CheckNetwork \/ CheckAddress \/ Connect

Bluetooth == BluetoothStart \/ ScanOn \/ ListDevices \/ ScanOff

RadioMain == Command \/ Wifi \/ Bluetooth

Timeout == TimerFires \/ TimerKills

RadioNext == RadioMain \/ CommandEnds \/ GetAddress \/ Timeout

\* The network is joined with an address, or the device is in the list.
WifiPassed == radio.link = "address"
BluetoothPassed == Listed
=============================================================================
