----------------------------- MODULE MCDevScan -----------------------------
(***************************************************************************)
(* Instances of DevScan for TLC.                                           *)
(***************************************************************************)
EXTENDS DevScan

MCFields == {"key", "info", "mount"}

\* Three disks at most, the second one behind a USB port.
MCDevices == [pci |-> {1}, usb |-> {1}, blk |-> {1, 2, 3}, net |-> {1, 2}]

MCPoor == [pci |-> {}, usb |-> {}, blk |-> {3}, net |-> {}]

MCFlash == <<2>>

MCDriver == <<"usb-storage">>

MCMachine == [cores |-> 2, max |-> 3, cur |-> 1, mem |-> 96]

TaskOf(name, tables, over, crit, expected) ==
    [name |-> name, scan |-> tables, over |-> over, crit |-> crit, expected |-> expected,
     active |-> TRUE]

Cpu == [name |-> "cpu", scan |-> <<>>, cores |-> 2, freq |-> 2, active |-> TRUE]
Mem == [name |-> "mem", scan |-> <<>>, size |-> 100, active |-> TRUE]

\* An ini that checks everything.
AllTables == <<"pci", "usb", "blk", "net">>

AllTasks == <<
    [TaskOf("main", AllTables, "blk", <<>>, 0) EXCEPT !.active = FALSE], Cpu, Mem,
    TaskOf("usb", <<"usb", "blk">>, "usb", <<1>>, 1),
    TaskOf("lan", <<"net">>, "net", <<2, 1>>, 2),
    TaskOf("hdd", <<"pci", "blk">>, "blk", <<1, 3>>, 2),
    TaskOf("pci", <<"pci">>, "pci", <<1>>, 0)>>

\* An ini that looks for disks only.
DiskTasks == <<TaskOf("hdd", <<"blk">>, "blk", <<1, 2>>, 2)>>

Setup(ini, disks, hand, load, hurt, mount, runs) ==
    [ini |-> ini, disks |-> disks, hand |-> hand, load |-> load, hurt |-> hurt,
     mount |-> mount, hdd |-> runs]

\* Two scans at once, one of them may be hurt; a whole ini; tests of a disk that
\* another load of the ini may disturb.
MCSetups == {Setup(1, 1, 1, 1, 1, 0, 0), Setup(1, 2, 1, 1, 0, 0, 0), Setup(2, 3, 0, 1, 1, 0, 0),
             Setup(1, 2, 0, 2, 0, 1, 1)}

MCInis == <<DiskTasks, AllTasks>>

MCMounted == {2}

\* A test of a disk while the ini is loaded again.
ReloadSetups == {Setup(1, 2, 0, 2, 0, 0, 1)}
=============================================================================
