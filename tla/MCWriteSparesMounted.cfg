SPECIFICATION Spec
CONSTANTS
    Fields <- MCFields
    Capacity = 4
    Tables = {"pci", "usb", "blk", "net"}
    Devices <- MCDevices
    Alloc = 1
    Inis <- MCInis
    Mounted <- MCMounted
    Poor <- MCPoor
    Flash <- MCFlash
    UsbDriver <- MCDriver
    KnownIds = {}
    KnownDrivers = {"usbhid", "usb-storage"}
    Machine <- MCMachine
    PipeRoom = 8
    Setups <- ReloadSetups
INVARIANT
    WriteSparesMounted
CHECK_DEADLOCK FALSE
