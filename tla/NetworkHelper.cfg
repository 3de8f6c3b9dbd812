SPECIFICATION Spec
CONSTANTS
    lo = lo
    eth0 = eth0
    eth1 = eth1
    s1 = s1
    s2 = s2
    Names = {lo, eth0, eth1}
    Loopbacks = {lo}
    HwAddress <- MCHwAddress
    Address <- MCAddress
    Listings <- MCListings
    Servers = {s1, s2}
    NoName = NoName
    NoServer = NoServer
    OtherLine = OtherLine
    InfoFiles <- MCInfoFiles
    LeaseFiles <- MCLeaseFiles
    Faults = {"ioctl"}
INVARIANTS
    ServerIsTheInterfaces
    InterfaceIsTheRightOne
    GivesUpWithoutServer
    NamesAreTheClients
