--------------------------- MODULE NetworkHelper ---------------------------
(***************************************************************************)
(* Which network interface and which server pxe-kexec uses: the interfaces *)
(* and DHCP servers that NetworkHelper detects                             *)
(* (src/src/networkhelper.cc), and what PxeKexec::readPxeConfig() picks    *)
(* from them before it looks for a configuration (src/src/pxekexec.cc).    *)
(*                                                                         *)
(* A file of dhcpcd or dhclient is the sequence of its lines, a line the   *)
(* server it names or OtherLine.  A file that cannot be opened has no      *)
(* lines.  A line that names a server is either of the two that dhclient's *)
(* reader knows, without its semicolon.                                    *)
(***************************************************************************)
EXTENDS NetworkInterface

CONSTANTS
    Names,        \* names of network interfaces
    Loopbacks,    \* those of loopback interfaces
    HwAddress,    \* the addresses of each interface, in bytes
    Address,
    Listings,     \* what the kernel may list, with an entry for each address
    Servers,
    NoName,       \* the empty strings: no interface and
    NoServer,     \* no server given, none found
    OtherLine,
    InfoFiles,    \* what a dhcpcd-<if>.info may hold
    LeaseFiles,   \* what a dhclient.<if>.leases may hold
    Faults        \* what may go wrong

\* The places of dhclient's files, in the order the code tries them.
LeaseDirs == <<"/var/lib/dhcp3", "/var/lib/dhcp">>

\* The kernel is told of room for MAX_IFS entries (struct ifreq, 40 bytes) in a
\* buffer of MAX_IFS struct ifconf (16 bytes): what fits.
MaxIfs == (30 * 16) \div 40

ASSUME NetworkHelperAssumption ==
    /\ Loopbacks \subseteq Names /\ NoName \notin Names
    /\ HwAddress \in [Names -> [1..6 -> Byte]]
    /\ Address \in [Names -> [1..4 -> Byte]]
    /\ NoServer \notin Servers /\ OtherLine \notin Servers
    /\ \A l \in Listings : l \in Seq(Names) /\ Len(l) <= MaxIfs
    /\ InfoFiles \subseteq Seq(Servers \union {OtherLine})
    /\ LeaseFiles \subseteq Seq(Servers \union {OtherLine})
    /\ Faults \subseteq {"ioctl"}  \* socket() or an ioctl() fails

VARIABLES
    listed,      \* the kernel's list of interfaces; never changes
    info,        \* the files of dhcpcd, one for each interface
    leases,      \* the files of dhclient, in each directory that exists
    given,       \* the host on the command line
    pc,          \* the method that is at work
    at,          \* the interface its loop is at
    interfaces,  \* m_interfaces
    requested,   \* m_networkInterface
    netif,       \* the local variable netif
    pxeHost,     \* m_pxeHost
    names,       \* the local variable names, once it is written
    error        \* what the exception says

files == <<listed, info, leases, given, requested>>
vars == <<files, pc, at, interfaces, netif, pxeHost, names, error>>

Init ==
    /\ listed \in Listings
    /\ info \in [Names \ Loopbacks -> InfoFiles]
    /\ \E dirs \in SUBSET {LeaseDirs[1], LeaseDirs[2]} :
           leases \in [dirs -> [Names \ Loopbacks -> LeaseFiles]]
    /\ given \in {NoServer} \union Servers
    /\ requested \in {NoName} \union Names
    /\ pc = "detectInterfaces" /\ at = 1 /\ interfaces = <<>>
    /\ netif = NoInterface(NoName, NoServer)
    /\ pxeHost = given /\ names = <<>> /\ error = "none"

Throw(what) ==
    /\ pc' = "thrown" /\ error' = what
    /\ UNCHANGED <<files, at, interfaces, netif, pxeHost, names>>

Goto(method) ==
    /\ pc' = method /\ at' = 1
    /\ UNCHANGED <<files, interfaces, netif, pxeHost, names, error>>

-----------------------------------------------------------------------------
(* NetworkHelper                                                           *)

\* An interface as the ioctl()s describe it; a second address has the
\* addresses of the first.
Described(name) ==
    SetIp(SetMac(SetUp(NewInterface(name, NoServer), TRUE), HwAddress[name]),
          Address[name])

\* One entry of the list: loopbacks are left out, whatever else the flags say.
DetectInterface ==
    /\ pc = "detectInterfaces" /\ at <= Len(listed)
    /\ at' = at + 1
    /\ interfaces' = IF listed[at] \in Loopbacks THEN interfaces
                     ELSE Append(interfaces, Described(listed[at]))
    /\ UNCHANGED <<files, pc, netif, pxeHost, names, error>>

\* socket() fails (its -1 passes the test for 0, and the ioctl() after it
\* fails), or an ioctl() for one of the interfaces does.
DetectInterfacesThrows ==
    /\ "ioctl" \in Faults
    /\ pc = "detectInterfaces" /\ at <= Len(listed) + 1
    /\ Throw("detection failed")

InterfacesDetected ==
    /\ pc = "detectInterfaces" /\ at > Len(listed)
    /\ Goto("detectDHCPServerDhcpd")

ServerLines(file) == {i \in DOMAIN file : file[i] # OtherLine}

\* The first line that names a server.
FirstServer(file) ==
    file[CHOOSE i \in ServerLines(file) : \A j \in ServerLines(file) : i <= j]

\* Mutated form: an iterator that is not moved.
SetServerOfFirst(file) ==
    /\ interfaces' = [interfaces EXCEPT ![1] = SetDHCPServerIP(@, FirstServer(file))]
    /\ pc' = "readPxeConfig"
    /\ UNCHANGED <<files, at, netif, pxeHost, names, error>>

\* The interface gets its server, and the search is over for all of them.
SetServer(file) ==
    /\ interfaces' = [interfaces EXCEPT ![at] = SetDHCPServerIP(@, FirstServer(file))]
    /\ pc' = "readPxeConfig"
    /\ UNCHANGED <<files, at, netif, pxeHost, names, error>>

NextInterface ==
    /\ at' = at + 1
    /\ UNCHANGED <<files, pc, interfaces, netif, pxeHost, names, error>>

\* Mutated form: one file is all there is to read.
ReadFileOnly(file) ==
    IF ServerLines(file) # {} THEN SetServer(file) ELSE Goto("readPxeConfig")

ReadFile(file) ==
    IF ServerLines(file) # {} THEN SetServer(file) ELSE NextInterface

\* /var/lib/dhcpcd/dhcpcd-<if>.info
ReadInfo ==
    /\ pc = "detectDHCPServerDhcpd" /\ at <= Len(interfaces)
    /\ ReadFile(info[interfaces[at].name])

\* || in detectDHCPServers(): dhclient's files only without dhcpcd's.
NoInfo ==
    /\ pc = "detectDHCPServerDhcpd" /\ at > Len(interfaces)
    /\ Goto("detectDHCPServerDhclient")

\* The first of the directories that exists, even without a lease in it.
ConfigDir ==
    IF LeaseDirs[1] \in DOMAIN leases THEN LeaseDirs[1] ELSE LeaseDirs[2]

ReadLeases ==
    /\ pc = "detectDHCPServerDhclient" /\ at <= Len(interfaces)
    /\ DOMAIN leases # {}
    /\ ReadFile(leases[ConfigDir][interfaces[at].name])

NoLease ==
    /\ pc = "detectDHCPServerDhclient"
    /\ at > Len(interfaces) \/ DOMAIN leases = {}
    /\ Goto("readPxeConfig")

-----------------------------------------------------------------------------
(* readPxeConfig()                                                         *)

\* getInterface(): the first of that name.
Named(name) == {i \in DOMAIN interfaces : interfaces[i].name = name}

Use(interface) ==
    /\ netif' = interface /\ pc' = "pxeHost"
    /\ UNCHANGED <<files, at, interfaces, pxeHost, names, error>>

UseRequested ==
    /\ pc = "readPxeConfig" /\ requested # NoName
    /\ Named(requested) # {}
    /\ Use(interfaces[CHOOSE i \in Named(requested) :
                          \A j \in Named(requested) : i <= j])

RequestedDoesNotExist ==
    /\ pc = "readPxeConfig" /\ requested # NoName
    /\ Named(requested) = {}
    /\ Throw("no such interface")

\* Mutated form: the last interface.
UseLast ==
    /\ pc = "readPxeConfig" /\ requested = NoName
    /\ interfaces # <<>>
    /\ Use(interfaces[Len(interfaces)])

UseFirst ==
    /\ pc = "readPxeConfig" /\ requested = NoName
    /\ interfaces # <<>>
    /\ Use(interfaces[1])

NoInterfaces ==
    /\ pc = "readPxeConfig" /\ requested = NoName
    /\ interfaces = <<>>
    /\ Throw("no interfaces")

\* The names of configuration files, the most specific one first.
ClientNames ==
    LET mac == <<"0", "1", "-">> \o GetMac(netif, {"lowercase", "dash"})
        ip  == GetIp(netif)
    IN  [n \in 0..9 |-> CASE n = 0 -> mac
                          [] n = 9 -> <<"d", "e", "f", "a", "u", "l", "t">>
                          [] OTHER -> SubSeq(ip, 1, 8 - (n - 1))]

\* The host given on the command line, or else the interface's DHCP server.
ChooseHost ==
    /\ pc = "pxeHost"
    /\ LET host == IF pxeHost # NoServer THEN pxeHost ELSE netif.dhcpServer IN
       IF host = NoServer THEN Throw("no server")
       ELSE /\ pxeHost' = host /\ names' = ClientNames /\ pc' = "search"
            /\ UNCHANGED <<files, at, interfaces, netif, error>>

Ended == {"search", "thrown"}

Done == pc \in Ended /\ UNCHANGED vars

Next == \/ DetectInterface \/ DetectInterfacesThrows \/ InterfacesDetected
        \/ ReadInfo \/ NoInfo \/ ReadLeases \/ NoLease
        \/ UseRequested \/ RequestedDoesNotExist \/ UseFirst \/ NoInterfaces
        \/ ChooseHost \/ Done

Spec == Init /\ [][Next]_vars

-----------------------------------------------------------------------------
(* Properties                                                              *)

\* The servers the files of an interface name, of those the code would read.
ServersOf(name) ==
    LET named(file) == {file[i] : i \in ServerLines(file)}
    IN named(info[name]) \union
       (IF DOMAIN leases = {} THEN {} ELSE named(leases[ConfigDir][name]))

\* The search goes to the host the user gave, or else to a server that the
\* files of the interface in use name, never to one another interface's files
\* name (SetServer; the copy of the interface readPxeConfig() takes).
ServerIsTheInterfaces ==
    pc = "search" =>
        IF given # NoServer THEN pxeHost = given
        ELSE pxeHost \in ServersOf(netif.name)

\* The interface in use is the one the user asked for, or else the first one of
\* the kernel's list, and never a loopback (detectInterfaces(), getInterface()).
InterfaceIsTheRightOne ==
    pc \in {"pxeHost", "search"} =>
        /\ netif.name \notin Loopbacks
        /\ requested # NoName => netif.name = requested
        /\ requested = NoName =>
               \E i \in DOMAIN listed :
                   /\ listed[i] = netif.name
                   /\ \A j \in 1..i - 1 : listed[j] \in Loopbacks

\* The octets of the hardware type (Ethernet) and the hardware address, and the
\* halves of the bytes of the IP address, in the order of the network.
Octet(k) == IF k = 0 THEN 1 ELSE HwAddress[netif.name][k]
Nibble(k) == LET byte == Address[netif.name][(k + 1) \div 2]
             IN  IF k % 2 = 1 THEN byte \div 16 ELSE byte % 16

\* The files that are looked for are the ones pxelinux looks for on that
\* interface, whatever the sign of the char and the int the addresses are kept
\* in (getMac(), getIp() and the array names): the hardware address in lower
\* case, the IP address in upper case and then without its last digits.
NamesAreTheClients ==
    pc = "search" =>
        /\ Len(names[0]) = 20
        /\ \A k \in 0..6 :
               /\ names[0][3 * k + 1] = LowerDigits[Octet(k) \div 16 + 1]
               /\ names[0][3 * k + 2] = LowerDigits[(Octet(k) % 16) + 1]
               /\ k < 6 => names[0][3 * k + 3] = "-"
        /\ \A n \in 1..8 :
               /\ Len(names[n]) = 9 - n
               /\ \A k \in 1..9 - n : names[n][k] = UpperDigits[Nibble(k) + 1]

\* The files in the order in which they are searched: dhcpcd's of all interfaces
\* and then, if there is a directory for them, dhclient's.
Places == IF DOMAIN leases = {} THEN 1..Len(interfaces) ELSE 1..2 * Len(interfaces)

Owner(n) ==
    interfaces[IF n <= Len(interfaces) THEN n ELSE n - Len(interfaces)].name

NamesServer(n) ==
    ServerLines(IF n <= Len(interfaces) THEN info[Owner(n)]
                ELSE leases[ConfigDir][Owner(n)]) # {}

\* pxe-kexec gives up for want of a server only if none is given and no file of
\* its interface names one, but for files that are searched behind one of another
\* interface that does: there the search has stopped (the return true in both
\* readers, the || in detectDHCPServers()).
GivesUpWithoutServer ==
    error = "no server" =>
        /\ given = NoServer
        /\ \A n \in Places :
               Owner(n) = netif.name /\ NamesServer(n)
                   => \E m \in Places :
                          m < n /\ Owner(m) # netif.name /\ NamesServer(m)
=============================================================================
