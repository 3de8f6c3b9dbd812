------------------------ MODULE NetworkHelperProofs ------------------------
(***************************************************************************)
(* Proofs about NetworkHelper for every set of interfaces, whatever the    *)
(* kernel lists, the files of the DHCP clients hold and the user asks for. *)
(***************************************************************************)
EXTENDS NetworkHelper, WellFoundedInduction, TLAPS

-----------------------------------------------------------------------------
(* The inductive invariants.                                               *)

Real == Names \ Loopbacks

\* The interfaces there are: without a server, or with one.
Interface == {Described(n) : n \in Real}
                 \union {SetDHCPServerIP(Described(n), s) : n \in Real, s \in Servers}

Using == pc \in {"pxeHost", "search"} \/ error = "no server"

TypeInv ==
    /\ listed \in Listings
    /\ info \in [Real -> InfoFiles]
    /\ DOMAIN leases \subseteq {LeaseDirs[1], LeaseDirs[2]}
    /\ \A d \in DOMAIN leases : leases[d] \in [Real -> LeaseFiles]
    /\ given \in {NoServer} \union Servers
    /\ at \in Nat \ {0}
    /\ interfaces \in Seq(Interface)
    /\ Using => netif \in Interface
    /\ error = "no server" => pc = "thrown"

\* The first name in a list that is no loopback's.
IsFirst(list, n) == \E k \in DOMAIN list :
                        /\ list[k] = n
                        /\ \A j \in 1..k - 1 : list[j] \in Loopbacks

\* The interfaces start with that one.
ListInv ==
    /\ pc = "detectInterfaces" /\ interfaces = <<>> =>
           \A j \in DOMAIN listed : j < at => listed[j] \in Loopbacks
    /\ interfaces # <<>> => IsFirst(listed, interfaces[1].name)
    /\ Using => /\ requested # NoName => netif.name = requested
                /\ requested = NoName => IsFirst(listed, netif.name)

\* ServersOf() of given files.
Named1(file) == {file[i] : i \in ServerLines(file)}
Dir(l) == IF LeaseDirs[1] \in DOMAIN l THEN LeaseDirs[1] ELSE LeaseDirs[2]
ServersIn(inf, l, n) ==
    Named1(inf[n]) \union (IF DOMAIN l = {} THEN {} ELSE Named1(l[Dir(l)][n]))

OwnServer(inf, l, x) == x.dhcpServer = NoServer \/ x.dhcpServer \in ServersIn(inf, l, x.name)

\* An interface has no server or one of its files.
ServerInv ==
    /\ \A j \in DOMAIN interfaces : OwnServer(info, leases, interfaces[j])
    /\ Using => OwnServer(info, leases, netif)
    /\ pc # "search" => pxeHost = given
    /\ pc = "search" => IF given # NoServer THEN pxeHost = given
                        ELSE pxeHost \in ServersIn(info, leases, netif.name)

\* No interface before the k-th has its name.
FirstOfItsName(s, k) == \A j \in DOMAIN s : j < k => s[j].name # s[k].name

\* The first file that names a server is dhcpcd's of the k-th interface, ...
StopsAtInfo(s, inf, k) ==
    /\ \A j \in DOMAIN s : j < k => Named1(inf[s[j].name]) = {}
    /\ Named1(inf[s[k].name]) # {}

\* ... or dhclient's.
StopsAtLease(s, inf, l, k) ==
    /\ \A j \in DOMAIN s : Named1(inf[s[j].name]) = {}
    /\ DOMAIN l # {}
    /\ \A j \in DOMAIN s : j < k => Named1(l[Dir(l)][s[j].name]) = {}
    /\ Named1(l[Dir(l)][s[k].name]) # {}

\* A search that has stopped: no interface has a server in its files, or the one
\* at whose file it has stopped is the first of its name and has the server.
Searched(s, inf, l) ==
    \/ \A j \in DOMAIN s : ServersIn(inf, l, s[j].name) = {}
    \/ \E k \in DOMAIN s :
           /\ FirstOfItsName(s, k) /\ s[k].dhcpServer # NoServer
           /\ StopsAtInfo(s, inf, k) \/ StopsAtLease(s, inf, l, k)

\* The interface in use is the first of its name, too.
SearchInv ==
    /\ pc \in {"detectInterfaces", "detectDHCPServerDhcpd", "detectDHCPServerDhclient"}
           => \A j \in DOMAIN interfaces : interfaces[j].dhcpServer = NoServer
    /\ pc = "detectDHCPServerDhcpd" =>
           \A j \in DOMAIN interfaces :
               j < at => Named1(info[interfaces[j].name]) = {}
    /\ pc = "detectDHCPServerDhclient" =>
           \A j \in DOMAIN interfaces :
               /\ Named1(info[interfaces[j].name]) = {}
               /\ j < at => Named1(leases[Dir(leases)][interfaces[j].name]) = {}
    /\ pc = "readPxeConfig" \/ Using => Searched(interfaces, info, leases)
    /\ Using => \E k \in DOMAIN interfaces : /\ FirstOfItsName(interfaces, k)
                                            /\ netif = interfaces[k]
    /\ error = "no server" => given = NoServer /\ netif.dhcpServer = NoServer

-----------------------------------------------------------------------------
(* Operators.                                                              *)

\* Every non-empty set of natural numbers has a least member, the one the code
\* finds by going through it in order.
LEMMA LeastMember ==
    ASSUME NEW S \in SUBSET Nat, S # {}
    PROVE  LET least == CHOOSE i \in S : \A j \in S : i <= j
           IN  least \in S /\ \A j \in S : least <= j
<1> DEFINE R == {p \in Nat \X Nat : p[1] < p[2]}
<1>1. IsWellFoundedOn(OpToRel(<,Nat), Nat)
  BY NatLessThanWellFounded
<1>2. IsWellFoundedOn(R, Nat)
  BY <1>1 DEF OpToRel
<1>3. PICK n \in S : \A m \in S : ~(<<m, n>> \in R)
  <2> HIDE DEF R
  <2> QED
    BY <1>2, WFMin
<1>4. ASSUME NEW m \in S
      PROVE  n <= m
  <2>1. <<m, n>> \in Nat \X Nat
    OBVIOUS
  <2>2. ~(m < n)
    BY <2>1, <1>3
  <2> QED
    BY <2>2
<1> QED
  BY <1>4

\* The lines of a file are counted from 1.
LEMMA ServerLinesAreLines ==
    ASSUME NEW file \in Seq(Servers \union {OtherLine})
    PROVE  ServerLines(file) \in SUBSET Nat
BY DEF ServerLines

\* A file with a line that names a server has a first one, and it names one of
\* the servers in the file.
LEMMA FirstServerIsThere ==
    ASSUME NEW file \in Seq(Servers \union {OtherLine}), ServerLines(file) # {}
    PROVE  FirstServer(file) \in Servers /\ FirstServer(file) \in Named1(file)
<1> DEFINE first == CHOOSE i \in ServerLines(file) : \A j \in ServerLines(file) : i <= j
<1>1. first \in ServerLines(file)
  BY ServerLinesAreLines, LeastMember
<1> HIDE DEF first
<1>2. first \in DOMAIN file /\ file[first] # OtherLine
  BY <1>1 DEF ServerLines
<1>3. file[first] \in Servers
  BY <1>2
<1>4. FirstServer(file) = file[first]
  BY DEF FirstServer, first
<1> QED
  BY <1>1, <1>3, <1>4 DEF Named1

\* What an interface is called and which server it has.
LEMMA DescribedFields ==
    ASSUME NEW n
    PROVE  /\ Described(n).name = n /\ Described(n).dhcpServer = NoServer
           /\ DOMAIN Described(n)
                  = {"valid", "up", "name", "dhcpServer", "mac", "ip"}
BY DEF Described, SetIp, SetMac, SetUp, NewInterface, NoInterface

\* A server that is set changes nothing else.
LEMMA SetServerFields ==
    ASSUME NEW x \in Interface, NEW s \in Servers
    PROVE  /\ SetDHCPServerIP(x, s) \in Interface
           /\ SetDHCPServerIP(x, s).name = x.name
           /\ SetDHCPServerIP(x, s).dhcpServer = s
<1>1. CASE x \in {Described(n) : n \in Real}
  <2>1. PICK n \in Real : x = Described(n)
    BY <1>1
  <2>2. SetDHCPServerIP(x, s) \in Interface
    BY <2>1 DEF Interface
  <2> QED
    BY <2>1, <2>2, DescribedFields DEF SetDHCPServerIP
<1>2. CASE x \in {SetDHCPServerIP(Described(n), t) : n \in Real, t \in Servers}
  <2>1. PICK n \in Real, t \in Servers : x = SetDHCPServerIP(Described(n), t)
    BY <1>2
  <2>2. SetDHCPServerIP(x, s) = SetDHCPServerIP(Described(n), s)
    BY <2>1 DEF SetDHCPServerIP
  <2>3. SetDHCPServerIP(x, s) \in Interface
    BY <2>2 DEF Interface
  <2> QED
    BY <2>1, <2>2, <2>3, DescribedFields DEF SetDHCPServerIP
<1> QED
  BY <1>1, <1>2 DEF Interface

\* The name of an interface is one of those that are no loopback's.
LEMMA InterfaceNames ==
    ASSUME NEW x \in Interface
    PROVE  x.name \in Real
<1>1. CASE x \in {Described(n) : n \in Real}
  BY <1>1, DescribedFields
<1>2. CASE x \in {SetDHCPServerIP(Described(n), t) : n \in Real, t \in Servers}
  BY <1>2, DescribedFields DEF SetDHCPServerIP
<1> QED
  BY <1>1, <1>2 DEF Interface

-----------------------------------------------------------------------------
(* Steps.                                                                  *)

\* What the kernel, the files and the user say does not change.
LEMMA FilesStay == [Next]_vars => UNCHANGED files
BY DEF Next, DetectInterface, DetectInterfacesThrows, InterfacesDetected, ReadInfo, NoInfo,
       ReadLeases, NoLease, UseRequested, RequestedDoesNotExist, UseFirst, NoInterfaces,
       ChooseHost, Done, Throw, Goto, ReadFile, SetServer, NextInterface, Use, vars

\* The interface at which the loop is gets a server of its files.
Served ==
    /\ at \in DOMAIN interfaces
    /\ interfaces' \in Seq(Interface) /\ DOMAIN interfaces' = DOMAIN interfaces
    /\ \A j \in DOMAIN interfaces : /\ interfaces'[j].name = interfaces[j].name
                                    /\ j # at => interfaces'[j] = interfaces[j]
    /\ interfaces'[at].dhcpServer \in Servers
    /\ interfaces'[at].dhcpServer \in ServersIn(info, leases, interfaces[at].name)
    /\ pc' = "readPxeConfig"
    /\ UNCHANGED <<files, at, netif, pxeHost, names, error>>

\* That is what setting it from one of its files does.
LEMMA SetServerServes ==
    ASSUME TypeInv, at <= Len(interfaces),
           NEW file \in Seq(Servers \union {OtherLine}), ServerLines(file) # {},
           Named1(file) \subseteq ServersIn(info, leases, interfaces[at].name),
           SetServer(file)
    PROVE  Served
<1>1. interfaces \in Seq(Interface) /\ at \in Nat \ {0}
  BY DEF TypeInv
<1>2. at \in DOMAIN interfaces /\ interfaces[at] \in Interface
  BY <1>1
<1> DEFINE new == SetDHCPServerIP(interfaces[at], FirstServer(file))
<1>3. /\ new \in Interface /\ new.name = interfaces[at].name
      /\ new.dhcpServer = FirstServer(file)
  BY <1>2, FirstServerIsThere, SetServerFields
<1>4. interfaces' = [interfaces EXCEPT ![at] = new]
  BY DEF SetServer
<1>5. /\ pc' = "readPxeConfig"
      /\ UNCHANGED <<files, at, netif, pxeHost, names, error>>
  BY DEF SetServer
<1>6. FirstServer(file) \in Servers /\ FirstServer(file) \in Named1(file)
  BY FirstServerIsThere
<1> HIDE DEF new
<1>7. interfaces' \in Seq(Interface) /\ DOMAIN interfaces' = DOMAIN interfaces
  BY <1>1, <1>2, <1>3, <1>4
<1>8. interfaces'[at] = new /\ \A j \in DOMAIN interfaces \ {at} : interfaces'[j] = interfaces[j]
  BY <1>1, <1>2, <1>4
<1> QED
  BY <1>2, <1>3, <1>5, <1>6, <1>7, <1>8 DEF Served

\* A file of dhcpcd is read.
LEMMA ReadInfoSteps ==
    ASSUME TypeInv, ReadInfo
    PROVE  \/ Served /\ Named1(info[interfaces[at].name]) # {}
           \/ NextInterface /\ Named1(info[interfaces[at].name]) = {}
<1> DEFINE file == info[interfaces[at].name]
<1>1. interfaces \in Seq(Interface) /\ at \in Nat \ {0} /\ at <= Len(interfaces)
  BY DEF TypeInv, ReadInfo
<1>2. interfaces[at].name \in Real
  BY <1>1, InterfaceNames
<1>3. file \in Seq(Servers \union {OtherLine})
  BY <1>2, NetworkHelperAssumption DEF TypeInv
<1>4. Named1(file) \subseteq ServersIn(info, leases, interfaces[at].name)
  BY DEF ServersIn
<1>5. CASE ServerLines(file) # {}
  <2>1. SetServer(file)
    BY <1>5 DEF ReadInfo, ReadFile
  <2>2. Named1(info[interfaces[at].name]) # {}
    BY <1>5 DEF Named1
  <2> HIDE DEF file
  <2>3. Served
    BY <1>1, <1>3, <1>4, <1>5, <2>1, SetServerServes
  <2> QED
    BY <2>2, <2>3
<1>6. CASE ServerLines(file) = {}
  BY <1>6 DEF ReadInfo, ReadFile, Named1
<1> QED
  BY <1>5, <1>6

\* A file of dhclient is read.
LEMMA ReadLeasesSteps ==
    ASSUME TypeInv, ReadLeases
    PROVE  \/ Served /\ Named1(leases[Dir(leases)][interfaces[at].name]) # {}
           \/ NextInterface /\ Named1(leases[Dir(leases)][interfaces[at].name]) = {}
<1> DEFINE file == leases[Dir(leases)][interfaces[at].name]
<1>1. interfaces \in Seq(Interface) /\ at \in Nat \ {0} /\ at <= Len(interfaces)
  BY DEF TypeInv, ReadLeases
<1>2. interfaces[at].name \in Real
  BY <1>1, InterfaceNames
<1>3. DOMAIN leases # {} /\ Dir(leases) \in DOMAIN leases
  BY DEF TypeInv, ReadLeases, Dir
<1>4. file \in Seq(Servers \union {OtherLine})
  BY <1>2, <1>3, NetworkHelperAssumption DEF TypeInv
<1>5. Named1(file) \subseteq ServersIn(info, leases, interfaces[at].name)
  BY <1>3 DEF ServersIn
<1>6. ReadFile(file)
  BY DEF ReadLeases, ConfigDir, Dir
<1>7. CASE ServerLines(file) # {}
  <2>1. SetServer(file)
    BY <1>6, <1>7 DEF ReadFile
  <2>2. Named1(leases[Dir(leases)][interfaces[at].name]) # {}
    BY <1>7 DEF Named1
  <2> HIDE DEF file
  <2>3. Served
    BY <1>1, <1>4, <1>5, <1>7, <2>1, SetServerServes
  <2> QED
    BY <2>2, <2>3
<1>8. CASE ServerLines(file) = {}
  BY <1>6, <1>8 DEF ReadFile, Named1
<1> QED
  BY <1>7, <1>8

\* The interface readPxeConfig() takes: the first of its name, which is the one
\* the user asked for or the first of the list.
Taken(k) ==
    /\ k \in DOMAIN interfaces /\ netif' = interfaces[k]
    /\ FirstOfItsName(interfaces, k)
    /\ requested # NoName => interfaces[k].name = requested
    /\ requested = NoName => k = 1
    /\ pc' = "pxeHost" /\ UNCHANGED <<files, at, interfaces, pxeHost, names, error>>

\* Both ways of choosing an interface take the first one of its name.
LEMMA UseSteps ==
    ASSUME TypeInv, UseRequested \/ UseFirst
    PROVE  \E k \in DOMAIN interfaces : Taken(k)
<1>0. interfaces \in Seq(Interface)
  BY DEF TypeInv
<1>1. CASE UseRequested
  <2> DEFINE k == CHOOSE i \in Named(requested) : \A j \in Named(requested) : i <= j
  <2>1. Named(requested) \in SUBSET Nat /\ Named(requested) # {}
    BY <1>0, <1>1 DEF Named, UseRequested
  <2>2. k \in Named(requested) /\ \A j \in Named(requested) : k <= j
    BY <2>1, LeastMember
  <2>3. netif' = interfaces[k] /\ requested # NoName
        /\ pc' = "pxeHost" /\ UNCHANGED <<files, at, interfaces, pxeHost, names, error>>
    BY <1>1 DEF UseRequested, Use
  <2> HIDE DEF k
  <2>4. k \in DOMAIN interfaces /\ interfaces[k].name = requested
    BY <2>2 DEF Named
  <2>5. ASSUME NEW j \in DOMAIN interfaces, j < k
        PROVE  interfaces[j].name # interfaces[k].name
    <3> SUFFICES ASSUME interfaces[j].name = requested
                 PROVE  FALSE
      BY <2>4
    <3>1. j \in Named(requested)
      BY DEF Named
    <3>2. k <= j /\ j \in Nat /\ k \in Nat
      BY <1>0, <2>2, <2>4, <3>1
    <3> QED
      BY <2>5, <3>2
  <2> QED
    BY <2>3, <2>4, <2>5 DEF Taken, FirstOfItsName
<1>2. CASE UseFirst
  <2>1. 1 \in DOMAIN interfaces
    BY <1>0, <1>2 DEF UseFirst
  <2>2. \A j \in DOMAIN interfaces : ~(j < 1)
    BY <1>0
  <2> QED
    BY <1>2, <2>1, <2>2 DEF UseFirst, Use, Taken, FirstOfItsName
<1> QED
  BY <1>1, <1>2

\* The steps in which an exception ends the work before there is an interface.
GivesUp ==
    /\ pc \in {"detectInterfaces", "readPxeConfig"} /\ pc' = "thrown"
    /\ error' \in {"detection failed", "no such interface", "no interfaces"}
    /\ UNCHANGED <<files, at, interfaces, netif, pxeHost, names>>

\* What readPxeConfig() does with the interface it has taken.
HostChosen ==
    /\ pc = "pxeHost" /\ UNCHANGED <<files, at, interfaces, netif>>
    /\ \/ /\ pc' = "search" /\ error' = error
          /\ pxeHost' = IF pxeHost # NoServer THEN pxeHost ELSE netif.dhcpServer
          /\ pxeHost' # NoServer
       \/ /\ pc' = "thrown" /\ error' = "no server"
          /\ pxeHost = NoServer /\ netif.dhcpServer = NoServer /\ pxeHost' = pxeHost

\* A step is one of these.
LEMMA StepCases ==
    ASSUME TypeInv, [Next]_vars
    PROVE  \/ DetectInterface
           \/ GivesUp
           \/ InterfacesDetected
           \/ NoInfo
           \/ NoLease
           \/ /\ pc = "detectDHCPServerDhcpd" /\ at <= Len(interfaces) /\ Served
              /\ Named1(info[interfaces[at].name]) # {}
           \/ /\ pc = "detectDHCPServerDhcpd" /\ at <= Len(interfaces) /\ NextInterface
              /\ Named1(info[interfaces[at].name]) = {}
           \/ /\ pc = "detectDHCPServerDhclient" /\ at <= Len(interfaces) /\ Served
              /\ DOMAIN leases # {}
              /\ Named1(leases[Dir(leases)][interfaces[at].name]) # {}
           \/ /\ pc = "detectDHCPServerDhclient" /\ at <= Len(interfaces) /\ NextInterface
              /\ Named1(leases[Dir(leases)][interfaces[at].name]) = {}
           \/ pc = "readPxeConfig" /\ \E k \in DOMAIN interfaces : Taken(k)
           \/ HostChosen
           \/ UNCHANGED vars
<1>1. CASE DetectInterfacesThrows \/ RequestedDoesNotExist \/ NoInterfaces
  BY <1>1 DEF DetectInterfacesThrows, RequestedDoesNotExist, NoInterfaces, Throw, GivesUp
<1>2. CASE ReadInfo
  BY <1>2, ReadInfoSteps DEF ReadInfo
<1>3. CASE ReadLeases
  BY <1>3, ReadLeasesSteps DEF ReadLeases
<1>4. CASE UseRequested \/ UseFirst
  BY <1>4, UseSteps DEF UseRequested, UseFirst
<1>5. CASE ChooseHost
  BY <1>5 DEF ChooseHost, Throw, HostChosen, files
<1> QED
  BY <1>1, <1>2, <1>3, <1>4, <1>5 DEF Next, Done

-----------------------------------------------------------------------------
(* Every variable keeps its type.                                          *)

\* At the start.
LEMMA InitType == Init => TypeInv
<1> SUFFICES ASSUME Init
             PROVE  TypeInv
  OBVIOUS
<1>1. listed \in Listings /\ info \in [Real -> InfoFiles] /\ given \in {NoServer} \union Servers
  BY DEF Init, Real
<1>2. DOMAIN leases \subseteq {LeaseDirs[1], LeaseDirs[2]}
      /\ \A d \in DOMAIN leases : leases[d] \in [Real -> LeaseFiles]
  <2>1. PICK dirs \in SUBSET {LeaseDirs[1], LeaseDirs[2]} :
            leases \in [dirs -> [Real -> LeaseFiles]]
    BY DEF Init, Real
  <2> QED
    BY <2>1
<1>3. at = 1 /\ interfaces = <<>> /\ ~Using /\ error = "none"
  BY DEF Init, Using
<1> QED
  BY <1>1, <1>2, <1>3 DEF TypeInv

\* In every step.
LEMMA NextType ==
    ASSUME TypeInv, [Next]_vars
    PROVE  TypeInv'
<1>1. UNCHANGED <<listed, info, leases, given, requested>>
  BY FilesStay DEF files
<1>2. ASSUME at' \in Nat \ {0}, interfaces' \in Seq(Interface),
             Using' => netif' \in Interface, error' = "no server" => pc' = "thrown"
      PROVE  TypeInv'
  BY <1>1, <1>2 DEF TypeInv
<1>3. at \in Nat \ {0} /\ interfaces \in Seq(Interface)
  BY DEF TypeInv
<1>4. CASE DetectInterface
  <2>1. listed[at] \in Names
    <3>1. listed \in Seq(Names) /\ at <= Len(listed)
      BY <1>4, NetworkHelperAssumption DEF DetectInterface, TypeInv
    <3> QED
      BY <1>3, <3>1
  <2>2. interfaces' \in Seq(Interface)
    <3>1. CASE listed[at] \in Loopbacks
      BY <1>3, <1>4, <3>1 DEF DetectInterface
    <3>2. CASE listed[at] \notin Loopbacks
      <4>1. Described(listed[at]) \in Interface
        BY <2>1, <3>2 DEF Interface, Real
      <4> QED
        BY <1>3, <1>4, <3>2, <4>1 DEF DetectInterface
    <3> QED
      BY <3>1, <3>2
  <2>3. at' \in Nat \ {0} /\ UNCHANGED <<pc, netif, error>>
    BY <1>3, <1>4 DEF DetectInterface
  <2> QED
    BY <1>2, <2>2, <2>3 DEF Using, TypeInv
<1>5. CASE GivesUp
  BY <1>2, <1>3, <1>5 DEF GivesUp, Using
<1>6. CASE InterfacesDetected \/ NoInfo \/ NoLease
  <2>1. /\ pc \notin {"thrown", "pxeHost", "search"}
        /\ pc' \notin {"thrown", "pxeHost", "search"}
        /\ at' = 1 /\ UNCHANGED <<interfaces, error>>
    BY <1>6 DEF InterfacesDetected, NoInfo, NoLease, Goto
  <2>2. error # "no server"
    BY <2>1 DEF TypeInv
  <2>3. ~Using' /\ error' # "no server"
    BY <2>1, <2>2 DEF Using
  <2>4. at' \in Nat \ {0} /\ interfaces' \in Seq(Interface)
    BY <1>3, <2>1
  <2> QED
    BY <1>2, <2>3, <2>4
<1>7. CASE pc # "thrown" /\ Served
  BY <1>2, <1>3, <1>7 DEF Served, Using, TypeInv
<1>8. CASE NextInterface
  <2>1. at' \in Nat \ {0} /\ UNCHANGED <<pc, netif, error, interfaces>>
    BY <1>3, <1>8 DEF NextInterface
  <2> QED
    BY <1>2, <1>3, <2>1 DEF Using, TypeInv
<1>9. CASE pc = "readPxeConfig" /\ \E k \in DOMAIN interfaces : Taken(k)
  <2>1. PICK k \in DOMAIN interfaces : Taken(k)
    BY <1>9
  <2>2. UNCHANGED <<at, interfaces, error>> /\ netif' = interfaces[k]
    BY <2>1 DEF Taken
  <2>3. error # "no server"
    BY <1>9 DEF TypeInv
  <2>4. interfaces' \in Seq(Interface) /\ netif' \in Interface /\ at' \in Nat \ {0}
    BY <1>3, <2>1, <2>2
  <2> QED
    BY <1>2, <2>2, <2>3, <2>4
<1>10. CASE HostChosen
  <2>1. netif \in Interface /\ error # "no server"
    BY <1>10 DEF HostChosen, Using, TypeInv
  <2> QED
    BY <1>2, <1>3, <1>10, <2>1 DEF HostChosen
<1>11. CASE UNCHANGED vars
  BY <1>11 DEF vars, files, TypeInv, Using
<1> QED
  BY <1>4, <1>5, <1>6, <1>7, <1>8, <1>9, <1>10, <1>11, StepCases

-----------------------------------------------------------------------------
(* The interface.                                                          *)

\* A step keeps the first one first.
LEMMA NextList ==
    ASSUME TypeInv, ListInv, [Next]_vars
    PROVE  ListInv'
<1>1. listed' = listed /\ requested' = requested
  BY FilesStay DEF files
<1>2. at \in Nat \ {0} /\ interfaces \in Seq(Interface) /\ listed \in Seq(Names)
  BY NetworkHelperAssumption DEF TypeInv
<1>3. ASSUME pc' # "detectInterfaces", interfaces' = interfaces, ~Using'
      PROVE  ListInv'
  BY <1>1, <1>3 DEF ListInv
<1>4. CASE DetectInterface
  <2>1. /\ pc = "detectInterfaces" /\ at <= Len(listed) /\ at' = at + 1
        /\ UNCHANGED <<pc, error, netif>>
        /\ interfaces' = IF listed[at] \in Loopbacks THEN interfaces
                         ELSE Append(interfaces, Described(listed[at]))
    BY <1>4 DEF DetectInterface
  <2>2. ~Using'
    BY <2>1 DEF TypeInv, Using
  <2>3. CASE listed[at] \in Loopbacks
    <3>1. interfaces' = interfaces
      BY <2>1, <2>3
    <3>2. interfaces = <<>> =>
              \A j \in DOMAIN listed : j < at + 1 => listed[j] \in Loopbacks
      <4> SUFFICES ASSUME interfaces = <<>>, NEW j \in DOMAIN listed, j < at + 1
                   PROVE  listed[j] \in Loopbacks
        OBVIOUS
      <4>1. j < at \/ j = at
        BY <1>2
      <4> QED
        BY <2>1, <2>3, <4>1 DEF ListInv
    <3> QED
      BY <1>1, <2>1, <2>2, <3>1, <3>2 DEF ListInv
  <2>4. CASE listed[at] \notin Loopbacks
    <3>1. interfaces' = Append(interfaces, Described(listed[at]))
      BY <2>1, <2>4
    <3>2. interfaces' # <<>> /\ (interfaces # <<>> => interfaces'[1] = interfaces[1])
          /\ (interfaces = <<>> => interfaces'[1] = Described(listed[at]))
      BY <1>2, <3>1
    <3>3. interfaces = <<>> => IsFirst(listed, listed[at])
      <4>1. at \in DOMAIN listed
        BY <1>2, <2>1
      <4>2. interfaces = <<>> => \A j \in 1..at - 1 : listed[j] \in Loopbacks
        BY <1>2, <2>1, <4>1 DEF ListInv
      <4> QED
        BY <4>1, <4>2 DEF IsFirst
    <3>4. IsFirst(listed, interfaces'[1].name)
      BY <3>2, <3>3, DescribedFields DEF ListInv
    <3> QED
      BY <1>1, <2>2, <3>2, <3>4 DEF ListInv
  <2> QED
    BY <2>3, <2>4
<1>5. CASE GivesUp
  BY <1>3, <1>5 DEF GivesUp, Using
<1>6. CASE InterfacesDetected \/ NoInfo \/ NoLease
  BY <1>3, <1>6 DEF InterfacesDetected, NoInfo, NoLease, Goto, Using, TypeInv
<1>7. CASE pc # "thrown" /\ Served
  <2>1. pc' = "readPxeConfig" /\ ~Using'
    BY <1>7 DEF Served, Using, TypeInv
  <2>2. interfaces' # <<>> => interfaces # <<>> /\ interfaces'[1].name = interfaces[1].name
    BY <1>2, <1>7 DEF Served
  <2> QED
    BY <1>1, <2>1, <2>2 DEF ListInv
<1>8. CASE pc \notin {"detectInterfaces", "thrown", "pxeHost", "search"} /\ NextInterface
  BY <1>3, <1>8 DEF NextInterface, Using, TypeInv
<1>9. CASE pc = "readPxeConfig" /\ \E k \in DOMAIN interfaces : Taken(k)
  <2>1. PICK k \in DOMAIN interfaces : Taken(k)
    BY <1>9
  <2>2. requested = NoName => IsFirst(listed, netif'.name)
    BY <1>2, <2>1 DEF Taken, ListInv
  <2> QED
    BY <1>1, <2>1, <2>2 DEF Taken, ListInv
<1>10. CASE HostChosen
  BY <1>1, <1>10 DEF HostChosen, ListInv, Using
<1>11. CASE UNCHANGED vars
  BY <1>11 DEF vars, files, ListInv, Using
<1> QED
  BY <1>4, <1>5, <1>6, <1>7, <1>8, <1>9, <1>10, <1>11, StepCases

-----------------------------------------------------------------------------
(* The server.                                                             *)

\* A step keeps every server with an interface whose files name it.
LEMMA NextServer ==
    ASSUME TypeInv, ServerInv, [Next]_vars
    PROVE  ServerInv'
<1>1. info' = info /\ leases' = leases /\ given' = given
  BY FilesStay DEF files
<1>2. interfaces \in Seq(Interface)
  BY DEF TypeInv
<1>3. ASSUME interfaces' = interfaces, pxeHost' = pxeHost, ~Using', pc # "search"
      PROVE  ServerInv'
  BY <1>1, <1>3 DEF ServerInv, Using
<1>4. CASE DetectInterface
  <2>1. /\ pc = "detectInterfaces"
        /\ UNCHANGED <<pc, error, pxeHost>>
        /\ interfaces' = IF listed[at] \in Loopbacks THEN interfaces
                         ELSE Append(interfaces, Described(listed[at]))
    BY <1>4 DEF DetectInterface
  <2>2. ~Using' /\ pc' # "search"
    BY <2>1 DEF TypeInv, Using
  <2>3. \A j \in DOMAIN interfaces' :
            interfaces'[j] = Described(listed[at])
                \/ (j \in DOMAIN interfaces /\ interfaces'[j] = interfaces[j])
    BY <1>2, <2>1
  <2>4. \A j \in DOMAIN interfaces' : OwnServer(info, leases, interfaces'[j])
    BY <2>3, DescribedFields DEF ServerInv, OwnServer
  <2> QED
    BY <1>1, <2>1, <2>2, <2>4 DEF ServerInv
<1>5. CASE GivesUp
  BY <1>3, <1>5 DEF GivesUp, Using
<1>6. CASE InterfacesDetected \/ NoInfo \/ NoLease
  BY <1>3, <1>6 DEF InterfacesDetected, NoInfo, NoLease, Goto, Using, TypeInv
<1>7. CASE pc \notin {"thrown", "search"} /\ Served
  <2>1. pc' = "readPxeConfig" /\ ~Using' /\ pxeHost' = pxeHost
    BY <1>7 DEF Served, Using, TypeInv
  <2>2. \A j \in DOMAIN interfaces' : OwnServer(info, leases, interfaces'[j])
    BY <1>7 DEF Served, ServerInv, OwnServer
  <2> QED
    BY <1>1, <1>7, <2>1, <2>2 DEF ServerInv
<1>8. CASE pc \notin {"thrown", "pxeHost", "search"} /\ NextInterface
  BY <1>3, <1>8 DEF NextInterface, Using, TypeInv
<1>9. CASE pc = "readPxeConfig" /\ \E k \in DOMAIN interfaces : Taken(k)
  <2>1. PICK k \in DOMAIN interfaces : Taken(k)
    BY <1>9
  <2>2. pc' = "pxeHost" /\ UNCHANGED <<interfaces, pxeHost>> /\ netif' = interfaces[k]
    BY <2>1 DEF Taken
  <2> QED
    BY <1>1, <1>9, <2>1, <2>2 DEF ServerInv
<1>10. CASE HostChosen
  <2>1. /\ pxeHost = given /\ OwnServer(info, leases, netif)
        /\ UNCHANGED <<interfaces, netif>>
    BY <1>10 DEF HostChosen, ServerInv, Using
  <2>2. CASE pc' = "search"
    BY <1>1, <1>10, <2>1, <2>2 DEF HostChosen, ServerInv, OwnServer
  <2>3. CASE pc' = "thrown"
    BY <1>1, <1>10, <2>1, <2>3 DEF HostChosen, ServerInv
  <2> QED
    BY <1>10, <2>2, <2>3 DEF HostChosen
<1>11. CASE UNCHANGED vars
  BY <1>11 DEF vars, files, ServerInv, Using
<1> QED
  BY <1>4, <1>5, <1>6, <1>7, <1>8, <1>9, <1>10, <1>11, StepCases

-----------------------------------------------------------------------------
(* The search for servers.                                                 *)

\* The interfaces it has gone by have none.
LEMMA NextSearch ==
    ASSUME TypeInv, ServerInv, SearchInv, [Next]_vars
    PROVE  SearchInv'
<1>1. info' = info /\ leases' = leases /\ given' = given
  BY FilesStay DEF files
<1>2. interfaces \in Seq(Interface) /\ at \in Nat \ {0}
  BY DEF TypeInv
<1>3. CASE DetectInterface
  <2>1. /\ pc = "detectInterfaces"
        /\ UNCHANGED <<pc, error>>
        /\ interfaces' = IF listed[at] \in Loopbacks THEN interfaces
                         ELSE Append(interfaces, Described(listed[at]))
    BY <1>3 DEF DetectInterface
  <2>2. ~Using' /\ error' # "no server"
    BY <2>1 DEF TypeInv, Using
  <2>3. \A j \in DOMAIN interfaces' :
            interfaces'[j] = Described(listed[at])
                \/ (j \in DOMAIN interfaces /\ interfaces'[j] = interfaces[j])
    BY <1>2, <2>1
  <2>4. \A j \in DOMAIN interfaces' : interfaces'[j].dhcpServer = NoServer
    <3>1. \A j \in DOMAIN interfaces : interfaces[j].dhcpServer = NoServer
      BY <2>1 DEF SearchInv
    <3>2. Described(listed[at]).dhcpServer = NoServer
      BY DescribedFields
    <3> QED
      BY <2>3, <3>1, <3>2
  <2> QED
    BY <2>1, <2>2, <2>4 DEF SearchInv
<1>4. CASE GivesUp
  BY <1>4 DEF GivesUp, SearchInv, Using
<1>5. CASE InterfacesDetected
  <2>1. /\ pc = "detectInterfaces" /\ pc' = "detectDHCPServerDhcpd" /\ at' = 1
        /\ UNCHANGED <<interfaces, error>>
    BY <1>5 DEF InterfacesDetected, Goto
  <2>2. ~Using' /\ error' # "no server"
    BY <2>1 DEF TypeInv, Using
  <2>3. \A j \in DOMAIN interfaces : ~(j < 1)
    BY <1>2
  <2> QED
    BY <2>1, <2>2, <2>3 DEF SearchInv
<1>6. CASE NoInfo
  <2>1. /\ pc = "detectDHCPServerDhcpd" /\ pc' = "detectDHCPServerDhclient" /\ at' = 1
        /\ UNCHANGED <<interfaces, error>> /\ at > Len(interfaces)
    BY <1>6 DEF NoInfo, Goto
  <2>2. ~Using' /\ error' # "no server"
    BY <2>1 DEF TypeInv, Using
  <2>3. \A j \in DOMAIN interfaces : ~(j < 1) /\ j < at
    BY <1>2, <2>1
  <2> QED
    BY <1>1, <2>1, <2>2, <2>3 DEF SearchInv
<1>7. CASE NoLease
  <2>1. /\ pc = "detectDHCPServerDhclient" /\ pc' = "readPxeConfig"
        /\ UNCHANGED <<interfaces, error>>
        /\ at > Len(interfaces) \/ DOMAIN leases = {}
    BY <1>7 DEF NoLease, Goto
  <2>2. ~Using' /\ error' # "no server"
    BY <2>1 DEF TypeInv, Using
  <2>3. ASSUME NEW j \in DOMAIN interfaces
        PROVE  ServersIn(info, leases, interfaces[j].name) = {}
    <3>1. Named1(info[interfaces[j].name]) = {}
      BY <2>1 DEF SearchInv
    <3>2. DOMAIN leases = {} \/ j < at
      BY <1>2, <2>1
    <3>3. DOMAIN leases = {} \/ Named1(leases[Dir(leases)][interfaces[j].name]) = {}
      BY <2>1, <3>2 DEF SearchInv
    <3> QED
      BY <3>1, <3>3 DEF ServersIn
  <2>4. Searched(interfaces, info, leases)
    BY <2>3 DEF Searched
  <2> QED
    BY <1>1, <2>1, <2>2, <2>4 DEF SearchInv
<1>8. ASSUME pc \notin {"thrown", "pxeHost", "search"}, Served,
             \A j \in DOMAIN interfaces :
                 j < at => interfaces[j].name # interfaces[at].name,
             StopsAtInfo(interfaces, info, at)
                 \/ StopsAtLease(interfaces, info, leases, at)
      PROVE  SearchInv'
  <2>1. pc' = "readPxeConfig" /\ ~Using' /\ error' # "no server"
    BY <1>8 DEF Served, TypeInv, Using
  <2>2. /\ at \in DOMAIN interfaces'
        /\ FirstOfItsName(interfaces', at)
        /\ interfaces'[at].dhcpServer # NoServer
    BY <1>8, NetworkHelperAssumption DEF Served, FirstOfItsName
  <2>3. \/ StopsAtInfo(interfaces', info, at)
        \/ StopsAtLease(interfaces', info, leases, at)
    <3>1. /\ DOMAIN interfaces' = DOMAIN interfaces /\ at \in DOMAIN interfaces
          /\ \A j \in DOMAIN interfaces : interfaces'[j].name = interfaces[j].name
      BY <1>8 DEF Served
    <3>2. CASE StopsAtInfo(interfaces, info, at)
      BY <3>1, <3>2 DEF StopsAtInfo
    <3>3. CASE StopsAtLease(interfaces, info, leases, at)
      BY <3>1, <3>3 DEF StopsAtLease
    <3> QED
      BY <1>8, <3>2, <3>3
  <2>4. Searched(interfaces', info, leases)
    BY <2>2, <2>3 DEF Searched
  <2> QED
    BY <1>1, <2>1, <2>4 DEF SearchInv
<1>9. CASE /\ pc = "detectDHCPServerDhcpd" /\ at <= Len(interfaces) /\ Served
           /\ Named1(info[interfaces[at].name]) # {}
  <2>1. \A j \in DOMAIN interfaces :
            j < at => Named1(info[interfaces[j].name]) = {}
    BY <1>9 DEF SearchInv
  <2>2. StopsAtInfo(interfaces, info, at)
    BY <1>9, <2>1 DEF StopsAtInfo
  <2> QED
    BY <1>8, <1>9, <2>1, <2>2
<1>10. CASE /\ pc = "detectDHCPServerDhclient" /\ at <= Len(interfaces) /\ Served
            /\ DOMAIN leases # {}
            /\ Named1(leases[Dir(leases)][interfaces[at].name]) # {}
  <2>1. \A j \in DOMAIN interfaces :
            j < at => Named1(leases[Dir(leases)][interfaces[j].name]) = {}
    BY <1>10 DEF SearchInv
  <2>2. \A j \in DOMAIN interfaces : Named1(info[interfaces[j].name]) = {}
    BY <1>10 DEF SearchInv
  <2>3. StopsAtLease(interfaces, info, leases, at)
    BY <1>10, <2>1, <2>2 DEF StopsAtLease
  <2> QED
    BY <1>8, <1>10, <2>1, <2>3
<1>11. CASE /\ pc = "detectDHCPServerDhcpd" /\ at <= Len(interfaces) /\ NextInterface
            /\ Named1(info[interfaces[at].name]) = {}
  <2>1. at' = at + 1 /\ UNCHANGED <<pc, interfaces, error>>
    BY <1>11 DEF NextInterface
  <2>2. ~Using' /\ error' # "no server"
    BY <1>11, <2>1 DEF TypeInv, Using
  <2>3. \A j \in DOMAIN interfaces : j < at + 1 => j < at \/ j = at
    BY <1>2
  <2> QED
    BY <1>1, <1>11, <2>1, <2>2, <2>3 DEF SearchInv
<1>12. CASE /\ pc = "detectDHCPServerDhclient" /\ at <= Len(interfaces) /\ NextInterface
            /\ Named1(leases[Dir(leases)][interfaces[at].name]) = {}
  <2>1. at' = at + 1 /\ UNCHANGED <<pc, interfaces, error>>
    BY <1>12 DEF NextInterface
  <2>2. ~Using' /\ error' # "no server"
    BY <1>12, <2>1 DEF TypeInv, Using
  <2>3. \A j \in DOMAIN interfaces : j < at + 1 => j < at \/ j = at
    BY <1>2
  <2> QED
    BY <1>1, <1>12, <2>1, <2>2, <2>3 DEF SearchInv
<1>13. CASE pc = "readPxeConfig" /\ \E k \in DOMAIN interfaces : Taken(k)
  <2>1. PICK k \in DOMAIN interfaces : Taken(k)
    BY <1>13
  <2>2. /\ pc' = "pxeHost" /\ UNCHANGED <<interfaces, error>> /\ netif' = interfaces[k]
        /\ FirstOfItsName(interfaces, k) /\ error # "no server"
    BY <1>13, <2>1 DEF Taken, TypeInv
  <2>3. Searched(interfaces, info, leases)
    BY <1>13 DEF SearchInv
  <2> QED
    BY <1>1, <2>1, <2>2, <2>3 DEF SearchInv
<1>14. CASE HostChosen
  <2>1. /\ pxeHost = given /\ Using /\ UNCHANGED <<interfaces, netif>>
        /\ pc' \in {"search", "thrown"}
    BY <1>14 DEF HostChosen, ServerInv, Using
  <2>2. error' = "no server" => given = NoServer /\ netif.dhcpServer = NoServer
    BY <1>14, <2>1 DEF HostChosen, SearchInv
  <2> QED
    BY <1>1, <2>1, <2>2 DEF SearchInv
<1>15. CASE UNCHANGED vars
  <2>1. UNCHANGED <<listed, info, leases, given, pc, at, interfaces, netif, error>>
    BY <1>15 DEF vars, files
  <2> QED
    BY <2>1 DEF SearchInv, Using
<1> QED
  BY <1>3, <1>4, <1>5, <1>6, <1>7, <1>9, <1>10, <1>11, <1>12, <1>13, <1>14, <1>15, StepCases

-----------------------------------------------------------------------------
(* Theorems.                                                               *)

Inv == TypeInv /\ ListInv /\ ServerInv /\ SearchInv

\* The invariant holds in every state of every behaviour.
LEMMA InvHolds == Spec => []Inv
<1>1. Init => Inv
  <2> SUFFICES ASSUME Init
               PROVE  Inv
    OBVIOUS
  <2>1. /\ pc = "detectInterfaces" /\ at = 1 /\ interfaces = <<>> /\ ~Using
        /\ pxeHost = given /\ error = "none"
    BY DEF Init, Using
  <2>2. ListInv
    <3>1. listed \in Seq(Names)
      BY NetworkHelperAssumption DEF Init
    <3>2. \A j \in DOMAIN listed : ~(j < 1)
      BY <3>1
    <3> QED
      BY <2>1, <3>2 DEF ListInv
  <2>3. ServerInv /\ SearchInv
    BY <2>1 DEF ServerInv, SearchInv
  <2> QED
    BY <2>2, <2>3, InitType DEF Inv
<1>2. Inv /\ [Next]_vars => Inv'
  BY NextType, NextList, NextServer, NextSearch DEF Inv
<1> QED
  BY <1>1, <1>2, PTL DEF Spec

\* ServersOf() says the same of the files there are.
LEMMA ServersOfFiles == \A n : ServersOf(n) = ServersIn(info, leases, n)
BY DEF ServersOf, ServersIn, Named1, ConfigDir, Dir

\* Of two places in a sequence one is before the other.
LEMMA OneIsBefore ==
    ASSUME NEW S, NEW s \in Seq(S), NEW j \in DOMAIN s, NEW k \in DOMAIN s, j # k
    PROVE  j < k \/ k < j
OBVIOUS

\* Whatever the files of other interfaces name, the search goes to the host the
\* user gave, or else to a server in the files of the interface in use.
THEOREM ServerIsItsOwn == Spec => []ServerIsTheInterfaces
<1>1. Inv => ServerIsTheInterfaces
  BY ServersOfFiles DEF Inv, ServerInv, ServerIsTheInterfaces
<1> QED
  BY <1>1, InvHolds, PTL

\* The interface in use is the one asked for, or the first of the list that is
\* no loopback, and never a loopback.
THEOREM InterfaceIsFound == Spec => []InterfaceIsTheRightOne
<1>1. Inv => InterfaceIsTheRightOne
  <2> SUFFICES ASSUME Inv, pc \in {"pxeHost", "search"}
               PROVE  /\ netif.name \notin Loopbacks
                      /\ requested # NoName => netif.name = requested
                      /\ requested = NoName =>
                             \E i \in DOMAIN listed :
                                 /\ listed[i] = netif.name
                                 /\ \A j \in 1..i - 1 : listed[j] \in Loopbacks
    BY DEF InterfaceIsTheRightOne
  <2>1. netif.name \in Real
    BY InterfaceNames DEF Inv, TypeInv, Using
  <2> QED
    BY <2>1 DEF Inv, ListInv, Using, IsFirst, Real
<1> QED
  BY <1>1, InvHolds, PTL

\* A file has a line that names a server, or the servers of its lines are none.
LEMMA NoLineNoServer == \A file : ServerLines(file) = {} <=> Named1(file) = {}
BY DEF Named1

\* The places of a sequence are counted to its length.
LEMMA PlacesOfSequence ==
    ASSUME NEW S, NEW s \in Seq(S)
    PROVE  Len(s) \in Nat /\ DOMAIN s = 1..Len(s)
OBVIOUS

\* pxe-kexec gives up for want of a server only if none is given and every file
\* of its interface that names one is searched behind one of another interface
\* that does.
THEOREM GivesUpOnlyWithoutServer == Spec => []GivesUpWithoutServer
<1>1. Inv => GivesUpWithoutServer
  <2> DEFINE L == Len(interfaces)
             inFile(m) == Named1(info[interfaces[m].name]) # {}
             inLease(m) == Named1(leases[Dir(leases)][interfaces[m].name]) # {}
  <2> SUFFICES ASSUME Inv, error = "no server"
               PROVE  /\ given = NoServer
                      /\ \A n \in Places :
                             Owner(n) = netif.name /\ NamesServer(n)
                                 => \E m \in Places : /\ m < n /\ Owner(m) # netif.name
                                                     /\ NamesServer(m)
    BY DEF GivesUpWithoutServer
  <2>1. PICK k \in DOMAIN interfaces : FirstOfItsName(interfaces, k) /\ netif = interfaces[k]
    BY DEF Inv, SearchInv, Using
  <2>2. given = NoServer /\ interfaces[k].dhcpServer = NoServer
    BY <2>1 DEF Inv, SearchInv
  <2>3. Searched(interfaces, info, leases)
    BY DEF Inv, SearchInv, Using
  <2>4. interfaces \in Seq(Interface)
    BY DEF Inv, TypeInv
  <2>5. L \in Nat /\ DOMAIN interfaces = 1..L
    BY <2>4, PlacesOfSequence
  <2>6. /\ DOMAIN leases = {} => Places = 1..L
        /\ DOMAIN leases # {} => Places = 1..2 * L
    BY DEF Places
  <2>7. ASSUME NEW m \in 1..L
        PROVE  /\ m \in Places /\ Owner(m) = interfaces[m].name
               /\ NamesServer(m) <=> inFile(m)
    <3>1. m <= L /\ m \in 1..2 * L
      BY ONLY <2>5
    <3>2. Owner(m) = interfaces[m].name
      BY <3>1 DEF Owner
    <3>3. NamesServer(m) <=> ServerLines(info[Owner(m)]) # {}
      BY <3>1 DEF NamesServer
    <3> HIDE DEF L
    <3> QED
      BY <2>6, <3>1, <3>2, <3>3, NoLineNoServer
  <2>8. ASSUME DOMAIN leases # {}
        PROVE  \A m \in 1..L, n \in 1..2 * L :
                   n = L + m => /\ n \in Places /\ Owner(n) = interfaces[m].name
                                /\ NamesServer(n) <=> inLease(m)
    <3> SUFFICES ASSUME NEW m \in 1..L, NEW n \in 1..2 * L, n = L + m
                 PROVE  /\ n \in Places /\ Owner(n) = interfaces[m].name
                        /\ NamesServer(n) <=> inLease(m)
      OBVIOUS
    <3>1. ~(n <= L) /\ n - L = m
      <4> HIDE DEF L
      <4>1. L \in Nat /\ m \in 1..L /\ n = L + m
        BY <2>5
      <4> QED
        BY ONLY <4>1
    <3>2. Owner(n) = interfaces[m].name
      BY <3>1 DEF Owner
    <3>3. NamesServer(n) <=> ServerLines(leases[Dir(leases)][Owner(n)]) # {}
      BY <3>1 DEF NamesServer, ConfigDir, Dir
    <3> HIDE DEF L
    <3> QED
      BY <2>6, <2>8, <3>1, <3>2, <3>3, NoLineNoServer
  <2>9. \A n \in Places : n \in 1..L \/ (DOMAIN leases # {} /\ \E i \in 1..L : n = L + i)
    <3>1. \A n \in 1..2 * L : n \in 1..L \/ (n - L \in 1..L /\ n = L + (n - L))
      BY ONLY <2>5
    <3> QED
      BY <2>6, <3>1
  <2> SUFFICES ASSUME NEW n \in Places, Owner(n) = netif.name, NamesServer(n)
               PROVE  \E m \in Places : m < n /\ Owner(m) # netif.name /\ NamesServer(m)
    BY <2>2
  <2> HIDE DEF L
  <2>10. \A i \in 1..L : L + i \in 1..2 * L
    BY ONLY <2>5
  <2>11. n \in 1..L \/ (DOMAIN leases # {} /\ \E i \in 1..L : n = L + i)
    BY <2>9
  <2>12. ASSUME \A j \in DOMAIN interfaces : ServersIn(info, leases, interfaces[j].name) = {}
         PROVE  FALSE
    <3>1. CASE n \in 1..L
      BY <2>5, <2>7, <2>12, <3>1 DEF ServersIn
    <3>2. CASE DOMAIN leases # {} /\ \E i \in 1..L : n = L + i
      <4>1. PICK i \in 1..L : n = L + i
        BY <3>2
      <4>2. n \in 1..2 * L
        BY <2>10, <4>1
      <4>3. inLease(i)
        BY <2>8, <3>2, <4>1, <4>2
      <4> QED
        BY <2>5, <2>12, <3>2, <4>3 DEF ServersIn
    <3> QED
      BY <2>11, <3>1, <3>2
  <2>13. ASSUME NEW j \in DOMAIN interfaces, FirstOfItsName(interfaces, j),
                interfaces[j].dhcpServer # NoServer
         PROVE  j \in 1..L /\ interfaces[j].name # netif.name
    <3>1. j # k
      BY <2>2, <2>13
    <3>2. j < k \/ k < j
      BY ONLY <2>1, <2>4, <3>1, OneIsBefore
    <3> QED
      BY <2>1, <2>5, <2>13, <3>2 DEF FirstOfItsName
  <2>14. ASSUME NEW j \in DOMAIN interfaces, FirstOfItsName(interfaces, j),
                interfaces[j].dhcpServer # NoServer, StopsAtInfo(interfaces, info, j)
         PROVE  \E m \in Places : m < n /\ Owner(m) # netif.name /\ NamesServer(m)
    <3>1. j \in 1..L /\ interfaces[j].name # netif.name
      BY <2>13, <2>14
    <3>2. j \in Places /\ Owner(j) # netif.name /\ NamesServer(j)
      BY <2>7, <2>14, <3>1 DEF StopsAtInfo
    <3>3. CASE n \in 1..L
      <4>1. Named1(info[interfaces[n].name]) # {} /\ interfaces[n].name = netif.name
        BY <2>7, <3>3
      <4>2. ~(n < j)
        BY <2>5, <2>14, <3>3, <4>1 DEF StopsAtInfo
      <4>3. n # j
        BY <3>1, <4>1
      <4>4. j < n
        BY ONLY <2>5, <3>1, <3>3, <4>2, <4>3
      <4> QED
        BY <3>2, <4>4
    <3>4. CASE \E i \in 1..L : n = L + i
      <4>1. j < n
        BY ONLY <2>5, <3>1, <3>4
      <4> QED
        BY <3>2, <4>1
    <3> QED
      BY <2>11, <3>3, <3>4
  <2>15. ASSUME NEW j \in DOMAIN interfaces, FirstOfItsName(interfaces, j),
                interfaces[j].dhcpServer # NoServer, StopsAtLease(interfaces, info, leases, j)
         PROVE  \E m \in Places : m < n /\ Owner(m) # netif.name /\ NamesServer(m)
    <3>1. j \in 1..L /\ interfaces[j].name # netif.name
      BY <2>13, <2>15
    <3>2. PICK m \in 1..2 * L : m = L + j
      BY <2>10, <3>1
    <3>3. m \in Places /\ Owner(m) # netif.name /\ NamesServer(m)
      BY <2>8, <2>15, <3>1, <3>2 DEF StopsAtLease
    <3>4. n \notin 1..L
      BY <2>5, <2>7, <2>15 DEF StopsAtLease
    <3>5. PICK i \in 1..L : n = L + i
      BY <2>11, <3>4
    <3>6. Named1(leases[Dir(leases)][interfaces[i].name]) # {}
          /\ interfaces[i].name = netif.name
      <4>1. n \in 1..2 * L
        BY <2>10, <3>5
      <4> QED
        BY <2>8, <2>11, <3>4, <3>5, <4>1
    <3>7. ~(i < j)
      BY <2>5, <2>15, <3>5, <3>6 DEF StopsAtLease
    <3>8. i # j
      BY <3>1, <3>6
    <3>9. m < n
      BY ONLY <2>5, <3>1, <3>2, <3>5, <3>7, <3>8
    <3> QED
      BY <3>9, <3>3
  <2> QED
    BY <2>3, <2>12, <2>14, <2>15 DEF Searched
<1> QED
  BY <1>1, InvHolds, PTL

-----------------------------------------------------------------------------
(* The names of configuration files.                                       *)

\* A byte is written as its two halves, whatever sign a char gives it.
LEMMA HexOfByte ==
    ASSUME NEW byte \in Byte, NEW digits
    PROVE  /\ Hex(Signed(byte), digits) = <<digits[byte \div 16 + 1], digits[(byte % 16) + 1]>>
           /\ byte \div 16 + 1 \in 1..16 /\ (byte % 16) + 1 \in 1..16
BY DEF Hex, Signed, Byte

LEMMA HexOfRemainder ==
    ASSUME NEW n, NEW byte \in Byte, n % 256 = byte, n \in Int, NEW digits
    PROVE  Hex(n, digits) = <<digits[byte \div 16 + 1], digits[(byte % 16) + 1]>>
BY DEF Hex, Byte

\* The lowest byte of an int.
LEMMA Lowest ==
    ASSUME NEW byte \in Byte, NEW rest \in Int, NEW n, n = byte + rest * 256
    PROVE  n % 256 = byte
BY SMT DEF Byte

\* The bytes of an int, of which the last one may carry the sign.
LEMMA BytesOfInt ==
    ASSUME NEW a \in Byte, NEW b \in Byte, NEW c \in Byte, NEW d \in Byte, NEW ip,
           ip = a * 1 + b * 256 + c * 65536 + Signed(d) * 16777216
    PROVE  /\ (ip \div 1) % 256 = a
           /\ (ip \div 256) % 256 = b
           /\ (ip \div 65536) % 256 = c
           /\ (ip \div 16777216) % 256 = d
<1>1. Signed(d) \in Int /\ Signed(d) % 256 = d
  BY SMT DEF Byte, Signed
<1>2. PICK s \in Int : s = Signed(d)
  BY <1>1
<1>3. ip = a * 1 + b * 256 + c * 65536 + s * 16777216
  BY <1>2
<1>4. ip \in Int
  BY SMT, <1>3 DEF Byte
<1>5. /\ ip \div 1 = a + (b + c * 256 + s * 65536) * 256
      /\ ip \div 256 = b + (c + s * 256) * 256
      /\ ip \div 65536 = c + s * 256
      /\ ip \div 16777216 = s
  BY SMT, <1>3, <1>4 DEF Byte
<1>6. b + c * 256 + s * 65536 \in Int /\ c + s * 256 \in Int
  BY SMT DEF Byte
<1>7. (ip \div 1) % 256 = a
  BY SMT, <1>5, <1>6, Lowest
<1>8. (ip \div 256) % 256 = b
  BY SMT, <1>5, <1>6, Lowest
<1>9. (ip \div 65536) % 256 = c
  BY SMT, <1>5, Lowest
<1>10. (ip \div 16777216) % 256 = d
  BY SMT, <1>1, <1>2, <1>5
<1> QED
  BY <1>7, <1>8, <1>9, <1>10

\* What is behind what is there.
LEMMA ConcatenationIs ==
    ASSUME NEW C, NEW s \in Seq(C), NEW t \in Seq(C)
    PROVE  /\ s \o t \in Seq(C)
           /\ Len(s \o t) = Len(s) + Len(t)
           /\ \A i \in 1..Len(s) + Len(t) :
                  (s \o t)[i] = IF i <= Len(s) THEN s[i] ELSE t[i - Len(s)]
OBVIOUS

\* Pieces of two and of three characters, one behind the other.
LEMMA AddsTwo ==
    ASSUME NEW C, NEW s \in Seq(C), NEW t \in Seq(C), Len(t) = 2
    PROVE  /\ s \o t \in Seq(C) /\ Len(s \o t) = Len(s) + 2
           /\ \A i \in 1..Len(s) : (s \o t)[i] = s[i]
           /\ (s \o t)[Len(s) + 1] = t[1] /\ (s \o t)[Len(s) + 2] = t[2]
<1>1. /\ s \o t \in Seq(C) /\ Len(s \o t) = Len(s) + Len(t)
      /\ \A i \in 1..Len(s) + Len(t) :
             (s \o t)[i] = IF i <= Len(s) THEN s[i] ELSE t[i - Len(s)]
  BY ConcatenationIs
<1> DEFINE r == s \o t
<1> HIDE DEF r
<1> QED
  BY <1>1 DEF r

LEMMA AddsThree ==
    ASSUME NEW C, NEW s \in Seq(C), NEW t \in Seq(C), Len(t) = 3
    PROVE  /\ s \o t \in Seq(C) /\ Len(s \o t) = Len(s) + 3
           /\ \A i \in 1..Len(s) : (s \o t)[i] = s[i]
           /\ (s \o t)[Len(s) + 1] = t[1] /\ (s \o t)[Len(s) + 2] = t[2]
           /\ (s \o t)[Len(s) + 3] = t[3]
<1>1. /\ s \o t \in Seq(C) /\ Len(s \o t) = Len(s) + Len(t)
      /\ \A i \in 1..Len(s) + Len(t) :
             (s \o t)[i] = IF i <= Len(s) THEN s[i] ELSE t[i - Len(s)]
  BY ConcatenationIs
<1> DEFINE r == s \o t
<1> HIDE DEF r
<1> QED
  BY <1>1 DEF r

Joined4(p1, p2, p3, p4) == p1 \o p2 \o p3 \o p4
Joined6(p1, p2, p3, p4, p5, p6) == p1 \o p2 \o p3 \o p4 \o p5 \o p6

LEMMA FourPairs ==
    ASSUME NEW C, NEW p1 \in Seq(C), NEW p2 \in Seq(C), NEW p3 \in Seq(C), NEW p4 \in Seq(C),
           Len(p1) = 2, Len(p2) = 2, Len(p3) = 2, Len(p4) = 2
    PROVE  LET r == Joined4(p1, p2, p3, p4)
           IN  /\ r \in Seq(C) /\ Len(r) = 8
               /\ r[1] = p1[1] /\ r[2] = p1[2] /\ r[3] = p2[1] /\ r[4] = p2[2]
               /\ r[5] = p3[1] /\ r[6] = p3[2] /\ r[7] = p4[1] /\ r[8] = p4[2]
<1> DEFINE two == p1 \o p2
           three == two \o p3
           four == three \o p4
<1>1. /\ two \in Seq(C) /\ Len(two) = 4 /\ \A i \in 1..2 : two[i] = p1[i]
      /\ two[3] = p2[1] /\ two[4] = p2[2]
  <2>1. /\ two \in Seq(C) /\ Len(two) = Len(p1) + 2
        /\ \A i \in 1..Len(p1) : two[i] = p1[i]
        /\ two[Len(p1) + 1] = p2[1] /\ two[Len(p1) + 2] = p2[2]
    BY AddsTwo
  <2>2. Len(p1) = 2 /\ Len(p1) + 1 = 3 /\ Len(p1) + 2 = 4
    OBVIOUS
  <2> HIDE DEF two
  <2> QED
    BY ONLY <2>1, <2>2
<1> HIDE DEF two
<1>2. /\ three \in Seq(C) /\ Len(three) = 6 /\ \A i \in 1..4 : three[i] = two[i]
      /\ three[5] = p3[1] /\ three[6] = p3[2]
  <2>1. /\ three \in Seq(C) /\ Len(three) = Len(two) + 2
        /\ \A i \in 1..Len(two) : three[i] = two[i]
        /\ three[Len(two) + 1] = p3[1] /\ three[Len(two) + 2] = p3[2]
    BY <1>1, AddsTwo
  <2>2. Len(two) = 4 /\ Len(two) + 1 = 5 /\ Len(two) + 2 = 6
    BY <1>1
  <2> HIDE DEF three
  <2> QED
    BY ONLY <2>1, <2>2
<1> HIDE DEF three
<1>3. /\ four \in Seq(C) /\ Len(four) = 8 /\ \A i \in 1..6 : four[i] = three[i]
      /\ four[7] = p4[1] /\ four[8] = p4[2]
  <2>1. /\ four \in Seq(C) /\ Len(four) = Len(three) + 2
        /\ \A i \in 1..Len(three) : four[i] = three[i]
        /\ four[Len(three) + 1] = p4[1] /\ four[Len(three) + 2] = p4[2]
    BY <1>2, AddsTwo
  <2>2. Len(three) = 6 /\ Len(three) + 1 = 7 /\ Len(three) + 2 = 8
    BY <1>2
  <2> HIDE DEF four
  <2> QED
    BY ONLY <2>1, <2>2
<1> HIDE DEF four
<1> QED
  <2>1. Joined4(p1, p2, p3, p4) = four
    BY DEF Joined4, two, three, four
  <2> QED
    BY ONLY <1>1, <1>2, <1>3, <2>1

LEMMA SixPieces ==
    ASSUME NEW C, NEW p1 \in Seq(C), NEW p2 \in Seq(C), NEW p3 \in Seq(C),
           NEW p4 \in Seq(C), NEW p5 \in Seq(C), NEW p6 \in Seq(C), Len(p1) = 2,
           Len(p2) = 3, Len(p3) = 3, Len(p4) = 3, Len(p5) = 3, Len(p6) = 3
    PROVE  LET r == Joined6(p1, p2, p3, p4, p5, p6)
           IN  /\ r \in Seq(C) /\ Len(r) = 17
               /\ r[1] = p1[1] /\ r[2] = p1[2]
               /\ r[3] = p2[1] /\ r[4] = p2[2] /\ r[5] = p2[3]
               /\ r[6] = p3[1] /\ r[7] = p3[2] /\ r[8] = p3[3]
               /\ r[9] = p4[1] /\ r[10] = p4[2] /\ r[11] = p4[3]
               /\ r[12] = p5[1] /\ r[13] = p5[2] /\ r[14] = p5[3]
               /\ r[15] = p6[1] /\ r[16] = p6[2] /\ r[17] = p6[3]
<1> DEFINE two == p1 \o p2
           three == two \o p3
           four == three \o p4
           five == four \o p5
           six == five \o p6
<1>1. /\ two \in Seq(C) /\ Len(two) = 5 /\ \A i \in 1..2 : two[i] = p1[i]
      /\ two[3] = p2[1] /\ two[4] = p2[2] /\ two[5] = p2[3]
  <2>1. /\ two \in Seq(C) /\ Len(two) = Len(p1) + 3
        /\ \A i \in 1..Len(p1) : two[i] = p1[i]
        /\ two[Len(p1) + 1] = p2[1] /\ two[Len(p1) + 2] = p2[2] /\ two[Len(p1) + 3] = p2[3]
    BY AddsThree
  <2>2. Len(p1) = 2 /\ Len(p1) + 1 = 3 /\ Len(p1) + 2 = 4 /\ Len(p1) + 3 = 5
    OBVIOUS
  <2> HIDE DEF two
  <2> QED
    BY ONLY <2>1, <2>2
<1> HIDE DEF two
<1>2. /\ three \in Seq(C) /\ Len(three) = 8 /\ \A i \in 1..5 : three[i] = two[i]
      /\ three[6] = p3[1] /\ three[7] = p3[2] /\ three[8] = p3[3]
  <2>1. /\ three \in Seq(C) /\ Len(three) = Len(two) + 3
        /\ \A i \in 1..Len(two) : three[i] = two[i]
        /\ three[Len(two) + 1] = p3[1] /\ three[Len(two) + 2] = p3[2] /\ three[Len(two) + 3] = p3[3]
    BY <1>1, AddsThree
  <2>2. Len(two) = 5 /\ Len(two) + 1 = 6 /\ Len(two) + 2 = 7 /\ Len(two) + 3 = 8
    BY <1>1
  <2> HIDE DEF three
  <2> QED
    BY ONLY <2>1, <2>2
<1> HIDE DEF three
<1>3. /\ four \in Seq(C) /\ Len(four) = 11 /\ \A i \in 1..8 : four[i] = three[i]
      /\ four[9] = p4[1] /\ four[10] = p4[2] /\ four[11] = p4[3]
  <2>1. /\ four \in Seq(C) /\ Len(four) = Len(three) + 3
        /\ \A i \in 1..Len(three) : four[i] = three[i]
        /\ four[Len(three) + 1] = p4[1] /\ four[Len(three) + 2] = p4[2] /\ four[Len(three) + 3] = p4[3]
    BY <1>2, AddsThree
  <2>2. Len(three) = 8 /\ Len(three) + 1 = 9 /\ Len(three) + 2 = 10 /\ Len(three) + 3 = 11
    BY <1>2
  <2> HIDE DEF four
  <2> QED
    BY ONLY <2>1, <2>2
<1> HIDE DEF four
<1>4. /\ five \in Seq(C) /\ Len(five) = 14 /\ \A i \in 1..11 : five[i] = four[i]
      /\ five[12] = p5[1] /\ five[13] = p5[2] /\ five[14] = p5[3]
  <2>1. /\ five \in Seq(C) /\ Len(five) = Len(four) + 3
        /\ \A i \in 1..Len(four) : five[i] = four[i]
        /\ five[Len(four) + 1] = p5[1] /\ five[Len(four) + 2] = p5[2] /\ five[Len(four) + 3] = p5[3]
    BY <1>3, AddsThree
  <2>2. Len(four) = 11 /\ Len(four) + 1 = 12 /\ Len(four) + 2 = 13 /\ Len(four) + 3 = 14
    BY <1>3
  <2> HIDE DEF five
  <2> QED
    BY ONLY <2>1, <2>2
<1> HIDE DEF five
<1>5. /\ six \in Seq(C) /\ Len(six) = 17 /\ \A i \in 1..14 : six[i] = five[i]
      /\ six[15] = p6[1] /\ six[16] = p6[2] /\ six[17] = p6[3]
  <2>1. /\ six \in Seq(C) /\ Len(six) = Len(five) + 3
        /\ \A i \in 1..Len(five) : six[i] = five[i]
        /\ six[Len(five) + 1] = p6[1] /\ six[Len(five) + 2] = p6[2] /\ six[Len(five) + 3] = p6[3]
    BY <1>4, AddsThree
  <2>2. Len(five) = 14 /\ Len(five) + 1 = 15 /\ Len(five) + 2 = 16 /\ Len(five) + 3 = 17
    BY <1>4
  <2> HIDE DEF six
  <2> QED
    BY ONLY <2>1, <2>2
<1> HIDE DEF six
<1>6. /\ three[1] = p1[1] /\ three[2] = p1[2] /\ three[3] = p2[1]
      /\ three[4] = p2[2] /\ three[5] = p2[3]
  BY <1>1, <1>2
<1>7. \A i \in 1..8 : six[i] = three[i]
  BY <1>3, <1>4, <1>5
<1>8. \A i \in 9..11 : six[i] = four[i]
  BY <1>4, <1>5
<1>9. \A i \in 12..14 : six[i] = five[i]
  BY <1>5
<1> QED
  <2>1. Joined6(p1, p2, p3, p4, p5, p6) = six
    BY DEF Joined6, two, three, four, five, six
  <2>2. /\ six[1] = p1[1] /\ six[2] = p1[2]
        /\ six[3] = p2[1] /\ six[4] = p2[2] /\ six[5] = p2[3]
    BY ONLY <1>6, <1>7
  <2>5. six[6] = p3[1] /\ six[7] = p3[2] /\ six[8] = p3[3]
    BY ONLY <1>2, <1>7
  <2>3. six[9] = p4[1] /\ six[10] = p4[2] /\ six[11] = p4[3]
    BY ONLY <1>3, <1>8
  <2>4. six[12] = p5[1] /\ six[13] = p5[2] /\ six[14] = p5[3]
    BY ONLY <1>4, <1>9
  <2> QED
    BY ONLY <1>5, <2>1, <2>2, <2>3, <2>4, <2>5

\* The first characters of eight.
LEMMA BeginningOfEight ==
    ASSUME NEW C, NEW s \in Seq(C), Len(s) = 8, NEW n \in 1..8
    PROVE  /\ Len(SubSeq(s, 1, 8 - (n - 1))) = 9 - n
           /\ \A k \in 1..9 - n : k \in 1..8 /\ SubSeq(s, 1, 8 - (n - 1))[k] = s[k]
OBVIOUS

\* The addresses of an interface are the ones of the interface of its name.
LEMMA AddressesOf ==
    ASSUME NEW x \in Interface
    PROVE  /\ x.name \in Names
           /\ HwAddress[x.name] \in [1..6 -> Byte]
           /\ Address[x.name] \in [1..4 -> Byte]
           /\ x.mac = [i \in 1..6 |-> Signed(HwAddress[x.name][i])]
           /\ x.ip = Address[x.name][1] * Weight[1] + Address[x.name][2] * Weight[2]
                         + Address[x.name][3] * Weight[3]
                         + Signed(Address[x.name][4]) * Weight[4]
<1> DEFINE mac(n) == [i \in 1..6 |-> Signed(HwAddress[n][i])]
           ip(n) == Address[n][1] * Weight[1] + Address[n][2] * Weight[2]
                        + Address[n][3] * Weight[3] + Signed(Address[n][4]) * Weight[4]
<1>1. \A n : /\ Described(n).mac = mac(n) /\ Described(n).ip = ip(n)
             /\ Described(n).name = n
             /\ DOMAIN Described(n)
                    = {"valid", "up", "name", "dhcpServer", "mac", "ip"}
  <2> SUFFICES ASSUME NEW n
               PROVE  /\ Described(n).mac = mac(n) /\ Described(n).ip = ip(n)
                      /\ Described(n).name = n
                      /\ DOMAIN Described(n)
                             = {"valid", "up", "name", "dhcpServer", "mac", "ip"}
    OBVIOUS
  <2> DEFINE up == SetUp(NewInterface(n, NoServer), TRUE)
  <2>1. Described(n) = [[up EXCEPT !.mac = mac(n)] EXCEPT !.ip = ip(n)]
    BY Zenon DEF Described, SetIp, SetMac
  <2>2. DOMAIN up = {"valid", "up", "name", "dhcpServer", "mac", "ip"}
    BY DEF SetUp, NewInterface, NoInterface
  <2> HIDE DEF up, mac, ip
  <2>3. Described(n).mac = mac(n) /\ Described(n).ip = ip(n)
    BY ONLY <2>1, <2>2
  <2> QED
    BY <2>3, DescribedFields
<1> HIDE DEF mac, ip
<1>2. \A n, s : /\ SetDHCPServerIP(Described(n), s).mac = mac(n)
                /\ SetDHCPServerIP(Described(n), s).ip = ip(n)
                /\ SetDHCPServerIP(Described(n), s).name = n
  BY <1>1 DEF SetDHCPServerIP
<1>3. x.mac = mac(x.name) /\ x.ip = ip(x.name)
  BY <1>1, <1>2 DEF Interface
<1>4. x.name \in Names
  BY InterfaceNames DEF Real
<1> QED
  BY <1>3, <1>4, NetworkHelperAssumption DEF mac, ip

Half(address, k) ==
    LET byte == address[(k + 1) \div 2]
    IN  IF k % 2 = 1 THEN byte \div 16 ELSE byte % 16

\* The IP address of an interface is written half byte by half byte, in the
\* order of the network.
LEMMA IpIs ==
    ASSUME NEW x \in Interface
    PROVE  /\ GetIp(x) \in Seq({UpperDigits[i] : i \in 1..16})
           /\ Len(GetIp(x)) = 8
           /\ \A k \in 1..8 : GetIp(x)[k] = UpperDigits[Half(Address[x.name], k) + 1]
<1> DEFINE C == {UpperDigits[i] : i \in 1..16}
           address == Address[x.name]
           byte(i) == Hex(x.ip \div Weight[i], UpperDigits)
<1>1. \A i \in 1..4 : address[i] \in Byte
  BY AddressesOf
<1> DEFINE high(i) == UpperDigits[address[i] \div 16 + 1]
           low(i) == UpperDigits[(address[i] % 16) + 1]
<1>2. \A i \in 1..4 : high(i) \in C /\ low(i) \in C
  <2> SUFFICES ASSUME NEW i \in 1..4
               PROVE  high(i) \in C /\ low(i) \in C
    OBVIOUS
  <2>1. address[i] \div 16 + 1 \in 1..16 /\ (address[i] % 16) + 1 \in 1..16
    BY <1>1, HexOfByte
  <2> QED
    BY <2>1
<1>3. /\ Weight[1] = 1 /\ Weight[2] = 256 /\ Weight[3] = 65536 /\ Weight[4] = 16777216
  BY SMT DEF Weight
<1>4. x.ip = address[1] * 1 + address[2] * 256 + address[3] * 65536
                 + Signed(address[4]) * 16777216
  <2>1. x.ip = address[1] * Weight[1] + address[2] * Weight[2]
                   + address[3] * Weight[3] + Signed(address[4]) * Weight[4]
    BY AddressesOf
  <2> HIDE DEF address
  <2> QED
    BY SMT, <1>3, <2>1
<1>5. \A i \in 1..4 : (x.ip \div Weight[i]) % 256 = address[i]
  BY SMT, <1>1, <1>3, <1>4, BytesOfInt
<1>13. \A i \in 1..4 : x.ip \div Weight[i] \in Int
  <2>1. Signed(address[4]) \in Int
    BY SMT, <1>1 DEF Byte, Signed
  <2> HIDE DEF address
  <2>2. x.ip \in Int
    <3>1. \A a, b, c \in Byte : \A s \in Int :
              a * 1 + b * 256 + c * 65536 + s * 16777216 \in Int
      BY SMT DEF Byte
    <3>2. address[1] \in Byte /\ address[2] \in Byte /\ address[3] \in Byte
      BY <1>1
    <3> QED
      BY SMT, <1>4, <2>1, <3>1, <3>2
  <2> QED
    BY SMT, <1>3, <2>2
<1>6. \A i \in 1..4 : byte(i) = <<high(i), low(i)>>
  <2> SUFFICES ASSUME NEW i \in 1..4
               PROVE  byte(i) = <<high(i), low(i)>>
    OBVIOUS
  <2> DEFINE n == x.ip \div Weight[i]
  <2>1. n % 256 = address[i] /\ address[i] \in Byte
    BY <1>1, <1>5
  <2>3. n \in Int
    BY <1>13
  <2> HIDE DEF n, address
  <2>2. Hex(n, UpperDigits) = <<high(i), low(i)>>
    BY <2>1, <2>3, HexOfRemainder
  <2> QED
    BY <2>2 DEF n
<1> HIDE DEF C, high, low, byte, address
<1>7. \A i \in 1..4 : /\ byte(i) \in Seq(C) /\ Len(byte(i)) = 2
                      /\ byte(i)[1] = high(i) /\ byte(i)[2] = low(i)
  <2> SUFFICES ASSUME NEW i \in 1..4
               PROVE  /\ byte(i) \in Seq(C) /\ Len(byte(i)) = 2
                      /\ byte(i)[1] = high(i) /\ byte(i)[2] = low(i)
    OBVIOUS
  <2>1. PICK a, b \in C : a = high(i) /\ b = low(i)
    BY <1>2
  <2>2. byte(i) = <<a, b>>
    BY <1>6, <2>1
  <2> QED
    BY <2>1, <2>2
<1> DEFINE four == Joined4(byte(1), byte(2), byte(3), byte(4))
<1>8. /\ byte(1) \in Seq(C) /\ Len(byte(1)) = 2 /\ byte(2) \in Seq(C) /\ Len(byte(2)) = 2
      /\ byte(3) \in Seq(C) /\ Len(byte(3)) = 2 /\ byte(4) \in Seq(C) /\ Len(byte(4)) = 2
  BY <1>7
<1>9. /\ four \in Seq(C) /\ Len(four) = 8
      /\ four[1] = byte(1)[1] /\ four[2] = byte(1)[2]
      /\ four[3] = byte(2)[1] /\ four[4] = byte(2)[2]
      /\ four[5] = byte(3)[1] /\ four[6] = byte(3)[2]
      /\ four[7] = byte(4)[1] /\ four[8] = byte(4)[2]
  BY <1>8, FourPairs
<1>10. GetIp(x) = four
  BY DEF GetIp, Joined4, byte
<1> HIDE DEF four
<1>11. /\ four[1] = high(1) /\ four[2] = low(1) /\ four[3] = high(2)
       /\ four[4] = low(2) /\ four[5] = high(3) /\ four[6] = low(3)
       /\ four[7] = high(4) /\ four[8] = low(4)
  BY <1>7, <1>9
<1>12. ASSUME NEW k \in 1..8
       PROVE  four[k] = UpperDigits[Half(address, k) + 1]
  <2>1. CASE k \in {1, 3, 5, 7}
    <3>1. k % 2 = 1 /\ (k + 1) \div 2 \in 1..4 /\ four[k] = high((k + 1) \div 2)
      BY <1>11, <2>1
    <3> QED
      BY <3>1 DEF Half, high
  <2>2. CASE k \in {2, 4, 6, 8}
    <3>1. k % 2 = 0 /\ (k + 1) \div 2 \in 1..4 /\ four[k] = low((k + 1) \div 2)
      BY <1>11, <2>2
    <3> QED
      BY <3>1 DEF Half, low
  <2> QED
    BY <2>1, <2>2
<1> QED
  BY <1>9, <1>10, <1>12 DEF C, address

\* The hardware address: the digits of the bytes, a dash in front of all but
\* the first.
LEMMA MacIs ==
    ASSUME NEW x \in Interface
    PROVE  LET mac == GetMac(x, {"lowercase", "dash"})
               address == HwAddress[x.name]
           IN  /\ mac \in Seq({LowerDigits[i] : i \in 1..16} \union {"-"})
               /\ Len(mac) = 17
               /\ \A k \in 1..6 :
                      /\ mac[3 * k - 2] = LowerDigits[address[k] \div 16 + 1]
                      /\ mac[3 * k - 1] = LowerDigits[(address[k] % 16) + 1]
                      /\ k < 6 => mac[3 * k] = "-"
<1> DEFINE C == {LowerDigits[i] : i \in 1..16} \union {"-"}
           address == HwAddress[x.name]
           byte(i) == Hex(x.mac[i], LowerDigits)
           next(i) == <<"-">> \o byte(i)
           high(i) == LowerDigits[address[i] \div 16 + 1]
           low(i) == LowerDigits[(address[i] % 16) + 1]
<1>1. \A i \in 1..6 : address[i] \in Byte /\ x.mac[i] = Signed(address[i])
  BY AddressesOf
<1>2. \A i \in 1..6 : /\ high(i) \in C /\ low(i) \in C
                      /\ byte(i) = <<high(i), low(i)>>
  <2> SUFFICES ASSUME NEW i \in 1..6
               PROVE  high(i) \in C /\ low(i) \in C /\ byte(i) = <<high(i), low(i)>>
    OBVIOUS
  <2>1. /\ address[i] \div 16 + 1 \in 1..16 /\ (address[i] % 16) + 1 \in 1..16
        /\ byte(i) = <<high(i), low(i)>>
    BY <1>1, HexOfByte
  <2> QED
    BY <2>1
<1>3. "-" \in C
  OBVIOUS
<1> HIDE DEF C, high, low, byte, address
<1>4. \A i \in 1..6 : /\ byte(i) \in Seq(C) /\ Len(byte(i)) = 2
                      /\ byte(i)[1] = high(i) /\ byte(i)[2] = low(i)
                      /\ next(i) \in Seq(C) /\ Len(next(i)) = 3
                      /\ next(i)[1] = "-" /\ next(i)[2] = high(i) /\ next(i)[3] = low(i)
  <2> SUFFICES ASSUME NEW i \in 1..6
               PROVE  /\ byte(i) \in Seq(C) /\ Len(byte(i)) = 2
                      /\ byte(i)[1] = high(i) /\ byte(i)[2] = low(i)
                      /\ next(i) \in Seq(C) /\ Len(next(i)) = 3
                      /\ next(i)[1] = "-" /\ next(i)[2] = high(i) /\ next(i)[3] = low(i)
    OBVIOUS
  <2>1. PICK a, b \in C : a = high(i) /\ b = low(i)
    BY <1>2
  <2>2. PICK d \in C : d = "-"
    BY <1>3
  <2>3. byte(i) = <<a, b>> /\ next(i) = <<d>> \o <<a, b>>
    BY <1>2, <2>1, <2>2
  <2> QED
    BY <2>1, <2>2, <2>3
<1> HIDE DEF next
<1> DEFINE six == Joined6(byte(1), next(2), next(3), next(4), next(5), next(6))
<1>5. /\ byte(1) \in Seq(C) /\ Len(byte(1)) = 2 /\ next(2) \in Seq(C) /\ Len(next(2)) = 3
      /\ next(3) \in Seq(C) /\ Len(next(3)) = 3 /\ next(4) \in Seq(C) /\ Len(next(4)) = 3
      /\ next(5) \in Seq(C) /\ Len(next(5)) = 3 /\ next(6) \in Seq(C) /\ Len(next(6)) = 3
  BY <1>4
<1>6. /\ six \in Seq(C) /\ Len(six) = 17
      /\ six[1] = byte(1)[1] /\ six[2] = byte(1)[2]
      /\ six[3] = next(2)[1] /\ six[4] = next(2)[2] /\ six[5] = next(2)[3]
      /\ six[6] = next(3)[1] /\ six[7] = next(3)[2] /\ six[8] = next(3)[3]
      /\ six[9] = next(4)[1] /\ six[10] = next(4)[2] /\ six[11] = next(4)[3]
      /\ six[12] = next(5)[1] /\ six[13] = next(5)[2] /\ six[14] = next(5)[3]
      /\ six[15] = next(6)[1] /\ six[16] = next(6)[2] /\ six[17] = next(6)[3]
  BY <1>5, SixPieces
<1>7. GetMac(x, {"lowercase", "dash"}) = six
  BY DEF GetMac, Joined6, byte, next
<1> HIDE DEF six
<1>8. /\ six[1] = high(1) /\ six[2] = low(1) /\ six[3] = "-"
      /\ six[4] = high(2) /\ six[5] = low(2) /\ six[6] = "-"
      /\ six[7] = high(3) /\ six[8] = low(3) /\ six[9] = "-"
      /\ six[10] = high(4) /\ six[11] = low(4) /\ six[12] = "-"
      /\ six[13] = high(5) /\ six[14] = low(5) /\ six[15] = "-"
      /\ six[16] = high(6) /\ six[17] = low(6)
  BY <1>4, <1>6
<1>9. ASSUME NEW k \in 1..6
      PROVE  /\ six[3 * k - 2] = high(k)
             /\ six[3 * k - 1] = low(k)
             /\ k < 6 => six[3 * k] = "-"
  BY <1>8
<1> QED
  BY <1>6, <1>7, <1>9 DEF C, address, high, low

\* The search starts with the names of the interface in use.
NamesInv == pc = "search" => names = ClientNames

LEMMA NextNames ==
    ASSUME TypeInv, NamesInv, [Next]_vars
    PROVE  NamesInv'
<1>1. CASE pc' # "search"
  BY <1>1 DEF NamesInv
<1>2. CASE ChooseHost
  <2>1. netif' = netif /\ (pc' = "search" => names' = ClientNames)
    BY <1>2 DEF ChooseHost, Throw, files
  <2> QED
    BY <2>1 DEF NamesInv, ClientNames
<1>3. CASE UNCHANGED vars
  BY <1>3 DEF vars, NamesInv, ClientNames
<1>4. CASE \/ DetectInterface \/ InterfacesDetected \/ NoInfo \/ NoLease
           \/ DetectInterfacesThrows \/ RequestedDoesNotExist \/ NoInterfaces
  <2>1. pc' # "search"
    BY <1>4 DEF DetectInterface, InterfacesDetected, NoInfo, NoLease, Goto,
       DetectInterfacesThrows, RequestedDoesNotExist, NoInterfaces, Throw
  <2> QED
    BY <1>1, <2>1
<1>5. CASE ReadInfo \/ ReadLeases
  <2>1. pc' # "search"
    BY <1>5, ReadInfoSteps, ReadLeasesSteps DEF ReadInfo, ReadLeases, Served, NextInterface
  <2> QED
    BY <1>1, <2>1
<1>6. CASE UseRequested \/ UseFirst
  <2>1. pc' # "search"
    BY <1>6 DEF UseRequested, UseFirst, Use
  <2> QED
    BY <1>1, <2>1
<1> QED
  BY <1>2, <1>3, <1>4, <1>5, <1>6 DEF Next, Done

\* The names in the order they are looked for.
LEMMA NamesOf ==
    /\ ClientNames[0] = <<"0", "1", "-">> \o GetMac(netif, {"lowercase", "dash"})
    /\ \A n \in 1..8 : ClientNames[n] = SubSeq(GetIp(netif), 1, 8 - (n - 1))
BY DEF ClientNames

\* The names are the ones pxelinux looks for on that interface, whatever its
\* addresses are.
THEOREM NamesAreItsOwn == Spec => []NamesAreTheClients
<1>1. Init => NamesInv
  BY DEF Init, NamesInv
<1>2. Inv /\ NamesInv /\ [Next]_vars => NamesInv'
  BY NextNames DEF Inv
<1>3. Inv /\ NamesInv => NamesAreTheClients
  <2> SUFFICES ASSUME Inv, pc = "search", names = ClientNames
               PROVE  NamesAreTheClients
    BY DEF NamesInv, NamesAreTheClients
  <2>1. netif \in Interface
    BY DEF Inv, TypeInv, Using
  <2>2. /\ Len(names[0]) = 20
        /\ \A k \in 0..6 :
               /\ names[0][3 * k + 1] = LowerDigits[Octet(k) \div 16 + 1]
               /\ names[0][3 * k + 2] = LowerDigits[(Octet(k) % 16) + 1]
               /\ k < 6 => names[0][3 * k + 3] = "-"
    <3> DEFINE mac == GetMac(netif, {"lowercase", "dash"})
               address == HwAddress[netif.name]
               C == {LowerDigits[i] : i \in 1..16} \union {"-"}
    <3>1. /\ mac \in Seq(C) /\ Len(mac) = 17
          /\ \A k \in 1..6 : /\ mac[3 * k - 2] = LowerDigits[address[k] \div 16 + 1]
                             /\ mac[3 * k - 1] = LowerDigits[(address[k] % 16) + 1]
                             /\ k < 6 => mac[3 * k] = "-"
      BY <2>1, MacIs
    <3>2. LowerDigits[1] = "0" /\ LowerDigits[2] = "1"
      BY DEF LowerDigits
    <3>3. LowerDigits[1] \in C /\ LowerDigits[2] \in C /\ "-" \in C
      OBVIOUS
    <3> HIDE DEF mac, C, address
    <3> DEFINE start == <<"0", "1", "-">>
               name == start \o mac
    <3>4. /\ start \in Seq(C) /\ Len(start) = 3
          /\ start[1] = "0" /\ start[2] = "1" /\ start[3] = "-"
      BY <3>2, <3>3
    <3> HIDE DEF start
    <3>5. /\ Len(name) = Len(start) + Len(mac)
          /\ \A i \in 1..Len(start) + Len(mac) :
                 name[i] = IF i <= Len(start) THEN start[i] ELSE mac[i - Len(start)]
      BY <3>1, <3>4, ConcatenationIs
    <3> HIDE DEF name
    <3>6. /\ Len(name) = 20 /\ name[1] = "0" /\ name[2] = "1" /\ name[3] = "-"
          /\ \A i \in 4..20 : name[i] = mac[i - 3]
      BY ONLY <3>1, <3>4, <3>5
    <3>7. names[0] = name
      BY NamesOf DEF name, start, mac
    <3>8. ASSUME NEW k \in 0..6
          PROVE  /\ name[3 * k + 1] = LowerDigits[Octet(k) \div 16 + 1]
                 /\ name[3 * k + 2] = LowerDigits[(Octet(k) % 16) + 1]
                 /\ k < 6 => name[3 * k + 3] = "-"
      <4>1. CASE k = 0
        <5>1. Octet(k) = 1 /\ 1 \div 16 + 1 = 1 /\ (1 % 16) + 1 = 2
          BY <4>1 DEF Octet
        <5> QED
          BY <3>2, <3>6, <4>1, <5>1
      <4>2. CASE k # 0
        <5>1. k \in 1..6 /\ Octet(k) = address[k]
          BY <4>2 DEF Octet, address
        <5>2. /\ 3 * k + 1 \in 4..20 /\ 3 * k + 1 - 3 = 3 * k - 2
              /\ 3 * k + 2 \in 4..20 /\ 3 * k + 2 - 3 = 3 * k - 1
              /\ k < 6 => 3 * k + 3 \in 4..20 /\ 3 * k + 3 - 3 = 3 * k
          BY <5>1
        <5> QED
          BY <3>1, <3>6, <5>1, <5>2
      <4> QED
        BY <4>1, <4>2
    <3> QED
      BY <3>6, <3>7, <3>8
  <2>3. \A n \in 1..8 : /\ Len(names[n]) = 9 - n
                        /\ \A k \in 1..9 - n : names[n][k] = UpperDigits[Nibble(k) + 1]
    <3> SUFFICES ASSUME NEW n \in 1..8
                 PROVE  /\ Len(names[n]) = 9 - n
                        /\ \A k \in 1..9 - n : names[n][k] = UpperDigits[Nibble(k) + 1]
      OBVIOUS
    <3> DEFINE ip == GetIp(netif)
               C == {UpperDigits[i] : i \in 1..16}
    <3>1. /\ ip \in Seq(C) /\ Len(ip) = 8
          /\ \A k \in 1..8 : ip[k] = UpperDigits[Half(Address[netif.name], k) + 1]
      BY <2>1, IpIs
    <3>2. names[n] = SubSeq(ip, 1, 8 - (n - 1))
      BY NamesOf
    <3>3. \A k : Nibble(k) = Half(Address[netif.name], k)
      BY DEF Nibble, Half
    <3> HIDE DEF ip, C
    <3>4. /\ Len(SubSeq(ip, 1, 8 - (n - 1))) = 9 - n
          /\ \A k \in 1..9 - n : k \in 1..8 /\ SubSeq(ip, 1, 8 - (n - 1))[k] = ip[k]
      BY <3>1, BeginningOfEight
    <3> QED
      BY ONLY <3>1, <3>2, <3>3, <3>4
  <2> QED
    BY <2>2, <2>3 DEF NamesAreTheClients
<1> QED
  BY <1>1, <1>2, <1>3, InvHolds, PTL DEF Spec
=============================================================================
