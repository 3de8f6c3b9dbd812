-------------------------- MODULE NetworkInterface --------------------------
(***************************************************************************)
(* Network interfaces and the spelling of their addresses (class           *)
(* NetworkInterface, src/src/networkhelper.cc).  An address is the         *)
(* sequence of its bytes as they go over the network, a text the sequence  *)
(* of its characters.  The machine is little-endian, its char is signed    *)
(* and its int has 32 bits.                                                *)
(***************************************************************************)
EXTENDS Integers, Sequences

Byte == 0..255

\* The bits of a byte, as a signed char.
Signed(byte) == IF byte >= 128 THEN byte - 256 ELSE byte

\* What the bytes of an int count, in the order they are in in memory.
Weight == <<1, 256, 65536, 16777216>>

LowerDigits == <<"0", "1", "2", "3", "4", "5", "6", "7", "8", "9",
                 "a", "b", "c", "d", "e", "f">>
UpperDigits == <<"0", "1", "2", "3", "4", "5", "6", "7", "8", "9",
                 "A", "B", "C", "D", "E", "F">>

\* %02hhx and %02X.
Hex(n, digits) == <<digits[(n % 256) \div 16 + 1], digits[(n % 16) + 1]>>

\* NetworkInterface() and NetworkInterface(name).  What the addresses are
\* before they are set is not determined, and nothing reads it.
NoInterface(noName, noServer) ==
    [valid |-> FALSE, up |-> FALSE, name |-> noName, dhcpServer |-> noServer,
     mac |-> [i \in 1..6 |-> 0], ip |-> 0]

NewInterface(name, noServer) ==
    [NoInterface(name, noServer) EXCEPT !.valid = TRUE]

SetUp(interface, up) == [interface EXCEPT !.up = up]

SetMac(interface, data) ==
    [interface EXCEPT !.mac = [i \in 1..6 |-> Signed(data[i])]]

\* s_addr, read as an int: the last byte of the address carries the sign.
SetIp(interface, address) ==
    [interface EXCEPT !.ip = address[1] * Weight[1] + address[2] * Weight[2]
                                 + address[3] * Weight[3]
                                 + Signed(address[4]) * Weight[4]]

SetDHCPServerIP(interface, server) == [interface EXCEPT !.dhcpServer = server]

\* MF_COLON and MF_UPPERCASE are bits of the format; MF_NOSEP is not looked at.
\* A format without a case would throw, and no caller has one.
GetMac(interface, format) ==
    LET sep    == IF "colon" \in format THEN <<":">> ELSE <<"-">>
        digits == IF "uppercase" \in format THEN UpperDigits ELSE LowerDigits
        byte(i) == Hex(interface.mac[i], digits)
        next(i) == sep \o byte(i)
    IN  byte(1) \o next(2) \o next(3) \o next(4) \o next(5) \o next(6)

\* Mutated form: the most significant byte of the number first.
GetIpSwapped(interface) ==
    LET byte(i) == Hex(interface.ip \div Weight[i], UpperDigits)
    IN  byte(4) \o byte(3) \o byte(2) \o byte(1)

\* IF_HEX: the bytes of the number, the least significant one first.
GetIp(interface) ==
    LET byte(i) == Hex(interface.ip \div Weight[i], UpperDigits)
    IN  byte(1) \o byte(2) \o byte(3) \o byte(4)
=============================================================================
