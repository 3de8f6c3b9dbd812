------------------------------ MODULE Console ------------------------------
(***************************************************************************)
(* Virtual consoles (src/src/console.cc): the search for a file descriptor *)
(* that is one, and the switch to another virtual terminal by means of it. *)
(***************************************************************************)
EXTENDS Integers, Sequences

\* A device file: can it be opened for reading, for writing or for both, and
\* does it answer KDGKBTYPE as a console does?
Device == [modes : SUBSET {"rw", "w", "r"}, console : BOOLEAN]

\* openConsoleFd() asks for a poorer mode only if the richer one is denied; a
\* device that is not there has none.
CanOpen(device) == device.modes # {}

Streams == 0..2

\* A file descriptor: -1 for none, a standard stream, or 3 for one opened here.
NoFd == [fd |-> -1, console |-> FALSE]
Opened(device) == [fd |-> 3, console |-> device.console]
Stream(n) == [fd |-> n, console |-> TRUE]

Least(S) == CHOOSE n \in S : \A m \in S : n <= m

\* Mutated form: a device is not asked whether it is a console.
OpenConsoleFdUnasked(terminals, streams) ==
    IF CanOpen(terminals[1]) THEN Opened(terminals[1]) ELSE NoFd

\* openConsoleFd() on the device files in their order, then on the standard
\* streams that are consoles.  The first device that cannot be opened ends the
\* search as the first console does.
OpenConsoleFd(terminals, streams) ==
    LET ends  == {i \in DOMAIN terminals : ~CanOpen(terminals[i])
                                           \/ terminals[i].console}
        first == terminals[Least(ends)]
    IN  IF ends # {} THEN IF CanOpen(first) THEN Opened(first) ELSE NoFd
        ELSE IF streams # {} THEN Stream(Least(streams))
        ELSE NoFd

\* What changeVirtualTerminal() may leave behind: is the terminal switched,
\* and which standard stream is closed, if it was the console?  VT_ACTIVATE
\* works on a console; with failing it, or VT_WAITACTIVE behind the switch, may
\* fail there too.  Every way out closes the descriptor.
ChangeVirtualTerminal(terminals, streams, failing) ==
    LET fd == OpenConsoleFd(terminals, streams) IN
    [switched : IF ~fd.console THEN {FALSE}
                ELSE IF failing THEN BOOLEAN ELSE {TRUE},
     closed   : {{fd.fd} \intersect Streams}]
=============================================================================
