----------------------------- MODULE SerialFile -----------------------------
(***************************************************************************)
(* SerialFile (src/ext/libbw/serialfile_posix.cc): several processes with  *)
(* one object each for the same serial port.  The lock file keeps them     *)
(* apart; it is looked for, and created behind the open of the device, in  *)
(* steps of their own, and removed by name.                                *)
(***************************************************************************)
EXTENDS Integers, FiniteSets

CONSTANTS
    Procs,        \* the processes
    Baudrates,    \* what reconfigure() is asked for
    MaxCalls,     \* calls of openPort() and reconfigure() in a process
    NoLock,       \* the lock file is not there
    Nothing       \* reconfigure() was not called since the port was opened

ASSUME SerialFileAssumption ==
    /\ Baudrates \subseteq Nat
    /\ MaxCalls \in Nat
    /\ NoLock \notin Procs

\* int_to_speed()
Speeds == {0, 50, 75, 110, 134, 150, 200, 300, 600, 1200, 1800, 2400, 4800,
           9600, 19200, 38400, 57600, 115200, 230400}

FlowControls == {"none", "hardware", "xonxoff"}

\* What the device is set to: its flow controls are flags that may both be on.
Port == [speed : Baudrates \union {9600}, flow : SUBSET {"hardware", "xonxoff"},
         raw : BOOLEAN]

Request == [baudrate : Baudrates, flow : FlowControls, raw : BOOLEAN]

VARIABLES
    locking,    \* does the lock file "work", is it "refused" by its directory,
                \* or does a name outside of /dev have "none"?
    lock,       \* the lock file: who created it?
    port,       \* the settings of the device
    pc,         \* the step a process is at
    fd,         \* d->fd: "none" (-1), "stdin" (0) or "port"
    toDelete,   \* s_files_to_delete: how often is the lock file on it?
    asked,      \* the last reconfigure() that succeeded since openPort()
    calls,      \* calls so far
    met,        \* has an openPort() met another one?
    failed      \* has the device refused an openPort()?

vars == <<locking, lock, port, pc, fd, toDelete, asked, calls, met, failed>>

Init ==
    /\ locking \in {"works", "refused", "none"}
    /\ lock = NoLock
    /\ port = [speed |-> 9600, flow |-> {}, raw |-> FALSE]
    /\ pc = [p \in Procs |-> "idle"]
    /\ fd = [p \in Procs |-> "none"]
    /\ toDelete = [p \in Procs |-> 0]
    /\ asked = [p \in Procs |-> Nothing]
    /\ calls = [p \in Procs |-> 0]
    /\ met = FALSE /\ failed = FALSE

Count(p) ==
    /\ calls[p] < MaxCalls
    /\ calls' = [calls EXCEPT ![p] = @ + 1]

(***************************************************************************)
(* openPort()                                                              *)
(***************************************************************************)
Opening(p) == pc[p] \in {"open", "lock"}

\* With a lock file there, whoever made it, openPort() returns false.
CheckLock(p) ==
    /\ pc[p] = "idle" /\ Count(p)
    /\ pc' = IF lock # NoLock THEN pc ELSE [pc EXCEPT ![p] = "open"]
    /\ met' = (met \/ (lock = NoLock /\ \E q \in Procs \ {p} : Opening(q)))
    /\ UNCHANGED <<locking, lock, port, fd, toDelete, asked, failed>>

OpenDevice(p) ==
    /\ pc[p] = "open"
    /\ pc' = [pc EXCEPT ![p] = "lock"]
    /\ fd' = [fd EXCEPT ![p] = "port"]
    /\ asked' = [asked EXCEPT ![p] = Nothing]
    /\ UNCHANGED <<locking, lock, port, toDelete, calls, met, failed>>

\* A device that cannot be opened leaves 0, a descriptor that means something
\* else, in d->fd.
OpenDeviceFails(p) ==
    /\ pc[p] = "open"
    /\ pc' = [pc EXCEPT ![p] = "idle"]
    /\ fd' = [fd EXCEPT ![p] = "stdin"]
    /\ asked' = [asked EXCEPT ![p] = Nothing]
    /\ failed' = TRUE
    /\ UNCHANGED <<locking, lock, port, toDelete, calls, met>>

\* The file is put on the list whether or not it could be created.
CreateLock(p) ==
    /\ pc[p] = "lock"
    /\ pc' = [pc EXCEPT ![p] = "idle"]
    /\ lock' = IF locking = "works" THEN p ELSE lock
    /\ toDelete' = [toDelete EXCEPT ![p] = IF locking = "none" THEN 0 ELSE @ + 1]
    /\ UNCHANGED <<locking, port, fd, asked, calls, met, failed>>

(***************************************************************************)
(* closePort(), the end of the object and the end of the process           *)
(***************************************************************************)
\* Mutated form: the file is removed before it is asked whether there is
\* anything to close.
CloseRemovesFirst(p) ==
    /\ fd' = [fd EXCEPT ![p] = "none"]
    /\ asked' = [asked EXCEPT ![p] = Nothing]
    /\ lock' = NoLock
    /\ toDelete' = [toDelete EXCEPT ![p] = IF @ > 0 THEN @ - 1 ELSE 0]

\* Mutated form: something is erased from the list, found or not.
CloseErasesAlways(p) ==
    /\ fd' = [fd EXCEPT ![p] = "none"]
    /\ asked' = [asked EXCEPT ![p] = Nothing]
    /\ IF fd[p] = "none"
       THEN UNCHANGED <<lock, toDelete>>
       ELSE /\ lock' = NoLock
            /\ toDelete' = [toDelete EXCEPT ![p] = @ - 1]

\* Everything but -1 is closed, and then the lock file, whoever's, removed.
Close(p) ==
    /\ fd' = [fd EXCEPT ![p] = "none"]
    /\ asked' = [asked EXCEPT ![p] = Nothing]
    /\ IF fd[p] = "none"
       THEN UNCHANGED <<lock, toDelete>>
       ELSE /\ lock' = NoLock
            /\ toDelete' = [toDelete EXCEPT ![p] = IF @ > 0 THEN @ - 1 ELSE 0]

ClosePort(p) ==
    /\ pc[p] = "idle"
    /\ Close(p)
    /\ UNCHANGED <<locking, port, pc, calls, met, failed>>

\* The destructor, when main() returns; exit() does not call it.
Destroy(p) ==
    /\ pc[p] = "idle"
    /\ pc' = [pc EXCEPT ![p] = "exit"]
    /\ Close(p)
    /\ UNCHANGED <<locking, port, calls, met, failed>>

Exit(p) ==
    /\ pc[p] = "idle"
    /\ pc' = [pc EXCEPT ![p] = "exit"]
    /\ UNCHANGED <<locking, lock, port, fd, toDelete, asked, calls, met, failed>>

\* Mutated form: the list is forgotten.
DeleteFilesAtExitForgotten(p) ==
    /\ pc[p] = "exit"
    /\ pc' = [pc EXCEPT ![p] = "ended"]
    /\ UNCHANGED <<locking, lock, port, fd, toDelete, asked, calls, met, failed>>

\* delete_files_at_exit(): every file on the list is removed by its name.
DeleteFilesAtExit(p) ==
    /\ pc[p] = "exit"
    /\ pc' = [pc EXCEPT ![p] = "ended"]
    /\ lock' = IF toDelete[p] > 0 THEN NoLock ELSE lock
    /\ UNCHANGED <<locking, port, fd, toDelete, asked, calls, met, failed>>

\* A signal ends the process; its lock file stays.
Kill(p) ==
    /\ pc[p] \notin {"ended", "killed"}
    /\ pc' = [pc EXCEPT ![p] = "killed"]
    /\ UNCHANGED <<locking, lock, port, fd, toDelete, asked, calls, met, failed>>

(***************************************************************************)
(* reconfigure()                                                           *)
(***************************************************************************)
\* A flow control is switched on beside what is on; none switches both off.
Flow(flow) == IF flow = "none" THEN {} ELSE port.flow \union {flow}

\* Without a known baudrate nothing is set and false is returned.  Raw mode is
\* switched on and never off.  On a port that is not open, or on standard
\* input, the device stays as it is.
Reconfigure(p) ==
    /\ pc[p] = "idle" /\ Count(p)
    /\ \E r \in Request :
           IF fd[p] = "port" /\ r.baudrate \in Speeds
           THEN /\ port' = [speed |-> r.baudrate, flow |-> Flow(r.flow),
                            raw |-> port.raw \/ r.raw]
                /\ asked' = [asked EXCEPT ![p] = r]
           ELSE UNCHANGED <<port, asked>>
    /\ UNCHANGED <<locking, lock, pc, fd, toDelete, met, failed>>

Terminated ==
    /\ \A p \in Procs : pc[p] \in {"ended", "killed"}
    /\ UNCHANGED vars

Next ==
    \/ \E p \in Procs :
           \/ CheckLock(p) \/ OpenDevice(p) \/ OpenDeviceFails(p)
           \/ CreateLock(p) \/ ClosePort(p) \/ Reconfigure(p)
           \/ Destroy(p) \/ Exit(p) \/ DeleteFilesAtExit(p) \/ Kill(p)
    \/ Terminated

Spec == Init /\ [][Next]_vars

-----------------------------------------------------------------------------
(***************************************************************************)
(* Properties                                                              *)
(***************************************************************************)
\* Every variable has its type; without a lock file name nothing is locked.
TypeOK ==
    /\ locking \in {"works", "refused", "none"}
    /\ lock \in Procs \union {NoLock}
    /\ locking # "works" => lock = NoLock
    /\ port \in Port
    /\ pc \in [Procs -> {"idle", "open", "lock", "exit", "ended", "killed"}]
    /\ fd \in [Procs -> {"none", "stdin", "port"}]
    /\ toDelete \in [Procs -> 0..MaxCalls]
    /\ asked \in [Procs -> Request \union {Nothing}]
    /\ calls \in [Procs -> 0..MaxCalls]
    /\ met \in BOOLEAN /\ failed \in BOOLEAN

Holds(p) == fd[p] = "port" /\ pc[p] \in {"idle", "lock"}

\* Lock files work, no openPort() ran into another one, no device refused one.
Undisturbed == locking = "works" /\ ~met /\ ~failed

\* What reconfigure() was asked for is on.  More may be: raw mode, and a flow
\* control beside the one asked for, stay on from before.
SetAsAsked(p) ==
    asked[p] # Nothing =>
        /\ port.speed = asked[p].baudrate
        /\ asked[p].flow = "none" => port.flow = {}
        /\ asked[p].flow # "none" => asked[p].flow \in port.flow
        /\ asked[p].raw => port.raw

\* A process has the port for itself, with a lock file of its own that nobody
\* else removes, and finds on what it last asked for, however the others opened,
\* closed, ended or were killed.  This is about runs in which lock files work, no
\* openPort() runs into another one and no device refuses one: in the others two
\* may have the port, or lose the lock file (the order of the steps of openPort()
\* and closePort()).
PortIsMine ==
    Undisturbed =>
        \A p \in Procs : Holds(p) =>
            /\ \A q \in Procs \ {p} : ~Holds(q)
            /\ pc[p] = "idle" => lock = p
            /\ SetAsAsked(p)

\* Who ends on his own leaves no lock file behind, whether he closed the port,
\* destroyed the object or called exit() in between (closePort() and the list
\* of delete_files_at_exit()).
NoStaleLock == \A p \in Procs : pc[p] = "ended" => lock # p
=============================================================================
