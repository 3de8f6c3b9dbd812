-------------------------- MODULE SerialFileProofs --------------------------
(***************************************************************************)
(* Proofs about SerialFile for every set of processes, baudrates and any   *)
(* number of calls: types, no lock file of a process that ended, and       *)
(* exclusive use of the port as long as nothing gets between the steps of  *)
(* openPort().                                                             *)
(***************************************************************************)
EXTENDS SerialFile, TLAPS

-----------------------------------------------------------------------------
(* The inductive invariants.                                               *)

\* A file gets on the list of delete_files_at_exit() once per openPort().
ListInv ==
    \A p \in Procs : toDelete[p] + (IF Opening(p) THEN 1 ELSE 0) <= calls[p]

TypeInv == TypeOK /\ ListInv

\* The creator of the lock file knows of it until it is gone.
LockListed ==
    \A p \in Procs : lock = p => toDelete[p] > 0 /\ pc[p] # "ended"

\* The lock file is there exactly while its creator has the port open.
LockIsHolders ==
    \A p \in Procs : /\ fd[p] # "stdin"
                     /\ pc[p] = "idle" => (fd[p] = "port" <=> lock = p)
                     /\ pc[p] = "lock" => fd[p] = "port"

\* The list names the lock file for its creator and for nobody else: closing
\* and ending do not remove the file of another process.
ListIsOwners ==
    \A p \in Procs : pc[p] # "ended" => (toDelete[p] = IF lock = p THEN 1 ELSE 0)

\* Between the look for the lock file and its creation a process is alone.
OpeningAlone ==
    \A p \in Procs : Opening(p) =>
        /\ lock = NoLock
        /\ pc[p] = "lock" => asked[p] = Nothing
        /\ \A q \in Procs \ {p} : ~Opening(q)

\* What the holder asked for is on.
HolderIsServed == \A p \in Procs : Holds(p) => SetAsAsked(p)

PortInv == Undisturbed => /\ LockIsHolders
                          /\ ListIsOwners
                          /\ OpeningAlone
                          /\ HolderIsServed

-----------------------------------------------------------------------------
(* Type correctness.                                                       *)

\* What reconfigure() makes of the flow controls are flow controls.
LEMMA FlowType ==
    ASSUME NEW flow \in FlowControls, port \in Port
    PROVE  Flow(flow) \in SUBSET {"hardware", "xonxoff"}
BY DEF Flow, FlowControls, Port

\* Every step keeps every variable in its type.
LEMMA NextType ==
    ASSUME TypeInv, [Next]_vars
    PROVE  TypeInv'
<1> USE SerialFileAssumption DEF TypeInv, TypeOK, ListInv, Opening
<1>1. ASSUME NEW p \in Procs, CheckLock(p)
      PROVE  TypeInv'
  BY <1>1 DEF CheckLock, Count
<1>2. ASSUME NEW p \in Procs, OpenDevice(p)
      PROVE  TypeInv'
  BY <1>2 DEF OpenDevice
<1>3. ASSUME NEW p \in Procs, OpenDeviceFails(p)
      PROVE  TypeInv'
  BY <1>3 DEF OpenDeviceFails
<1>4. ASSUME NEW p \in Procs, CreateLock(p)
      PROVE  TypeInv'
  BY <1>4 DEF CreateLock
<1>5. ASSUME NEW p \in Procs, ClosePort(p)
      PROVE  TypeInv'
  BY <1>5 DEF ClosePort, Close
<1>6. ASSUME NEW p \in Procs, Reconfigure(p)
      PROVE  TypeInv'
  <2>1. PICK r \in Request :
            \/ /\ port' = [speed |-> r.baudrate, flow |-> Flow(r.flow),
                           raw |-> port.raw \/ r.raw]
               /\ asked' = [asked EXCEPT ![p] = r]
            \/ UNCHANGED <<port, asked>>
    BY <1>6 DEF Reconfigure
  <2>2. /\ r.baudrate \in Baudrates
        /\ Flow(r.flow) \in SUBSET {"hardware", "xonxoff"}
        /\ (port.raw \/ r.raw) \in BOOLEAN
    BY FlowType DEF Request
  <2>3. \A raw \in BOOLEAN :
            [speed |-> r.baudrate, flow |-> Flow(r.flow), raw |-> raw] \in Port
    BY <2>2 DEF Port
  <2>4. port' \in Port
    BY <2>1, <2>2, <2>3
  <2>5. asked' \in [Procs -> Request \union {Nothing}]
    BY <2>1
  <2>6. calls' \in [Procs -> 0..MaxCalls] /\ \A q \in Procs : calls[q] <= calls'[q]
    BY <1>6 DEF Reconfigure, Count
  <2>7. ListInv'
    BY <1>6, <2>6 DEF Reconfigure
  <2> QED
    BY <1>6, <2>4, <2>5, <2>6, <2>7 DEF Reconfigure
<1>7. ASSUME NEW p \in Procs, Destroy(p)
      PROVE  TypeInv'
  BY <1>7 DEF Destroy, Close
<1>8. ASSUME NEW p \in Procs, Exit(p)
      PROVE  TypeInv'
  BY <1>8 DEF Exit
<1>9. ASSUME NEW p \in Procs, DeleteFilesAtExit(p)
      PROVE  TypeInv'
  BY <1>9 DEF DeleteFilesAtExit
<1>10. ASSUME NEW p \in Procs, Kill(p)
      PROVE  TypeInv'
  BY <1>10 DEF Kill
<1>11. CASE Terminated \/ UNCHANGED vars
  BY <1>11 DEF Terminated, vars
<1> QED
  BY <1>1, <1>2, <1>3, <1>4, <1>5, <1>6, <1>7, <1>8, <1>9, <1>10, <1>11 DEF Next

\* The processes start with every variable in its type.
LEMMA InitType == Init => TypeInv
<1> SUFFICES ASSUME Init
             PROVE  TypeInv
  OBVIOUS
<1>1. port \in Port
  BY DEF Init, Port
<1>2. 0 \in 0..MaxCalls
  BY SerialFileAssumption
<1>3. ListInv
  BY DEF Init, ListInv, Opening
<1>4. TypeOK
  <2>1. calls \in [Procs -> 0..MaxCalls] /\ toDelete \in [Procs -> 0..MaxCalls]
    BY <1>2 DEF Init
  <2>2. asked \in [Procs -> Request \union {Nothing}]
    BY DEF Init
  <2>3. /\ pc \in [Procs -> {"idle", "open", "lock", "exit", "ended", "killed"}]
        /\ fd \in [Procs -> {"none", "stdin", "port"}]
    BY DEF Init
  <2>4. locking \in {"works", "refused", "none"} /\ lock = NoLock
    BY DEF Init
  <2>5. met = FALSE /\ failed = FALSE
    BY DEF Init
  <2> QED
    BY ONLY <1>1, <2>1, <2>2, <2>3, <2>4, <2>5 DEF TypeOK
<1> QED
  BY <1>3, <1>4 DEF TypeInv

\* Every variable has its type in every state; the list of the files to delete
\* never gets longer than there are calls.
THEOREM TypeCorrect == Spec => []TypeOK
<1>1. Spec => []TypeInv
  BY InitType, NextType, PTL DEF Spec
<1>2. TypeInv => TypeOK
  BY DEF TypeInv
<1> QED
  BY <1>1, <1>2, PTL

-----------------------------------------------------------------------------
(* No lock file of a process that ended.                                   *)

\* Every step keeps the lock file on its creator's list.
LEMMA NextListed ==
    ASSUME TypeInv, LockListed, [Next]_vars
    PROVE  LockListed'
<1> USE SerialFileAssumption DEF TypeInv, TypeOK, LockListed
<1>1. ASSUME NEW p \in Procs, CheckLock(p)
      PROVE  LockListed'
  BY <1>1 DEF CheckLock, Count
<1>2. ASSUME NEW p \in Procs, OpenDevice(p)
      PROVE  LockListed'
  BY <1>2 DEF OpenDevice
<1>3. ASSUME NEW p \in Procs, OpenDeviceFails(p)
      PROVE  LockListed'
  BY <1>3 DEF OpenDeviceFails
<1>4. ASSUME NEW p \in Procs, CreateLock(p)
      PROVE  LockListed'
  BY <1>4 DEF CreateLock
<1>5. ASSUME NEW p \in Procs, ClosePort(p)
      PROVE  LockListed'
  BY <1>5 DEF ClosePort, Close
<1>6. ASSUME NEW p \in Procs, Reconfigure(p)
      PROVE  LockListed'
  BY <1>6 DEF Reconfigure, Count
<1>7. ASSUME NEW p \in Procs, Destroy(p)
      PROVE  LockListed'
  BY <1>7 DEF Destroy, Close
<1>8. ASSUME NEW p \in Procs, Exit(p)
      PROVE  LockListed'
  BY <1>8 DEF Exit
<1>9. ASSUME NEW p \in Procs, DeleteFilesAtExit(p)
      PROVE  LockListed'
  BY <1>9 DEF DeleteFilesAtExit
<1>10. ASSUME NEW p \in Procs, Kill(p)
      PROVE  LockListed'
  BY <1>10 DEF Kill
<1>11. CASE Terminated \/ UNCHANGED vars
  BY <1>11 DEF Terminated, vars
<1> QED
  BY <1>1, <1>2, <1>3, <1>4, <1>5, <1>6, <1>7, <1>8, <1>9, <1>10, <1>11 DEF Next

\* No process starts with a lock file.
LEMMA InitListed == Init => LockListed
BY SerialFileAssumption DEF Init, LockListed

\* Who ends on his own leaves no lock file behind: what closePort() does not
\* remove is still on the list of delete_files_at_exit().
THEOREM LockFilesAreRemoved == Spec => []NoStaleLock
<1>1. Init => TypeInv /\ LockListed
  BY InitType, InitListed
<1>2. TypeInv /\ LockListed /\ [Next]_vars => (TypeInv /\ LockListed)'
  BY NextType, NextListed
<1>3. LockListed => NoStaleLock
  BY DEF LockListed, NoStaleLock
<1> QED
  BY <1>1, <1>2, <1>3, PTL DEF Spec

-----------------------------------------------------------------------------
(* Exclusive use of the port.                                              *)

\* Every step keeps the lock file with the holder of the port, if it disturbs
\* no openPort().
LEMMA NextPort ==
    ASSUME TypeInv, PortInv, [Next]_vars
    PROVE  PortInv'
<1> USE SerialFileAssumption
    DEF TypeInv, TypeOK, PortInv, Undisturbed, LockIsHolders, ListIsOwners,
        OpeningAlone, HolderIsServed, SetAsAsked, Opening, Holds
<1>1. ASSUME NEW p \in Procs, CheckLock(p)
      PROVE  PortInv'
  <2>1. UNCHANGED <<locking, lock, port, fd, toDelete, asked, failed>>
    BY <1>1 DEF CheckLock
  <2>2. CASE lock # NoLock
    <3>1. pc' = pc /\ met' = met
      BY <1>1, <2>2 DEF CheckLock
    <3> QED
      BY <2>1, <3>1
  <2>3. CASE lock = NoLock
    <3>1. pc[p] = "idle" /\ pc' = [pc EXCEPT ![p] = "open"]
      BY <1>1, <2>3 DEF CheckLock
    <3>2. ~met' => ~met /\ \A q \in Procs \ {p} : pc[q] \notin {"open", "lock"}
      BY <1>1, <2>3 DEF CheckLock
    <3>3. pc \in [Procs -> {"idle", "open", "lock", "exit", "ended", "killed"}]
      OBVIOUS
    <3>4. \A q \in Procs : pc'[q] = IF q = p THEN "open" ELSE pc[q]
      BY ONLY <3>1, <3>3
    <3>5. Undisturbed' => Undisturbed
      BY <2>1, <3>2
    <3>6. PortInv => (Undisturbed' => LockIsHolders')
      BY <2>1, <3>1, <3>4, <3>5
    <3>7. PortInv => (Undisturbed' => ListIsOwners')
      BY <2>1, <3>1, <3>4, <3>5
    <3>8. Undisturbed' => OpeningAlone'
      BY <2>1, <2>3, <3>2, <3>4
    <3>9. PortInv => (Undisturbed' => HolderIsServed')
      BY <2>1, <2>3, <3>1, <3>4, <3>5
    <3> QED
      BY <3>6, <3>7, <3>8, <3>9
  <2> QED
    BY <2>2, <2>3
<1>2. ASSUME NEW p \in Procs, OpenDevice(p)
      PROVE  PortInv'
  BY <1>2 DEF OpenDevice
<1>3. ASSUME NEW p \in Procs, OpenDeviceFails(p)
      PROVE  PortInv'
  BY <1>3 DEF OpenDeviceFails
<1>4. ASSUME NEW p \in Procs, CreateLock(p)
      PROVE  PortInv'
  BY <1>4 DEF CreateLock
<1>5. ASSUME NEW p \in Procs, ClosePort(p)
      PROVE  PortInv'
  BY <1>5 DEF ClosePort, Close
<1>6. ASSUME NEW p \in Procs, Reconfigure(p)
      PROVE  PortInv'
  <2>1. CASE UNCHANGED <<port, asked>>
    BY <1>6, <2>1 DEF Reconfigure
  <2>2. CASE ~UNCHANGED <<port, asked>>
    <3>1. PICK r \in Request :
              /\ fd[p] = "port"
              /\ port' = [speed |-> r.baudrate, flow |-> Flow(r.flow),
                          raw |-> port.raw \/ r.raw]
              /\ asked' = [asked EXCEPT ![p] = r]
      BY <1>6, <2>2 DEF Reconfigure
    <3>2. /\ port'.speed = r.baudrate
          /\ r.flow = "none" => port'.flow = {}
          /\ r.flow # "none" => r.flow \in port'.flow
          /\ r.raw => port'.raw
      BY <3>1 DEF Flow
    <3>3. Undisturbed => \A q \in Procs : Holds(q) => q = p
      BY <1>6, <3>1 DEF Reconfigure
    <3> QED
      BY <1>6, <3>1, <3>2, <3>3 DEF Reconfigure
  <2> QED
    BY <2>1, <2>2
<1>7. ASSUME NEW p \in Procs, Destroy(p)
      PROVE  PortInv'
  BY <1>7 DEF Destroy, Close
<1>8. ASSUME NEW p \in Procs, Exit(p)
      PROVE  PortInv'
  BY <1>8 DEF Exit
<1>9. ASSUME NEW p \in Procs, DeleteFilesAtExit(p)
      PROVE  PortInv'
  BY <1>9 DEF DeleteFilesAtExit
<1>10. ASSUME NEW p \in Procs, Kill(p)
      PROVE  PortInv'
  BY <1>10 DEF Kill
<1>11. CASE Terminated \/ UNCHANGED vars
  BY <1>11 DEF Terminated, vars
<1> QED
  BY <1>1, <1>2, <1>3, <1>4, <1>5, <1>6, <1>7, <1>8, <1>9, <1>10, <1>11 DEF Next

\* Nobody has the port open at the start.
LEMMA InitPort == Init => PortInv
BY SerialFileAssumption
   DEF Init, PortInv, LockIsHolders, ListIsOwners, OpeningAlone, HolderIsServed,
       SetAsAsked, Undisturbed, Opening, Holds

\* As long as lock files work, no openPort() runs into another one and no device
\* refuses one, a process has the port for itself and what it last asked for is
\* on (the speed, the flow control, raw mode), for any number of processes that
\* open, close, end and are killed.  What was on before may be on, too.
THEOREM PortIsExclusive == Spec => []PortIsMine
<1>1. Init => TypeInv /\ PortInv
  BY InitType, InitPort
<1>2. TypeInv /\ PortInv /\ [Next]_vars => (TypeInv /\ PortInv)'
  BY NextType, NextPort
<1>3. TypeInv /\ PortInv => PortIsMine
  BY SerialFileAssumption
     DEF TypeInv, TypeOK, PortInv, Undisturbed, LockIsHolders,
         OpeningAlone, HolderIsServed, SetAsAsked, Opening, Holds, PortIsMine
<1> QED
  BY <1>1, <1>2, <1>3, PTL DEF Spec
=============================================================================
