-------------------------- MODULE PxeKexecProofs --------------------------
(***************************************************************************)
(* Proofs about PxeKexec for every set of labels, configurations, command  *)
(* lines and machines, and any amount of input: type correctness, that the *)
(* machine goes down only with the chosen entry loaded, and what the       *)
(* program keeps whatever fails.                                           *)
(***************************************************************************)
EXTENDS PxeKexec, WellFoundedInduction, TLAPS

-----------------------------------------------------------------------------
(* The inductive invariant.                                                *)

\* What kexec -l is to make of the chosen entry.
Complete == [what |-> Planned, whole |-> TRUE]

\* The program's places before anything was downloaded.
BeforeDownload == {"parseCmdLine", "checkEnv", "readPxeConfig", "chooseEntry",
                   "prompt", "confirmBoot", "ask", "openKernel"}

Downloading == {"openKernel", "fetchKernel", "openInitrd", "fetchInitrd"}

\* ... and those behind a kexec -l that returned 0.
AfterLoad == {"prepareConsole", "callExec", "exec", "callReboot", "reboot"}

\* Nobody gets past the question without an answer.
ConsentInv ==
    /\ pc \in Downloading \union AfterLoad \union {"execute", "load"}
           => consent # "none"
    /\ proc.st # "none" => consent # "none"
    /\ pc \in BeforeDownload => machine = "up" /\ console = "own"

\* The dry-run mode of Process is the --dry-run option.
DryRunInv ==
    /\ dryRunMode = opts.dryRun
    /\ dryRunMode => proc.st \in {"none", "returned"}

\* A child is around only while execute() waits for it, or as an orphan.
ProcInv ==
    /\ proc.st = "none" \/ pc \in {"load", "exec", "reboot"} \union Final
    /\ pc \in {"exec", "reboot"} => proc.cmd = pc
    /\ pc = "load" => proc.cmd = "load"
    /\ proc.st = "none" => proc = NoProcess
    /\ proc.st = "zombie"
           => \E c \in ExitCodes : proc.status = 256 * c /\ (c = 0) = proc.acted
    /\ proc.st = "returned" /\ proc.rc = 0 => proc.acted \/ dryRunMode

\* What the temporary files hold, place by place.
FilesInv ==
    /\ pc \in BeforeDownload => kernelTmp = NoFile
    /\ pc = "fetchKernel"
           => kernelTmp \in {NoFile, [of |-> choice.kernel, whole |-> FALSE]}
    /\ pc \in BeforeDownload \union {"fetchKernel", "openInitrd"}
           => initrdTmp = NoFile
    /\ pc \in BeforeDownload \union Downloading => ~downloadedInitrd
    /\ pc \in {"openInitrd", "fetchInitrd"} => GetInitrd(choice) # NoInitrd
    /\ pc = "fetchInitrd"
           => initrdTmp \in {NoFile, [of |-> GetInitrd(choice), whole |-> FALSE]}

KernelFetched == kernelTmp = [of |-> choice.kernel, whole |-> TRUE]

InitrdFetched ==
    /\ downloadedInitrd <=> GetInitrd(choice) # NoInitrd
    /\ downloadedInitrd
           => initrdTmp = [of |-> GetInitrd(choice), whole |-> TRUE]

Loading == proc.st = "child" /\ proc.cmd = "load"

FetchedInv ==
    /\ pc \in {"openInitrd", "fetchInitrd", "execute"} => KernelFetched
    /\ pc = "execute" => InitrdFetched
    /\ Loading => KernelFetched /\ InitrdFetched

\* From the moment kexec -l has acted, the chosen entry is what is loaded.
LoadedInv ==
    /\ proc.cmd = "load" /\ proc.acted => image = Complete
    /\ pc \in AfterLoad /\ ~dryRunMode => image = Complete
    /\ proc.cmd \in {"exec", "reboot"} /\ ~dryRunMode => image = Complete

\* The environment's failures nobody notices: a status that is not the
\* child's, a block lost at the close.
NoSilentFaults == Faults \intersect {"signal", "wait", "flush"} = {}

\* PointOfNoReturn with what getInitrd() answers for the initrd.
PlannedIsLoaded ==
    machine # "up" \/ console # "own" => image = Complete /\ consent # "none"

\* Of an append line with an initrd= the entry answers that initrd, whatever
\* lines it had before.
CacheInv ==
    /\ config \in Configs \union {<<>>}
    /\ choice.append.initrd # NoParameter => GetInitrd(choice) = choice.append.initrd

IInv == /\ TypeOK
        /\ ConsentInv
        /\ DryRunInv
        /\ ProcInv
        /\ FilesInv
        /\ FetchedInv
        /\ LoadedInv
        /\ PlannedIsLoaded

-----------------------------------------------------------------------------
(* Lemmas about the operators of PxeEntry and Process.                     *)

\* getInitrd() returns an initrd or the empty string.
LEMMA GetInitrdType ==
    ASSUME NEW e \in Entry
    PROVE  GetInitrd(e) \in Initrds \union {NoInitrd}
BY DEF GetInitrd, Entry, AppendLine

\* Calling getInitrd() caches its answer and changes nothing else: a second
\* call answers the same.
LEMMA GetInitrdTwice ==
    ASSUME NEW e \in Entry
    PROVE  /\ AfterGetInitrd(e) \in Entry
           /\ GetInitrd(AfterGetInitrd(e)) = GetInitrd(e)
           /\ AfterGetInitrd(e).kernel = e.kernel
           /\ AfterGetInitrd(e).append = e.append
<1>1. GetInitrd(e) \in Initrds \union {NoInitrd}
  BY GetInitrdType
<1> QED
  BY <1>1 DEF AfterGetInitrd, GetInitrd, Entry

\* The invalid entry is an entry.
LEMMA NoEntryType == NoEntry \in Entry
BY EntryAssumption DEF NoEntry, Entry, EmptyAppend, AppendLine

\* getEntry() answers with an entry of the configuration or the invalid one.
LEMMA GetEntryType ==
    ASSUME NEW entries \in Seq(Entry), NEW name,
           NEW e \in GetEntry(entries, name)
    PROVE  e \in Entry
BY NoEntryType DEF GetEntry, Matches

\* setAppend() makes an entry of an entry.
LEMMA SetAppendType ==
    ASSUME NEW e \in Entry, NEW a \in AppendLine
    PROVE  SetAppend(e, a) \in Entry
BY DEF SetAppend, Entry

\* What execute() hands on of a wait status fits into a byte.
LEMMA ExitStatusType ==
    ASSUME NEW status \in Statuses
    PROVE  WEXITSTATUS(status) \in 0..255
<1>1. \A c \in ExitCodes : 256 * c \in Nat
  BY ProcessAssumption
<1>2. \A sig \in Signals : sig \in Nat
  BY ProcessAssumption
<1>3. status \in Nat
  BY <1>1, <1>2 DEF Statuses
<1> QED
  BY <1>3 DEF WEXITSTATUS

\* The exit code of a child that exited survives the packing.
LEMMA ExitStatusCode ==
    ASSUME NEW c \in ExitCodes
    PROVE  WEXITSTATUS(256 * c) = c
BY ProcessAssumption DEF WEXITSTATUS

-----------------------------------------------------------------------------
(* Type correctness.                                                       *)

\* A process that was just forked is a process.
LEMMA ForkedType ==
    NoProcess \in ProcType /\ \A c \in Commands : Forked(c) \in ProcType
<1>1. 0 \in Statuses
  <2>1. 0 \in ExitCodes /\ 256 * 0 = 0
    BY ProcessAssumption
  <2> QED
    BY <2>1 DEF Statuses
<1> QED
  BY <1>1 DEF NoProcess, Forked, ProcType

\* The fields of a process record stay in their types.
LEMMA ProcSteps ==
    ASSUME proc \in ProcType
    PROVE  /\ NoProcess \in ProcType
           /\ \A c \in Commands : Execute(c) => proc' \in ProcType
           /\ \A c \in Commands : ChildActs(c) => proc' \in ProcType
           /\ ChildExits \/ ChildKilled => proc' \in ProcType
           /\ Wait \/ WaitFails => proc' \in ProcType
<1>2. NoProcess \in ProcType
  BY ForkedType
<1>3. ASSUME NEW c \in Commands, Execute(c)
      PROVE  proc' \in ProcType
  <2>1. Forked(c) \in ProcType
    BY ForkedType
  <2>2. \A p \in ProcType, rc \in -1..255 : Returned(p, rc) \in ProcType
    BY DEF Returned, ProcType
  <2>3. 0 \in -1..255 /\ -1 \in -1..255
    OBVIOUS
  <2> QED
    BY <1>3, <2>1, <2>2, <2>3 DEF Execute
<1>4. ASSUME NEW c \in Commands, ChildActs(c)
      PROVE  proc' \in ProcType
  BY <1>4 DEF ChildActs, ProcType
<1>5. ASSUME ChildExits \/ ChildKilled
      PROVE  proc' \in ProcType
  <2>1. \A code \in ExitCodes : 256 * code \in Statuses
    BY DEF Statuses
  <2>2. \A sig \in Signals : sig \in Statuses
    BY DEF Statuses
  <2>3. \A status \in Statuses :
            [proc EXCEPT !.st = "zombie", !.status = status] \in ProcType
    BY DEF ProcType
  <2>4. CASE ChildExits
    BY <2>1, <2>3, <2>4 DEF ChildExits
  <2>5. CASE ChildKilled
    BY <2>2, <2>3, <2>5 DEF ChildKilled
  <2> QED
    BY <1>5, <2>4, <2>5
<1>6. ASSUME Wait \/ WaitFails
      PROVE  proc' \in ProcType
  <2>1. \A status \in Statuses : WEXITSTATUS(status) \in -1..255
    BY ExitStatusType
  <2>2. proc.status \in Statuses
    BY DEF ProcType
  <2> QED
    <3>1. \A rc \in -1..255 : Returned(proc, rc) \in ProcType
      BY DEF Returned, ProcType
    <3> QED
      BY <1>6, <2>1, <2>2, <3>1 DEF Wait, WaitFails
<1> QED
  BY <1>2, <1>3, <1>4, <1>5, <1>6

\* The program starts with every variable in its type.
LEMMA InitType == Init => TypeOK
<1> SUFFICES ASSUME Init
             PROVE  TypeOK
  OBVIOUS
<1>1. NoProcess \in ProcType
  BY ForkedType
<1>2. config \in Seq(Entry)
  BY DEF Init
<1>3. opts \in CmdLine
  BY DEF Init, NoOpts, CmdLine
<1> QED
  BY <1>1, <1>2, <1>3, NoEntryType DEF Init, TypeOK

\* A line less is an amount of input.
LEMMA InputType ==
    ASSUME input \in 0..MaxInput
    PROVE  /\ input > 0 => input - 1 \in 0..MaxInput
           /\ (IF input = 0 THEN 0 ELSE input - 1) \in 0..MaxInput
           /\ input > 0 /\ input # 1 => input - 2 \in 0..MaxInput
BY PxeKexecAssumption

\* Every step keeps every variable in its type.
LEMMA NextType == TypeOK /\ [Next]_vars => TypeOK'
<1> SUFFICES ASSUME TypeOK, [Next]_vars
             PROVE  TypeOK'
  OBVIOUS
<1>1. CASE ParseCmdLine
  <2>1. \A line \in CmdLine, b \in BOOLEAN : [line EXCEPT !.quiet = b] \in CmdLine
    BY DEF CmdLine
  <2>2. \A line \in CmdLine : line.dryRun \in BOOLEAN
    BY DEF CmdLine
  <2>3. PICK line \in CmdLines :
            /\ opts' = [line EXCEPT !.quiet = @ \/ line.label # NoLabel]
            /\ dryRunMode' = line.dryRun
    BY <1>1 DEF ParseCmdLine
  <2>4. line \in CmdLine
    BY PxeKexecAssumption
  <2>5. (line.quiet \/ line.label # NoLabel) \in BOOLEAN
    OBVIOUS
  <2>6. opts' \in CmdLine
    BY <2>1, <2>3, <2>4, <2>5
  <2>7. dryRunMode' \in BOOLEAN
    BY <2>2, <2>3, <2>4
  <2> QED
  BY <1>1, <2>6, <2>7
     DEF ParseCmdLine, Goto, userVars, fileVars, worldVars,
         TypeOK, Final
<1>2. CASE ParseStops
  BY <1>2
     DEF ParseStops, Return, Throw, userVars, fileVars, worldVars,
         procVars, TypeOK, Final
<1>3. CASE CheckEnv
  BY <1>3
     DEF CheckEnv, Goto, Throw, userVars, fileVars, worldVars,
         procVars, TypeOK, Final
<1>4. CASE ReadPxeConfig
  BY <1>4, PxeKexecAssumption
     DEF ReadPxeConfig, Goto, fileVars, worldVars, procVars, TypeOK,
         Final
<1>5. CASE ReadPxeConfigThrows
  BY <1>5
     DEF ReadPxeConfigThrows, Throw, userVars, fileVars, worldVars,
         procVars, TypeOK, Final
<1>6. CASE ChooseEntry
  BY <1>6, GetEntryType
     DEF ChooseEntry, Goto, fileVars, worldVars, procVars, TypeOK,
         Final
<1>7. CASE PromptDone
  BY <1>7
     DEF PromptDone, Goto, Return, userVars, fileVars, worldVars,
         procVars, TypeOK, Final
<1>8. CASE PromptName
  <2>1. input' \in 0..MaxInput
    BY <1>8, InputType DEF PromptName, TypeOK
  <2> QED
    BY <1>8, GetEntryType, <2>1
       DEF PromptName, fileVars, worldVars, procVars, TypeOK, Final
<1>9. CASE PromptQuit
  <2>1. input' \in 0..MaxInput
    BY <1>9, InputType DEF PromptQuit, TypeOK
  <2>2. eof' \in BOOLEAN
    BY <1>9 DEF PromptQuit
  <2> QED
    BY <1>9, <2>1, <2>2
       DEF PromptQuit, Return, fileVars, worldVars, procVars, TypeOK,
           Final
<1>10. CASE ConfirmShow
  BY <1>10, GetInitrdTwice, GetInitrdType
     DEF ConfirmShow, Goto, Planned, Shown, Entry, fileVars,
         worldVars, procVars, TypeOK, Final
<1>11. CASE ConfirmYes
  <2>1. input' \in 0..MaxInput
    BY <1>11, InputType DEF ConfirmYes, TypeOK
  <2>2. consent' \in {"option", "yes", "empty", "eof"}
    BY <1>11 DEF ConfirmYes
  <2> QED
    BY <1>11, <2>1, <2>2
       DEF ConfirmYes, Goto, fileVars, worldVars, procVars, TypeOK,
           Final
<1>12. CASE ConfirmNo
  <2>1. input' \in 0..MaxInput
    BY <1>12, InputType DEF ConfirmNo, TypeOK
  <2> QED
    BY <1>12, <2>1
       DEF ConfirmNo, Return, fileVars, worldVars, procVars, TypeOK,
           Final
<1>13. CASE ConfirmInvalid
  <2>1. input' \in 0..MaxInput
    BY <1>13, InputType DEF ConfirmInvalid, TypeOK
  <2> QED
    BY <1>13, <2>1
       DEF ConfirmInvalid, fileVars, worldVars, procVars, TypeOK, Final
<1>14. CASE ConfirmEdit
  <2>1. PICK line \in AppendLine, used \in 0..1 :
            /\ EditLine(line, used)
            /\ choice' = SetAppend(choice, line)
            /\ input' = input - 1 - used
    BY <1>14 DEF ConfirmEdit
  <2>2. choice' \in Entry
    BY <2>1, SetAppendType DEF TypeOK
  <2>3. used = 0 \/ (used = 1 /\ input # 1)
    BY <2>1 DEF EditLine, TypeOK
  <2>4. input' \in 0..MaxInput
    BY <1>14, <2>1, <2>3, PxeKexecAssumption DEF ConfirmEdit, TypeOK
  <2>5. eof' \in BOOLEAN
    BY <2>1 DEF EditLine, TypeOK
  <2> QED
    BY <1>14, <2>2, <2>4, <2>5
       DEF ConfirmEdit, Goto, fileVars, worldVars, procVars, TypeOK, Final
<1>15. CASE OpenKernel
  <2>1. choice.kernel \in Kernels \union {NoKernel}
    BY DEF TypeOK, Entry
  <2>2. [of |-> choice.kernel, whole |-> FALSE] \in KernelFile
    BY <2>1 DEF KernelFile
  <2>3. kernelTmp' \in KernelFile \union {NoFile}
    BY <1>15, <2>2 DEF OpenKernel, TypeOK
  <2> QED
    BY <1>15, <2>3
       DEF OpenKernel, Goto, userVars, worldVars, procVars, TypeOK, Final
<1>16. CASE FetchKernel
  BY <1>16, GetInitrdTwice
     DEF FetchKernel, Goto, KernelFile, worldVars, procVars, TypeOK,
         Final
<1>17. CASE FetchKernelThrows
  BY <1>17
     DEF FetchKernelThrows, Throw, userVars, fileVars, worldVars,
         procVars, TypeOK, Final
<1>18. CASE OpenInitrd
  <2>1. GetInitrd(choice) \in Initrds \union {NoInitrd}
    BY <1>18, GetInitrdType DEF OpenInitrd, TypeOK
  <2>2. [of |-> GetInitrd(choice), whole |-> FALSE] \in InitrdFile
    BY <2>1 DEF InitrdFile
  <2>3. initrdTmp' \in InitrdFile \union {NoFile}
    BY <1>18, <2>2 DEF OpenInitrd, TypeOK
  <2> QED
    BY <1>18, <2>3
       DEF OpenInitrd, Goto, userVars, worldVars, procVars, TypeOK, Final
<1>19. CASE FetchInitrd
  BY <1>19
     DEF FetchInitrd, Goto, InitrdFile, userVars, worldVars, procVars,
         TypeOK, Final
<1>20. CASE FetchInitrdThrows
  BY <1>20
     DEF FetchInitrdThrows, Throw, userVars, fileVars, worldVars,
         procVars, TypeOK, Final
<1>21. CASE CallLoad
  BY <1>21, ProcSteps
     DEF CallLoad, Goto, Commands, userVars, fileVars, worldVars,
         TypeOK, Final
<1>22. CASE LoadReturns
  BY <1>22, ProcSteps
     DEF LoadReturns, Goto, Return, Throw, DeleteKernels, userVars,
         worldVars, TypeOK, Final
<1>23. CASE PrepareConsole
  <2>1. console' \in {"own", "vt1"} /\ streams' \in SUBSET Streams
    BY <1>23 DEF PrepareConsole, TypeOK
  <2> QED
    BY <1>23, <2>1
     DEF PrepareConsole, Goto, userVars, fileVars, procVars, TypeOK,
         Final
<1>24. CASE PrepareConsoleAborts
  BY <1>24
     DEF PrepareConsoleAborts, userVars, fileVars, worldVars,
         procVars, TypeOK, Final
<1>25. CASE CallExec
  BY <1>25, ProcSteps
     DEF CallExec, Goto, Commands, userVars, fileVars, worldVars,
         TypeOK, Final
<1>26. CASE ExecReturns
  BY <1>26, ProcSteps
     DEF ExecReturns, Return, Throw, userVars, fileVars, worldVars,
         TypeOK, Final
<1>27. CASE CallReboot
  BY <1>27, ProcSteps
     DEF CallReboot, Goto, Commands, userVars, fileVars, worldVars,
         TypeOK, Final
<1>28. CASE RebootReturns
  BY <1>28, ProcSteps
     DEF RebootReturns, Return, userVars, fileVars, worldVars,
         TypeOK, Final
<1>29. CASE ChildWaitedFor
  BY <1>29, ProcSteps
     DEF ChildWaitedFor, userVars, fileVars, worldVars, TypeOK, Final
<1>30. CASE Destructor
  BY <1>30
     DEF Destructor, DeleteKernels, userVars, worldVars, procVars,
         TypeOK, Final
<1>31. CASE ChildLoads
  <2> DEFINE initrd == IF downloadedInitrd THEN initrdTmp.of ELSE NoInitrd
             what == [kernel |-> kernelTmp.of, initrd |-> initrd,
                      append |-> choice.append]
             whole == kernelTmp.whole /\ (downloadedInitrd => initrdTmp.whole)
  <2>1. kernelTmp.of \in Kernels \union {NoKernel}
    BY <1>31 DEF ChildLoads, TypeOK, KernelFile
  <2>2. initrd \in Initrds \union {NoInitrd}
    BY <1>31 DEF ChildLoads, TypeOK, InitrdFile
  <2>3. choice.append \in AppendLine
    BY DEF TypeOK, Entry
  <2>4. what \in Shown
    BY <2>1, <2>2, <2>3 DEF Shown
  <2>5. whole \in BOOLEAN
    OBVIOUS
  <2>6. image' = [what |-> what, whole |-> whole]
    BY <1>31 DEF ChildLoads
  <2>7. image' \in Image
    BY <2>4, <2>5, <2>6 DEF Image
  <2>8. proc' \in ProcType
    BY <1>31, ProcSteps DEF ChildLoads, Commands, TypeOK
  <2> QED
    BY <1>31, <2>7, <2>8
       DEF ChildLoads, userVars, fileVars, TypeOK, Final
<1>32. CASE ChildExecs
  BY <1>32, ProcSteps
     DEF ChildExecs, Commands, userVars, fileVars, TypeOK, Final
<1>33. CASE ChildReboots
  BY <1>33, ProcSteps
     DEF ChildReboots, Commands, userVars, fileVars, TypeOK, Final
<1>34. CASE ChildEnds
  BY <1>34, ProcSteps
     DEF ChildEnds, userVars, fileVars, worldVars, TypeOK, Final
<1>35. CASE Kill
  BY <1>35
     DEF Kill, userVars, fileVars, worldVars, procVars, TypeOK, Final
<1>36. CASE Terminated
  BY <1>36
     DEF Terminated, vars, userVars, fileVars, worldVars, procVars,
         TypeOK, Final
<1>37. CASE UNCHANGED vars
  BY <1>37 DEF vars, userVars, fileVars, worldVars, procVars, TypeOK, Final
<1> QED
  BY <1>1, <1>2, <1>3, <1>4, <1>5, <1>6, <1>7, <1>8, <1>9, <1>10,
     <1>11, <1>12, <1>13, <1>14, <1>15, <1>16, <1>17, <1>18, <1>19,
     <1>20, <1>21, <1>22, <1>23, <1>24, <1>25, <1>26, <1>27, <1>28,
     <1>29, <1>30, <1>31, <1>32, <1>33, <1>34, <1>35, <1>36, <1>37
     DEF Next, Program, Choose, Confirm, Download, Run, Child

\* Every variable has its type, in every state of every behaviour: TypeOK is
\* inductive as it stands.
THEOREM TypeCorrect == Spec => []TypeOK
<1>1. Init => TypeOK
  BY InitType
<1>2. TypeOK /\ [Next]_vars => TypeOK'
  BY NextType
<1> QED
  BY <1>1, <1>2, PTL DEF Spec

-----------------------------------------------------------------------------
(* The machine goes down only with the chosen entry loaded.                *)

\* What execute() leaves behind before anything was waited for.
LEMMA ExecuteSteps ==
    ASSUME NEW c \in Commands, Execute(c)
    PROVE  /\ proc.st = "none"
           /\ proc'.cmd = c /\ proc'.acted = FALSE
           /\ \/ proc'.st = "child" /\ ~dryRunMode
              \/ proc'.st = "returned" /\ (proc'.rc = 0 => dryRunMode)
<1>1. Forked(c) \in ProcType
  BY ForkedType
<1>2. \A rc \in -1..255 : /\ Returned(Forked(c), rc).st = "returned"
                          /\ Returned(Forked(c), rc).cmd = Forked(c).cmd
                          /\ Returned(Forked(c), rc).acted = Forked(c).acted
                          /\ Returned(Forked(c), rc).rc = rc
  BY <1>1 DEF Returned, ProcType
<1>3. Forked(c).st = "child" /\ Forked(c).cmd = c /\ Forked(c).acted = FALSE
  BY DEF Forked
<1>4. CASE ~dryRunMode /\ proc' = Forked(c)
  BY <1>3, <1>4 DEF Execute
<1>5. CASE dryRunMode /\ proc' = Returned(Forked(c), 0)
  BY <1>2, <1>3, <1>5 DEF Execute
<1>6. CASE ~dryRunMode /\ proc' = Returned(Forked(c), -1)
  BY <1>2, <1>3, <1>6 DEF Execute
<1> QED
  BY <1>4, <1>5, <1>6 DEF Execute

\* A child that does its work stays the same child.
LEMMA ChildActsSteps ==
    ASSUME proc \in ProcType, NEW c \in Commands, ChildActs(c)
    PROVE  /\ proc.st = "child" /\ proc.cmd = c
           /\ proc'.st = "child" /\ proc'.cmd = c /\ proc'.acted = TRUE
BY DEF ChildActs, ProcType

\* A child no signal ends leaves a status that says whether it did its work.
LEMMA ChildEndsSteps ==
    ASSUME proc \in ProcType, NoSilentFaults, ChildExits \/ ChildKilled
    PROVE  /\ proc.st = "child" /\ proc'.st = "zombie"
           /\ proc'.cmd = proc.cmd /\ proc'.acted = proc.acted
           /\ \E c \in ExitCodes :
                  proc'.status = 256 * c /\ (c = 0) = proc'.acted
BY DEF NoSilentFaults, ChildExits, ChildKilled, ProcType

\* execute() returns 0 only of a child that did its work.
LEMMA WaitSteps ==
    ASSUME proc \in ProcType, NoSilentFaults, ProcInv, Wait \/ WaitFails
    PROVE  /\ proc.st = "zombie" /\ proc'.st = "returned"
           /\ proc'.cmd = proc.cmd /\ proc'.acted = proc.acted
           /\ proc'.rc = 0 => proc'.acted
<1>1. proc.st = "zombie" /\ proc' = Returned(proc, WEXITSTATUS(proc.status))
  BY DEF NoSilentFaults, Wait, WaitFails
<1>2. PICK c \in ExitCodes : proc.status = 256 * c /\ (c = 0) = proc.acted
  BY <1>1 DEF ProcInv
<1>3. WEXITSTATUS(proc.status) = c
  BY <1>2, ExitStatusCode
<1> QED
  BY <1>1, <1>2, <1>3 DEF Returned, ProcType

\* --dry-run sets the dry-run mode of Process with the option.
LEMMA ParseSteps ==
    ASSUME ParseCmdLine
    PROVE  dryRunMode' = opts'.dryRun
<1>1. \A line \in CmdLine, b \in BOOLEAN :
          [line EXCEPT !.quiet = b].dryRun = line.dryRun
  BY DEF CmdLine
<1>2. PICK line \in CmdLines :
          /\ opts' = [line EXCEPT !.quiet = @ \/ line.label # NoLabel]
          /\ dryRunMode' = line.dryRun
  BY DEF ParseCmdLine
<1>3. (line.quiet \/ line.label # NoLabel) \in BOOLEAN
  OBVIOUS
<1> QED
  BY <1>1, <1>2, <1>3, PxeKexecAssumption

\* kexec -l makes of two complete files the image that was planned.
LEMMA LoadSteps ==
    ASSUME ChildLoads, KernelFetched, InitrdFetched
    PROVE  image' = Complete
<1>1. kernelTmp.of = choice.kernel /\ kernelTmp.whole = TRUE
  BY DEF KernelFetched
<1>2. (IF downloadedInitrd THEN initrdTmp.of ELSE NoInitrd) = GetInitrd(choice)
  BY DEF InitrdFetched
<1>3. (/\ kernelTmp.whole
       /\ downloadedInitrd => initrdTmp.whole) = TRUE
  BY <1>1 DEF InitrdFetched
<1> QED
  BY <1>1, <1>2, <1>3 DEF ChildLoads, Complete, Planned

\* Every step preserves the inductive invariant, unless a failure is silent.
LEMMA NextIInv ==
    ASSUME NoSilentFaults, IInv, [Next]_vars
    PROVE  IInv'
<1> USE DEF IInv, ConsentInv, DryRunInv, ProcInv, FilesInv, FetchedInv,
            LoadedInv, PlannedIsLoaded, KernelFetched, InitrdFetched, Loading,
            Complete, Planned, BeforeDownload, Downloading, AfterLoad, Final
<1>1. TypeOK /\ TypeOK'
  BY NextType
<1>2. CASE ParseCmdLine
  <2>1. dryRunMode' = opts'.dryRun
    BY <1>2, ParseSteps
  <2>2. proc.st = "none"
    BY <1>2 DEF ParseCmdLine
  <2> QED
    BY <1>1, <1>2, <2>1, <2>2
       DEF ParseCmdLine, Goto, NoProcess, userVars, fileVars, worldVars
<1>3. CASE ParseStops
  BY <1>1, <1>3
     DEF ParseStops, Return, Throw, userVars, fileVars, worldVars,
         procVars
<1>4. CASE CheckEnv
  BY <1>1, <1>4
     DEF CheckEnv, Goto, Throw, userVars, fileVars, worldVars, procVars
<1>5. CASE ReadPxeConfig
  BY <1>1, <1>5
     DEF ReadPxeConfig, Goto, fileVars, worldVars, procVars
<1>6. CASE ReadPxeConfigThrows
  BY <1>1, <1>6
     DEF ReadPxeConfigThrows, Throw, userVars, fileVars, worldVars,
         procVars
<1>7. CASE ChooseEntry
  BY <1>1, <1>7
     DEF ChooseEntry, Goto, NoProcess, fileVars, worldVars, procVars
<1>8. CASE PromptDone
  BY <1>1, <1>8
     DEF PromptDone, Goto, Return, userVars, fileVars, worldVars,
         procVars
<1>9. CASE PromptName
  BY <1>1, <1>9
     DEF PromptName, NoProcess, fileVars, worldVars, procVars
<1>10. CASE PromptQuit
  BY <1>1, <1>10
     DEF PromptQuit, Return, fileVars, worldVars, procVars
<1>11. CASE ConfirmShow
  BY <1>1, <1>11, GetInitrdTwice
     DEF ConfirmShow, Goto, NoProcess, fileVars, worldVars, procVars
<1>12. CASE ConfirmYes
  BY <1>1, <1>12
     DEF ConfirmYes, Goto, fileVars, worldVars, procVars
<1>13. CASE ConfirmNo
  BY <1>1, <1>13
     DEF ConfirmNo, Return, fileVars, worldVars, procVars
<1>14. CASE ConfirmInvalid
  BY <1>1, <1>14
     DEF ConfirmInvalid, fileVars, worldVars, procVars
<1>15. CASE ConfirmEdit
  BY <1>1, <1>15
     DEF ConfirmEdit, Goto, NoProcess, fileVars, worldVars, procVars
<1>16. CASE OpenKernel
  BY <1>1, <1>16
     DEF OpenKernel, Goto, userVars, worldVars, procVars
<1>17. CASE FetchKernel
  <2>1. /\ kernelTmp = [of |-> choice.kernel, whole |-> FALSE]
        /\ proc = NoProcess
        /\ machine = "up" \/ image = Complete
    BY <1>17 DEF FetchKernel
  <2>2. kernelTmp' = [of |-> choice.kernel, whole |-> TRUE]
    BY <1>17, <2>1 DEF FetchKernel, NoSilentFaults
  <2>3. /\ GetInitrd(choice') = GetInitrd(choice)
        /\ choice'.kernel = choice.kernel /\ choice'.append = choice.append
    BY <1>17, GetInitrdTwice DEF FetchKernel, TypeOK
  <2>4. Complete' = Complete
    BY <2>3
  <2>5. KernelFetched'
    BY <2>2, <2>3
  <2>6. downloadedInitrd = FALSE /\ downloadedInitrd' = FALSE
    BY <1>1, <1>17 DEF FetchKernel, TypeOK
  <2>7. pc' = "execute" => InitrdFetched'
    BY <1>17, <2>3, <2>6 DEF FetchKernel, Goto
  <2>8. pc' \in {"execute", "openInitrd"}
    BY <1>17 DEF FetchKernel, Goto
  <2>9. pc' = "openInitrd" => GetInitrd(choice') # NoInitrd
    BY <1>17, <2>3 DEF FetchKernel, Goto
  <2> QED
    BY <1>1, <1>17, <2>1, <2>4, <2>5, <2>6, <2>7, <2>8, <2>9
       DEF FetchKernel, NoProcess, worldVars, procVars
<1>18. CASE FetchKernelThrows
  BY <1>1, <1>18
     DEF FetchKernelThrows, Throw, userVars, fileVars, worldVars,
         procVars
<1>19. CASE OpenInitrd
  BY <1>1, <1>19
     DEF OpenInitrd, Goto, userVars, worldVars, procVars
<1>20. CASE FetchInitrd
  <2>1. initrdTmp = [of |-> GetInitrd(choice), whole |-> FALSE]
    BY <1>20 DEF FetchInitrd
  <2>2. initrdTmp' = [of |-> GetInitrd(choice), whole |-> TRUE]
    BY <1>20, <2>1 DEF FetchInitrd, NoSilentFaults
  <2> QED
    BY <1>1, <1>20, <2>2 DEF FetchInitrd, Goto, userVars, worldVars, procVars
<1>21. CASE FetchInitrdThrows
  BY <1>1, <1>21
     DEF FetchInitrdThrows, Throw, userVars, fileVars, worldVars,
         procVars
<1>22. CASE CallLoad
  <2>1. /\ proc.st = "none"
        /\ proc'.cmd = "load" /\ proc'.acted = FALSE
        /\ \/ proc'.st = "child" /\ ~dryRunMode
           \/ proc'.st = "returned" /\ (proc'.rc = 0 => dryRunMode)
    BY <1>22, ExecuteSteps DEF CallLoad, Commands
  <2> QED
    BY <1>1, <1>22, <2>1
       DEF CallLoad, Goto, userVars, fileVars, worldVars
<1>23. CASE LoadReturns
  BY <1>1, <1>23
     DEF LoadReturns, Goto, Return, Throw, HasReturned, NoProcess,
         DeleteKernels, userVars, worldVars
<1>24. CASE PrepareConsole
  BY <1>1, <1>24
     DEF PrepareConsole, Goto, userVars, fileVars, procVars
<1>25. CASE PrepareConsoleAborts
  BY <1>1, <1>25
     DEF PrepareConsoleAborts, userVars, fileVars, worldVars, procVars
<1>26. CASE CallExec
  <2>1. /\ proc.st = "none"
        /\ proc'.cmd = "exec" /\ proc'.acted = FALSE
        /\ \/ proc'.st = "child" /\ ~dryRunMode
           \/ proc'.st = "returned" /\ (proc'.rc = 0 => dryRunMode)
    BY <1>26, ExecuteSteps DEF CallExec, Commands
  <2> QED
    BY <1>1, <1>26, <2>1
       DEF CallExec, Goto, userVars, fileVars, worldVars
<1>27. CASE ExecReturns
  BY <1>1, <1>27
     DEF ExecReturns, Return, Throw, HasReturned, NoProcess, userVars,
         fileVars, worldVars
<1>28. CASE CallReboot
  <2>1. /\ proc.st = "none"
        /\ proc'.cmd = "reboot" /\ proc'.acted = FALSE
        /\ \/ proc'.st = "child" /\ ~dryRunMode
           \/ proc'.st = "returned" /\ (proc'.rc = 0 => dryRunMode)
    BY <1>28, ExecuteSteps DEF CallReboot, Commands
  <2> QED
    BY <1>1, <1>28, <2>1
       DEF CallReboot, Goto, userVars, fileVars, worldVars
<1>29. CASE RebootReturns
  BY <1>1, <1>29
     DEF RebootReturns, Return, HasReturned, NoProcess, userVars,
         fileVars, worldVars
<1>30. CASE ChildWaitedFor
  <2>1. /\ proc.st = "zombie" /\ proc'.st = "returned"
        /\ proc'.cmd = proc.cmd /\ proc'.acted = proc.acted
        /\ proc'.rc = 0 => proc'.acted
    BY <1>1, <1>30, WaitSteps DEF ChildWaitedFor, TypeOK
  <2> QED
    BY <1>1, <1>30, <2>1 DEF ChildWaitedFor, userVars, fileVars, worldVars
<1>31. CASE Destructor
  BY <1>1, <1>31
     DEF Destructor, DeleteKernels, userVars, worldVars, procVars
<1>32. CASE ChildLoads
  <2>1. /\ proc.st = "child" /\ proc.cmd = "load"
        /\ proc'.st = "child" /\ proc'.cmd = "load" /\ proc'.acted = TRUE
    BY <1>1, <1>32, ChildActsSteps DEF ChildLoads, Commands, TypeOK
  <2>2. KernelFetched /\ InitrdFetched
    BY <2>1
  <2>3. image' = Complete
    BY <1>32, <2>2, LoadSteps
  <2> QED
    BY <1>1, <1>32, <2>1, <2>3 DEF ChildLoads, userVars, fileVars
<1>33. CASE ChildExecs
  <2>1. /\ proc.st = "child" /\ proc.cmd = "exec"
        /\ proc'.st = "child" /\ proc'.cmd = "exec" /\ proc'.acted = TRUE
    BY <1>1, <1>33, ChildActsSteps DEF ChildExecs, Commands, TypeOK
  <2> QED
    BY <1>1, <1>33, <2>1 DEF ChildExecs, userVars, fileVars
<1>34. CASE ChildReboots
  <2>1. /\ proc.st = "child" /\ proc.cmd = "reboot"
        /\ proc'.st = "child" /\ proc'.cmd = "reboot" /\ proc'.acted = TRUE
    BY <1>1, <1>34, ChildActsSteps DEF ChildReboots, Commands, TypeOK
  <2> QED
    BY <1>1, <1>34, <2>1 DEF ChildReboots, userVars, fileVars
<1>35. CASE ChildEnds
  <2>1. /\ proc.st = "child" /\ proc'.st = "zombie"
        /\ proc'.cmd = proc.cmd /\ proc'.acted = proc.acted
        /\ \E c \in ExitCodes :
               proc'.status = 256 * c /\ (c = 0) = proc'.acted
    BY <1>1, <1>35, ChildEndsSteps DEF ChildEnds, TypeOK
  <2> QED
    BY <1>1, <1>35, <2>1 DEF ChildEnds, userVars, fileVars, worldVars
<1>36. CASE Kill
  BY <1>1, <1>36
     DEF Kill, userVars, fileVars, worldVars, procVars
<1>37. CASE Terminated
  BY <1>1, <1>37
     DEF Terminated, vars, userVars, fileVars, worldVars, procVars
<1>38. CASE UNCHANGED vars
  BY <1>1, <1>38
     DEF vars, userVars, fileVars, worldVars, procVars
<1> QED
  BY <1>1, <1>2, <1>3, <1>4, <1>5, <1>6, <1>7, <1>8, <1>9, <1>10,
     <1>11, <1>12, <1>13, <1>14, <1>15, <1>16, <1>17, <1>18, <1>19,
     <1>20, <1>21, <1>22, <1>23, <1>24, <1>25, <1>26, <1>27, <1>28,
     <1>29, <1>30, <1>31, <1>32, <1>33, <1>34, <1>35, <1>36, <1>37,
     <1>38
     DEF Next, Program, Choose, Confirm, Download, Run, Child

\* The inductive invariant holds when the program starts.
LEMMA InitIInv == Init => IInv
<1> SUFFICES ASSUME Init
             PROVE  IInv
  OBVIOUS
<1>1. TypeOK
  BY InitType
<1>2. opts.dryRun = FALSE
  BY DEF Init, NoOpts
<1> QED
  BY <1>1, <1>2
     DEF Init, IInv, ConsentInv, DryRunInv, ProcInv, FilesInv, FetchedInv,
         LoadedInv, PlannedIsLoaded, Loading, BeforeDownload, Downloading,
         AfterLoad, Final, NoProcess

\* Without failures nobody can notice, IInv holds in every state.
LEMMA IInvHolds ==
    ASSUME NoSilentFaults
    PROVE  Spec => []IInv
<1>1. Init => IInv
  BY InitIInv
<1>2. IInv /\ [Next]_vars => IInv'
  BY NextIInv
<1> QED
  BY <1>1, <1>2, PTL DEF Spec

\* getEntry() answers with an entry of a configuration the parser left, or with
\* one without an append line.
LEMMA GetEntryCache ==
    ASSUME NEW entries \in Configs \union {<<>>}, NEW name,
           NEW e \in GetEntry(entries, name), e.append.initrd # NoParameter
    PROVE  GetInitrd(e) = e.append.initrd
<1>1. NoEntry.append.initrd = NoParameter
  BY DEF NoEntry, EmptyAppend
<1>2. CASE Matches(entries, name) = {}
  BY <1>1, <1>2 DEF GetEntry
<1>3. CASE Matches(entries, name) # {}
  <2>1. PICK n \in DOMAIN entries : e = entries[n]
    BY <1>3 DEF GetEntry, Matches
  <2>2. entries \in Configs
    BY <2>1
  <2>3. GetInitrd(entries[n]) = InitrdIn(entries[n].append)
    BY <2>1, <2>2, PxeKexecAssumption
  <2> QED
    BY <2>1, <2>3 DEF InitrdIn
<1> QED
  BY <1>2, <1>3

\* setAppend() makes the entry forget its initrd, and asking for it caches the
\* answer.
LEMMA NextCache ==
    ASSUME TypeOK, CacheInv, [Next]_vars
    PROVE  CacheInv'
<1>0. choice \in Entry
  BY DEF TypeOK
<1>1. ASSUME config' = config, choice' = choice
      PROVE  CacheInv'
  BY <1>1 DEF CacheInv
<1>2. ASSUME config' = config, choice' = AfterGetInitrd(choice)
      PROVE  CacheInv'
  BY <1>0, <1>2, GetInitrdTwice DEF CacheInv
<1>3. ASSUME NEW name, config' = config, choice' \in GetEntry(config, name)
      PROVE  CacheInv'
  BY <1>3, GetEntryCache DEF CacheInv
<1>4. CASE ReadPxeConfig
  BY <1>4 DEF ReadPxeConfig, CacheInv
<1>5. CASE ChooseEntry
  <2>1. choice' = choice \/ choice' \in GetEntry(config, opts.label)
    BY <1>5 DEF ChooseEntry
  <2>2. config' = config
    BY <1>5 DEF ChooseEntry
  <2> QED
    BY <1>1, <1>3, <2>1, <2>2
<1>6. CASE PromptName
  <2>1. PICK name \in Labels : choice' \in GetEntry(config, name)
    BY <1>6 DEF PromptName
  <2>2. config' = config
    BY <1>6 DEF PromptName
  <2> QED
    BY <1>3, <2>1, <2>2
<1>7. CASE ConfirmShow
  <2>1. config' = config /\ (choice' = choice \/ choice' = AfterGetInitrd(choice))
    BY <1>7 DEF ConfirmShow
  <2> QED
    BY <1>1, <1>2, <2>1
<1>8. CASE ConfirmEdit
  <2>1. PICK line \in AppendLine : choice' = SetAppend(choice, line)
    BY <1>8 DEF ConfirmEdit
  <2>2. choice'.append = line /\ ~choice'.initrdParsed
    BY <1>0, <2>1 DEF SetAppend, Entry
  <2>3. config' = config
    BY <1>8 DEF ConfirmEdit
  <2> QED
    BY <2>2, <2>3 DEF CacheInv, GetInitrd
<1>9. CASE FetchKernel
  BY <1>2, <1>9 DEF FetchKernel
<1>10. CASE PromptDone \/ PromptQuit \/ ConfirmYes \/ ConfirmNo \/ ConfirmInvalid
  BY <1>1, <1>10
     DEF PromptDone, PromptQuit, ConfirmYes, ConfirmNo, ConfirmInvalid, userVars
<1>11. CASE ParseCmdLine \/ ParseStops \/ CheckEnv \/ ReadPxeConfigThrows
  BY <1>1, <1>11
     DEF ParseCmdLine, ParseStops, CheckEnv, ReadPxeConfigThrows, userVars
<1>12. CASE OpenKernel \/ FetchKernelThrows \/ OpenInitrd \/ FetchInitrd
                \/ FetchInitrdThrows
  BY <1>1, <1>12
     DEF OpenKernel, FetchKernelThrows, OpenInitrd, FetchInitrd, FetchInitrdThrows,
         userVars
<1>13. CASE Run
  BY <1>1, <1>13
     DEF Run, CallLoad, LoadReturns, PrepareConsole, PrepareConsoleAborts,
         CallExec, ExecReturns, CallReboot, RebootReturns, userVars
<1>14. CASE ChildWaitedFor \/ Destructor \/ Child \/ Kill \/ Terminated
                \/ UNCHANGED vars
  BY <1>1, <1>14
     DEF ChildWaitedFor, Destructor, Child, ChildLoads, ChildExecs, ChildReboots,
         ChildEnds, Kill, Terminated, vars, userVars
<1> QED
  BY <1>4, <1>5, <1>6, <1>7, <1>8, <1>9, <1>10, <1>11, <1>12, <1>13, <1>14
     DEF Next, Program, Choose, Confirm, Download

\* Whatever the user types, however often the append line is edited, whichever
\* downloads, forks and children fail and whenever pxe-kexec is killed: the
\* machine goes down, and the console is switched, only with the chosen entry
\* loaded, whole, with the initrd its append line names, and after a
\* confirmation.  A signal that ends a child, a failing waitpid() and a failing
\* close() are the exceptions the code has, and of an append line without
\* initrd= the theorem says only that its initrd is what the entry answers.
THEOREM BootsTheChosenEntry ==
    ASSUME NoSilentFaults
    PROVE  Spec => []PointOfNoReturn
<1>1. Init => CacheInv
  BY DEF Init, CacheInv, NoEntry, EmptyAppend
<1>2. TypeOK /\ CacheInv /\ [Next]_vars => CacheInv'
  BY NextCache
<1>3. IInv /\ CacheInv => PointOfNoReturn
  BY DEF IInv, PlannedIsLoaded, CacheInv, PointOfNoReturn, Complete, Planned
<1>4. IInv => TypeOK
  BY DEF IInv
<1> QED
  BY <1>1, <1>2, <1>3, <1>4, IInvHolds, PTL DEF Spec

\* While kexec -l may read the two files they are there and complete: no
\* order of failures, kills and deletions takes them away from it.
THEOREM KexecReadsWholeFiles ==
    ASSUME NoSilentFaults
    PROVE  Spec => []LoadSeesWholeFiles
<1>1. IInv => LoadSeesWholeFiles
  <2> SUFFICES ASSUME IInv, proc.st = "child", proc.cmd = "load"
               PROVE  /\ kernelTmp # NoFile /\ kernelTmp.whole
                      /\ downloadedInitrd => initrdTmp # NoFile /\ initrdTmp.whole
    BY DEF LoadSeesWholeFiles
  <2>1. KernelFetched /\ InitrdFetched
    BY DEF IInv, FetchedInv, Loading
  <2>2. choice \in Entry
    BY DEF IInv, TypeOK
  <2>3. [of |-> choice.kernel, whole |-> TRUE] \in KernelFile
    BY <2>2 DEF Entry, KernelFile
  <2>4. [of |-> GetInitrd(choice), whole |-> TRUE] \in InitrdFile
    BY <2>2, GetInitrdType DEF InitrdFile
  <2>5. kernelTmp # NoFile /\ kernelTmp.whole
    BY <2>1, <2>3, MarkerAssumption DEF KernelFetched
  <2>6. downloadedInitrd => initrdTmp # NoFile
    BY <2>1, <2>4, MarkerAssumption DEF InitrdFetched
  <2>7. downloadedInitrd => initrdTmp.whole
    BY <2>1 DEF InitrdFetched
  <2> QED
    BY <2>5, <2>6, <2>7
<1> QED
  BY <1>1, IInvHolds, PTL

-----------------------------------------------------------------------------
(***************************************************************************)
(* Whatever fails: without any assumption on the environment's failures,   *)
(* the silent ones (a signal ends a child, waitpid() fails, a block is     *)
(* lost at the close) included.  The inductive invariant takes DryRunInv   *)
(* and FilesInv from above; of the others only the parts that hold in      *)
(* spite of silent failures are left.                                      *)
(***************************************************************************)

Waiting == {"load", "exec", "reboot"}

\* Outside execute() a child is around only as the orphan of a killed run.
ChildInv ==
    /\ proc.st # "none" => pc \in Waiting \union {"dead", "gone"}
    /\ pc \in Waiting => proc.cmd = pc

\* Where a failure is reported, and where the machine may be down.
FailureInv ==
    /\ exit = "failure" => pc \in {"destructor", "done"}
    /\ machine # "up" => /\ pc \in {"reboot", "destructor"} \union Final
                         /\ exit # "failure"

KernelNamed == kernelTmp # NoFile /\ kernelTmp.of = choice.kernel

InitrdNamed ==
    /\ downloadedInitrd <=> GetInitrd(choice) # NoInitrd
    /\ downloadedInitrd => initrdTmp # NoFile /\ initrdTmp.of = GetInitrd(choice)

\* The files kexec -l is given are those of the entry, whole or not.
NamedInv ==
    /\ pc \in {"openInitrd", "fetchInitrd", "execute"} => KernelNamed
    /\ pc = "execute" => InitrdNamed
    /\ Loading => KernelNamed /\ InitrdNamed

ShownIsPlanned == shown # NotShown => shown = Planned

\* From the question on, what was displayed is what is planned; only an edit
\* makes a difference, and it leads back to the display.  With --noconfirm
\* there is no question, and so nothing is edited unseen.
ShownInv ==
    /\ pc \in {"parseCmdLine", "checkEnv", "readPxeConfig", "chooseEntry", "prompt"}
           => shown = NotShown
    /\ pc = "ask" => ~opts.noconfirm
    /\ pc = "confirmBoot" /\ opts.noconfirm => shown = NotShown
    /\ pc \in {"ask", "execute", "load"} \union Downloading => ShownIsPlanned
    /\ Loading => ShownIsPlanned
    /\ pc \in BeforeDownload => image \in {NoImage, OldImage}
    /\ LoadsWhatWasShown

\* prepareConsole() is the only place where a standard stream is closed.
ConsoleInv ==
    /\ pc \notin {"callExec", "exec", "destructor"} \union Final
           => streams = Streams
    /\ "vt" \notin Faults => ConsoleWhereItCan

\* Somebody agreed before the machine goes down or the console is taken away.
NothingUnasked == machine # "up" \/ console # "own" => consent # "none"

FaultInv == /\ TypeOK
            /\ ConsentInv
            /\ NothingUnasked
            /\ DryRunInv
            /\ ChildInv
            /\ FailureInv
            /\ FilesInv
            /\ NamedInv
            /\ ShownInv
            /\ ConsoleInv

-----------------------------------------------------------------------------
(* Lemmas about the operators of Console.                                  *)

\* Every non-empty set of natural numbers has a least member.
LEMMA LeastMember ==
    ASSUME NEW S \in SUBSET Nat, S # {}
    PROVE  Least(S) \in S /\ \A m \in S : Least(S) <= m
<1> DEFINE R == {ss \in Nat \X Nat : ss[1] < ss[2]}
<1>1. IsWellFoundedOn(OpToRel(<,Nat), Nat)
  BY NatLessThanWellFounded
<1>2. IsWellFoundedOn(R, Nat)
  BY <1>1 DEF OpToRel
<1>3. PICK n \in S : \A m \in S : ~(<<m, n>> \in R)
  <2> HIDE DEF R
  <2> QED
    BY <1>2, WFMin
<1>4. ASSUME NEW m \in S
      PROVE  n <= m
  <2>1. <<m, n>> \in Nat \X Nat
    OBVIOUS
  <2>2. ~(m < n)
    BY <2>1, <1>3
  <2> QED
    BY <2>2
<1> QED
  BY <1>4 DEF Least

\* If one of the device files is a console, openConsoleFd() answers with a
\* descriptor of its own or none; it is a console if all files can be opened.
LEMMA OpenConsoleFdFinds ==
    ASSUME NEW terminals \in Seq(Device), NEW consoles,
           \E i \in DOMAIN terminals : terminals[i].console
    PROVE  /\ OpenConsoleFd(terminals, consoles).fd \in {-1, 3}
           /\ (\A i \in DOMAIN terminals : CanOpen(terminals[i]))
                  => OpenConsoleFd(terminals, consoles).console = TRUE
<1> DEFINE ends == {i \in DOMAIN terminals : ~CanOpen(terminals[i])
                                             \/ terminals[i].console}
<1>1. Least(ends) \in ends
  <2>1. ends \in SUBSET Nat /\ ends # {}
    OBVIOUS
  <2> HIDE DEF ends
  <2> QED
    BY <2>1, LeastMember
<1>2. ends # {}
  OBVIOUS
<1>3. OpenConsoleFd(terminals, consoles)
          = IF CanOpen(terminals[Least(ends)]) THEN Opened(terminals[Least(ends)])
                                               ELSE NoFd
  BY <1>2 DEF OpenConsoleFd
<1> DEFINE first == terminals[Least(ends)]
<1>4. first.console \in BOOLEAN /\ (CanOpen(first) => first.console)
  <2>1. first \in Device
    BY <1>1
  <2>2. ~CanOpen(first) \/ first.console
    BY <1>1
  <2> QED
    BY <2>1, <2>2 DEF Device
<1>5. Least(ends) \in DOMAIN terminals
  BY <1>1
<1>6. Opened(first).fd = 3 /\ Opened(first).console = first.console /\ NoFd.fd = -1
  BY DEF Opened, NoFd
<1> HIDE DEF ends, first
<1>7. OpenConsoleFd(terminals, consoles).fd \in {-1, 3}
  BY <1>3, <1>6 DEF first
<1>8. ASSUME \A i \in DOMAIN terminals : CanOpen(terminals[i])
      PROVE  OpenConsoleFd(terminals, consoles).console = TRUE
  BY <1>3, <1>4, <1>5, <1>6, <1>8 DEF first
<1> QED
  BY <1>7, <1>8

\* So the switch closes no standard stream then, and succeeds unless an
\* ioctl() fails.
LEMMA ConsoleIsSwitched ==
    ASSUME NEW terminals \in Seq(Device), NEW consoles, NEW failing \in BOOLEAN,
           NEW vt \in ChangeVirtualTerminal(terminals, consoles, failing),
           \E i \in DOMAIN terminals : terminals[i].console
    PROVE  /\ vt.closed = {}
           /\ ~failing /\ (\A i \in DOMAIN terminals : CanOpen(terminals[i]))
                  => vt.switched
<1> DEFINE fd == OpenConsoleFd(terminals, consoles)
<1>1. vt \in [switched : IF ~fd.console THEN {FALSE}
                         ELSE IF failing THEN BOOLEAN ELSE {TRUE},
              closed   : {{fd.fd} \intersect Streams}]
  BY DEF ChangeVirtualTerminal
<1>2. fd.fd \in {-1, 3}
  BY OpenConsoleFdFinds
<1>3. vt.closed = {}
  BY <1>1, <1>2 DEF Streams
<1>4. ASSUME ~failing, \A i \in DOMAIN terminals : CanOpen(terminals[i])
      PROVE  vt.switched
  <2>1. fd.console = TRUE
    BY <1>4, OpenConsoleFdFinds
  <2> QED
    BY <1>1, <1>4, <2>1
<1> QED
  BY <1>3, <1>4

-----------------------------------------------------------------------------
(* The inductive step.                                                     *)

\* What prepareConsole() does to the console and the streams.
LEMMA ConsoleStep ==
    ASSUME env \in Envs, ConsoleInv, PrepareConsole
    PROVE  ConsoleInv'
<1> DEFINE found == \E i \in DOMAIN env.terminals : env.terminals[i].console
<1>1. env.terminals \in Seq(Device)
  BY PxeKexecAssumption DEF Env
<1>2. streams = Streams /\ pc' = "callExec" /\ env' = env /\ opts' = opts
  BY DEF PrepareConsole, Goto, ConsoleInv, Final
<1>3. CASE UNCHANGED <<console, streams>> /\ (opts.dryRun \/ env.stdin = "console")
  BY <1>2, <1>3 DEF ConsoleInv, ConsoleWhereItCan, Final
<1>4. CASE ~opts.dryRun /\ env.stdin = "pty"
  <2>1. PICK vt \in ChangeVirtualTerminal(env.terminals, env.consoles,
                                          "vt" \in Faults) :
            /\ console' = IF vt.switched THEN "vt1" ELSE console
            /\ streams' = streams \ vt.closed
    BY <1>4 DEF PrepareConsole
  <2>2. ASSUME found
        PROVE  /\ vt.closed = {}
               /\ /\ "vt" \notin Faults
                  /\ \A i \in DOMAIN env.terminals : CanOpen(env.terminals[i])
                  => vt.switched
    <3>1. ("vt" \in Faults) \in BOOLEAN
      OBVIOUS
    <3> QED
      BY <1>1, <2>1, <2>2, <3>1, ConsoleIsSwitched, Zenon
  <2> QED
    BY <1>2, <2>1, <2>2 DEF ConsoleInv, ConsoleWhereItCan, Final
<1> QED
  BY <1>3, <1>4 DEF PrepareConsole

\* Every step preserves the invariant, whatever fails in it.
LEMMA NextFaultInv ==
    ASSUME FaultInv, [Next]_vars
    PROVE  FaultInv'
<1> USE DEF FaultInv, ConsentInv, NothingUnasked, AfterLoad, DryRunInv, ChildInv, FailureInv, FilesInv, NamedInv, ShownInv,
            ConsoleInv, ConsoleWhereItCan, LoadsWhatWasShown, KernelNamed,
            InitrdNamed, ShownIsPlanned, Planned, Loading, Waiting,
            BeforeDownload, Downloading, Final
<1>1. TypeOK /\ TypeOK'
  BY NextType
<1>2. CASE ParseCmdLine
  <2>1. dryRunMode' = opts'.dryRun
    BY <1>2, ParseSteps
  <2>2. proc.st = "none"
    BY <1>2 DEF ParseCmdLine
  <2> QED
    BY <1>1, <1>2, <2>1, <2>2
       DEF ParseCmdLine, Goto, userVars, fileVars, worldVars
<1>3. CASE ParseStops
  BY <1>1, <1>3
     DEF ParseStops, Return, Throw, userVars, fileVars, worldVars, procVars
<1>4. CASE CheckEnv
  BY <1>1, <1>4
     DEF CheckEnv, Goto, Throw, userVars, fileVars, worldVars, procVars
<1>5. CASE ReadPxeConfig
  BY <1>1, <1>5
     DEF ReadPxeConfig, Goto, userVars, fileVars, worldVars, procVars
<1>6. CASE ReadPxeConfigThrows
  BY <1>1, <1>6
     DEF ReadPxeConfigThrows, Throw, userVars, fileVars, worldVars,
         procVars
<1>7. CASE ChooseEntry
  BY <1>1, <1>7
     DEF ChooseEntry, Goto, userVars, fileVars, worldVars, procVars
<1>8. CASE PromptDone
  BY <1>1, <1>8
     DEF PromptDone, Goto, Return, userVars, fileVars, worldVars, procVars
<1>9. CASE PromptName
  BY <1>1, <1>9
     DEF PromptName, userVars, fileVars, worldVars, procVars
<1>10. CASE PromptQuit
  BY <1>1, <1>10
     DEF PromptQuit, Return, userVars, fileVars, worldVars, procVars
<1>11. CASE ConfirmShow
  <2>1. /\ GetInitrd(AfterGetInitrd(choice)) = GetInitrd(choice)
        /\ AfterGetInitrd(choice).kernel = choice.kernel
        /\ AfterGetInitrd(choice).append = choice.append
    BY GetInitrdTwice DEF TypeOK
  <2>2. shown' # NotShown => shown' = Planned'
    BY <1>11, <2>1 DEF ConfirmShow, Goto
  <2>3. image' \in {NoImage, OldImage} /\ LoadsWhatWasShown'
    BY <1>11 DEF ConfirmShow, worldVars
  <2> QED
    BY <1>1, <1>11, <2>2, <2>3 DEF ConfirmShow, Goto, fileVars, worldVars, procVars
<1>12. CASE ConfirmYes
  BY <1>1, <1>12
     DEF ConfirmYes, Goto, userVars, fileVars, worldVars, procVars
<1>13. CASE ConfirmNo
  BY <1>1, <1>13
     DEF ConfirmNo, Return, userVars, fileVars, worldVars, procVars
<1>14. CASE ConfirmInvalid
  BY <1>1, <1>14
     DEF ConfirmInvalid, userVars, fileVars, worldVars, procVars
<1>15. CASE ConfirmEdit
  BY <1>1, <1>15
     DEF ConfirmEdit, Goto, userVars, fileVars, worldVars, procVars
<1>16. CASE OpenKernel
  BY <1>1, <1>16
     DEF OpenKernel, Goto, userVars, fileVars, worldVars, procVars
<1>17. CASE FetchKernel
  <2>1. /\ GetInitrd(choice') = GetInitrd(choice)
        /\ choice'.kernel = choice.kernel /\ choice'.append = choice.append
    BY <1>17, GetInitrdTwice DEF FetchKernel, TypeOK
  <2>2. kernelTmp' # NoFile /\ kernelTmp'.of = choice.kernel
    BY <1>17, MarkerAssumption, <1>1 DEF FetchKernel, TypeOK, KernelFile
  <2>3. KernelNamed' /\ (ShownIsPlanned => ShownIsPlanned')
    BY <1>17, <2>1, <2>2 DEF FetchKernel
  <2>4. pc' = "execute" => InitrdNamed'
    BY <1>1, <1>17, <2>1 DEF FetchKernel, Goto, TypeOK
  <2>5. pc' = "openInitrd" => GetInitrd(choice') # NoInitrd
    BY <1>17, <2>1 DEF FetchKernel, Goto
  <2>6. pc' \in {"execute", "openInitrd"}
    BY <1>17 DEF FetchKernel, Goto
  <2> QED
    BY <1>1, <1>17, <2>3, <2>4, <2>5, <2>6 DEF FetchKernel, Goto, worldVars, procVars
<1>18. CASE FetchKernelThrows
  BY <1>1, <1>18
     DEF FetchKernelThrows, Throw, userVars, fileVars, worldVars, procVars
<1>19. CASE OpenInitrd
  BY <1>1, <1>19
     DEF OpenInitrd, Goto, userVars, fileVars, worldVars, procVars
<1>20. CASE FetchInitrd
  <2>1. initrdTmp' # NoFile /\ initrdTmp'.of = GetInitrd(choice)
    BY <1>20, MarkerAssumption, <1>1 DEF FetchInitrd, TypeOK, InitrdFile
  <2>2. InitrdNamed'
    BY <1>20, <2>1 DEF FetchInitrd, userVars
  <2> QED
    BY <1>1, <1>20, <2>2 DEF FetchInitrd, Goto, userVars, worldVars, procVars
<1>21. CASE FetchInitrdThrows
  BY <1>1, <1>21
     DEF FetchInitrdThrows, Throw, userVars, fileVars, worldVars, procVars
<1>22. CASE CallLoad
  <2>1. /\ proc.st = "none" /\ proc'.cmd = "load"
        /\ \/ proc'.st = "child" /\ ~dryRunMode
           \/ proc'.st = "returned"
    BY <1>22, ExecuteSteps DEF CallLoad, Commands
  <2> QED
    BY <1>1, <1>22, <2>1 DEF CallLoad, Goto, userVars, fileVars, worldVars
<1>23. CASE LoadReturns
  BY <1>1, <1>23
     DEF LoadReturns, DeleteKernels, HasReturned, NoProcess, Goto, Return,
         Throw, userVars, fileVars, worldVars, procVars
<1>24. CASE PrepareConsole
  <2>1. ConsoleInv'
    BY <1>24, ConsoleStep DEF TypeOK
  <2> QED
    BY <1>1, <1>24, <2>1 DEF PrepareConsole, Goto, userVars, fileVars, procVars
<1>25. CASE PrepareConsoleAborts
  BY <1>1, <1>25
     DEF PrepareConsoleAborts, userVars, fileVars, worldVars, procVars
<1>26. CASE CallExec
  <2>1. /\ proc.st = "none" /\ proc'.cmd = "exec"
        /\ \/ proc'.st = "child" /\ ~dryRunMode
           \/ proc'.st = "returned"
    BY <1>26, ExecuteSteps DEF CallExec, Commands
  <2> QED
    BY <1>1, <1>26, <2>1 DEF CallExec, Goto, userVars, fileVars, worldVars
<1>27. CASE ExecReturns
  BY <1>1, <1>27
     DEF ExecReturns, HasReturned, NoProcess, Return, Throw, userVars,
         fileVars, worldVars, procVars
<1>28. CASE CallReboot
  <2>1. /\ proc.st = "none" /\ proc'.cmd = "reboot"
        /\ \/ proc'.st = "child" /\ ~dryRunMode
           \/ proc'.st = "returned"
    BY <1>28, ExecuteSteps DEF CallReboot, Commands
  <2> QED
    BY <1>1, <1>28, <2>1 DEF CallReboot, Goto, userVars, fileVars, worldVars
<1>29. CASE RebootReturns
  BY <1>1, <1>29
     DEF RebootReturns, HasReturned, NoProcess, Return, userVars, fileVars,
         worldVars, procVars
<1>30. CASE ChildWaitedFor
  <2>1. proc.st = "zombie" /\ proc'.st = "returned" /\ proc'.cmd = proc.cmd
    BY <1>1, <1>30 DEF ChildWaitedFor, Wait, WaitFails, Returned, ProcType, TypeOK
  <2> QED
    BY <1>1, <1>30, <2>1 DEF ChildWaitedFor, userVars, fileVars, worldVars
<1>31. CASE Destructor
  BY <1>1, <1>31
     DEF Destructor, DeleteKernels, userVars, fileVars, worldVars, procVars
<1>32. CASE ChildLoads
  <2>1. /\ proc.st = "child" /\ proc.cmd = "load"
        /\ proc'.st = "child" /\ proc'.cmd = "load"
    BY <1>1, <1>32, ChildActsSteps DEF ChildLoads, Commands, TypeOK
  <2>2. KernelNamed /\ InitrdNamed /\ ShownIsPlanned
    BY <2>1
  <2>3. image'.what = Planned
    BY <1>32, <2>2 DEF ChildLoads
  <2>4. LoadsWhatWasShown'
    BY <1>32, <2>2, <2>3 DEF ChildLoads, userVars
  <2> QED
    BY <1>1, <1>32, <2>1, <2>4 DEF ChildLoads, userVars, fileVars
<1>33. CASE ChildExecs
  <2>1. /\ proc.st = "child" /\ proc.cmd = "exec"
        /\ proc'.st = "child" /\ proc'.cmd = "exec"
    BY <1>1, <1>33, ChildActsSteps DEF ChildExecs, Commands, TypeOK
  <2> QED
    BY <1>1, <1>33, <2>1 DEF ChildExecs, userVars, fileVars
<1>34. CASE ChildReboots
  <2>1. /\ proc.st = "child" /\ proc.cmd = "reboot"
        /\ proc'.st = "child" /\ proc'.cmd = "reboot"
    BY <1>1, <1>34, ChildActsSteps DEF ChildReboots, Commands, TypeOK
  <2> QED
    BY <1>1, <1>34, <2>1 DEF ChildReboots, userVars, fileVars
<1>35. CASE ChildEnds
  <2>1. proc.st = "child" /\ proc'.st = "zombie" /\ proc'.cmd = proc.cmd
    BY <1>1, <1>35 DEF ChildEnds, ChildExits, ChildKilled, ProcType, TypeOK
  <2> QED
    BY <1>1, <1>35, <2>1 DEF ChildEnds, userVars, fileVars, worldVars
<1>36. CASE Kill
  BY <1>1, <1>36
     DEF Kill, userVars, fileVars, worldVars, procVars
<1>37. CASE Terminated
  BY <1>1, <1>37
     DEF Terminated, vars, userVars, fileVars, worldVars, procVars
<1>38. CASE UNCHANGED vars
  BY <1>1, <1>38 DEF vars, userVars, fileVars, worldVars, procVars
<1> QED
  BY <1>1, <1>2, <1>3, <1>4, <1>5, <1>6, <1>7, <1>8, <1>9, <1>10,
     <1>11, <1>12, <1>13, <1>14, <1>15, <1>16, <1>17, <1>18, <1>19,
     <1>20, <1>21, <1>22, <1>23, <1>24, <1>25, <1>26, <1>27, <1>28,
     <1>29, <1>30, <1>31, <1>32, <1>33, <1>34, <1>35, <1>36, <1>37,
     <1>38
     DEF Next, Program, Choose, Confirm, Download, Run, Child

\* The invariant holds when the program starts.
LEMMA InitFaultInv == Init => FaultInv
<1> SUFFICES ASSUME Init
             PROVE  FaultInv
  OBVIOUS
<1>1. TypeOK
  BY InitType
<1>2. opts.dryRun = FALSE
  BY DEF Init, NoOpts
<1> QED
  BY <1>1, <1>2
     DEF Init, FaultInv, ConsentInv, NothingUnasked, DryRunInv, ChildInv, FailureInv,
         FilesInv, NamedInv, ShownInv, ConsoleInv, ConsoleWhereItCan,
         LoadsWhatWasShown, ShownIsPlanned, Loading, Waiting, BeforeDownload,
         Downloading, AfterLoad, Final, NoProcess

\* It holds in every state of every behaviour.
LEMMA FaultInvHolds == Spec => []FaultInv
<1>1. Init => FaultInv
  BY InitFaultInv
<1>2. FaultInv /\ [Next]_vars => FaultInv'
  BY NextFaultInv
<1> QED
  BY <1>1, <1>2, PTL DEF Spec

-----------------------------------------------------------------------------
(* What follows.                                                           *)

\* An exit code of 1 says that the machine stays up: no throw of main() is
\* behind a child that took it down, whatever such a child's status says.
THEOREM FailureIsHarmless == Spec => []FailureLeavesMachineUp
<1>1. FaultInv => FailureLeavesMachineUp
  BY DEF FaultInv, FailureInv, FailureLeavesMachineUp
<1> QED
  BY <1>1, FaultInvHolds, PTL

\* What kexec -l loads is what confirmBoot() displayed last, also if a part of
\* it is lost: an edit of the append line is shown before it is agreed to.
THEOREM ShownIsLoaded == Spec => []LoadsWhatWasShown
<1>1. FaultInv => LoadsWhatWasShown
  BY DEF FaultInv, ShownInv
<1> QED
  BY <1>1, FaultInvHolds, PTL

\* Without an answer, or --noconfirm in its place, the machine does not go
\* down and the console is not switched: that part of PointOfNoReturn needs no
\* assumption on the failures.
THEOREM NobodyIsUnasked == Spec => []NothingUnasked
<1>1. FaultInv => NothingUnasked
  BY DEF FaultInv
<1> QED
  BY <1>1, FaultInvHolds, PTL

\* From a pseudo terminal the new kernel starts on the first console wherever
\* openConsoleFd() can find one, and no stream the program needs is closed.
\* Only a failing ioctl() keeps the old console.
THEOREM ConsoleIsFound ==
    ASSUME "vt" \notin Faults
    PROVE  Spec => []ConsoleWhereItCan
<1>1. FaultInv => ConsoleWhereItCan
  BY DEF FaultInv, ConsoleInv
<1> QED
  BY <1>1, FaultInvHolds, PTL

\* A dry run loads nothing, restarts nothing and leaves the console alone, in
\* every single step: Process has no child then, and prepareConsole() only
\* says what it would do.
THEOREM DryRunIsDry == Spec => DryRunTouchesNothing
<1>1. ASSUME FaultInv, [Next]_vars
      PROVE  [opts.dryRun => UNCHANGED <<image, machine, console, streams>>]_vars
  <2> SUFFICES ASSUME Next, opts.dryRun
               PROVE  UNCHANGED <<image, machine, console, streams>>
    BY <1>1
  <2>1. proc.st # "child"
    BY <1>1 DEF FaultInv, DryRunInv
  <2>2. ~ChildLoads /\ ~ChildExecs /\ ~ChildReboots
    BY <2>1 DEF ChildLoads, ChildExecs, ChildReboots, ChildActs
  <2>3. CASE ParseCmdLine \/ ParseStops \/ CheckEnv \/ ReadPxeConfig
                \/ ReadPxeConfigThrows \/ Choose \/ Confirm
    BY <2>3
       DEF ParseCmdLine, ParseStops, CheckEnv, ReadPxeConfig, ReadPxeConfigThrows,
           Choose, ChooseEntry, PromptDone, PromptName, PromptQuit, Confirm,
           ConfirmShow, ConfirmYes, ConfirmNo, ConfirmInvalid, ConfirmEdit, worldVars
  <2>4. CASE Download
    BY <2>4
       DEF Download, OpenKernel, FetchKernel, FetchKernelThrows, OpenInitrd,
           FetchInitrd, FetchInitrdThrows, worldVars
  <2>5. CASE Run
    BY <2>5
       DEF Run, CallLoad, LoadReturns, PrepareConsole, PrepareConsoleAborts,
           CallExec, ExecReturns, CallReboot, RebootReturns, worldVars
  <2>6. CASE ChildWaitedFor \/ Destructor \/ Child \/ Kill \/ Terminated
    BY <2>2, <2>6
       DEF ChildWaitedFor, Destructor, Child, ChildEnds, Kill, Terminated, vars,
           worldVars
  <2> QED
    BY <2>3, <2>4, <2>5, <2>6 DEF Next, Program
<1> QED
  BY <1>1, FaultInvHolds, PTL DEF Spec, DryRunTouchesNothing

-----------------------------------------------------------------------------
(***************************************************************************)
(* PxeKexec implements BootContract: every initial state and every step of *)
(* the program maps to one of the contract, or to a stutter.               *)
(***************************************************************************)
(* What the contract needs beyond IInv.                                    *)

BeforeAnswer == {"parseCmdLine", "checkEnv", "readPxeConfig", "chooseEntry",
                 "prompt", "confirmBoot", "ask"}

\* The answer comes once; a dry run is one from the first statement on.
OnceInv ==
    /\ pc \in BeforeAnswer => consent = "none"
    /\ pc = "parseCmdLine" => opts.dryRun = FALSE

\* The exit code is fixed on the way to the destructor, and no sooner.
ExitInv ==
    /\ pc \notin Final \union {"destructor"} => exit = "none"
    /\ pc = "destructor" => exit \in {"success", "failure"}
    /\ pc \in {"dead", "aborted", "gone"} => exit \in {"none", "killed", "aborted"}
    /\ pc = "destructor" /\ exit = "success" /\ consent # "none" /\ ~opts.dryRun
           => image = Complete

\* The machine goes down by a child that has acted; who returns from one that
\* has not, returns on a machine that is up.
UpInv ==
    /\ pc \notin Final \union {"reboot", "destructor"} => machine = "up"
    /\ pc = "destructor" /\ exit = "failure" => machine = "up"
    /\ proc.cmd = "load" => machine = "up"
    /\ ~proc.acted => machine = "up" \/ proc.st = "none"
    /\ proc.st # "none" => pc \notin {"done", "destructor"}

ContractInv == OnceInv /\ ExitInv /\ UpInv

-----------------------------------------------------------------------------
\* Every step preserves it.
LEMMA NextContractInv ==
    ASSUME NoSilentFaults, IInv, ContractInv, [Next]_vars
    PROVE  ContractInv'
<1> USE DEF ContractInv, OnceInv, ExitInv, UpInv, BeforeAnswer, IInv, DryRunInv,
            ProcInv, LoadedInv, Complete, Planned, AfterLoad, Final
<1>1. TypeOK /\ IInv'
  BY NextIInv
<1>2. CASE ParseCmdLine
  BY <1>1, <1>2
     DEF ParseCmdLine, Goto, NoProcess, userVars, fileVars, worldVars,
         NoProcess
<1>3. CASE ParseStops
  BY <1>1, <1>3
     DEF ParseStops, Return, Throw, userVars, fileVars, worldVars, procVars
<1>4. CASE CheckEnv
  BY <1>1, <1>4
     DEF CheckEnv, Goto, Throw, userVars, fileVars, worldVars, procVars
<1>5. CASE ReadPxeConfig
  BY <1>1, <1>5
     DEF ReadPxeConfig, Goto, fileVars, worldVars, procVars
<1>6. CASE ReadPxeConfigThrows
  BY <1>1, <1>6
     DEF ReadPxeConfigThrows, Throw, userVars, fileVars, worldVars, procVars
<1>7. CASE ChooseEntry
  BY <1>1, <1>7
     DEF ChooseEntry, Goto, NoProcess, fileVars, worldVars, procVars
<1>8. CASE PromptDone
  BY <1>1, <1>8
     DEF PromptDone, Goto, Return, userVars, fileVars, worldVars, procVars
<1>9. CASE PromptName
  BY <1>1, <1>9
     DEF PromptName, NoProcess, fileVars, worldVars, procVars
<1>10. CASE PromptQuit
  BY <1>1, <1>10
     DEF PromptQuit, Return, fileVars, worldVars, procVars
<1>11. CASE ConfirmShow
  BY <1>1, <1>11, GetInitrdTwice
     DEF ConfirmShow, Goto, NoProcess, fileVars, worldVars, procVars
<1>12. CASE ConfirmYes
  BY <1>1, <1>12
     DEF ConfirmYes, Goto, fileVars, worldVars, procVars
<1>13. CASE ConfirmNo
  BY <1>1, <1>13
     DEF ConfirmNo, Return, fileVars, worldVars, procVars
<1>14. CASE ConfirmInvalid
  BY <1>1, <1>14
     DEF ConfirmInvalid, fileVars, worldVars, procVars
<1>15. CASE ConfirmEdit
  BY <1>1, <1>15
     DEF ConfirmEdit, Goto, NoProcess, fileVars, worldVars, procVars
<1>16. CASE OpenKernel
  BY <1>1, <1>16
     DEF OpenKernel, Goto, userVars, worldVars, procVars
<1>17. CASE FetchKernel
  BY <1>1, <1>17, GetInitrdTwice
     DEF FetchKernel, Goto, NoProcess, worldVars, procVars
<1>18. CASE FetchKernelThrows
  BY <1>1, <1>18
     DEF FetchKernelThrows, Throw, userVars, fileVars, worldVars, procVars
<1>19. CASE OpenInitrd
  BY <1>1, <1>19
     DEF OpenInitrd, Goto, userVars, worldVars, procVars
<1>20. CASE FetchInitrd
  BY <1>1, <1>20
     DEF FetchInitrd, Goto, userVars, worldVars, procVars
<1>21. CASE FetchInitrdThrows
  BY <1>1, <1>21
     DEF FetchInitrdThrows, Throw, userVars, fileVars, worldVars, procVars
<1>22. CASE CallLoad
  <2>1. proc.st = "none" /\ proc'.cmd = "load" /\ proc'.acted = FALSE
    BY <1>22, ExecuteSteps DEF CallLoad, Commands
  <2> QED
    BY <1>1, <1>22, <2>1
       DEF CallLoad, Goto, userVars, fileVars, worldVars
<1>23. CASE LoadReturns
  BY <1>1, <1>23
     DEF LoadReturns, Goto, Return, Throw, HasReturned, NoProcess,
         DeleteKernels, userVars, worldVars
<1>24. CASE PrepareConsole
  BY <1>1, <1>24
     DEF PrepareConsole, Goto, userVars, fileVars, procVars
<1>25. CASE PrepareConsoleAborts
  BY <1>1, <1>25
     DEF PrepareConsoleAborts, userVars, fileVars, worldVars, procVars
<1>26. CASE CallExec
  <2>1. proc.st = "none" /\ proc'.cmd = "exec" /\ proc'.acted = FALSE
    BY <1>26, ExecuteSteps DEF CallExec, Commands
  <2> QED
    BY <1>1, <1>26, <2>1
       DEF CallExec, Goto, userVars, fileVars, worldVars
<1>27. CASE ExecReturns
  BY <1>1, <1>27
     DEF ExecReturns, Return, Throw, HasReturned, NoProcess, userVars,
         fileVars, worldVars
<1>28. CASE CallReboot
  <2>1. proc.st = "none" /\ proc'.cmd = "reboot" /\ proc'.acted = FALSE
    BY <1>28, ExecuteSteps DEF CallReboot, Commands
  <2> QED
    BY <1>1, <1>28, <2>1
       DEF CallReboot, Goto, userVars, fileVars, worldVars
<1>29. CASE RebootReturns
  BY <1>1, <1>29
     DEF RebootReturns, Return, HasReturned, NoProcess, userVars, fileVars,
         worldVars
<1>30. CASE ChildWaitedFor
  <2>1. /\ proc.st = "zombie" /\ proc'.st = "returned"
        /\ proc'.cmd = proc.cmd /\ proc'.acted = proc.acted
    BY <1>1, <1>30, WaitSteps DEF ChildWaitedFor, TypeOK
  <2> QED
    BY <1>1, <1>30, <2>1
       DEF ChildWaitedFor, userVars, fileVars, worldVars
<1>31. CASE Destructor
  BY <1>1, <1>31
     DEF Destructor, DeleteKernels, userVars, worldVars, procVars
<1>32. CASE ChildLoads
  <2>1. /\ proc.st = "child" /\ proc.cmd = "load"
        /\ proc'.st = "child" /\ proc'.cmd = "load" /\ proc'.acted = TRUE
    BY <1>1, <1>32, ChildActsSteps DEF ChildLoads, Commands, TypeOK
  <2> QED
    BY <1>1, <1>32, <2>1
       DEF ChildLoads, userVars, fileVars
<1>33. CASE ChildExecs
  <2>1. /\ proc.st = "child" /\ proc.cmd = "exec"
        /\ proc'.st = "child" /\ proc'.cmd = "exec" /\ proc'.acted = TRUE
    BY <1>1, <1>33, ChildActsSteps DEF ChildExecs, Commands, TypeOK
  <2> QED
    BY <1>1, <1>33, <2>1
       DEF ChildExecs, userVars, fileVars
<1>34. CASE ChildReboots
  <2>1. /\ proc.st = "child" /\ proc.cmd = "reboot"
        /\ proc'.st = "child" /\ proc'.cmd = "reboot" /\ proc'.acted = TRUE
    BY <1>1, <1>34, ChildActsSteps DEF ChildReboots, Commands, TypeOK
  <2> QED
    BY <1>1, <1>34, <2>1
       DEF ChildReboots, userVars, fileVars
<1>35. CASE ChildEnds
  <2>1. /\ proc.st = "child" /\ proc'.st = "zombie"
        /\ proc'.cmd = proc.cmd /\ proc'.acted = proc.acted
    BY <1>1, <1>35, ChildEndsSteps DEF ChildEnds, TypeOK
  <2> QED
    BY <1>1, <1>35, <2>1
       DEF ChildEnds, userVars, fileVars, worldVars
<1>36. CASE Kill
  BY <1>1, <1>36
     DEF Kill, userVars, fileVars, worldVars, procVars
<1>37. CASE Terminated
  BY <1>1, <1>37
     DEF Terminated, vars, userVars, fileVars, worldVars, procVars
<1>38. CASE UNCHANGED vars
  BY <1>1, <1>38
     DEF vars, userVars, fileVars, worldVars, procVars
<1> QED
  BY <1>2, <1>3, <1>4, <1>5, <1>6, <1>7, <1>8, <1>9, <1>10, <1>11, <1>12,
     <1>13, <1>14, <1>15, <1>16, <1>17, <1>18, <1>19, <1>20, <1>21, <1>22,
     <1>23, <1>24, <1>25, <1>26, <1>27, <1>28, <1>29, <1>30, <1>31, <1>32,
     <1>33, <1>34, <1>35, <1>36, <1>37, <1>38
     DEF Next, Program, Choose, Confirm, Download, Run, Child

\* The program starts in it.
LEMMA InitContractInv == Init => ContractInv
<1> SUFFICES ASSUME Init
             PROVE  ContractInv
  OBVIOUS
<1>1. opts.dryRun = FALSE
  BY DEF Init, NoOpts
<1> QED
  BY <1>1 DEF Init, ContractInv, OnceInv, ExitInv, UpInv, BeforeAnswer, Final,
              NoProcess

\* What is planned is something to boot, and neither of the markers.
LEMMA PlannedType ==
    ASSUME TypeOK
    PROVE  /\ Planned \in Shown /\ Planned # NotShown
           /\ Complete \notin {NoImage, OldImage}
           /\ Complete.whole = TRUE /\ Complete.what = Planned
<1>1. choice \in Entry /\ GetInitrd(choice) \in Initrds \union {NoInitrd}
  BY GetInitrdType DEF TypeOK
<1>2. Planned \in Shown
  BY <1>1 DEF Planned, Shown, Entry
<1>3. Complete \in Image
  BY <1>2 DEF Complete, Image
<1> QED
  BY <1>2, <1>3, MarkerAssumption DEF Complete

\* What nobody who holds the contract can see.
LEMMA Unseen ==
    ASSUME opts'.dryRun = opts.dryRun, consent' = consent,
           consent = "none" \/ Planned' = Planned,
           image' = image, machine' = machine,
           \/ pc \notin Final /\ pc' \notin Final
           \/ pc' = pc /\ exit' = exit
    PROVE  UNCHANGED Contract!promise
BY DEF Contract!promise, Final

-----------------------------------------------------------------------------
\* Every step keeps the contract.
LEMMA NextContract ==
    ASSUME NoSilentFaults, IInv, ContractInv, [Next]_vars
    PROVE  [Contract!Next]_(Contract!promise)
<1>1. TypeOK /\ TypeOK'
  BY NextIInv DEF IInv
<1>2. /\ Planned \in Shown /\ Planned # NotShown
      /\ Complete \notin {NoImage, OldImage}
      /\ Complete.whole = TRUE /\ Complete.what = Planned
  BY <1>1, PlannedType
<1>3. CASE ParseCmdLine
  <2>1. /\ opts.dryRun = FALSE /\ opts'.dryRun \in BOOLEAN
        /\ consent = "none" /\ consent' = "none"
        /\ image' = image /\ machine' = machine
        /\ pc \notin Final /\ pc' \notin Final
    BY <1>1, <1>3
       DEF ParseCmdLine, Goto, userVars, worldVars, Final, ContractInv, OnceInv,
           BeforeAnswer, TypeOK, CmdLine
  <2>2. CASE opts'.dryRun = FALSE
    BY <2>1, <2>2, Unseen
  <2>3. CASE opts'.dryRun = TRUE
    BY <2>1, <2>3 DEF Contract!Next, Contract!Pretend
  <2> QED
    BY <2>1, <2>2, <2>3
<1>4. CASE ParseStops
  BY <1>1, <1>4, Unseen
     DEF Final, Planned, ParseStops, Return, Throw, userVars, fileVars,
         worldVars, procVars
<1>5. CASE CheckEnv
  BY <1>1, <1>5, Unseen
     DEF Final, Planned, CheckEnv, Goto, Throw, userVars, fileVars, worldVars,
         procVars
<1>6. CASE ReadPxeConfig
  BY <1>1, <1>6, Unseen
     DEF Final, Planned, ReadPxeConfig, Goto, fileVars, worldVars
<1>7. CASE ReadPxeConfigThrows
  BY <1>1, <1>7, Unseen
     DEF Final, Planned, ReadPxeConfigThrows, Throw, userVars, fileVars,
         worldVars, procVars
<1>8. CASE ChooseEntry
  BY <1>1, <1>8, Unseen
     DEF Final, Planned, ChooseEntry, Goto, fileVars, worldVars, ContractInv,
         OnceInv, BeforeAnswer
<1>9. CASE PromptDone
  BY <1>1, <1>9, Unseen
     DEF Final, Planned, PromptDone, Goto, Return, userVars, fileVars,
         worldVars, procVars
<1>10. CASE PromptName
  BY <1>1, <1>10, Unseen
     DEF Final, Planned, PromptName, fileVars, worldVars, ContractInv,
         OnceInv, BeforeAnswer
<1>11. CASE PromptQuit
  BY <1>1, <1>11, Unseen
     DEF Final, Planned, PromptQuit, Return, fileVars, worldVars
<1>12. CASE ConfirmShow
  <2>1. /\ opts' = opts /\ consent = "none"
        /\ image' = image /\ machine' = machine
        /\ pc \notin Final /\ pc' \notin Final
    BY <1>12
       DEF ConfirmShow, Goto, worldVars, Final, ContractInv, OnceInv, BeforeAnswer
  <2>2. Planned' = Planned
    BY <1>1, <1>12, GetInitrdTwice DEF ConfirmShow, Planned, TypeOK
  <2>3. CASE opts.noconfirm
    <3>1. consent' = "option"
      BY <1>12, <2>3 DEF ConfirmShow
    <3> QED
      BY <1>2, <2>1, <2>2, <3>1 DEF Contract!Next, Contract!Agree
  <2>4. CASE ~opts.noconfirm
    <3>1. consent' = consent
      BY <1>12, <2>4 DEF ConfirmShow
    <3> QED
      BY <2>1, <2>2, <3>1, Unseen
  <2> QED
    BY <2>3, <2>4
<1>13. CASE ConfirmYes
  <2>1. /\ opts' = opts /\ consent = "none"
        /\ image' = image /\ machine' = machine
        /\ pc \notin Final /\ pc' \notin Final
    BY <1>13
       DEF ConfirmYes, Goto, worldVars, Final, ContractInv, OnceInv, BeforeAnswer
  <2>2. Planned' = Planned /\ consent' # "none"
    BY <1>13 DEF ConfirmYes, Planned
  <2> QED
    BY <1>2, <2>1, <2>2 DEF Contract!Next, Contract!Agree
<1>14. CASE ConfirmNo
  BY <1>1, <1>14, Unseen
     DEF Final, Planned, ConfirmNo, Return, fileVars, worldVars
<1>15. CASE ConfirmInvalid
  BY <1>1, <1>15, Unseen
     DEF Final, Planned, ConfirmInvalid, fileVars, worldVars
<1>16. CASE ConfirmEdit
  BY <1>1, <1>16, Unseen
     DEF Final, Planned, ConfirmEdit, Goto, fileVars, worldVars, ContractInv,
         OnceInv, BeforeAnswer
<1>17. CASE OpenKernel
  BY <1>1, <1>17, Unseen
     DEF Final, Planned, OpenKernel, Goto, userVars, worldVars
<1>18. CASE FetchKernel
  <2>1. Planned' = Planned
    BY <1>1, <1>18, GetInitrdTwice DEF FetchKernel, Planned, TypeOK
  <2> QED
    BY <1>18, <2>1, Unseen DEF Final, FetchKernel, Goto, worldVars
<1>19. CASE FetchKernelThrows
  BY <1>1, <1>19, Unseen
     DEF Final, Planned, FetchKernelThrows, Throw, userVars, fileVars,
         worldVars, procVars
<1>20. CASE OpenInitrd
  BY <1>1, <1>20, Unseen
     DEF Final, Planned, OpenInitrd, Goto, userVars, worldVars
<1>21. CASE FetchInitrd
  BY <1>1, <1>21, Unseen
     DEF Final, Planned, FetchInitrd, Goto, userVars, worldVars
<1>22. CASE FetchInitrdThrows
  BY <1>1, <1>22, Unseen
     DEF Final, Planned, FetchInitrdThrows, Throw, userVars, fileVars,
         worldVars, procVars
<1>23. CASE CallLoad
  BY <1>1, <1>23, Unseen
     DEF Final, Planned, CallLoad, Goto, userVars, fileVars, worldVars
<1>24. CASE LoadReturns
  BY <1>1, <1>24, Unseen
     DEF Final, Planned, LoadReturns, Goto, Return, Throw, userVars, worldVars
<1>25. CASE PrepareConsole
  BY <1>1, <1>25, Unseen
     DEF Final, Planned, PrepareConsole, Goto, userVars, fileVars
<1>26. CASE PrepareConsoleAborts
  <2>1. /\ opts' = opts /\ consent' = consent /\ Planned' = Planned
        /\ image' = image /\ machine' = machine
        /\ pc \notin Final /\ pc' \in Final
    BY <1>26 DEF PrepareConsoleAborts, userVars, fileVars, worldVars, procVars, Planned, Final
  <2>2. exit' = "aborted"
    BY <1>26 DEF PrepareConsoleAborts
  <2> QED
    BY <2>1, <2>2 DEF Contract!Next, Contract!Report
<1>27. CASE CallExec
  BY <1>1, <1>27, Unseen
     DEF Final, Planned, CallExec, Goto, userVars, fileVars, worldVars
<1>28. CASE ExecReturns
  BY <1>1, <1>28, Unseen
     DEF Final, Planned, ExecReturns, Return, Throw, userVars, fileVars,
         worldVars
<1>29. CASE CallReboot
  BY <1>1, <1>29, Unseen
     DEF Final, Planned, CallReboot, Goto, userVars, fileVars, worldVars
<1>30. CASE RebootReturns
  BY <1>1, <1>30, Unseen
     DEF Final, Planned, RebootReturns, Return, userVars, fileVars, worldVars
<1>31. CASE ChildWaitedFor
  BY <1>1, <1>31, Unseen
     DEF Final, Planned, ChildWaitedFor, userVars, fileVars, worldVars
<1>32. CASE Destructor
  <2>1. /\ opts' = opts /\ consent' = consent /\ Planned' = Planned
        /\ image' = image /\ machine' = machine
        /\ pc \notin Final /\ pc' \in Final
    BY <1>32 DEF Destructor, userVars, worldVars, Planned, Final
  <2>2. pc = "destructor" /\ exit' = exit /\ exit \in {"success", "failure"}
    BY <1>32 DEF Destructor, ContractInv, ExitInv
  <2>3. CASE exit = "success"
    <3>1. consent = "none" \/ opts.dryRun \/ image = Complete
      BY <2>2, <2>3 DEF ContractInv, ExitInv
    <3> QED
      BY <1>2, <2>1, <2>2, <2>3, <3>1 DEF Contract!Next, Contract!Report
  <2>4. CASE exit = "failure"
    <3>1. machine = "up"
      BY <2>2, <2>4 DEF ContractInv, UpInv
    <3> QED
      BY <2>1, <2>2, <2>4, <3>1 DEF Contract!Next, Contract!Report
  <2> QED
    BY <2>2, <2>3, <2>4
<1>33. CASE ChildLoads
  <2>1. /\ proc.st = "child" /\ proc.cmd = "load" /\ ~proc.acted
    BY <1>33 DEF ChildLoads, ChildActs
  <2>2. /\ consent # "none" /\ ~opts.dryRun /\ ~dryRunMode
        /\ exit \notin {"success", "failure"} /\ machine = "up"
        /\ pc \notin {"destructor", "done"}
        /\ pc \notin Final => exit = "none"
    BY <1>1, <2>1
       DEF IInv, ConsentInv, DryRunInv, ContractInv, ExitInv, UpInv, Final, TypeOK
  <2>3. KernelFetched /\ InitrdFetched
    BY <2>1 DEF IInv, FetchedInv, Loading
  <2>4. image' = Complete
    BY <1>33, <2>3, LoadSteps
  <2>5. /\ opts' = opts /\ consent' = consent /\ Planned' = Planned
        /\ machine' = machine /\ pc' = pc /\ exit' = exit
    BY <1>33 DEF ChildLoads, userVars, Planned
  <2> QED
    BY <1>2, <2>2, <2>4, <2>5 DEF Contract!Next, Contract!Load, Contract!Over
<1>34. CASE ChildExecs
  <2>1. /\ proc.st = "child" /\ proc.cmd = "exec" /\ ~proc.acted
    BY <1>34 DEF ChildExecs, ChildActs
  <2>2. /\ consent # "none" /\ ~opts.dryRun /\ ~dryRunMode
        /\ exit \notin {"success", "failure"} /\ machine = "up"
        /\ pc \notin {"destructor", "done"}
        /\ pc \notin Final => exit = "none"
    BY <1>1, <2>1
       DEF IInv, ConsentInv, DryRunInv, ContractInv, ExitInv, UpInv, Final, TypeOK
  <2>3. image = Complete
    BY <2>1, <2>2 DEF IInv, LoadedInv
  <2>4. /\ opts' = opts /\ consent' = consent /\ Planned' = Planned
        /\ image' = image /\ machine' = "kexeced"
        /\ pc \in Final => pc' \in Final
        /\ exit' = exit /\ pc' \in Final
    BY <1>34 DEF ChildExecs, userVars, Planned, Final
  <2> QED
    BY <1>2, <2>2, <2>3, <2>4 DEF Contract!Next, Contract!Restart, Contract!Over
<1>35. CASE ChildReboots
  <2>1. /\ proc.st = "child" /\ proc.cmd = "reboot" /\ ~proc.acted
    BY <1>35 DEF ChildReboots, ChildActs
  <2>2. /\ consent # "none" /\ ~opts.dryRun /\ ~dryRunMode
        /\ exit \notin {"success", "failure"} /\ machine = "up"
        /\ pc \notin {"destructor", "done"}
        /\ pc \notin Final => exit = "none"
    BY <1>1, <2>1
       DEF IInv, ConsentInv, DryRunInv, ContractInv, ExitInv, UpInv, Final, TypeOK
  <2>3. image = Complete
    BY <2>1, <2>2 DEF IInv, LoadedInv
  <2>4. /\ opts' = opts /\ consent' = consent /\ Planned' = Planned
        /\ image' = image /\ machine' = "shutdown"
        /\ pc' = pc /\ exit' = exit
    BY <1>35 DEF ChildReboots, userVars, Planned, Final
  <2> QED
    BY <1>2, <2>2, <2>3, <2>4 DEF Contract!Next, Contract!Restart, Contract!Over
<1>36. CASE ChildEnds
  BY <1>1, <1>36, Unseen
     DEF Final, Planned, ChildEnds, userVars, fileVars, worldVars
<1>37. CASE Kill
  <2>1. /\ opts' = opts /\ consent' = consent /\ Planned' = Planned
        /\ image' = image /\ machine' = machine
        /\ pc \notin Final /\ pc' \in Final
    BY <1>37 DEF Kill, userVars, fileVars, worldVars, procVars, Planned, Final
  <2>2. exit' = "killed"
    BY <1>37 DEF Kill
  <2> QED
    BY <2>1, <2>2 DEF Contract!Next, Contract!Report
<1>38. CASE Terminated
  BY <1>1, <1>38, Unseen
     DEF Final, Planned, Terminated, vars, userVars, fileVars, worldVars,
         procVars
<1>39. CASE UNCHANGED vars
  BY <1>1, <1>39, Unseen
     DEF Final, Planned, vars, userVars, fileVars, worldVars, procVars
<1> QED
  BY <1>3, <1>4, <1>5, <1>6, <1>7, <1>8, <1>9, <1>10, <1>11, <1>12, <1>13,
     <1>14, <1>15, <1>16, <1>17, <1>18, <1>19, <1>20, <1>21, <1>22, <1>23,
     <1>24, <1>25, <1>26, <1>27, <1>28, <1>29, <1>30, <1>31, <1>32, <1>33,
     <1>34, <1>35, <1>36, <1>37, <1>38, <1>39
     DEF Next, Program, Choose, Confirm, Download, Run, Child

\* The program starts with nobody having agreed to anything.
LEMMA InitContract == Init => Contract!Init
<1>1. Init => opts.dryRun = FALSE
  BY DEF Init, NoOpts
<1> QED
  BY <1>1 DEF Init, Contract!Init, Final

\* Whatever the user types, what fails and whenever pxe-kexec is killed: every
\* run of it is a run of its contract.  One confirmation, never revised;
\* nothing else loaded; no restart before that; an exit code that tells the
\* truth.  The failures the code does not notice are the exception.
THEOREM ImplementsContract ==
    ASSUME NoSilentFaults
    PROVE  Spec => KeepsContract
<1>1. Init => IInv /\ ContractInv /\ Contract!Init
  BY InitIInv, InitContractInv, InitContract
<1>2. IInv /\ ContractInv /\ [Next]_vars
          => IInv' /\ ContractInv' /\ [Contract!Next]_(Contract!promise)
  BY NextIInv, NextContractInv, NextContract
<1> QED
  BY <1>1, <1>2, PTL DEF Spec, KeepsContract, Contract!Spec
=============================================================================
