------------------------------ MODULE PxeKexec ------------------------------
(***************************************************************************)
(* One run of pxe-kexec (src/src/main.cc, src/src/pxekexec.cc), from the   *)
(* command line to the restart of the machine: the user who chooses, edits *)
(* and confirms, the downloads, kexec and reboot as child processes, the   *)
(* destructor on every way out, and a kill at any moment.                  *)
(*                                                                         *)
(* The names of the temporary files and the other programs that may use    *)
(* them are TempFiles's subject; the search for the configuration is       *)
(* ConfigSearch's and its syntax PxeParser's.                              *)
(***************************************************************************)
EXTENDS PxeEntry, Process, Console

CONSTANTS
    CmdLines,      \* command lines the program may be started with
    Envs,          \* machines it may be started on
    Configs,       \* PXE configurations the server may hold
    MaxInput,      \* the lines the user types, at most; then end of file
    HaveReadline,  \* is libbw built with readline (HAVE_LIBREADLINE)?
    NoImage,       \* nothing is loaded in the running kernel
    OldImage,      \* what somebody else loaded before
    NoFile,        \* a temporary file that is not there
    NotShown       \* no entry was displayed yet

\* What the environment may do wrong; Faults is a part of it.
FaultKinds == {"config",    \* no configuration can be had
               "download",  \* a download fails
               "open",      \* a temporary file cannot be opened
               "flush",     \* its last block is lost when it is closed
               "fork",      \* fork() fails
               "signal",    \* a signal ends a child
               "wait",      \* waitpid() fails
               "vt",        \* an ioctl() on a console fails
               "kill"}      \* a signal ends pxe-kexec itself

CmdLine == [label : Labels \union {NoLabel}, noconfirm : BOOLEAN,
            quiet : BOOLEAN, nodelete : BOOLEAN, loadOnly : BOOLEAN,
            force : BOOLEAN, dryRun : BOOLEAN, ignoreWhitelist : BOOLEAN]

\* path: for each directory of $PATH, can kexec be executed there?  stdin: is
\* it "/dev/tty" and a number, another terminal or none?  terminals: the device
\* files of openConsoleFd().  consoles: the standard streams that are one.
Env == [path : Seq(BOOLEAN), root : BOOLEAN, suitable : BOOLEAN,
        stdin : {"console", "pty", "none"},
        terminals : Seq(Device), consoles : SUBSET Streams]

ASSUME PxeKexecAssumption ==
    /\ Faults \subseteq FaultKinds
    /\ CmdLines \subseteq CmdLine
    /\ Envs \subseteq Env
    /\ Configs \subseteq Seq(Entry)
    \* ... as the parser leaves them (PxeParser!CachedInitrdsAreRight).
    /\ \A entries \in Configs : \A n \in DOMAIN entries :
           GetInitrd(entries[n]) = InitrdIn(entries[n].append)
    /\ MaxInput \in Nat
    /\ HaveReadline \in BOOLEAN

\* A temporary file: what it was downloaded from, and is all of it there?
KernelFile == [of : Kernels \union {NoKernel}, whole : BOOLEAN]
InitrdFile == [of : Initrds \union {NoInitrd}, whole : BOOLEAN]

\* What confirmBoot() shows and what kexec -l loads.
Shown == [kernel : Kernels \union {NoKernel},
          initrd : Initrds \union {NoInitrd},
          append : AppendLine]

Image == [what : Shown, whole : BOOLEAN]

ASSUME MarkerAssumption ==
    /\ NoImage \notin Image /\ OldImage \notin Image
    /\ NoImage # OldImage
    /\ NoFile \notin KernelFile \union InitrdFile
    /\ NotShown \notin Shown

VARIABLES
    pc,                \* the statement the program is at
    opts,              \* the option members of PxeKexec
    env,               \* the machine; never changes
    config,            \* m_pxeConfig
    choice,            \* m_choice
    eof,               \* LineReader::m_eof
    input,             \* lines left to read on standard input
    shown,             \* the entry as confirmBoot() displayed it last
    consent,           \* what made confirmBoot() return true
    downloadedKernel,  \* is m_downloadedKernel set?
    downloadedInitrd,  \* is m_downloadedInitrd set?
    kernelTmp,         \* the temporary file of the kernel
    initrdTmp,         \* the temporary file of the initrd
    image,             \* the kernel kexec would start
    machine,           \* "up", "shutdown" (reboot called) or "kexeced"
    console,           \* is the first virtual terminal made active?
    streams,           \* the standard streams that are open
    exit               \* how the program ended

procVars == <<proc, dryRunMode>>
userVars == <<config, choice, eof, input, shown, consent>>
fileVars == <<downloadedKernel, downloadedInitrd, kernelTmp, initrdTmp>>
worldVars == <<image, machine, console, streams>>
vars == <<pc, opts, env, userVars, fileVars, worldVars, exit, procVars>>

NoOpts == [label |-> NoLabel, noconfirm |-> FALSE, quiet |-> FALSE,
           nodelete |-> FALSE, loadOnly |-> FALSE, force |-> FALSE,
           dryRun |-> FALSE, ignoreWhitelist |-> FALSE]

Init ==
    /\ pc = "parseCmdLine" /\ exit = "none"
    /\ opts = NoOpts
    /\ env \in Envs
    /\ config = <<>> /\ choice = NoEntry
    /\ eof = FALSE /\ input \in 0..MaxInput
    /\ shown = NotShown /\ consent = "none"
    /\ downloadedKernel = FALSE /\ downloadedInitrd = FALSE
    /\ kernelTmp = NoFile /\ initrdTmp = NoFile
    /\ image \in {NoImage, OldImage} /\ machine = "up"
    /\ console = "own" /\ streams = Streams
    /\ proc = NoProcess /\ dryRunMode = FALSE

(***************************************************************************)
(* Ways out.  A return from main and an exception main catches both        *)
(* destroy the PxeKexec object; the exit code is known by then.            *)
(***************************************************************************)
Return == pc' = "destructor" /\ exit' = "success"
Throw  == pc' = "destructor" /\ exit' = "failure"
Goto(label) == pc' = label /\ exit' = exit

\* deleteKernels(): both removals hang on the initrd's name, and neither name
\* is cleared.
DeleteKernels ==
    LET delete == ~opts.nodelete /\ downloadedInitrd IN
    /\ kernelTmp' = IF delete THEN NoFile ELSE kernelTmp
    /\ initrdTmp' = IF delete THEN NoFile ELSE initrdTmp
    /\ UNCHANGED <<downloadedKernel, downloadedInitrd>>

Destructor ==
    /\ pc = "destructor"
    /\ pc' = "done" /\ exit' = exit
    /\ DeleteKernels
    /\ UNCHANGED <<opts, env, userVars, worldVars, procVars>>

(***************************************************************************)
(* Command line and environment                                            *)
(***************************************************************************)
\* -l chooses the entry and silences the messages (-l '' is the same as -q).
ParseCmdLine ==
    /\ pc = "parseCmdLine"
    /\ \E line \in CmdLines :
           /\ opts' = [line EXCEPT !.quiet = @ \/ line.label # NoLabel]
           /\ dryRunMode' = line.dryRun
    /\ Goto("checkEnv")
    /\ UNCHANGED <<env, userVars, fileVars, worldVars, proc>>

\* --help, --version and --print-distribution; too many arguments.
ParseStops ==
    /\ pc = "parseCmdLine"
    /\ Return \/ Throw
    /\ UNCHANGED <<opts, env, userVars, fileVars, worldVars, procVars>>

\* access() answers 0 for a program that may be executed; the test is the
\* other way round.
IsInPath(path) == \E i \in DOMAIN path : ~path[i]

Installed == \E i \in DOMAIN env.path : env.path[i]

CheckEnv ==
    /\ pc = "checkEnv"
    /\ IF /\ IsInPath(env.path)
          /\ env.root
          /\ opts.ignoreWhitelist \/ env.suitable
       THEN Goto("readPxeConfig")
       ELSE Throw
    /\ UNCHANGED <<opts, env, userVars, fileVars, worldVars, procVars>>

\* readPxeConfig() and displayMessage(), which only prints.
ReadPxeConfig ==
    /\ pc = "readPxeConfig"
    /\ config' \in Configs
    /\ Goto("chooseEntry")
    /\ UNCHANGED <<opts, env, choice, eof, input, shown, consent, fileVars,
                   worldVars, procVars>>

ReadPxeConfigThrows ==
    /\ pc = "readPxeConfig" /\ "config" \in Faults
    /\ Throw
    /\ UNCHANGED <<opts, env, userVars, fileVars, worldVars, procVars>>

(***************************************************************************)
(* chooseEntry()                                                           *)
(***************************************************************************)
ChooseEntry ==
    /\ pc = "chooseEntry"
    /\ choice' \in IF opts.label = NoLabel
                   THEN {choice}
                   ELSE GetEntry(config, opts.label)
    /\ Goto("prompt")
    /\ UNCHANGED <<opts, env, config, eof, input, shown, consent, fileVars,
                   worldVars, procVars>>

PromptDone ==
    /\ pc = "prompt"
    /\ eof \/ choice.valid
    /\ IF choice.valid THEN Goto("confirmBoot") ELSE Return
    /\ UNCHANGED <<opts, env, userVars, fileVars, worldVars, procVars>>

\* The name of an entry, or one that no entry has and the loop goes on.
PromptName ==
    /\ pc = "prompt" /\ ~eof /\ ~choice.valid
    /\ input > 0 /\ input' = input - 1
    /\ \E name \in Labels : choice' \in GetEntry(config, name)
    /\ UNCHANGED <<pc, opts, env, config, eof, shown, consent, fileVars,
                   worldVars, procVars, exit>>

\* Mutated form: an empty line is one more name that does not exist.
PromptQuitAsksAgain ==
    /\ pc = "prompt" /\ ~eof /\ ~choice.valid
    /\ input' = IF input = 0 THEN 0 ELSE input - 1
    /\ eof' = (input = 0 /\ HaveReadline)
    /\ UNCHANGED <<pc, opts, env, config, choice, shown, consent, fileVars,
                   worldVars, exit, procVars>>

\* An empty line, quit, exit, or end of file, which reads as an empty line.
\* Only readline tells the end of file; the plain reader looks at cout's.
PromptQuit ==
    /\ pc = "prompt" /\ ~eof /\ ~choice.valid
    /\ input' = IF input = 0 THEN 0 ELSE input - 1
    /\ eof' = (input = 0 /\ HaveReadline)
    /\ Return
    /\ UNCHANGED <<opts, env, config, choice, shown, consent, fileVars,
                   worldVars, procVars>>

(***************************************************************************)
(* confirmBoot()                                                           *)
(***************************************************************************)
\* What is going to be booted.
Planned == [kernel |-> choice.kernel,
            initrd |-> GetInitrd(choice),
            append |-> choice.append]

\* Label begin: display the entry, and return with --noconfirm.
ConfirmShow ==
    /\ pc = "confirmBoot"
    /\ IF opts.noconfirm /\ opts.quiet
       THEN UNCHANGED <<choice, shown>>
       ELSE shown' = Planned /\ choice' = AfterGetInitrd(choice)
    /\ IF opts.noconfirm
       THEN Goto("openKernel") /\ consent' = "option"
       ELSE Goto("ask") /\ consent' = consent
    /\ UNCHANGED <<opts, env, config, eof, input, fileVars, worldVars, procVars>>

\* yes, or an empty line; at end of file getline() leaves an empty line too.
ConfirmYes ==
    /\ pc = "ask"
    /\ consent' \in IF input = 0 THEN {"eof"} ELSE {"yes", "empty"}
    /\ input' = IF input = 0 THEN 0 ELSE input - 1
    /\ Goto("openKernel")
    /\ UNCHANGED <<opts, env, config, choice, eof, shown, fileVars, worldVars,
                   procVars>>

ConfirmNo ==
    /\ pc = "ask"
    /\ input > 0 /\ input' = input - 1
    /\ Return
    /\ UNCHANGED <<opts, env, config, choice, eof, shown, consent, fileVars,
                   worldVars, procVars>>

\* Neither yes nor no nor e: ask again, without displaying the entry again.
ConfirmInvalid ==
    /\ pc = "ask"
    /\ input > 0 /\ input' = input - 1
    /\ UNCHANGED <<pc, opts, env, config, choice, eof, shown, consent, fileVars,
                   worldVars, procVars, exit>>

\* editLine(): the plain reader gives the line back as it is, readline gives
\* what the user makes of it, or an empty line at end of file.
EditLine(line, used) ==
    IF ~HaveReadline THEN line = choice.append /\ used = 0 /\ eof' = eof
    ELSE IF input = 1 THEN line = EmptyAppend /\ used = 0 /\ eof' = TRUE
    ELSE used = 1 /\ eof' = eof

\* Mutated form: "goto again" after an edit, where the code says "goto begin".
ConfirmEditUnshown ==
    /\ pc = "ask"
    /\ input > 0
    /\ \E line \in AppendLine, used \in 0..1 :
           /\ EditLine(line, used)
           /\ choice' = SetAppend(choice, line)
           /\ input' = input - 1 - used
    /\ Goto("ask")
    /\ UNCHANGED <<opts, env, config, shown, consent, fileVars, worldVars,
                   procVars>>

\* "e": setAppend() with the edited line, and back to begin.
ConfirmEdit ==
    /\ pc = "ask"
    /\ input > 0
    /\ \E line \in AppendLine, used \in 0..1 :
           /\ EditLine(line, used)
           /\ choice' = SetAppend(choice, line)
           /\ input' = input - 1 - used
    /\ Goto("confirmBoot")
    /\ UNCHANGED <<opts, env, config, shown, consent, fileVars, worldVars,
                   procVars>>

(***************************************************************************)
(* downloadStuff().  The open creates or truncates the file and the        *)
(* download fills it; a DownloadError becomes an ApplicationError that     *)
(* leaves what was written in place and the member unset.  The result of   *)
(* the close is not looked at.                                             *)
(***************************************************************************)
OpenKernel ==
    /\ pc = "openKernel"
    /\ \/ kernelTmp' = [of |-> choice.kernel, whole |-> FALSE]
       \/ "open" \in Faults /\ kernelTmp' = kernelTmp
    /\ Goto("fetchKernel")
    /\ UNCHANGED <<opts, env, userVars, downloadedKernel, downloadedInitrd,
                   initrdTmp, worldVars, procVars>>

\* The kernel is there; the initrd is asked for, which may parse it.
FetchKernel ==
    /\ pc = "fetchKernel" /\ kernelTmp # NoFile
    /\ \E whole \in BOOLEAN :
           /\ whole \/ "flush" \in Faults
           /\ kernelTmp' = [kernelTmp EXCEPT !.whole = whole]
    /\ downloadedKernel' = TRUE
    /\ choice' = AfterGetInitrd(choice)
    /\ Goto(IF GetInitrd(choice) = NoInitrd THEN "execute" ELSE "openInitrd")
    /\ UNCHANGED <<opts, env, config, eof, input, shown, consent,
                   downloadedInitrd, initrdTmp, worldVars, procVars>>

FetchKernelThrows ==
    /\ pc = "fetchKernel"
    /\ kernelTmp = NoFile \/ "download" \in Faults
    /\ Throw
    /\ UNCHANGED <<opts, env, userVars, fileVars, worldVars, procVars>>

OpenInitrd ==
    /\ pc = "openInitrd"
    /\ \/ initrdTmp' = [of |-> GetInitrd(choice), whole |-> FALSE]
       \/ "open" \in Faults /\ initrdTmp' = initrdTmp
    /\ Goto("fetchInitrd")
    /\ UNCHANGED <<opts, env, userVars, downloadedKernel, downloadedInitrd,
                   kernelTmp, worldVars, procVars>>

FetchInitrd ==
    /\ pc = "fetchInitrd" /\ initrdTmp # NoFile
    /\ \E whole \in BOOLEAN :
           /\ whole \/ "flush" \in Faults
           /\ initrdTmp' = [initrdTmp EXCEPT !.whole = whole]
    /\ downloadedInitrd' = TRUE
    /\ Goto("execute")
    /\ UNCHANGED <<opts, env, userVars, downloadedKernel, kernelTmp,
                   worldVars, procVars>>

FetchInitrdThrows ==
    /\ pc = "fetchInitrd"
    /\ initrdTmp = NoFile \/ "download" \in Faults
    /\ Throw
    /\ UNCHANGED <<opts, env, userVars, fileVars, worldVars, procVars>>

(***************************************************************************)
(* execute()                                                               *)
(***************************************************************************)
\* Mutated form: the files are deleted before kexec -l has read them.
CallLoadDeletesFirst ==
    /\ pc = "execute"
    /\ downloadedKernel
    /\ Execute("load")
    /\ DeleteKernels
    /\ Goto("load")
    /\ UNCHANGED <<opts, env, userVars, worldVars, dryRunMode>>

\* The first test of execute(), then Kexec::load() up to its child.
CallLoad ==
    /\ pc = "execute"
    /\ downloadedKernel
    /\ Execute("load")
    /\ Goto("load")
    /\ UNCHANGED <<opts, env, userVars, fileVars, worldVars, dryRunMode>>

\* Mutated form: the result of kexec -l is ignored.
LoadReturnsUnchecked ==
    /\ pc = "load" /\ HasReturned("load")
    /\ DeleteKernels
    /\ IF opts.loadOnly THEN Return
       ELSE IF opts.force THEN Goto("prepareConsole")
       ELSE Goto("callReboot")
    /\ proc' = NoProcess
    /\ UNCHANGED <<opts, env, userVars, worldVars, dryRunMode>>

\* Mutated form: --load-only is answered before the result is looked at.
LoadReturnsLoadOnlyFirst ==
    /\ pc = "load" /\ HasReturned("load")
    /\ DeleteKernels
    /\ IF opts.loadOnly THEN Return
       ELSE IF proc.rc # 0 THEN Throw
       ELSE IF opts.force THEN Goto("prepareConsole")
       ELSE Goto("callReboot")
    /\ proc' = NoProcess
    /\ UNCHANGED <<opts, env, userVars, worldVars, dryRunMode>>

\* kexec -l ends: the files are deleted whatever it says, and then it counts.
LoadReturns ==
    /\ pc = "load" /\ HasReturned("load")
    /\ DeleteKernels
    /\ IF proc.rc # 0 THEN Throw
       ELSE IF opts.loadOnly THEN Return
       ELSE IF opts.force THEN Goto("prepareConsole")
       ELSE Goto("callReboot")
    /\ proc' = NoProcess
    /\ UNCHANGED <<opts, env, userVars, worldVars, dryRunMode>>

\* Mutated form: a dry run switches the console like any other.
PrepareConsoleAlways ==
    /\ pc = "prepareConsole"
    /\ env.stdin = "pty"
    /\ \E vt \in ChangeVirtualTerminal(env.terminals, env.consoles, FALSE) :
           /\ console' = IF vt.switched THEN "vt1" ELSE console
           /\ streams' = streams \ vt.closed
    /\ Goto("callExec")
    /\ UNCHANGED <<opts, env, userVars, fileVars, image, machine, procVars>>

\* Kexec::prepareConsole(): from another terminal to the first console, if one
\* can be had; its result is not used.  A dry run only says so.
PrepareConsole ==
    /\ pc = "prepareConsole"
    /\ \/ /\ opts.dryRun \/ env.stdin = "console"
          /\ UNCHANGED <<console, streams>>
       \/ /\ ~opts.dryRun /\ env.stdin = "pty"
          /\ \E vt \in ChangeVirtualTerminal(env.terminals, env.consoles,
                                              "vt" \in Faults) :
                 /\ console' = IF vt.switched THEN "vt1" ELSE console
                 /\ streams' = streams \ vt.closed
    /\ Goto("callExec")
    /\ UNCHANGED <<opts, env, userVars, fileVars, image, machine, procVars>>

\* Without a terminal ttyname() is NULL and the string made of it throws what
\* neither prepareConsole() catches nor execute() may throw: std::terminate.
PrepareConsoleAborts ==
    /\ pc = "prepareConsole"
    /\ ~opts.dryRun /\ env.stdin = "none"
    /\ pc' = "aborted" /\ exit' = "aborted"
    /\ UNCHANGED <<opts, env, userVars, fileVars, worldVars, procVars>>

CallExec ==
    /\ pc = "callExec"
    /\ Execute("exec")
    /\ Goto("exec")
    /\ UNCHANGED <<opts, env, userVars, fileVars, worldVars, dryRunMode>>

\* kexec -e came back.
ExecReturns ==
    /\ pc = "exec" /\ HasReturned("exec")
    /\ IF proc.rc = 0 THEN Return ELSE Throw
    /\ proc' = NoProcess
    /\ UNCHANGED <<opts, env, userVars, fileVars, worldVars, dryRunMode>>

CallReboot ==
    /\ pc = "callReboot"
    /\ Execute("reboot")
    /\ Goto("reboot")
    /\ UNCHANGED <<opts, env, userVars, fileVars, worldVars, dryRunMode>>

\* Mutated form: a reboot that says it failed ends the program with a failure.
RebootReturnsThrowing ==
    /\ pc = "reboot" /\ HasReturned("reboot")
    /\ IF proc.rc = 0 THEN Return ELSE Throw
    /\ proc' = NoProcess
    /\ UNCHANGED <<opts, env, userVars, fileVars, worldVars, dryRunMode>>

\* What Kexec::reboot() returns is dropped.
RebootReturns ==
    /\ pc = "reboot" /\ HasReturned("reboot")
    /\ Return
    /\ proc' = NoProcess
    /\ UNCHANGED <<opts, env, userVars, fileVars, worldVars, dryRunMode>>

(***************************************************************************)
(* The children, and what ends the program from outside                    *)
(***************************************************************************)
\* kexec -l reads the files it is given and replaces the loaded kernel.
ChildLoads ==
    /\ ChildActs("load") /\ Installed
    /\ kernelTmp # NoFile
    /\ downloadedInitrd => initrdTmp # NoFile
    /\ image' = [what  |-> [kernel |-> kernelTmp.of,
                            initrd |-> IF downloadedInitrd THEN initrdTmp.of
                                                           ELSE NoInitrd,
                            append |-> choice.append],
                 whole |-> /\ kernelTmp.whole
                           /\ downloadedInitrd => initrdTmp.whole]
    /\ UNCHANGED <<pc, opts, env, userVars, fileVars, machine, console, streams,
                   exit, dryRunMode>>

\* kexec -e starts the loaded kernel: nothing of this system is left.
ChildExecs ==
    /\ ChildActs("exec") /\ Installed
    /\ image # NoImage
    /\ machine' = "kexeced" /\ pc' = "gone"
    /\ UNCHANGED <<opts, env, userVars, fileVars, image, console, streams, exit,
                   dryRunMode>>

\* reboot makes init shut the system down; its kexec script starts the image.
ChildReboots ==
    /\ ChildActs("reboot")
    /\ machine' = "shutdown"
    /\ UNCHANGED <<pc, opts, env, userVars, fileVars, image, console, streams,
                   exit, dryRunMode>>

ChildEnds ==
    /\ pc # "gone"
    /\ ChildExits \/ ChildKilled
    /\ UNCHANGED <<pc, opts, env, userVars, fileVars, worldVars, exit, dryRunMode>>

ChildWaitedFor ==
    /\ pc \in {"load", "exec", "reboot"}
    /\ Wait \/ WaitFails
    /\ UNCHANGED <<pc, opts, env, userVars, fileVars, worldVars, exit, dryRunMode>>

Final == {"done", "dead", "aborted", "gone"}

\* A signal (Ctrl-C, the shutdown itself) ends the program; a child goes on.
Kill ==
    /\ "kill" \in Faults
    /\ pc \notin Final
    /\ pc' = "dead" /\ exit' = "killed"
    /\ UNCHANGED <<opts, env, userVars, fileVars, worldVars, procVars>>

\* Nothing is left to happen.
Terminated ==
    /\ pc \in Final
    /\ UNCHANGED vars

Choose == ChooseEntry \/ PromptDone \/ PromptName \/ PromptQuit

Confirm == \/ ConfirmShow \/ ConfirmYes \/ ConfirmNo \/ ConfirmInvalid
           \/ ConfirmEdit

Download == \/ OpenKernel \/ FetchKernel \/ FetchKernelThrows
            \/ OpenInitrd \/ FetchInitrd \/ FetchInitrdThrows

Run == \/ CallLoad \/ LoadReturns
       \/ PrepareConsole \/ PrepareConsoleAborts
       \/ CallExec \/ ExecReturns
       \/ CallReboot \/ RebootReturns

\* The steps of the program itself.
Program == \/ ParseCmdLine \/ ParseStops \/ CheckEnv
           \/ ReadPxeConfig \/ ReadPxeConfigThrows
           \/ Choose \/ Confirm \/ Download \/ Run
           \/ ChildWaitedFor \/ Destructor

Child == ChildLoads \/ ChildExecs \/ ChildReboots \/ ChildEnds

Next == Program \/ Child \/ Kill \/ Terminated

Spec == Init /\ [][Next]_vars

\* The program is never suspended for good, and every child ends.
FairSpec == Spec /\ WF_vars(Program) /\ WF_vars(ChildEnds)

-----------------------------------------------------------------------------
(***************************************************************************)
(* Properties                                                              *)
(***************************************************************************)
\* Every variable has its type.
TypeOK ==
    /\ pc \in Final \union
              {"parseCmdLine", "checkEnv", "readPxeConfig", "chooseEntry",
               "prompt", "confirmBoot", "ask", "openKernel", "fetchKernel",
               "openInitrd", "fetchInitrd", "execute", "load",
               "prepareConsole", "callExec", "exec", "callReboot", "reboot",
               "destructor"}
    /\ opts \in CmdLine
    /\ env \in Envs
    /\ config \in Seq(Entry)
    /\ choice \in Entry
    /\ eof \in BOOLEAN
    /\ input \in 0..MaxInput
    /\ shown \in Shown \union {NotShown}
    /\ consent \in {"none", "option", "yes", "empty", "eof"}
    /\ downloadedKernel \in BOOLEAN
    /\ downloadedInitrd \in BOOLEAN
    /\ kernelTmp \in KernelFile \union {NoFile}
    /\ initrdTmp \in InitrdFile \union {NoFile}
    /\ image \in Image \union {NoImage, OldImage}
    /\ machine \in {"up", "shutdown", "kexeced"}
    /\ console \in {"own", "vt1"}
    /\ streams \in SUBSET Streams
    /\ exit \in {"none", "success", "failure", "aborted", "killed"}
    /\ proc \in ProcType
    /\ dryRunMode \in BOOLEAN

\* The machine goes down, and the console is taken from the user, only with
\* exactly the chosen entry loaded, whole, and after somebody agreed: never
\* with a kernel left from an earlier kexec -l or a part of a file (execute(),
\* confirmBoot(), downloadStuff()).  Its initrd is the one its append line
\* names, after any number of edits, if that line has an initrd= at all; of a
\* line without one the entry may answer the initrd of an earlier line, which
\* is InitrdIsInAppend's subject.
PointOfNoReturn ==
    machine # "up" \/ console # "own"
        => /\ image = [what |-> Planned, whole |-> TRUE]
           /\ choice.append.initrd # NoParameter
                  => image.what.initrd = choice.append.initrd
           /\ consent # "none"

\* What this run loads is what confirmBoot() displayed last, however often
\* the append line was edited and the answer was invalid.
LoadsWhatWasShown ==
    image \notin {NoImage, OldImage} /\ shown # NotShown => image.what = shown

\* As long as kexec -l may read them, the kernel and the initrd are there and
\* complete (the order of load() and deleteKernels() in execute(), and no
\* way from a failed download to load()), even when pxe-kexec is killed.
LoadSeesWholeFiles ==
    proc.st = "child" /\ proc.cmd = "load"
        => /\ kernelTmp # NoFile /\ kernelTmp.whole
           /\ downloadedInitrd => initrdTmp # NoFile /\ initrdTmp.whole

\* The run as BootContract sees it: an answer agrees to what is planned then,
\* a part of a file is no image of anything, and an exit code is known at the
\* end.
Contract == INSTANCE BootContract WITH
    Boots   <- Shown,
    Earlier <- {NoImage, OldImage},
    Nothing <- NotShown,
    pretend <- opts.dryRun,
    agreed  <- IF consent = "none" THEN NotShown ELSE Planned,
    image   <- IF image \notin {NoImage, OldImage} /\ image.whole
               THEN image.what ELSE image,
    machine <- IF machine = "up" THEN "up" ELSE "down",
    result  <- IF pc \in Final THEN exit ELSE "none"

\* The program keeps its contract in every step: one confirmation, never
\* revised; nothing else loaded, ever; no restart without it; 0 of main() only
\* if it is loaded and 1 only if the machine stays up (execute(), main()).
KeepsContract == Contract!Spec

\* An exit code of 1 says that the machine stays up: the caller may go on.
\* True even when children are killed or cannot be waited for.
FailureLeavesMachineUp == exit = "failure" => machine = "up"

\* From a pseudo terminal --force starts the new kernel on the first console,
\* wherever among the device files one is found, as long as all are there and
\* no ioctl() fails; and the streams the program talks to its user on stay open
\* unless one of them is the only console there is (openConsoleFd()).
ConsoleWhereItCan ==
    LET Files == DOMAIN env.terminals
        found == \E i \in Files : env.terminals[i].console
    IN  pc \in {"callExec", "exec"} /\ env.stdin = "pty" /\ ~opts.dryRun
            => /\ found /\ (\A i \in Files : CanOpen(env.terminals[i]))
                      => console = "vt1"
               /\ found => streams = Streams

\* A dry run loads nothing, restarts nothing and leaves the console alone
\* (Process::execute() and the m_dryRun test in PxeKexec::execute()).
DryRunTouchesNothing ==
    [][opts.dryRun => UNCHANGED <<image, machine, console, streams>>]_vars

\* The program ends, or the machine it runs on does: no prompt is repeated
\* for ever once standard input is at its end.
Termination == <>(pc \in Final)

(***************************************************************************)
(* What the comments say and the code does not do                          *)
(***************************************************************************)
\* getInitrd() returns "the empty string if there is no initrd= parameter in
\* the append line" (src/src/pxeparser.h:123): what confirmBoot() shows fits
\* together.
InitrdIsInAppend == shown # NotShown => shown.initrd = InitrdIn(shown.append)

\* isInPath() is true "if the process is in $PATH and if executing that
\* program is ok" (src/src/process.h:68), so that behind checkEnv() kexec is.
CheckedKexecIsThere == pc = "readPxeConfig" => Installed
=============================================================================
