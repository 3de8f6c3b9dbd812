# A verification project for pxe-kexec

pxe-kexec fetches a PXE configuration from a TFTP or FTP server, lets the user
choose, edit and confirm an entry, downloads its kernel and initrd, loads them
with `kexec -l` and restarts the machine into them. These TLA+ modules model
the program at the level of its methods; TLC checks them on small instances and
TLAPS proves the most important facts for all instances. Paths below are those
of the repository (`src/...` is its root here).

## Inventory

| Component | State | Operations | Hard about it | What makes it correct |
|---|---|---|---|---|
| Session (`main.cc`, `pxekexec.cc`) | option members, `m_pxeConfig`, `m_choice`, names of the downloaded files | parse, check, read, choose, confirm, download, execute, delete, destroy | exceptions on every step, a destructor on every way out, kills, results looked at late, prompts at end of file | the machine goes down only with the chosen, shown, confirmed entry loaded whole; an exit code of 1 leaves the machine up; the loaded files are deleted; it ends |
| Child processes (`process.cc`, `kexec.cc`) | child, wait status, `m_dryRunMode` | fork, execvp, waitpid | children that fail, are signalled, outlive the parent | 0 means that the child did its work |
| Entries (`PxeEntry`, `PxeConfig`) | label, kernel, append line, cached initrd | set, get, look up | the cache and the line it was read from | the initrd is that of the append line; the first entry of a name wins |
| Parser (`PxeParser`) | parser state, entry under way, configuration | feed a line, finish | two states that know different words, a line fed twice, the last entry | one entry per section of the file, with its last values |
| Search and downloads (`readPxeConfig`, `downloader.cc`) | loop variable, stream, notifier | ten transfers at most | refused connections, broken transfers, one stream for all | the most specific file is used; the notifier hears of every end once |
| Temporary files (`downloadStuff`, `deleteKernels`) | a directory shared with others | find a name, create, write, load, delete twice | other runs at the same time, kills | foreign files stay; a run that meets no other one loads and deletes its own |
| Line readers (libbw `completion.cc`, `chooseEntry`) | the line, readline's history, the current completor, `m_eof` | type, Tab, recall, read, edit | completion ignores case where the replacement does not; only one of the two readers notices the end of file | what Tab completes Enter finds; Tab does not lead away from an entry |
| Console (`console.cc`) | device files, standard streams, active virtual terminal | find a console, switch | devices that are missing, may not be opened or are no console; no terminal | the console is switched where there is one |
| Network interfaces (`networkhelper.cc`, start of `readPxeConfig`) | interfaces with their addresses and DHCP server, the interface and host in use, the names of the files | detect, read two file formats, choose, spell addresses | which file of which interface, one search for all interfaces, bytes kept in signed numbers | the server belongs to the interface in use; it is missed only behind the place where the search stopped; the files asked for are this machine's |
| Whitelist (`linuxdb.cc`, `rpmvercmp.c`, `checkEnv`) | detector with type, distribution, release | detect, compare, decide | order of detectors, files that answer for another distribution, version order, a dangling pointer | only what looks like a machine of the list passes; one of the list is refused only for what its files hold or freed memory holds |
| Option parser (libbw `optionparser.cc`, `getopt_long.c`) | position on the command line, values, arguments | parse, get | many spellings of the same option, two libraries, words nobody understands | options and arguments are what was meant |
| Serial port (libbw `serialfile_posix.cc`) | lock file, descriptor, list of files to delete at exit, settings of the device | open, reconfigure, close, destroy, exit | two steps to take the lock, a file removed by name, failing opens, kills | who holds the port holds it alone; no lock file stays behind |
| String helpers (libbw `stringutil.cc`) | - | split, strip, compare | empty items, patterns at the ends | nothing gets lost |
| Debug output, exception classes (libbw) | - | - | - | not modelled: they decide nothing |

The serial port is a part of libbw the program itself does not use.

The session calls everything else synchronously, in one thread. What runs at
the same time are the children, libcurl's callbacks inside a transfer, other
runs of the program that use the same `$TMPDIR`, and the user.

## Modules

`PxeEntry`, `Process` and `Console` are the operators and state of their
components; `PxeKexec` EXTENDS them, composes them into the session and
instantiates `BootContract`, which it implements. `PxeParser` EXTENDS
`PxeEntry`, `LinuxDist` EXTENDS `RpmVerCmp`, `NetworkHelper` EXTENDS
`NetworkInterface`, `LineReader` EXTENDS `StringUtil` and `OptionParser`
EXTENDS `CommandLine`. `LinuxDist`, `NetworkHelper`, `ConfigSearch`,
`LineReader`, `OptionParser` and `TempFiles` model parts of the session in a
detail the session itself abstracts from: `PxeKexec`'s field `env.suitable` is
the answer of `LinuxDist`, its command lines are what `OptionParser` makes of
words, its action `ReadPxeConfig` stands for a choice of the server and the
names of the files (`NetworkHelper`), a search (`ConfigSearch`) and a parse
(`PxeParser`), a line of its prompts for a dialogue of `LineReader`, its
variables `kernelTmp` and `initrdTmp` for files nobody else touches
(`TempFiles`). `SerialFile` stands alone. Definitions of the name of a method are that method;
a definition that begins with the name of another one and is commented
"Mutated form" is a plausible bug, used to see that a property notices it.

### PxeKexec

`pc` is the statement the program is at. Each method of `PxeKexec` is one
action per outcome, cut where something else can happen: at a question to the
user, between the creation and the end of a download, between fork and wait.

| Code | Actions |
|---|---|
| `parseCmdLine` | `ParseCmdLine`, `ParseStops` |
| `checkEnv` (whitelist: `env.suitable`) | `CheckEnv` |
| `readPxeConfig`, `displayMessage` | `ReadPxeConfig`, `ReadPxeConfigThrows` |
| `chooseEntry`, `readLine` | `ChooseEntry`, `PromptName`, `PromptQuit`, `PromptDone` |
| `confirmBoot`, `editLine` | `ConfirmShow` (label `begin`), `ConfirmYes`, `ConfirmNo`, `ConfirmInvalid` (`goto again`), `ConfirmEdit` (`goto begin`) |
| `downloadStuff` | `OpenKernel`, `FetchKernel`, `FetchKernelThrows`, and the same for the initrd |
| `execute`, `Kexec::*`, `Process::execute` | `CallLoad`, `LoadReturns`, `PrepareConsole`, `PrepareConsoleAborts`, `CallExec`, `ExecReturns`, `CallReboot`, `RebootReturns`, `ChildWaitedFor` |
| `deleteKernels`, destructor | `DeleteKernels` (an operator), `Destructor` |
| kexec, reboot, the kernel (external) | `ChildLoads`, `ChildExecs`, `ChildReboots`, `ChildEnds` |
| a signal to pxe-kexec | `Kill` |

`shown`, `consent`, `image`, `machine` and `console` record what the user saw
and what the machine is; the program does not read them. Abstractions: an
append line is its `initrd=` value and everything else (in the
configurations, as the parser leaves them, every entry answers the initrd of its
append line: `CachedInitrdsAreRight`); a file is what it was
downloaded from and whether it is whole, and no file is of size zero (an empty
kernel whose file could not be opened would count as downloaded, as the write
callback is never called). `env.path` says for each directory of `$PATH`
whether kexec is there. An answer is one of yes, no, e, empty or invalid. At
end of file the plain reader yields empty lines without ever setting `m_eof`
(it looks at `cout`), readline sets it.

### BootContract

The promise to the user, without a program: one agreement, one load, one
restart, one report, in an order that makes the machine restart only into what
was agreed on. `KeepsContract` in `PxeKexec` is `Contract!Spec` under this
mapping: `pretend` is `m_dryRun`, `agreed` is the entry that is planned once
there is a consent, `image` is what the loaded files are if they are whole,
`machine` and `result` are the machine and, once the program has ended, its exit
code. Everything the program
does in between (questions, downloads, forks, deletions) is a stutter.

### Console

`OpenConsoleFd` is the walk over the device files and then over the standard
streams, `ChangeVirtualTerminal` the set of outcomes of the switch.
`PxeKexec`'s environment has the devices (`env.terminals`) and the streams that
are consoles (`env.consoles`); its variable `streams` has the standard streams
that are still open, since `changeVirtualTerminal()` closes the descriptor it
found, whichever it is. `ConsoleWhereItCan` compares the walk with the devices.

### PxeParser

The state is the parser's, plus the lines fed so far (`fed`), so that the
result can be compared with what the file means as a whole: `Starts` are the
lines that begin an entry, `Section(i)` the lines up to the next one. This
second reading has no parser state and is the reference the parser is checked
against. A line is its first word, the white space behind it and its value.
`Starts` is every label line, with a blank or a tab behind the word. The parser
reads a tab there only before the first entry, so `EntriesAreSections` and
`LookupFindsFirst` are about the files with a blank behind each keyword from
the first label line on (`TabsOnlyUpToFirstLabel`). Of the others the run's
files hold every kind, but no property says what becomes of them.

### ConfigSearch

One round of the loop is `StartTransfer` (constructor, `setUrl`,
`setProgress`), any number of `WriteBlock` and `Progress`, `TransferEnds`
(`download`) and `RoundEnds` (the try block's end). A name is its kind and the
number of digits of the client's address in it. `network` says what may go
wrong in a behaviour, so that one run answers what holds with a good network
and what holds with any. A transfer that breaks off may have written nothing, a
part or all of its file; whatever it wrote stays in front of what comes next,
and `StreamIsInOrder` says that this is all that can be in the stream.

### TempFiles

The directory maps names to inodes, so that a file can be removed and created
again while somebody writes to the old inode, as under Unix. A name is the kind
and the number of underscores. Each of the two `stat()` calls, each open, each
of two writes (the second one is the flush of the close), the load and each of
the up to four `remove()` calls is a step of its own; other runs come between.
`met` records which runs were under way at the same time as another one; the
program does not know it.

### NetworkHelper

`pc` is the method at work, `at` the loop variable. `DetectInterface` is one
round of `detectInterfaces()`, `ReadInfo` and `ReadLeases` one round of the two
readers, `SetServer` their `return true`, and `UseRequested` ... `ChooseHost` the
beginning of `readPxeConfig()`. The files do not change in the moment they are
read. The kernel's list is as the code takes it, interfaces that are down
included if the kernel lists them. It has at most `MaxIfs` entries: the buffer
is declared for `struct ifconf`, smaller than the `struct ifreq` it is to hold,
and what happens to a longer list is undefined. A line that names a server
names one (no empty value). Neither the code nor the model looks at whether an
interface is up, although the manual page (pxe-kexec.pod:116) and the comment at
pxekexec.cc:267 say so. `Places` are the files in the order of the search, by
which `GivesUpWithoutServer` says which of them the search has not come to.

`NetworkInterface` has the class of that name: a byte of the hardware address
is a signed char, the IP address a signed int of 32 bits whose least
significant byte is the first one of the address (a little-endian machine; on
a big-endian one `getIp()` prints the bytes backwards). A name of a file is the
sequence of its characters. `NamesAreTheClients` reads the names against the
bytes as they are in the network; `ConfigSearch` goes on with them as kinds of
names.

### LinuxDist and RpmVerCmp

One action per detector and answer, `CheckWhitelist` for the rest of
`checkEnv()`. A release file is what its detector reads out of it; `usual` says
whether it has the form the detector expects. `shared` is the build's choice
whether copies of a `std::string` share their characters, as in the library of
the program's time: only then does `detected_version` (pxekexec.cc:366) outlive
the temporary it points into, otherwise the version compared is the release or
any of `Garbage`. An empty line in lsb-release reads behind a vector's end: it
crashes or is no key (`LsbCrashes`, `LsbDetects`); a key without a value, which
does the same, is left out. A distribution made of another one may have its
release file (`DebianDerivatives`, `ArchDerivatives`): without lsb-release the
detectors cannot tell the two apart (`LooksLike`). The whitelist of the
properties is the manual page's (pxe-kexec.pod:45-69) with Debian, which only the
release notes have (NEWS:20). `RpmVerCmp` is the C function on sequences of
character codes; `VersionOrder`, below it, is the order of versions as lists of
numbers and words, without the loop, which it is compared with. The two are the
same on all strings (`VersionsAreCompared`).

### CommandLine and OptionParser

`CommandLine` is the convention: what a user says (options with arguments,
words that are no options, `--`, and words nobody understands) and all the ways
to write it. `OptionParser` is `parse()`, one action for each kind of call of
`getopt_long()`; `library` says whether it is the bundled one, which stops at
the first word that is no option, or the C library's, which passes such words
over. `skipped` are those. `place` is what is left of a word of letters.
`SaveArguments` is the end of `parse()`, `Evaluate` the end of
`parseCmdLine()`. The properties compare the outcome with what was said, not
with how it was scanned. The external part, permutation, is modelled as far as
`parse()` sees it: in which order options and words come out.

### SerialFile

Each process has one object for the port. `CheckLock`, `OpenDevice` and
`CreateLock` are the three steps of `openPort()`; `Close` is an operator shared
by `ClosePort`, the destructor and the exit handler's case; `Exit` and
`DeleteFilesAtExit` are the two halves of an end by `exit()`. `met` and `failed`
record whether two openings overlapped and whether the device refused one.
`PortIsMine` is about runs without either (`Undisturbed`): who has the port has
it alone and finds on the speed, the flow control and the raw mode he asked for
(`SetAsAsked`). Raw mode and a flow control beside the one asked for may be on
from before, since `reconfigure()` switches neither off. In the runs that are left
out two processes may both get the port, since the lock file is looked for and
created in two steps, or the holder loses his lock file, since a refused open
leaves a descriptor of 0, with which a later close removes the file. The model
has both; no property forbids them.

### StringUtil and LineReader

The helpers are operators on sequences of characters. `LineReader` has a key
per action, the two outcomes of Tab (`TabShared`, `TabSingle`), `Recall` of the
history, and `readLine()` with what `chooseEntry()` does with the line:
`Quit`, `ReadName`, `EndOfInput`. readline itself is external: the cursor stays
at the end, Tab inserts what the completion function returns and a blank behind
a single name; where the function offers nothing, readline falls back to names
of files, which is typing as far as the model goes. `offered` and `taken` record
which entry Tab completed to.

## Runs

Every property of a passing run has a mutant: a changed definition under which
the run finds the property violated (`PROJECT.json`).

| Run | Question | Bounds |
|---|---|---|
| `PxeKexecSafety` | the point of no return, what was shown and what is loaded, whole files, the contract, the console; readline; failures the program can notice | 2 configurations, 8 command lines, 7 machines, 4 lines of input |
| `PxeKexecFaults` | exit code 1, dry run, the end of every run; plain reader; all failures | same, 3 lines of input |
| `PxeParserSections` | the parser against sections; lookup; where a blank follows the keywords | files of up to 5 lines, 3 labels of which 2 differ in case only, 2 kernels |
| `ConfigSearch` | with a good network the most specific file is used; with any, the order of the stream, the notifier, the end of the search | all 10 names, all servers with up to 3 files, 2 blocks |
| `TempFiles` | foreign files, own files of a run that met no other, cleaning up, free names | 1 run without an initrd, then 2 with one that may overlap; 2 foreign files |
| `NetworkHelper` | interface and server in use, where the search misses one, the names of the files | lists of up to 4 entries, 3 interfaces, 2 servers, 4 and 3 contents for a file; addresses with bytes of either sign |
| `LinuxDist` | version order, who passes the whitelist, why one of it is refused | 12 distributions, 2 of them derivatives, all versions of up to 3 of 4 characters and 15 longer ones, 4 forms of lsb-release |
| `OptionParser` | every option and argument as it was meant, in every spelling | 4 options (2 flags of which one is the beginning of the other, a string, a number), 3 things said, both `getopt_long()`s |
| `SerialFile` | the port for one process at a time, with its lock file and what it asked for; no lock file left | 2 processes, 3 calls each, 2 baud rates, 3 kinds of lock files |
| `LineReader` | Tab and Enter agree; Tab keeps what is possible; strings lose nothing | pairs of 5 labels, 3 keys and Tab, 2 lines, both readers |

Why the bounds are enough. Four lines of input are a name, an edit with
readline (which takes two) and an answer, or any shorter sequence with the end
of the file behind it; longer ones return to the same `pc` with a different
entry only, and the entries of the configurations have all kinds of append
line. The command lines include each option at least once
and the combinations `execute()` and `confirmBoot()` branch on. Five lines are
a section with a label, a kernel, two append lines and the label of the next
one. Three files on a server are one that breaks, one that is refused or
breaks, one that is used. Two blocks are a beginning and an end. Two runs are
what it takes to collide; the third, without an initrd and over before them,
leaves files the other two meet. Two interfaces with files are what it takes to
find a server at the wrong one; the list with an address too many has the same
name twice. Three characters are two segments with a separator, or a segment, a
separator and the end; the longer versions are those at the borders of the
whitelist, which have more segments. Three things said are an option, something
that ends or interrupts the options and what is behind it; each kind of thing
is among them. Two processes are what it takes to fight for a port, and three
calls open it, set it and open it again after a close. Two labels are what a
completion is shared by, the five are of every relation between two labels
(same beginning, one the beginning of the other, same but for the case, with a
blank, a name that means quit), and the second line is one with a history.
`TypeCorrect` and the other theorems do not
depend on these bounds.

### Disagreements

Each of these runs checks one sentence of the documentation, a comment or a
message, and finds a behaviour of the code that contradicts it. They use the
constants of `PxeKexecSafety` without failures, with fewer lines of input where
that is enough.

| Run | The documents say | The code does |
|---|---|---|
| `FindStaleInitrd` | `getInitrd()` is empty without `initrd=` (pxeparser.h:123) | keeps the initrd of the line before the edit |
| `FindNotInPath` | true if the program is in the path (process.h:68) | true of the first directory without it |

Others were met while modelling and are in the models (where nothing else is
said), but have no run of their own:

* a child that a signal ended counts as a success (process.cc:136;
  process.h:142 says non-zero on failure);
* two runs at the same time may share a file, so that one boots what the other
  downloaded (pxekexec.cc:503; pxe-kexec.pod:18);
* "no DHCP server in the DHCP info file" (pxekexec.cc:280; pxe-kexec.pod:35) is
  said although the file of the interface names one, if another interface's file
  did first (networkhelper.cc:290; `GivesUpWithoutServer` has the exact case);
* an invalid option ends the parsing, and `parse()` is true (optionparser.cc:257;
  optionparser.h:455);
* a completion that is a beginning of the replacement does not shorten it, so
  that Tab chooses one of two labels for the user (completion.cc:228, against
  the comment at completion.cc:223), and labels called quit or exit cannot be
  chosen at the prompt;
* `SimpleLineReader` looks for the end of its input at `cout`
  (completion.cc:199);
* an `openPort()` that fails leaves the descriptor 0 behind, so that a close
  without need removes another's lock file (serialfile_posix.cc:141;
  serialfile.h:92), two openings that overlap both succeed
  (serialfile_posix.cc:131), and raw mode is never switched off
  (serialfile_posix.cc:310; serialfile.h:184);
* an IP address is spelled right on little-endian machines only, and MF_NOSEP
  is not looked at (networkhelper.cc:85; networkhelper.h:58);
* `getRest()` does not return a string without the prefix unmodified
  (stringutil.cc:85; stringutil.h:95), `replace_char()` erases everything behind
  the character it replaces, and `readHistory()` never throws (completion.cc:306;
  completion.h:159): called wrongly by nobody, the last two not in the models;
* the result of reboot is dropped (pxekexec.cc:605; pxekexec.h:144 promises an
  exception);
* the kernel of an entry without an initrd is never deleted (pxekexec.cc:556;
  pxekexec.cc:555, pxekexec.h:150);
* end of file at the question confirms (pxekexec.cc:469; pxekexec.h:124);
* without a terminal the exception specification of `isRealTerminal()` ends the
  program (console.cc:36; kexec.h:133 promises false);
* a close that fails to write the last block goes unnoticed (pxekexec.cc:523);
* "Aborting." (pxekexec.cc:311) goes on to parse what is in the stream, and a
  broken file's beginning stays in front of the next file (pxekexec.cc:300);
* inside an entry a label line with a tab is skipped (pxeparser.cc:209; NEWS:32),
  so are kernel and append with one, and say lines no longer count (pxeparser.h:182);
* the destructor deletes a second time, whoever's the file is by then
  (pxekexec.cc:155);
* a machine of the manual page's list (pxe-kexec.pod:45-69) is refused for an
  lsb-release without DISTRIB_ID, as Red Hat ships it, ARCH for any
  (linuxdb.cc:57), and any other where the version is read from freed memory
  (pxekexec.cc:366; `ListedPass` has the exact cases);
* Debian is on the whitelist of the code and NEWS:20 but not of the manual page,
  and a derivative without lsb-release passes as what it is made of;
* the interface in use need not be up (pxe-kexec.pod:116; not in the models);
* the oldest lease of dhclient's file is used (networkhelper.cc:342), and the
  file of the hook script that ChangeLog:38 says replaces it is read by nobody.

## Fairness

`PxeKexec`: the program has one thread that is never suspended for good
(`WF_vars(Program)`), and every child ends (`WF_vars(ChildEnds)`). A child that
does its work is not required to: it may fail. The user need not answer
anything in particular; input is finite and its end is an answer too. Downloads
of the kernel and the initrd have no timeout in the code (`Downloader(os)`,
pxekexec.cc:515), so that they end is an assumption about the network.

`ConfigSearch`: libcurl delivers blocks and ends transfers, which
`CURLOPT_TIMEOUT` (downloader.cc:90) justifies; the loop goes on. Progress
callbacks need no fairness.

`TempFiles`: every run gets its turn (`WF_vars(Step(r))` for each run); none is
kept from its turn by a step of another one except the one start that waits for
an earlier run's end. Names are found although others take some because each run takes one name per kind.

## Proofs

Eight modules of theorems, each EXTENDing the module it is about, are checked
to the last leaf by tlapm, for every value of the constants the named ASSUMEs
allow. The inductive invariants were checked by TLC on the instances of the
runs before they were proved. The assumptions are types of constants and that
markers ("no file", "no label") differ from values; where a theorem assumes
more, it says so in its statement, and so does this text. The bound
`MaxLines` of the parser is any natural number there.

| Theorems of | in | state |
|---|---|---|
| `PxeKexec` | `PxeKexecProofs` | `TypeOK`, `PointOfNoReturn`, `LoadSeesWholeFiles`, `FailureLeavesMachineUp`, `LoadsWhatWasShown`, `ConsoleWhereItCan`, `DryRunTouchesNothing`, `KeepsContract` (the refinement) |
| `PxeParser` | `PxeParserProofs` | `TypeOK`, `EntriesAreSections`, `CachedInitrdsAreRight`, `LookupFindsFirst` |
| `ConfigSearch` | `ConfigSearchProofs` | `FinishedExactlyOnce`, `StreamIsInOrder`, `MostSpecificIsUsed` |
| `TempFiles` | `TempFilesProofs` | `TypeOK`, `ForeignFilesUntouched`, `OwnFilesRemoved`, `LoadsItsOwn`, `DeletesOnlyItsOwn` |
| `SerialFile` | `SerialFileProofs` | `TypeOK`, `NoStaleLock`, `PortIsMine` |
| `NetworkHelper` | `NetworkHelperProofs` | `ServerIsTheInterfaces`, `InterfaceIsTheRightOne`, `GivesUpWithoutServer`, `NamesAreTheClients` |
| `LineReader` | `LineReaderProofs` | `TabFindsEntry`, `TabKeepsEntries`, `SplitLosesNothing` |
| `LinuxDist`, `RpmVerCmp` | `LinuxDistProofs` | `VersionOrderIsRight`, `OnlyListedPass`, `ListedPass` |

### The session, where failures are noticed

* `TypeCorrect`: `TypeOK` is inductive as it stands.
* `BootsTheChosenEntry`: `Spec => []PointOfNoReturn`, assuming
  `NoSilentFaults`: no signal ends a child, waitpid does not fail and no block
  is lost in a close. Without the assumption it is false (a
  child that a signal ended returns 0); downloads, opens, forks and children may
  fail and pxe-kexec may be killed at any step. The initrd loaded is that of the
  append line, if the line names one; of a line without one the entry may answer
  an earlier initrd, which is the subject of `FindStaleInitrd`.
* `KexecReadsWholeFiles`: `Spec => []LoadSeesWholeFiles`, under the same
  assumption.
* `ImplementsContract`: `Spec => KeepsContract`, that is, every behaviour of
  `PxeKexec` is one of `BootContract` under the mapping above, again assuming
  `NoSilentFaults`.

`PointOfNoReturn` is not inductive: the step that calls reboot says nothing
about what was loaded. `IInv` adds what the program knows at each place:
`ConsentInv` (nobody gets past the question), `DryRunInv` (the two dry-run
flags agree, a dry run has no child), `ProcInv` (a child only while it is
waited for or as an orphan; a status tells whether the child did its work),
`FilesInv`, `FetchedInv` (what the files hold at each place) and `LoadedInv`
(from the moment kexec -l has acted, the chosen entry is what is loaded). The
argument: a return of 0 from a child that was not signalled means the child
acted (`WaitSteps`); `kexec -l` acts only while both files are whole and of
the chosen entry (`LoadSteps`); nothing changes the entry afterwards except
`getInitrd()`, which does not change its answer (`GetInitrdTwice`); and only
`LoadReturns` with 0 leads to reboot, kexec -e and the console. `NextIInv` has
one step per action.

The refinement needs more than `IInv`: `ContractInv` says that the answer comes
once, after the last step that changes the entry or the dry-run flag (`OnceInv`),
that the exit code is fixed on the way to the destructor, and of 0 in a real
run only with the chosen entry loaded (`ExitInv`), and that the machine is up
until a child that has acted returns (`UpInv`). `NextContract` then takes the
actions one by one: most are stutters, because nothing the mapping looks at
changes (`Unseen`), and each of the others is one step of the contract.

### The session, whatever fails

The second half of `PxeKexecProofs` makes no assumption on the failures, the
silent ones included:

* `FailureIsHarmless` (`FailureLeavesMachineUp`), `ShownIsLoaded`
  (`LoadsWhatWasShown`), `DryRunIsDry` (the action property `DryRunTouchesNothing`);
* `NobodyIsUnasked`: the part of `PointOfNoReturn` that survives silent
  failures: without an answer the machine does not go down and the console is
  not switched;
* `ConsoleIsFound` (`ConsoleWhereItCan`), assuming that no ioctl() of the
  console fails (`"vt" \notin Faults`), which the property itself is about.

The invariant `FaultInv` keeps `ConsentInv`, `DryRunInv` and `FilesInv` and
replaces the others by what is left of them when a status may lie: `ChildInv`
(where a child can be around), `FailureInv` (an exit code of 1 is set only
where no child took the machine down), `NamedInv` (the files are those of the
entry, whole or not), `ShownInv` (from the question on what was displayed is
what is planned, and an edit leads back to the display) and `ConsoleInv`. The
walk of `openConsoleFd()` finds the first device that will do; that it finds
one if there is one is the well-ordering of the natural numbers
(`LeastMember`, from `NatLessThanWellFounded` and `WFMin` of the library).

### The parser

`SectionInv` says what a parser that has read `fed` so far knows: there are
lines `s[1] < ... < s[n]` which are exactly the ones that start a section, the
entries describe the first sections and, inside an entry, the current entry
the last one; `Describes` compares an entry with what `LastValue` reads out of
the whole section, and its initrd, cached or not, with its append line.
Before the first label nothing has been kept. The current entry has never been
asked for its initrd, which is why a second append line is not too late. The
lemmas say what one more line does to a file as a whole: it changes no earlier
start (`StartsStay`), belongs to the last section or starts one
(`SectionsGrow`, `LastSection`, `OldSections`), and is the value of its word or
leaves it (`ValueIsNew`, `ValueStays`). `StepTold` has one step per action. At
the end of the file `n` is the number of the entries, and counting
(`RankOfHead`, from `FS_CountingElements` of the library) makes `s[k]` the
section `SectionAt(k)`.

### The search

`CallsInv`: a transfer under way has not been reported as finished. `OrderInv`:
everything in the stream says more about the client than the names still to be
asked for, and of the name asked for now there are the first blocks, all of them
once the transfer has succeeded.
`CleanInv`: in a network without failures the names passed do not exist on the
server, and of this one the stream holds what has come. That the names get
shorter and are all there are (`NamesGetShorter`, `NamesAreAll`) is proved from
their definition.

### Concurrent runs

* `ForeignFilesAreSafe`: `ForeignInv` adds that no run that is past its second
  stat(), and no handle, is at a foreign file.
* `OwnFilesAreRemoved`: `OwnInv` says of each run that every file of its making
  has one of the names it remembers, until the destructor has deleted it.
* `AloneLoadsItsOwn`: `MetInv` says of a run that met nobody that no other one
  is under way (`Alone`) and that the name it found is still free, then that
  its file is its own and complete (`AloneOf`); two names never lead to one
  inode (`TypeInv`).
* `OnlyOwnFilesAreDeleted`: the action property, from the same invariants.

`TypeInv` strengthens `TypeOK`: tables are functions, inodes are not shared and
have been made for their name.

### The serial port

`LockFilesAreRemoved`: `LockListed`, the creator of a lock file has it on its
list of files to delete until it is gone. `PortIsExclusive`: `PortInv`, as long
as nothing has gone wrong the lock file belongs to the holder of the port, and
what the holder asked for is on from the moment it is set. `ListInv` bounds
the list, which `TypeOK` is not inductive without.

### The network interfaces

`ListInv`: the interfaces start with the first one of the kernel's list that is
no loopback. `ServerInv`: an interface has no server or one of its own files.
`SearchInv`: the first interface of its name has a server as soon as its files
were read, unless the search stopped at another one; the readers stop at the
first interface that gets one. `Searched` says where: at one of the `Places`,
with none before it that names a server (`StopsAtInfo`, `StopsAtLease`), and so
`GivesUpWithoutServer` says that a file of the interface in use that names one
lies behind it.

`NamesAreItsOwn` says that the names asked for are this machine's for every
address. `NamesInv` is short: while the search is on, the names are those that
were written when the host was chosen. The rest is arithmetic. `BytesOfInt`: an
int put together from four bytes, the last of which carries the sign, gives
them back by division and remainder, although the number may be negative;
`HexOfByte`: two digits read back give the byte, also where it was a signed
char in between. `FourPairs` and `SixPieces` say which character is where in
the spelled address, `IpIs` and `MacIs` put this together, and `AddressesOf` is
the type: every interface has bytes for addresses.

### The line readers

* `CompletedIsFound` (`TabFindsEntry`): `OfferInv` says that an offered entry
  is the line without the blanks at its ends, from the Tab to the next key or
  the end of the line, and that nothing is read after a line that was offered.
  That the entry is found then needs that the words of the line behind a blank
  are not offered as an entry (`StripAround`, `StripsToNothing`) and that a
  single name is replaced by the whole of it (`ReplacementIs`: the replacement
  is the beginning of the first completion that all completions share, and
  nothing shorter).
* `TabIsKind` (`TabKeepsEntries`, an action property): a line of one word has
  no blank in it (`OneWord`), and every completion begins with the replacement
  (`ReplacementIsShared`), which is where no label may begin another one.
* `NothingIsLost` (`SplitLosesNothing`): for every line and every pattern of one
  or two characters.

`TypeInv` types the line and the history; the properties need no bound on
either, so `MaxTyped`, `MaxLines` and `MaxEntries` may be anything.

### Recursion and folds

`stringsplit()` is a recursive function and the text its items are compared
with a fold, so `NothingIsLost` needs two inductions; the value of a number and
the loop of `rpmvercmp()` are of the same kind. The library's induction
theorems have an operator as a parameter, which the provers cannot instantiate;
`WFMin` has a set, which they can. So each induction is one about the least
place where the statement fails (`LeastMember`, `NoLeast`). A recursive
function is a `CHOOSE`: `FlattenIs` and `SplitIs` first prove that there is a
function with its equation, and then have the equation. `SplitJoins` goes
through the places of the line from the end: the items from `i` on and the
patterns between them are the line from `i` on, and none of them holds the
pattern (`PieceLacks`).

### The whitelist

`DetectInv` says what each detector that passed has found out about the machine
(`NoneBefore`) and what the one that answered says (`Says`). From it
`PassesOnlyIfListed` (`OnlyListedPass`) says for every content of freed memory
which machines can pass: those that look like one of the list.
`RefusedOnlyForItsFiles` (`ListedPass`) says for every set of versions why one of
the list may be refused. The assumption of `LinuxDist` says that a file that is there is not `NoFile`, and that versions are sequences of
characters.

### The comparison of versions

`VersionsAreCompared` is about the loop of `rpmvercmp()` alone: for every two
strings, `RpmVerCmp(a, b) = VersionOrder(a, b)`. `PassesOnlyIfListed`,
`RefusedOnlyForItsFiles` and `InstalledVersionIsCompared` (`VersionOrderIsRight`) rest on it. Its parts:

* Between two rounds the loop stands behind the same number of parts of both
  versions, and these parts are the same (`Between`). A round finds the next
  member of each list (`NextPart`; `LastPart` where only a separator is left),
  and the order of the two members decides (`PartDecides`, `EndDecides`), or
  they are equal and the loop goes on (`OneRound`).
* Numbers are compared by length and then as words once the zeros in front are
  gone; that this is the order of their values is `NumCmpIs`, from what one more
  digit does to a value (`ValuesGrow`, `SameDigits`, `GreaterStays`).
* The loop is a recursive function of two places, one per version, and a round
  only looks further on in the first one (`LoopLooksAhead`). So there is a
  function with its equation (`LoopIs`), and of the rounds with a wrong result
  none is the last (`LoopDecides`).

Equality of strings, the shortcut in front of the loop, needs no case of its
own: what the loop would say of a string and itself is 0.

### Only model-checked

* Liveness: the three `Termination`s (fairness and ENABLED are out of the
  prover's reach).
* `TypeOK`, `OptionsAsMeant` and `ArgumentsAsMeant` of `OptionParser`. Their
  reference is what was said, written out by `FlattenSeq` in one of many
  spellings, so that already the type needs the words of a fold, and the other
  two that the scan takes the spellings apart again, for every length.

## Not modelled

Wording, screen control and logging (`debug.cc` decides nothing, not even
whether a message is worth an error); `printHelp()`, `printVersion()`; what
nobody calls (`readHistory()`, `writeHistory()`, `replace_char()`,
`setDefault()`, the dotted form of an IP address, the plain `getopt()`); the
stream operators of `SerialFile`, which pass bytes through and keep the text of
the last error only; interfaces beyond `MaxIfs`; lines longer than a buffer;
memory exhaustion; libcurl, readline, the C library, kexec, reboot and the
kernel beyond what the program observes of them; build files, the hook script
and the documents. The headers are documentation for the most part: their
declarations are modelled with the methods they declare.

## Plan

All components that decide something are modelled. What is left is to prove
more:

1. The files of `PxeKexec` as an abstraction of `TempFiles`, checked as a
   refinement like that of `BootContract`, and then proved.
2. What holds of `BootContract` by itself (its steps never revise an answer), so
   that `ImplementsContract` carries it over to the program.
3. What is left of `PortIsMine` where devices refuse.
