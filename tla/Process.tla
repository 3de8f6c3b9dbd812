------------------------------ MODULE Process ------------------------------
(***************************************************************************)
(* Process::execute() (src/src/process.cc): fork, execvp and waitpid, what *)
(* the caller gets back of it, and the dry-run mode that replaces it.  One *)
(* child at a time: execute() is synchronous and the program has one       *)
(* thread.                                                                 *)
(*                                                                         *)
(* A wait status is the integer Linux fills in: 256 * c for a child that   *)
(* exited with code c, the number of the signal for a child a signal ended.*)
(***************************************************************************)
EXTENDS Integers

CONSTANTS
    ExitCodes,    \* codes a child may exit with
    Signals,      \* signals that may end a child
    Faults        \* what the environment may do wrong, see FaultKinds

ASSUME ProcessAssumption ==
    /\ 0 \in ExitCodes /\ ExitCodes \subseteq 0..255
    /\ Signals \subseteq 1..127

VARIABLES
    proc,         \* the child of the execute() call under way
    dryRunMode    \* Process::m_dryRunMode

\* The programs pxe-kexec runs: kexec -l, kexec -e and reboot.
Commands == {"load", "exec", "reboot"}

Statuses == {256 * c : c \in ExitCodes} \union Signals

\* Mutated form: the status is taken for the exit code.
WEXITSTATUSUnshifted(status) == status

\* The exit code in a status, also when there is none in it.
WEXITSTATUS(status) == (status \div 256) % 256

ProcType == [st     : {"none", "child", "zombie", "returned"},
             cmd    : Commands \union {"none"},
             acted  : BOOLEAN,     \* the program has done what it is run for
             status : Statuses,
             rc     : -1..255]     \* what execute() returned

NoProcess == [st |-> "none", cmd |-> "none", acted |-> FALSE,
              status |-> 0, rc |-> 0]

Forked(c) == [st |-> "child", cmd |-> c, acted |-> FALSE,
              status |-> 0, rc |-> 0]

Returned(p, rc) == [p EXCEPT !.st = "returned", !.rc = rc]

\* execute() up to the fork: dry-run mode returns 0 without a child, a failed
\* fork returns the initial -1.
Execute(c) ==
    /\ proc.st = "none"
    /\ \/ dryRunMode /\ proc' = Returned(Forked(c), 0)
       \/ ~dryRunMode /\ proc' = Forked(c)
       \/ ~dryRunMode /\ "fork" \in Faults /\ proc' = Returned(Forked(c), -1)

\* The child does its work: the system call kexec or reboot exists for.
ChildActs(c) ==
    /\ proc.st = "child" /\ proc.cmd = c /\ ~proc.acted
    /\ proc' = [proc EXCEPT !.acted = TRUE]

\* The child exits, with 0 if and only if it has done its work.  A program
\* that is not there makes execvp() fail and the child exit(-1), code 255.
ChildExits ==
    /\ proc.st = "child"
    /\ \E code \in ExitCodes :
           /\ (code = 0) = proc.acted
           /\ proc' = [proc EXCEPT !.st = "zombie", !.status = 256 * code]

\* A signal ends the child, before or after it has done its work.
ChildKilled ==
    /\ "signal" \in Faults
    /\ proc.st = "child"
    /\ \E sig \in Signals :
           proc' = [proc EXCEPT !.st = "zombie", !.status = sig]

\* waitpid() returns and execute() hands on the exit code.
Wait ==
    /\ proc.st = "zombie"
    /\ proc' = Returned(proc, WEXITSTATUS(proc.status))

\* waitpid() fails, as it does when SIGCHLD is ignored.  The -1 assigned then
\* is overwritten from a status nobody wrote: any value.
WaitFails ==
    /\ "wait" \in Faults
    /\ proc.st = "zombie"
    /\ \E status \in Statuses : proc' = Returned(proc, WEXITSTATUS(status))

HasReturned(c) == proc.st = "returned" /\ proc.cmd = c
=============================================================================
