---------------------------- MODULE BootContract ----------------------------
(***************************************************************************)
(* What pxe-kexec promises its user, in four steps: somebody agrees to one *)
(* boot; exactly that is loaded; only then the machine restarts; and the   *)
(* exit code tells what became of it.  PxeKexec implements this contract.  *)
(***************************************************************************)
CONSTANTS
    Boots,     \* what can be booted
    Earlier,   \* what the running kernel may hold before
    Nothing    \* nobody agreed to anything yet

VARIABLES
    pretend,   \* is it a dry run?
    agreed,    \* what somebody agreed to boot
    image,     \* what is loaded
    machine,   \* "up" or "down"
    result     \* what the program says of itself at its end

promise == <<pretend, agreed, image, machine, result>>

Init ==
    /\ pretend = FALSE /\ agreed = Nothing
    /\ image \in Earlier
    /\ machine = "up" /\ result = "none"

\* --dry-run, before anything else.
Pretend ==
    /\ agreed = Nothing /\ result = "none"
    /\ pretend' = TRUE
    /\ UNCHANGED <<agreed, image, machine, result>>

\* The one confirmation of a run; nobody changes his mind behind it.
Agree ==
    /\ agreed = Nothing /\ result = "none"
    /\ agreed' \in Boots
    /\ UNCHANGED <<pretend, image, machine, result>>

\* After a result of 0 or 1 nothing happens any more; a run that was killed
\* may have left a child that goes on.
Over == result \in {"success", "failure"}

Load ==
    /\ agreed # Nothing /\ ~pretend /\ ~Over
    /\ machine = "up"
    /\ image' = agreed
    /\ UNCHANGED <<pretend, agreed, machine, result>>

Restart ==
    /\ agreed # Nothing /\ ~pretend /\ ~Over
    /\ image = agreed
    /\ machine = "up" /\ machine' = "down"
    /\ UNCHANGED <<pretend, agreed, image, result>>

\* Success: what was agreed on is loaded, or nobody wanted anything.
\* Failure: the machine stays up.
Report ==
    /\ result = "none"
    /\ \/ result' = "success" /\ (pretend \/ agreed \in {Nothing, image})
       \/ result' = "failure" /\ machine = "up"
       \/ result' \in {"aborted", "killed"}
    /\ UNCHANGED <<pretend, agreed, image, machine>>

Next == Pretend \/ Agree \/ Load \/ Restart \/ Report

Spec == Init /\ [][Next]_promise
=============================================================================
