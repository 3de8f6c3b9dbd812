------------------------------ MODULE PxeEntry ------------------------------
(***************************************************************************)
(* Boot entries (class PxeEntry, src/src/pxeparser.cc) and the lookup of   *)
(* an entry by label (PxeConfig::getEntry).  The text of an append line is *)
(* abstracted to what the program tells apart: the value of its initrd=    *)
(* parameter and everything else (args).                                   *)
(***************************************************************************)
EXTENDS Naturals, Sequences

CONSTANTS
    Labels,       \* names a label line or a user can spell
    Fold,         \* Fold[l] is l in the spelling strcasecmp() compares
    Kernels,      \* values of a kernel line
    Initrds,      \* non-empty values of an initrd= parameter
    Args,         \* what an append line says besides initrd=
    NoArgs,       \* ... when it says nothing
    NoLabel,      \* the empty string, as a label
    NoKernel,     \* the empty string, as a kernel
    NoInitrd,     \* the empty string, as an initrd
    NoParameter   \* an append line without any initrd= parameter

ASSUME EntryAssumption ==
    /\ Fold \in [Labels -> Labels]
    /\ NoArgs \in Args
    /\ NoLabel \notin Labels
    /\ NoKernel \notin Kernels
    /\ NoInitrd \notin Initrds
    /\ NoParameter \notin Initrds \union {NoInitrd}

\* An append line: "initrd=" may be there with or without a value, or not.
AppendLine == [args : Args, initrd : Initrds \union {NoInitrd, NoParameter}]

EmptyAppend == [args |-> NoArgs, initrd |-> NoParameter]

Entry == [valid        : BOOLEAN,
          label        : Labels \union {NoLabel},
          kernel       : Kernels \union {NoKernel},
          append       : AppendLine,
          initrd       : Initrds \union {NoInitrd},
          initrdParsed : BOOLEAN]

\* PxeEntry(): the invalid entry.  PxeEntry(label): a valid one.
NoEntry == [valid        |-> FALSE,
            label        |-> NoLabel,
            kernel       |-> NoKernel,
            append       |-> EmptyAppend,
            initrd       |-> NoInitrd,
            initrdParsed |-> FALSE]

NewEntry(l) == [NoEntry EXCEPT !.valid = TRUE, !.label = l]

\* Mutated form: an append line without the parameter is not thought of.
GetInitrdUnchecked(e) == IF e.initrdParsed THEN e.initrd ELSE e.append.initrd

\* getInitrd() looks at the append line once per setAppend() and then
\* answers from its cache.  A line without the parameter leaves the cached
\* value as it was.
GetInitrd(e) ==
    IF e.initrdParsed \/ e.append.initrd = NoParameter
    THEN e.initrd
    ELSE e.append.initrd

AfterGetInitrd(e) == [e EXCEPT !.initrd = GetInitrd(e), !.initrdParsed = TRUE]

SetKernel(e, k) == [e EXCEPT !.kernel = k]

SetAppend(e, a) == [e EXCEPT !.append = a, !.initrdParsed = FALSE]

\* What the header promises of getInitrd(): a function of the append line.
InitrdIn(a) == IF a.initrd = NoParameter THEN NoInitrd ELSE a.initrd

Matches(entries, name) ==
    {i \in DOMAIN entries : Fold[entries[i].label] = Fold[name]}

\* Mutated form: a later entry hides an earlier one.
GetEntryLast(entries, name) ==
    IF Matches(entries, name) = {}
    THEN {NoEntry}
    ELSE {entries[i] : i \in {j \in Matches(entries, name) :
                                 \A k \in Matches(entries, name) : j >= k}}

\* PxeConfig::getEntry(): the first entry whose label matches, whatever its
\* case, or else an invalid entry.  A set of one member.
GetEntry(entries, name) ==
    IF Matches(entries, name) = {}
    THEN {NoEntry}
    ELSE {entries[i] : i \in {j \in Matches(entries, name) :
                                 \A k \in Matches(entries, name) : j <= k}}
=============================================================================
