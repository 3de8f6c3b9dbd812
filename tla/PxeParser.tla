----------------------------- MODULE PxeParser -----------------------------
(***************************************************************************)
(* The parser of PXE configuration files (class PxeParser and the growing  *)
(* PxeConfig, src/src/pxeparser.cc), fed line by line, and what the lines  *)
(* mean when they are read as sections.                                    *)
(*                                                                         *)
(* A line is what is left of it after strip(): its first word, in whatever *)
(* case, the white space behind that word, and its value.  The word        *)
(* "other" stands for a comment, an empty line and any other word.         *)
(***************************************************************************)
EXTENDS PxeEntry, FiniteSetsExt

CONSTANTS
    Texts,       \* what a say line may say
    MaxLines     \* bound: the longest file

ASSUME ParserAssumption == MaxLines \in Nat

Separators == {"space", "tab"}

Line(word, values) == [word : {word}, sep : Separators, value : values]

Lines == Line("say", Texts) \union Line("label", Labels)
             \union Line("kernel", Kernels) \union Line("append", AppendLine)
             \union [word : {"other"}, sep : {"space"}, value : {NoArgs}]

VARIABLES
    fed,         \* the lines fed so far
    state,       \* m_state: "global" or "entry"
    message,     \* m_config.m_message
    entries,     \* m_config.m_entries
    current,     \* m_currentEntry
    finished     \* has finishParsing() been called?

vars == <<fed, state, message, entries, current, finished>>

Init ==
    /\ fed = <<>>
    /\ state = "global"
    /\ message = <<>>
    /\ entries = <<>>
    /\ current = NoEntry
    /\ finished = FALSE

-----------------------------------------------------------------------------
(* PxeConfig                                                               *)

\* addMessage(): a message is the texts, with a line break in front of each.
AddMessage(text) == message' = Append(message, text)

AddEntry(entry) == entries' = Append(entries, entry)

GetEntryNames == [n \in DOMAIN entries |-> entries[n].label]

-----------------------------------------------------------------------------
(* feedLine() and finishParsing()                                          *)

\* The first line of the file that comes next.
NextLine(line) ==
    /\ ~finished /\ Len(fed) < MaxLines
    /\ fed' = Append(fed, line)
    /\ finished' = FALSE

\* Say lines count before the first label only.
FeedSay(line) ==
    /\ state = "global" /\ line.word = "say"
    /\ AddMessage(line.value)
    /\ UNCHANGED <<state, entries, current>>

FeedFirstLabel(line) ==
    /\ state = "global" /\ line.word = "label"
    /\ current' = NewEntry(line.value)
    /\ state' = "entry"
    /\ UNCHANGED <<message, entries>>

\* Mutated form: the entry under way is dropped by the next label.
FeedNextLabelDropping(line) ==
    /\ state = "entry" /\ line.word = "label" /\ line.sep = "space"
    /\ entries' = entries
    /\ current' = NewEntry(line.value)
    /\ UNCHANGED <<state, message>>

\* A label line inside an entry adds that entry, resets the parser and is fed
\* again; the trace message asks the finished entry for its initrd.
FeedNextLabel(line) ==
    /\ state = "entry" /\ line.word = "label" /\ line.sep = "space"
    /\ AddEntry(AfterGetInitrd(current))
    /\ current' = NewEntry(line.value)
    /\ UNCHANGED <<state, message>>

FeedKernel(line) ==
    /\ state = "entry" /\ line.word = "kernel" /\ line.sep = "space"
    /\ current' = SetKernel(current, line.value)
    /\ UNCHANGED <<state, message, entries>>

\* Mutated form: the initrd is read off the append line at once, so that a
\* second append line is too late.
FeedAppendEagerly(line) ==
    /\ state = "entry" /\ line.word = "append" /\ line.sep = "space"
    /\ current' = LET e == [current EXCEPT !.append = line.value]
                  IN  AfterGetInitrd(e)
    /\ UNCHANGED <<state, message, entries>>

FeedAppend(line) ==
    /\ state = "entry" /\ line.word = "append" /\ line.sep = "space"
    /\ current' = SetAppend(current, line.value)
    /\ UNCHANGED <<state, message, entries>>

\* Every other line is skipped: comments, unknown words, words of the other
\* state, and inside an entry words that a tab follows.
Understood(line) ==
    IF state = "global" THEN line.word \in {"say", "label"}
    ELSE line.word \in {"label", "kernel", "append"} /\ line.sep = "space"

FeedSkipped(line) ==
    /\ ~Understood(line)
    /\ UNCHANGED <<state, message, entries, current>>

FeedLine ==
    \E line \in Lines :
        /\ NextLine(line)
        /\ \/ FeedSay(line) \/ FeedFirstLabel(line) \/ FeedNextLabel(line)
           \/ FeedKernel(line) \/ FeedAppend(line) \/ FeedSkipped(line)

\* Mutated form: the last entry is forgotten.
FinishParsingWithoutLast ==
    /\ ~finished
    /\ finished' = TRUE
    /\ UNCHANGED <<fed, state, message, entries, current>>

\* parseStream() at the end of the file.
FinishParsing ==
    /\ ~finished
    /\ finished' = TRUE
    /\ IF current.valid THEN AddEntry(current) ELSE UNCHANGED entries
    /\ UNCHANGED <<fed, state, message, current>>

Parsed == finished /\ UNCHANGED vars

Next == FeedLine \/ FinishParsing \/ Parsed

Spec == Init /\ [][Next]_vars

-----------------------------------------------------------------------------
(* What the lines of a file mean, without a state: a keyword counts         *)
(* whatever white space follows it.                                        *)

Starts == {i \in DOMAIN fed : fed[i].word = "label"}

\* The lines of the entry that starts at line i.
Section(i) ==
    {j \in (i + 1)..Len(fed) : \A k \in (i + 1)..j : k \notin Starts}

\* The value of the last line with that word in the section, if it has one.
LastValue(i, word, default) ==
    LET given == {j \in Section(i) : fed[j].word = word}
    IN  IF given = {} THEN default ELSE fed[Max(given)].value

SectionAt(n) == CHOOSE i \in Starts : Cardinality({j \in Starts : j <= i}) = n

-----------------------------------------------------------------------------
(* Properties                                                              *)

\* Every variable has its type.
TypeOK ==
    /\ fed \in Seq(Lines) /\ Len(fed) <= MaxLines
    /\ state \in {"global", "entry"}
    /\ message \in Seq(Texts)
    /\ entries \in Seq(Entry)
    /\ current \in Entry
    /\ finished \in BOOLEAN

\* Behind the first label line a space follows every label, kernel and append
\* (say does not count there): what EntriesAreSections and LookupFindsFirst are
\* about.  Inside an entry the code skips a keyword with a tab, a label too,
\* which NEWS:32 says it does not: those files are left out of both.
TabsOnlyUpToFirstLabel ==
    \A i \in Starts : \A j \in (i + 1)..Len(fed) :
        fed[j].word = "say" \/ fed[j].sep = "space"

\* The parsed configuration of a file without such tabs has one entry for each
\* section of the file, in the order of the file and the last one included,
\* with the last kernel and the last append line of its section (feedLine(),
\* finishParsing()).
EntriesAreSections ==
    finished /\ TabsOnlyUpToFirstLabel =>
        /\ Len(entries) = Cardinality(Starts)
        /\ \A n \in DOMAIN entries :
               LET i == SectionAt(n) IN
               /\ entries[n].valid
               /\ GetEntryNames[n] = fed[i].value
               /\ entries[n].kernel = LastValue(i, "kernel", NoKernel)
               /\ entries[n].append = LastValue(i, "append", EmptyAppend)

\* An initrd that the parser has already cached in an entry is the one of the
\* append line the entry ended up with (getInitrd(), setAppend()).
CachedInitrdsAreRight ==
    finished => \A n \in DOMAIN entries :
                    GetInitrd(entries[n]) = InitrdIn(entries[n].append)

\* Looking up a label finds the first section of such a file with it, whatever
\* the case (getEntry()): a later entry with the same label never hides an
\* earlier one.
LookupFindsFirst ==
    finished /\ TabsOnlyUpToFirstLabel =>
        \A l \in Labels : \A e \in GetEntry(entries, l) :
            IF \E i \in Starts : Fold[fed[i].value] = Fold[l]
            THEN LET i == Min({j \in Starts : Fold[fed[j].value] = Fold[l]}) IN
                 /\ e.label = fed[i].value
                 /\ e.kernel = LastValue(i, "kernel", NoKernel)
            ELSE ~e.valid
=============================================================================
