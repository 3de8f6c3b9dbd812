----------------------------- MODULE LineReader -----------------------------
(***************************************************************************)
(* The line readers (src/ext/libbw/completion.cc) at the prompt for an     *)
(* entry: keys, Tab and its completions, the history, and what             *)
(* PxeKexec::chooseEntry() makes of the lines.  PxeKexec only has the      *)
(* outcome of this dialogue.                                               *)
(***************************************************************************)
EXTENDS StringUtil

CONSTANTS
    Chars,        \* what can be typed, the blank included
    Names,        \* labels of entries
    Quits,        \* the words quit and exit
    MaxEntries,   \* bound: entries of the configuration
    MaxTyped,     \* bound: the longest line a key adds to
    MaxLines      \* bound: lines read

ASSUME LineReaderAssumption ==
    /\ Lower \in [Chars -> Chars]
    /\ Blank \in Chars
    /\ Names \subseteq Seq(Chars)
    /\ \A name \in Names : name # <<>> /\ name = Strip(name, {Blank})

\* No entry, or none the user was led to.
None == 0

VARIABLES
    reader,       \* the implementation: "readline" or "simple"
    labels,       \* getEntryNames()
    completor,    \* g_current_completor, "chooser" or "none"
    line,         \* the line being typed; the cursor is at its end
    history,      \* readline's
    eof,          \* m_eof
    lines,        \* lines read
    offered,      \* the entry Tab has completed the whole line to, or None
    taken,        \* what was offered when the line was read
    choice,       \* m_choice: an index of labels, or None
    pc            \* "start", "prompt" or "done"

dialogue == <<completor, history, eof, lines, taken, choice, pc>>
vars == <<reader, labels, line, offered, dialogue>>

\* One or the other, as the program is built.
DefaultLineReader == {"readline", "simple"}

Init ==
    /\ reader \in DefaultLineReader
    /\ labels \in UNION {[1..n -> Names] : n \in 0..MaxEntries}
    /\ completor = "none"
    /\ line = <<>>
    /\ history = <<>>
    /\ eof = FALSE
    /\ lines = 0
    /\ offered = None
    /\ taken = None
    /\ choice = None
    /\ pc = "start"

-----------------------------------------------------------------------------
(***************************************************************************)
(* Completion                                                              *)
(***************************************************************************)
\* The word Tab completes, and what is in front of it.
Text == SubSeq(line, Max({i \in DOMAIN line : line[i] = Blank} \union {0}) + 1, Len(line))
Before == SubSeq(line, 1, Len(line) - Len(Text))

\* PxeKexec::complete(): the labels that begin with the text, which is all it
\* looks at, by their places.
Complete(text) == {i \in DOMAIN labels : StartsWith(labels[i], text, FALSE)}

\* Mutated form: the first completion as it is.
ReplacementFirst(completions) == labels[Min(completions)]

\* readline_line_reader_complete(): the first completion up to where another
\* one differs from it.  One that is a beginning of it does not shorten it.
Replacement(completions) ==
    LET first == labels[Min(completions)]
        mismatches == {i \in DOMAIN first : \E c \in completions :
                           i \in DOMAIN labels[c] /\ labels[c][i] # first[i]}
    IN  IF mismatches = {} THEN first ELSE SubSeq(first, 1, Min(mismatches) - 1)

-----------------------------------------------------------------------------
(***************************************************************************)
(* Keys                                                                    *)
(***************************************************************************)
Typing == pc = "prompt" /\ lines < MaxLines
Adding == Typing /\ Len(line) <= MaxTyped

Type(char) ==
    /\ Adding
    /\ line' = Append(line, char)
    /\ offered' = None
    /\ UNCHANGED <<reader, labels, dialogue>>

\* Several names: readline inserts what replaces the text, if there is any,
\* and lists them.
TabShared ==
    /\ Adding /\ completor = "chooser"
    /\ \E i, j \in Complete(Text) : labels[i] # labels[j]
    /\ LET replacement == Replacement(Complete(Text))
       IN  line' = IF replacement = <<>> THEN line ELSE Before \o replacement
    /\ offered' = None
    /\ UNCHANGED <<reader, labels, dialogue>>

\* One name, however often: readline writes a blank behind it.
TabSingle ==
    /\ Adding /\ completor = "chooser"
    /\ Complete(Text) # {}
    /\ \A i, j \in Complete(Text) : labels[i] = labels[j]
    /\ line' = Append(Before \o Replacement(Complete(Text)), Blank)
    /\ offered' = IF Strip(Before, {Blank}) = <<>> THEN Min(Complete(Text)) ELSE None
    /\ UNCHANGED <<reader, labels, dialogue>>

\* The line before, for the key Up.
Recall ==
    /\ Typing /\ history # <<>>
    /\ line' = Last(history)
    /\ offered' = None
    /\ UNCHANGED <<reader, labels, dialogue>>

-----------------------------------------------------------------------------
(***************************************************************************)
(* readLine() and chooseEntry()                                            *)
(***************************************************************************)
GetEntry(name) == SelectInSeq(labels, LAMBDA label : SameName(label, name))

HaveHistory == reader = "readline"

HaveCompletion == reader = "readline"

\* The simple reader throws the completor away.
SetCompletor(comp) == completor' = IF HaveCompletion THEN comp ELSE completor

\* An entry the user named on the command line may be there or not.
ChooseEntry ==
    /\ pc = "start"
    /\ \E preChoice \in {None} \union {GetEntry(name) : name \in Names} :
           /\ choice' = preChoice
           /\ pc' = IF preChoice = None THEN "prompt" ELSE "done"
           /\ SetCompletor(IF preChoice = None THEN "chooser" ELSE "none")
    /\ UNCHANGED <<reader, labels, line, history, eof, lines, offered, taken>>

\* What readLine() does with a line for the default prompt.
Read ==
    /\ Typing
    /\ lines' = lines + 1
    /\ history' = IF HaveHistory /\ line # <<>>
                  THEN Append(history, line) ELSE history
    /\ line' = <<>>
    /\ taken' = offered
    /\ offered' = None
    /\ UNCHANGED <<reader, labels, eof>>

\* Mutated form: the line as it is.
StrippedNot == line

Stripped == Strip(line, {Blank})

Quit ==
    /\ Stripped = <<>> \/ Stripped \in Quits
    /\ Read
    /\ SetCompletor("none")
    /\ pc' = "done"
    /\ UNCHANGED choice

ReadName ==
    /\ Stripped # <<>> /\ Stripped \notin Quits
    /\ Read
    /\ choice' = GetEntry(Stripped)
    /\ pc' = IF choice' = None THEN "prompt" ELSE "done"
    /\ SetCompletor(IF choice' = None THEN completor ELSE "none")

\* The end of the input, which readline alone notices; what was typed in front
\* of it is a line of its own.  Both return an empty line.
EndOfInput ==
    /\ pc = "prompt" /\ line = <<>>
    /\ eof' = (reader = "readline")
    /\ taken' = None
    /\ SetCompletor("none")
    /\ pc' = "done"
    /\ UNCHANGED <<reader, labels, line, history, lines, offered, choice>>

Terminated == pc = "done" /\ UNCHANGED vars

Next ==
    \/ ChooseEntry
    \/ \E char \in Chars : Type(char)
    \/ TabShared \/ TabSingle \/ Recall
    \/ Quit \/ ReadName \/ EndOfInput
    \/ Terminated

Spec == Init /\ [][Next]_vars

-----------------------------------------------------------------------------
(***************************************************************************)
(* Properties                                                              *)
(***************************************************************************)
\* A name that Tab has completed is an entry for Enter: with the blank that is
\* written behind it, in whatever case it was typed, the entry is found, unless
\* it is called quit or exit (readLine(), chooseEntry() and getEntry()).
TabFindsEntry ==
    taken # None /\ labels[taken] \notin Quits =>
        choice # None /\ SameName(labels[choice], labels[taken])

\* The line is the beginning of a label the user may go on to type.
MayBecome(label) == StartsWith(label, Strip(line, {Blank}), FALSE)

NoneBeginsAnother ==
    \A a, b \in ToSet(labels) : IsPrefix(a, b) => a = b

\* Tab never completes away from an entry that was still possible, as long as
\* no label is the beginning of another one (complete() and the replacement).
TabKeepsEntries ==
    [][(TabShared \/ TabSingle) /\ Text = line /\ NoneBeginsAnother =>
           \A i \in DOMAIN labels : MayBecome(labels[i]) => MayBecome(labels[i])']_vars

\* stringsplit() loses nothing of any line: its items, a pattern between them,
\* are the line, and none of them contains the pattern; getRest() gives back
\* what is behind a beginning; and stripping both ends, in either order, is
\* strip() (stringutil.cc).
SplitLosesNothing ==
    \A pattern \in UNION {[1..n -> Chars] : n \in 1..2} :
        LET items == StringSplit(line, pattern)
            joined == FlattenSeq([k \in DOMAIN items |-> items[k] \o pattern])
        IN  /\ joined \in {line, line \o pattern}
            /\ \A item \in ToSet(items) : \A i \in DOMAIN item :
                   ~ IsPrefix(pattern, SubSeq(item, i, Len(item)))
            /\ StartsWith(line, pattern, TRUE) => pattern \o GetRest(line, pattern) = line
            /\ \A item \in ToSet(items) :
                   /\ Stripl(Stripr(item)) = Strip(item, White)
                   /\ Stripr(Stripl(item)) = Strip(item, White)
=============================================================================
