----------------------------- MODULE StringUtil -----------------------------
(***************************************************************************)
(* The helpers of src/ext/libbw/stringutil.cc the program calls, and the   *)
(* comparisons of the C library beside them.  A string is a sequence of    *)
(* characters; npos is a set of positions that is empty.                   *)
(***************************************************************************)
EXTENDS Integers, FiniteSetsExt, SequencesExt

CONSTANT Lower   \* tolower(3), for every character there is

\* strcasecmp(3)
SameName(a, b) ==
    /\ Len(a) = Len(b)
    /\ \A i \in DOMAIN a : Lower[a[i]] = Lower[b[i]]

\* startsWith(); for a name, strncasecmp(3) with the length of the text is
\* the same.
StartsWith(str, start, casesensitive) ==
    /\ Len(str) >= Len(start)
    /\ LET first == SubSeq(str, 1, Len(start))
       IN  IF casesensitive THEN first = start ELSE SameName(first, start)

Strip(a, charsToStrip) ==
    LET kept == {i \in DOMAIN a : a[i] \notin charsToStrip}
    IN  IF kept = {} THEN <<>> ELSE SubSeq(a, Min(kept), Max(kept))

Blank == " "

White == {Blank, "\t", "\n"}

Stripl(a) == LET kept == {i \in DOMAIN a : a[i] \notin White}
             IN  IF kept = {} THEN <<>> ELSE SubSeq(a, Min(kept), Len(a))

Stripr(a) == LET kept == {i \in DOMAIN a : a[i] \notin White}
             IN  IF kept = {} THEN <<>> ELSE SubSeq(a, 1, Max(kept))

\* For a prefix that is not longer than the string: substr() throws otherwise.
GetRest(str, prefix) == SubSeq(str, Len(prefix) + 1, Len(str))

\* The places of the pattern from i on.
Found(str, pattern, i) ==
    {j \in i..Len(str) : IsPrefix(pattern, SubSeq(str, j, Len(str)))}

\* Mutated form: one character of the pattern is skipped.
StringSplitByOne(str, pattern) ==
    LET items[i \in 1..Len(str) + 1] ==
            LET found == Found(str, pattern, i)
            IN  IF i > Len(str) THEN <<>>
                ELSE IF found = {} THEN <<SubSeq(str, i, Len(str))>>
                ELSE <<SubSeq(str, i, Min(found) - 1)>> \o items[Min(found) + 1]
    IN  items[1]

\* What is left behind the last pattern is an item unless it is empty.
StringSplit(str, pattern) ==
    LET items[i \in 1..Len(str) + 1] ==
            LET found == Found(str, pattern, i)
            IN  IF i > Len(str) THEN <<>>
                ELSE IF found = {} THEN <<SubSeq(str, i, Len(str))>>
                ELSE <<SubSeq(str, i, Min(found) - 1)>>
                         \o items[Min(found) + Len(pattern)]
    IN  items[1]
=============================================================================
