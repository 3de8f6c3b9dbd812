----------------------------- MODULE RpmVerCmp -----------------------------
(***************************************************************************)
(* The comparison of two version strings (src/src/ext/rpmvercmp.c) and the *)
(* order it is to compute, stated without its loop.  A version is the      *)
(* sequence of its characters, a character its ASCII code.                 *)
(***************************************************************************)
EXTENDS Integers, SequencesExt, FiniteSetsExt

Digits  == 48..57
Letters == 65..90 \union 97..122

Alnum(c) == c \in Digits \union Letters

\* The first position from i on whose character is not in class; what the
\* loops over *one, *two, *str1 and *str2 stop at.  Behind the last character
\* there is the null byte.
Past(v, i, class) ==
    Min({k \in i..Len(v) + 1 : k > Len(v) \/ v[k] \notin class})

FirstAlnum(v, i) ==
    Min({k \in i..Len(v) + 1 : k > Len(v) \/ Alnum(v[k])})

\* strcmp(): -1, 0 or 1.
StrCmp(s, t) ==
    IF s = t THEN 0
    ELSE LET k == Min({i \in 1..Len(s) + 1 :
                          i > Len(s) \/ i > Len(t) \/ s[i] # t[i]})
         IN IF k > Len(s) \/ (k <= Len(t) /\ s[k] < t[k]) THEN -1 ELSE 1

\* Mutated form: digit strings compared like words.
NumCmpAsWords(s, t) == StrCmp(s, t)

\* Two digit strings: without leading zeros, the longer one is greater.
NumCmp(s, t) ==
    LET one == SubSeq(s, Past(s, 1, {48}), Len(s))
        two == SubSeq(t, Past(t, 1, {48}), Len(t))
    IN CASE Len(one) > Len(two) -> 1
         [] Len(one) < Len(two) -> -1
         [] OTHER -> StrCmp(one, two)

\* Whichever version has characters left is newer.
LeftOver(a, one, b, two) ==
    CASE one > Len(a) /\ two > Len(b) -> 0
      [] one > Len(a) /\ two <= Len(b) -> -1
      [] OTHER -> 1

\* 1, 0, -1: a is newer than, as new as, older than b.  The loop is at the
\* characters one and two of a and b.
RpmVerCmp(a, b) ==
    LET from[at \in (1..Len(a) + 1) \X (1..Len(b) + 1)] ==
          LET i   == at[1]
              j   == at[2]
              one == FirstAlnum(a, i)
              two == FirstAlnum(b, j)
          IN IF i > Len(a) \/ j > Len(b) THEN LeftOver(a, i, b, j)
             ELSE IF one > Len(a) \/ two > Len(b) THEN LeftOver(a, one, b, two)
             ELSE LET isnum == a[one] \in Digits
                      class == IF isnum THEN Digits ELSE Letters
                      str1  == Past(a, one, class)
                      str2  == Past(b, two, class)
                      left  == SubSeq(a, one, str1 - 1)
                      right == SubSeq(b, two, str2 - 1)
                      rc    == IF isnum THEN NumCmp(left, right)
                                        ELSE StrCmp(left, right)
                  IN IF str2 = two THEN IF isnum THEN 1 ELSE -1
                     ELSE IF rc # 0 THEN rc ELSE from[<<str1, str2>>]
    IN IF a = b THEN 0 ELSE from[<<1, 1>>]

-----------------------------------------------------------------------------
(***************************************************************************)
(* The order.  A version is a list of numbers and words, whatever stands   *)
(* between them.  Versions are ordered like words in a dictionary: a       *)
(* number is newer than a word, numbers go by their value and words by     *)
(* their letters; where one list ends, the longer one is newer, and a      *)
(* separator at the end counts for less than a number or a word.           *)
(***************************************************************************)
ClassOf(c) ==
    IF c \in Digits THEN "number" ELSE IF Alnum(c) THEN "word" ELSE "separator"

PartStarts(v) ==
    {i \in DOMAIN v : /\ Alnum(v[i])
                      /\ i = 1 \/ ClassOf(v[i - 1]) # ClassOf(v[i])}

NumberOf(s) ==
    FoldLeft(LAMBDA n, c : 10 * n + c - 48, 0, s)

PartAt(v, i) ==
    LET s == SubSeq(v, i, Past(v, i, {c \in Digits \union Letters : ClassOf(c) = ClassOf(v[i])}) - 1)
    IN IF v[i] \in Digits THEN <<2, NumberOf(s)>> ELSE <<1, s>>

\* The n-th place a part starts at.
PartStart(v, n) ==
    CHOOSE i \in PartStarts(v) : Cardinality({j \in PartStarts(v) : j <= i}) = n

\* <<2, number>>, <<1, word>>, and <<0>> for a separator at the end.
Parts(v) ==
    LET parts == [n \in 1..Cardinality(PartStarts(v)) |-> PartAt(v, PartStart(v, n))]
    IN IF v # <<>> /\ ~Alnum(v[Len(v)]) THEN Append(parts, <<0>>) ELSE parts

\* Is the word s in front of t in the dictionary?
Earlier(s, t) ==
    \E k \in 1..Len(t) : /\ \A i \in 1..k - 1 : i <= Len(s) /\ s[i] = t[i]
                         /\ k > Len(s) \/ s[k] < t[k]

Below(p, q) ==
    \/ p[1] < q[1]
    \/ p[1] = 2 /\ q[1] = 2 /\ p[2] < q[2]
    \/ p[1] = 1 /\ q[1] = 1 /\ Earlier(p[2], q[2])

Older(a, b) ==
    LET p == Parts(a)
        q == Parts(b)
    IN \E k \in DOMAIN q : /\ \A i \in 1..k - 1 : i <= Len(p) /\ p[i] = q[i]
                           /\ k > Len(p) \/ Below(p[k], q[k])

VersionOrder(a, b) == IF Older(a, b) THEN -1 ELSE IF Older(b, a) THEN 1 ELSE 0
=============================================================================
