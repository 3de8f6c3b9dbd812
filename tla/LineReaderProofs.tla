-------------------------- MODULE LineReaderProofs --------------------------
(***************************************************************************)
(* Proofs about LineReader for every set of labels and characters, every   *)
(* line and any number of keys: what Tab completes is found, Tab keeps     *)
(* every entry possible that was, and the helpers of StringUtil lose       *)
(* nothing of any line.                                                    *)
(***************************************************************************)
EXTENDS LineReader, WellFoundedInduction, TLAPS

-----------------------------------------------------------------------------
(* The inductive invariants.                                               *)

String == Seq(Chars)

TypeInv ==
    /\ labels \in Seq(Names)
    /\ line \in String
    /\ history \in Seq(String)
    /\ offered \in DOMAIN labels \union {None}
    /\ taken \in DOMAIN labels \union {None}
    /\ choice \in DOMAIN labels \union {None}
    /\ pc \in {"start", "prompt", "done"}

\* As long as nothing is typed behind it, what Tab has completed is the line,
\* but for blanks at its ends.  It is read once, and that is the last line.
OfferInv ==
    /\ offered # None => Stripped = labels[offered]
    /\ taken # None => pc = "done" /\ TabFindsEntry

-----------------------------------------------------------------------------
(* Sets of places.                                                         *)

\* Every non-empty set of natural numbers has a least member, and it is Min.
LEMMA LeastMember ==
    ASSUME NEW S \in SUBSET Nat, S # {}
    PROVE  Min(S) \in S /\ \A m \in S : Min(S) <= m
<1> DEFINE R == {p \in Nat \X Nat : p[1] < p[2]}
<1>1. IsWellFoundedOn(OpToRel(<,Nat), Nat)
  BY NatLessThanWellFounded
<1>2. IsWellFoundedOn(R, Nat)
  BY <1>1 DEF OpToRel
<1>3. PICK n \in S : \A m \in S : ~(<<m, n>> \in R)
  <2> HIDE DEF R
  <2> QED
    BY <1>2, WFMin
<1>4. ASSUME NEW m \in S
      PROVE  n <= m
  <2>1. <<m, n>> \in Nat \X Nat
    OBVIOUS
  <2>2. ~(m < n)
    BY <2>1, <1>3
  <2> QED
    BY <2>2
<1> QED
  BY <1>4 DEF Min

\* Every non-empty set of natural numbers with a bound has a greatest member,
\* and it is Max.
LEMMA GreatestMember ==
    ASSUME NEW S \in SUBSET Nat, S # {}, NEW b \in Nat, \A j \in S : j <= b
    PROVE  Max(S) \in S /\ \A m \in S : Max(S) >= m
<1> DEFINE T == {b - j : j \in S}
<1>1. T \in SUBSET Nat /\ T # {}
  <2>1. \A j \in S : b - j \in Nat
    OBVIOUS
  <2>2. PICK j \in S : TRUE
    OBVIOUS
  <2> QED
    BY <2>1, <2>2
<1>2. Min(T) \in T /\ \A t \in T : Min(T) <= t
  <2> HIDE DEF T
  <2> QED
    BY <1>1, LeastMember
<1>3. PICK n \in S : Min(T) = b - n
  BY <1>2
<1>4. \A j \in S : b - j \in T
  OBVIOUS
<1>5. ASSUME NEW j \in S
      PROVE  n >= j
  <2>1. b - n <= b - j
    BY <1>2, <1>3, <1>4
  <2>2. n \in Nat /\ j \in Nat
    OBVIOUS
  <2> QED
    BY <2>1, <2>2
<1> QED
  BY <1>5 DEF Max

-----------------------------------------------------------------------------
(* The helpers for strings.                                                *)

\* What is left of a string without the characters at its ends: a piece of it
\* that neither begins nor ends with one of them, with nothing else around it.
LEMMA StripIs ==
    ASSUME NEW C, NEW s \in Seq(C), NEW chars
    PROVE  \/ /\ \A i \in DOMAIN s : s[i] \in chars
              /\ Strip(s, chars) = <<>>
           \/ \E b, e \in DOMAIN s :
                  /\ b <= e
                  /\ s[b] \notin chars /\ s[e] \notin chars
                  /\ \A i \in DOMAIN s : i < b \/ i > e => s[i] \in chars
                  /\ Strip(s, chars) = SubSeq(s, b, e)
<1> DEFINE kept == {i \in DOMAIN s : s[i] \notin chars}
<1>1. CASE kept = {}
  BY <1>1 DEF Strip
<1>2. CASE kept # {}
  <2>1. kept \in SUBSET Nat /\ Len(s) \in Nat /\ \A j \in kept : j <= Len(s)
    OBVIOUS
  <2>2. /\ Min(kept) \in kept /\ \A j \in kept : Min(kept) <= j
        /\ Max(kept) \in kept /\ \A j \in kept : Max(kept) >= j
    <3> HIDE DEF kept
    <3> QED
      BY <1>2, <2>1, LeastMember, GreatestMember
  <2>3. Strip(s, chars) = SubSeq(s, Min(kept), Max(kept))
    BY <1>2 DEF Strip
  <2>4. Min(kept) \in DOMAIN s /\ Max(kept) \in DOMAIN s /\ Min(kept) <= Max(kept)
    BY <2>1, <2>2
  <2>5. \A i \in DOMAIN s : i < Min(kept) \/ i > Max(kept) => s[i] \in chars
    <3>1. \A i \in DOMAIN s : s[i] \notin chars => i \in kept
      OBVIOUS
    <3> HIDE DEF kept
    <3> QED
      BY <2>1, <2>2, <3>1, <2>4
  <2> QED
    BY <2>2, <2>3, <2>4, <2>5
<1> QED
  BY <1>1, <1>2

\* Nothing is stripped from what begins and ends with something else.
LEMMA StripOnce ==
    ASSUME NEW C, NEW s \in Seq(C), NEW chars, NEW b \in DOMAIN s, NEW e \in DOMAIN s,
           b <= e, s[b] \notin chars, s[e] \notin chars,
           \A i \in DOMAIN s : i < b \/ i > e => s[i] \in chars
    PROVE  Strip(s, chars) = SubSeq(s, b, e)
<1>1. PICK b1, e1 \in DOMAIN s :
          /\ b1 <= e1
          /\ s[b1] \notin chars /\ s[e1] \notin chars
          /\ \A i \in DOMAIN s : i < b1 \/ i > e1 => s[i] \in chars
          /\ Strip(s, chars) = SubSeq(s, b1, e1)
  BY StripIs
<1>2. b \in Int /\ e \in Int /\ b1 \in Int /\ e1 \in Int
  OBVIOUS
<1>3. ~(b < b1) /\ ~(b1 < b) /\ ~(e > e1) /\ ~(e1 > e)
  BY <1>1
<1>4. b = b1 /\ e = e1
  BY <1>2, <1>3
<1> QED
  BY <1>1, <1>4

\* A label has no blank at its ends.
LEMMA NamesHaveEnds ==
    ASSUME NEW name \in Names
    PROVE  /\ name \in String /\ Len(name) \in Nat \ {0}
           /\ name[1] # Blank /\ name[Len(name)] # Blank
<1> DEFINE blanks == {Blank}
<1>1. name \in Seq(Chars) /\ name # <<>> /\ name = Strip(name, blanks)
  BY LineReaderAssumption
<1> HIDE DEF blanks
<1>2. name \in Seq(Chars)
  BY <1>1
<1>3. PICK b, e \in DOMAIN name :
          /\ b <= e
          /\ name[b] \notin blanks /\ name[e] \notin blanks
          /\ name = SubSeq(name, b, e)
  BY <1>1, <1>2, StripIs
<1>4. DOMAIN name = 1..Len(name) /\ Len(name) \in Nat
  BY <1>2
<1>5. b \in 1..Len(name) /\ e \in 1..Len(name) /\ b <= e
  BY <1>3, <1>4
<1>6. Len(SubSeq(name, b, e)) = e - b + 1
  BY <1>2, <1>4, <1>5
<1>7. Len(name) = e - b + 1
  BY <1>3, <1>6
<1>8. b = 1 /\ e = Len(name) /\ Len(name) # 0
  BY <1>4, <1>5, <1>7
<1> QED
  BY <1>2, <1>3, <1>4, <1>8 DEF blanks, String

\* A string of blanks, a name and a blank behind it: stripped, the name.
LEMMA StripAround ==
    ASSUME NEW s \in String, NEW name \in Names, \A i \in DOMAIN s : s[i] = Blank
    PROVE  /\ Append(s \o name, Blank) \in String
           /\ Strip(Append(s \o name, Blank), {Blank}) = name
<1> DEFINE blanks == {Blank}
           l == Append(s \o name, Blank)
           b == Len(s) + 1
           e == Len(s) + Len(name)
<1>1. /\ name \in String /\ Len(name) \in Nat \ {0}
      /\ name[1] # Blank /\ name[Len(name)] # Blank
  BY NamesHaveEnds
<1>2. s \in Seq(Chars) /\ name \in Seq(Chars) /\ Blank \in Chars
  BY <1>1, LineReaderAssumption DEF String
<1>3. l \in Seq(Chars) /\ Len(l) = Len(s) + Len(name) + 1
  BY <1>2
<1>4. Len(s) \in Nat /\ DOMAIN l = 1..Len(s) + Len(name) + 1
  BY <1>1, <1>2, <1>3
<1>5. \A i \in 1..Len(name) : l[Len(s) + i] = name[i]
  BY <1>2
<1>6. \A i \in 1..Len(s) : l[i] = Blank
  BY <1>2
<1>7. l[Len(s) + Len(name) + 1] = Blank
  BY <1>2
<1> HIDE DEF l
<1>8. b \in DOMAIN l /\ e \in DOMAIN l /\ b <= e
  BY <1>1, <1>4
<1>9. l[b] # Blank /\ l[e] # Blank
  BY <1>1, <1>5
<1>10. \A i \in DOMAIN l : i < b \/ i > e => l[i] = Blank
  <2> SUFFICES ASSUME NEW i \in DOMAIN l, i < b \/ i > e
               PROVE  l[i] = Blank
    OBVIOUS
  <2>1. i \in 1..Len(s) \/ i = Len(s) + Len(name) + 1
    BY <1>1, <1>4
  <2> QED
    BY <2>1, <1>6, <1>7
<1>11. Strip(l, blanks) = SubSeq(l, b, e)
  <2>1. /\ l[b] \notin blanks /\ l[e] \notin blanks
        /\ \A i \in DOMAIN l : i < b \/ i > e => l[i] \in blanks
    BY <1>9, <1>10
  <2> HIDE DEF blanks, b, e
  <2> QED
    BY <1>3, <1>8, <2>1, StripOnce
<1>12. SubSeq(l, b, e) = name
  <2>1. SubSeq(l, b, e) \in Seq(Chars) /\ Len(SubSeq(l, b, e)) = Len(name)
    BY <1>1, <1>3, <1>4, <1>8
  <2>2. \A i \in 1..Len(name) : SubSeq(l, b, e)[i] = l[Len(s) + i]
    BY <1>1, <1>3, <1>4, <1>8
  <2>3. \A i \in 1..Len(name) : SubSeq(l, b, e)[i] = name[i]
    BY <2>2, <1>5
  <2> DEFINE r == SubSeq(l, b, e)
  <2> HIDE DEF r
  <2>4. r \in Seq(Chars) /\ Len(r) = Len(name) /\ \A i \in 1..Len(name) : r[i] = name[i]
    BY <2>1, <2>3 DEF r
  <2>5. r = name
    BY ONLY <2>4, <1>2
  <2> QED
    BY <2>5 DEF r
<1> QED
  BY <1>3, <1>11, <1>12 DEF l, String

\* A string that strips to nothing is one of blanks.
LEMMA StripsToNothing ==
    ASSUME NEW s \in String, Strip(s, {Blank}) = <<>>
    PROVE  \A i \in DOMAIN s : s[i] = Blank
<1> DEFINE blanks == {Blank}
<1>1. s \in Seq(Chars) /\ Strip(s, blanks) = <<>>
  BY DEF String
<1> SUFFICES \A i \in DOMAIN s : s[i] \in blanks
  OBVIOUS
<1> HIDE DEF blanks
<1>2. \A b, e \in DOMAIN s : b <= e => SubSeq(s, b, e) # <<>>
  <2> SUFFICES ASSUME NEW b \in DOMAIN s, NEW e \in DOMAIN s, b <= e
               PROVE  SubSeq(s, b, e) # <<>>
    OBVIOUS
  <2>1. Len(SubSeq(s, b, e)) = e - b + 1 /\ e - b + 1 # 0
    BY <1>1
  <2> QED
    BY <2>1
<1> QED
  BY <1>1, <1>2, StripIs

-----------------------------------------------------------------------------
(* The word under the cursor and its completions.                          *)

\* The line is what is in front of the word and the word.
LEMMA TextIs ==
    ASSUME line \in String
    PROVE  Text \in String /\ Before \in String
<1> DEFINE S == {i \in DOMAIN line : line[i] = Blank} \union {0}
<1>1. line \in Seq(Chars) /\ Len(line) \in Nat /\ DOMAIN line = 1..Len(line)
  BY DEF String
<1>2. S \in SUBSET Nat /\ S # {} /\ \A j \in S : j <= Len(line)
  BY <1>1
<1>3. Max(S) \in 0..Len(line)
  <2>1. Max(S) \in S
    <3> HIDE DEF S
    <3> QED
      BY <1>1, <1>2, GreatestMember
  <2> QED
    BY <1>1, <2>1
<1>4. Text = SubSeq(line, Max(S) + 1, Len(line))
  BY DEF Text
<1> HIDE DEF S
<1>5. Text \in Seq(Chars) /\ Len(Text) \in 0..Len(line)
  BY <1>1, <1>3, <1>4
<1>6. Before \in Seq(Chars)
  BY <1>1, <1>5 DEF Before
<1> QED
  BY <1>5, <1>6 DEF String

\* The completions are labels, and the first of them is one.
LEMMA CompleteIs ==
    ASSUME labels \in Seq(Names), NEW text, Complete(text) # {}
    PROVE  /\ Complete(text) \subseteq DOMAIN labels
           /\ Min(Complete(text)) \in Complete(text)
           /\ labels[Min(Complete(text))] \in Names
<1>1. Complete(text) \subseteq DOMAIN labels
  BY DEF Complete
<1>2. Complete(text) \in SUBSET Nat
  BY <1>1
<1>3. Min(Complete(text)) \in Complete(text)
  BY <1>2, LeastMember
<1> QED
  BY <1>1, <1>3

\* What replaces the text is a beginning of the first completion, and as far as
\* both go no other one differs from it.
LEMMA ReplacementIs ==
    ASSUME labels \in Seq(Names), NEW text, Complete(text) # {}
    PROVE  LET first == labels[Min(Complete(text))]
           IN  \E n \in 0..Len(first) :
                   /\ Replacement(Complete(text)) = SubSeq(first, 1, n)
                   /\ \A c \in Complete(text) : \A i \in 1..n :
                          i \in DOMAIN labels[c] => labels[c][i] = first[i]
                   /\ (\A c \in Complete(text) : labels[c] = first) => n = Len(first)
<1> DEFINE first == labels[Min(Complete(text))]
           mismatches == {i \in DOMAIN first : \E c \in Complete(text) :
                             i \in DOMAIN labels[c] /\ labels[c][i] # first[i]}
<1>1. first \in Seq(Chars) /\ Len(first) \in Nat /\ DOMAIN first = 1..Len(first)
  <2>1. first \in String
    BY CompleteIs, NamesHaveEnds
  <2> QED
    BY <2>1 DEF String
<1>2. Replacement(Complete(text)) = IF mismatches = {} THEN first
                                    ELSE SubSeq(first, 1, Min(mismatches) - 1)
  BY DEF Replacement
<1>3. \A i \in DOMAIN first : i \notin mismatches =>
          \A c \in Complete(text) : i \in DOMAIN labels[c] => labels[c][i] = first[i]
  OBVIOUS
<1>4. mismatches \subseteq DOMAIN first
  OBVIOUS
<1>5. (\A c \in Complete(text) : labels[c] = first) => mismatches = {}
  OBVIOUS
<1> HIDE DEF mismatches, first
<1>6. CASE mismatches = {}
  <2>1. Replacement(Complete(text)) = SubSeq(first, 1, Len(first))
    BY <1>1, <1>2, <1>6
  <2> QED
    BY <1>1, <1>3, <1>6, <2>1 DEF first
<1>7. CASE mismatches # {}
  <2>1. Min(mismatches) \in mismatches /\ \A j \in mismatches : Min(mismatches) <= j
    <3>1. mismatches \in SUBSET Nat
      BY <1>1, <1>4
    <3> QED
      BY <1>7, <3>1, LeastMember
  <2>2. Min(mismatches) - 1 \in 0..Len(first)
    BY <1>1, <1>4, <2>1
  <2>3. \A i \in 1..Min(mismatches) - 1 : i \in DOMAIN first /\ i \notin mismatches
    BY <1>1, <1>4, <2>1, <2>2
  <2> QED
    BY <1>2, <1>3, <1>5, <1>7, <2>2, <2>3 DEF first
<1> QED
  BY <1>6, <1>7

\* A name that is a label in whatever case is found.
LEMMA GetEntryIs ==
    ASSUME labels \in Seq(Names), NEW name
    PROVE  /\ GetEntry(name) \in DOMAIN labels \union {None}
           /\ \A i \in DOMAIN labels : SameName(labels[i], name) =>
                  /\ GetEntry(name) # None
                  /\ SameName(labels[GetEntry(name)], name)
<1> DEFINE found == {i \in 1..Len(labels) : SameName(labels[i], name)}
<1>1. GetEntry(name) = IF found # {} THEN Min(found) ELSE 0
  BY DEF GetEntry, SelectInSeq
<1>2. found \in SUBSET Nat /\ DOMAIN labels = 1..Len(labels) /\ Len(labels) \in Nat
  OBVIOUS
<1>3. CASE found = {}
  BY <1>1, <1>2, <1>3 DEF None
<1>4. CASE found # {}
  <2>1. Min(found) \in found
    <3> HIDE DEF found
    <3> QED
      BY <1>2, <1>4, LeastMember
  <2>2. GetEntry(name) = Min(found)
    BY <1>1, <1>4
  <2>3. GetEntry(name) \in DOMAIN labels /\ SameName(labels[GetEntry(name)], name)
    BY <1>2, <2>1, <2>2
  <2>4. GetEntry(name) # None
    BY <1>2, <2>3 DEF None
  <2> QED
    BY <2>3, <2>4
<1> QED
  BY <1>3, <1>4

-----------------------------------------------------------------------------
(* Type correctness.                                                       *)

\* What Tab makes of the line is a string, and a label is offered with it only
\* if it is all that is left of the line without blanks.
LEMMA TabSteps ==
    ASSUME TypeInv, TabShared \/ TabSingle
    PROVE  /\ line' \in String
           /\ offered' \in DOMAIN labels \union {None}
           /\ offered' # None => Stripped' = labels[offered']
           /\ UNCHANGED <<labels, dialogue>>
<1> DEFINE first == labels[Min(Complete(Text))]
<1>1. Text \in String /\ Before \in String
  BY TextIs DEF TypeInv
<1>2. Complete(Text) # {} /\ UNCHANGED <<labels, dialogue>>
  BY DEF TabShared, TabSingle
<1>3. first \in Names /\ first \in String /\ Min(Complete(Text)) \in DOMAIN labels
  <2>1. first \in Names /\ Min(Complete(Text)) \in DOMAIN labels
    BY <1>2, CompleteIs DEF TypeInv
  <2> QED
    BY <2>1, NamesHaveEnds
<1>4. PICK n \in 0..Len(first) :
          /\ Replacement(Complete(Text)) = SubSeq(first, 1, n)
          /\ (\A c \in Complete(Text) : labels[c] = first) => n = Len(first)
  BY <1>2, ReplacementIs DEF TypeInv
<1> HIDE DEF first
<1>5. Replacement(Complete(Text)) \in String
  BY <1>3, <1>4 DEF String
<1>6. CASE TabShared
  <2>1. line' = line \/ line' = Before \o Replacement(Complete(Text))
    BY <1>6 DEF TabShared
  <2>2. line' \in String
    <3>1. line \in String /\ Before \o Replacement(Complete(Text)) \in String
      BY <1>1, <1>5 DEF TypeInv, String
    <3> QED
      BY ONLY <2>1, <3>1
  <2>3. offered' = None
    BY <1>6 DEF TabShared
  <2> QED
    BY <1>2, <2>2, <2>3
<1>7. CASE TabSingle
  <2>1. line' = Append(Before \o Replacement(Complete(Text)), Blank)
    BY <1>7 DEF TabSingle
  <2>2. \A c \in Complete(Text) : labels[c] = first
    <3>1. Min(Complete(Text)) \in Complete(Text)
      BY <1>2, CompleteIs DEF TypeInv
    <3> QED
      BY <1>7, <3>1 DEF TabSingle, first
  <2>3. Replacement(Complete(Text)) = first
    BY <1>3, <1>4, <2>2 DEF String
  <2>4. line' \in String
    BY <1>1, <1>3, <2>1, <2>3, LineReaderAssumption DEF String
  <2>5. offered' = IF Strip(Before, {Blank}) = <<>> THEN Min(Complete(Text)) ELSE None
    BY <1>7 DEF TabSingle
  <2>6. ASSUME offered' # None
        PROVE  Stripped' = labels[offered']
    <3>1. Strip(Before, {Blank}) = <<>> /\ offered' = Min(Complete(Text))
      BY <2>5, <2>6
    <3>2. Strip(Append(Before \o first, Blank), {Blank}) = first
      BY <1>1, <1>3, <3>1, StripsToNothing, StripAround
    <3> QED
      BY <2>1, <2>3, <3>1, <3>2 DEF Stripped, first
  <2> QED
    BY <1>2, <1>3, <2>4, <2>5, <2>6
<1> QED
  BY <1>6, <1>7

\* Every step keeps every variable in its type.
LEMMA NextType ==
    ASSUME TypeInv, [Next]_vars
    PROVE  TypeInv'
<1> USE DEF TypeInv, dialogue
<1>1. CASE ChooseEntry
  <2>1. choice' \in DOMAIN labels \union {None}
    BY <1>1, GetEntryIs DEF ChooseEntry
  <2> QED
    BY <1>1, <2>1 DEF ChooseEntry
<1>2. ASSUME NEW char \in Chars, Type(char)
      PROVE  TypeInv'
  BY <1>2 DEF Type, String
<1>3. CASE TabShared \/ TabSingle
  BY <1>3, TabSteps
<1>4. CASE Recall
  BY <1>4 DEF Recall, Last, String
<1>5. ASSUME Read
      PROVE  /\ labels' = labels /\ line' \in String
             /\ history' \in Seq(String)
             /\ offered' = None /\ taken' = offered
  BY <1>5 DEF Read, String
<1>6. CASE Quit
  BY <1>5, <1>6 DEF Quit
<1>7. CASE ReadName
  <2>1. choice' \in DOMAIN labels \union {None}
    BY <1>7, GetEntryIs DEF ReadName
  <2> QED
    BY <1>5, <1>7, <2>1 DEF ReadName
<1>8. CASE EndOfInput
  BY <1>8 DEF EndOfInput
<1>9. CASE Terminated \/ UNCHANGED vars
  BY <1>9 DEF Terminated, vars
<1> QED
  BY <1>1, <1>2, <1>3, <1>4, <1>6, <1>7, <1>8, <1>9 DEF Next

\* The dialogue starts with every variable in its type.
LEMMA InitType == Init => TypeInv
<1> SUFFICES ASSUME Init
             PROVE  TypeInv
  OBVIOUS
<1>1. labels \in Seq(Names)
  BY DEF Init
<1> QED
  BY <1>1 DEF Init, TypeInv, String

-----------------------------------------------------------------------------
(* What Tab completes is found.                                            *)

\* Every step keeps what is offered on the line, and finds it when it is read.
LEMMA NextOffer ==
    ASSUME TypeInv, OfferInv, [Next]_vars
    PROVE  OfferInv'
<1> USE DEF OfferInv, dialogue
<1>1. CASE ChooseEntry
  <2>1. taken = None
    BY <1>1 DEF ChooseEntry
  <2> QED
    BY <1>1, <2>1 DEF ChooseEntry, Stripped
<1>2. ASSUME NEW char \in Chars, Type(char)
      PROVE  OfferInv'
  BY <1>2 DEF Type, TabFindsEntry
<1>3. CASE TabShared \/ TabSingle
  BY <1>3, TabSteps DEF TabFindsEntry
<1>4. CASE Recall
  BY <1>4 DEF Recall, TabFindsEntry
<1>5. ASSUME Read
      PROVE  /\ pc # "done" /\ labels' = labels
             /\ offered' = None /\ taken' = offered
             /\ offered # None => Stripped = labels[offered] /\ Stripped # <<>>
  <2>1. \A i \in DOMAIN labels : labels[i] # <<>>
    BY LineReaderAssumption DEF TypeInv
  <2> QED
    BY <1>5, <2>1 DEF Read, Typing, TypeInv
<1>6. CASE Quit
  <2>1. offered # None => labels[offered] \in Quits
    BY <1>5, <1>6 DEF Quit
  <2> QED
    BY <1>5, <1>6, <2>1 DEF Quit, TabFindsEntry
<1>7. CASE ReadName
  <2>1. ASSUME offered # None
        PROVE  choice' # None /\ SameName(labels[choice'], labels[offered])
    <3>1. offered \in DOMAIN labels /\ SameName(labels[offered], labels[offered])
      BY <2>1 DEF TypeInv, SameName
    <3>2. choice' = GetEntry(labels[offered])
      BY <1>5, <1>7, <2>1 DEF ReadName
    <3> QED
      BY <3>1, <3>2, GetEntryIs DEF TypeInv
  <2> QED
    BY <1>5, <1>7, <2>1 DEF ReadName, TabFindsEntry
<1>8. CASE EndOfInput
  BY <1>8 DEF EndOfInput, Stripped, TabFindsEntry
<1>9. CASE Terminated \/ UNCHANGED vars
  BY <1>9 DEF Terminated, vars, Stripped, TabFindsEntry
<1> QED
  BY <1>1, <1>2, <1>3, <1>4, <1>6, <1>7, <1>8, <1>9 DEF Next

\* A name that Tab has completed is an entry for Enter, with the blank behind
\* it and in whatever case it was typed.
THEOREM CompletedIsFound == Spec => []TabFindsEntry
<1>1. Init => TypeInv /\ OfferInv
  BY InitType DEF Init, OfferInv
<1>2. TypeInv /\ OfferInv /\ [Next]_vars => (TypeInv /\ OfferInv)'
  BY NextType, NextOffer
<1>3. OfferInv => TabFindsEntry
  BY DEF OfferInv, TabFindsEntry
<1> QED
  BY <1>1, <1>2, <1>3, PTL DEF Spec

-----------------------------------------------------------------------------
(* Tab keeps what was possible.                                            *)

\* A line that is one word has no blank: nothing is stripped from it, and
\* nothing is in front of it.
LEMMA OneWord ==
    ASSUME line \in String, Text = line
    PROVE  Stripped = line /\ Before = <<>>
<1> DEFINE S == {i \in DOMAIN line : line[i] = Blank} \union {0}
           blanks == {Blank}
<1>1. line \in Seq(Chars) /\ Len(line) \in Nat /\ DOMAIN line = 1..Len(line)
  BY DEF String
<1>2. Max(S) \in S /\ \A j \in S : Max(S) >= j
  <2>1. S \in SUBSET Nat /\ S # {} /\ \A j \in S : j <= Len(line)
    BY <1>1
  <2> HIDE DEF S
  <2> QED
    BY <1>1, <2>1, GreatestMember
<1>3. Max(S) \in 0..Len(line) /\ 0 \in S
  BY <1>1, <1>2
<1>4. Text = SubSeq(line, Max(S) + 1, Len(line))
  BY DEF Text
<1>5. Max(S) = 0
  <2> HIDE DEF S
  <2>1. Len(Text) = Len(line) - Max(S)
    BY <1>1, <1>3, <1>4
  <2> QED
    BY <1>1, <1>3, <2>1
<1>6. \A i \in DOMAIN line : line[i] # Blank
  <2> SUFFICES ASSUME NEW i \in DOMAIN line, line[i] = Blank
               PROVE  FALSE
    OBVIOUS
  <2>1. i \in S
    OBVIOUS
  <2> HIDE DEF S
  <2> QED
    BY <1>1, <1>2, <1>5, <2>1
<1>7. Stripped = line
  <2>1. CASE line = <<>>
    <3>1. {i \in DOMAIN line : line[i] \notin {Blank}} = {}
      BY <2>1
    <3> QED
      BY <2>1, <3>1 DEF Stripped, Strip
  <2>2. CASE line # <<>>
    <3>1. 1 \in DOMAIN line /\ Len(line) \in DOMAIN line /\ 1 <= Len(line)
      BY <1>1, <2>2
    <3>2. \A i \in DOMAIN line : line[i] \notin blanks
      BY <1>6
    <3>3. \A i \in DOMAIN line : ~(i < 1) /\ ~(i > Len(line))
      BY <1>1
    <3>4. Stripped = Strip(line, blanks)
      BY DEF Stripped
    <3> HIDE DEF blanks
    <3>5. Strip(line, blanks) = SubSeq(line, 1, Len(line))
      BY <1>1, <3>1, <3>2, <3>3, StripOnce
    <3> QED
      BY <1>1, <3>4, <3>5
  <2> QED
    BY <2>1, <2>2
<1>8. Before = <<>>
  <2>1. Len(line) - Len(Text) = 0
    BY <1>1
  <2> QED
    BY <1>1, <2>1 DEF Before
<1> QED
  BY <1>7, <1>8

\* What is left of a beginning of a label without blanks is a beginning of it.
LEMMA StripOfBeginning ==
    ASSUME NEW name \in Names, NEW n \in 0..Len(name)
    PROVE  \E m \in 0..n : Strip(SubSeq(name, 1, n), {Blank}) = SubSeq(name, 1, m)
<1> DEFINE s == SubSeq(name, 1, n)
           blanks == {Blank}
<1>1. /\ name \in Seq(Chars) /\ Len(name) \in Nat \ {0}
      /\ name[1] \notin blanks
  BY NamesHaveEnds DEF String
<1>2. s \in Seq(Chars) /\ Len(s) = n /\ DOMAIN s = 1..n
  BY <1>1
<1>3. \A i \in 1..n : s[i] = name[i]
  BY <1>1
<1>4. \A b, e \in DOMAIN s : SubSeq(s, b, e) = SubSeq(name, b, e)
  BY <1>1, <1>2
<1> HIDE DEF s, blanks
<1>5. CASE Strip(s, blanks) = <<>>
  <2>1. SubSeq(name, 1, 0) = <<>> /\ 0 \in 0..n
    BY <1>1
  <2> QED
    BY <1>5, <2>1 DEF s, blanks
<1> DEFINE Kept(b, e) == /\ b <= e
                         /\ s[b] \notin blanks /\ s[e] \notin blanks
                         /\ \A i \in DOMAIN s : i < b \/ i > e => s[i] \in blanks
                         /\ Strip(s, blanks) = SubSeq(s, b, e)
<1>6. CASE \E b, e \in DOMAIN s : Kept(b, e)
  <2>1. PICK b, e \in DOMAIN s : Kept(b, e)
    BY <1>6
  <2>2. b \in 1..n /\ e \in 1..n /\ 1 \in DOMAIN s
    BY <1>2, <2>1
  <2>3. s[1] \notin blanks
    BY <1>1, <1>2, <1>3, <2>2
  <2>4. b = 1
    BY <2>1, <2>2, <2>3
  <2>5. Strip(s, blanks) = SubSeq(name, 1, e)
    BY <1>4, <2>1, <2>4
  <2>6. e \in 0..n
    BY <1>1, <2>2
  <2> QED
    BY <2>5, <2>6 DEF s, blanks
<1>7. Strip(s, blanks) = <<>> \/ \E b, e \in DOMAIN s : Kept(b, e)
  BY <1>2, StripIs
<1> QED
  BY <1>5, <1>6, <1>7

\* A label that was possible begins with what replaces the text, as long as no
\* label is the beginning of another one.
LEMMA ReplacementIsShared ==
    ASSUME TypeInv, Complete(Text) # {}, NoneBeginsAnother, NEW i \in Complete(Text)
    PROVE  LET first == labels[Min(Complete(Text))]
           IN  \E n \in 0..Len(first) :
                   /\ Replacement(Complete(Text)) = SubSeq(first, 1, n)
                   /\ n <= Len(labels[i])
                   /\ \A m \in 0..n : SubSeq(labels[i], 1, m) = SubSeq(first, 1, m)
<1> DEFINE first == labels[Min(Complete(Text))]
           label == labels[i]
<1>1. PICK n \in 0..Len(first) :
          /\ Replacement(Complete(Text)) = SubSeq(first, 1, n)
          /\ \A c \in Complete(Text) : \A j \in 1..n :
                 j \in DOMAIN labels[c] => labels[c][j] = first[j]
  BY ReplacementIs DEF TypeInv
<1>2. first \in ToSet(labels) /\ label \in ToSet(labels)
  BY CompleteIs DEF TypeInv, ToSet
<1>3. /\ first \in Seq(Chars) /\ Len(first) \in Nat
      /\ label \in Seq(Chars) /\ Len(label) \in Nat /\ DOMAIN label = 1..Len(label)
  <2>1. first \in Names /\ label \in Names
    BY CompleteIs DEF TypeInv
  <2>2. first \in Seq(Chars) /\ label \in Seq(Chars)
    BY <2>1, LineReaderAssumption
  <2> HIDE DEF first, label
  <2> QED
    BY <2>2
<1>4. \A j \in 1..n : j \in DOMAIN label => label[j] = first[j]
  BY <1>1
<1> HIDE DEF first, label
<1>5. n <= Len(label)
  <2> SUFFICES ASSUME Len(label) < n
               PROVE  FALSE
    BY <1>3
  <2>1. \A j \in 1..Len(label) : label[j] = first[j]
    BY <1>1, <1>3, <1>4
  <2>2. Len(label) <= Len(first)
    BY <1>1, <1>3
  <2>3. SubSeq(label, 1, Len(label)) = SubSeq(first, 1, Len(label))
    BY <1>3, <2>1, <2>2
  <2>4. label = first
    BY <1>2, <2>2, <2>3 DEF NoneBeginsAnother, IsPrefix
  <2> QED
    BY <1>1, <1>3, <2>4
<1>6. ASSUME NEW m \in 0..n
      PROVE  SubSeq(label, 1, m) = SubSeq(first, 1, m)
  <2>1. m \in Nat /\ m <= Len(label) /\ m <= Len(first)
    BY <1>1, <1>3, <1>5
  <2>2. \A j \in 1..m : label[j] = first[j]
    BY <1>1, <1>3, <1>4, <2>1
  <2> QED
    BY <1>3, <2>1, <2>2
<1> QED
  BY <1>1, <1>5, <1>6 DEF first, label

\* Tab keeps every label possible that was.
LEMMA TabKeeps ==
    ASSUME TypeInv, TabShared \/ TabSingle, Text = line, NoneBeginsAnother,
           NEW i \in DOMAIN labels, MayBecome(labels[i])
    PROVE  MayBecome(labels[i])'
<1> DEFINE first == labels[Min(Complete(Text))]
           label == labels[i]
<1>1. line \in String /\ Stripped = line /\ Before = <<>>
  BY OneWord DEF TypeInv
<1>2. i \in Complete(Text)
  BY <1>1 DEF MayBecome, Stripped, Complete
<1>3. labels' = labels
  BY DEF TabShared, TabSingle
<1>4. /\ first \in Names /\ first \in Seq(Chars) /\ Len(first) \in Nat
      /\ label \in Seq(Chars) /\ Len(label) \in Nat
  <2>1. first \in Names /\ label \in Names
    BY <1>2, CompleteIs DEF TypeInv
  <2>2. first \in Seq(Chars) /\ label \in Seq(Chars)
    BY <2>1, LineReaderAssumption
  <2> HIDE DEF first, label
  <2> QED
    BY <2>1, <2>2
<1>5. PICK n \in 0..Len(first) :
          /\ Replacement(Complete(Text)) = SubSeq(first, 1, n)
          /\ n <= Len(label)
          /\ \A m \in 0..n : SubSeq(label, 1, m) = SubSeq(first, 1, m)
  BY <1>2, ReplacementIsShared
<1>6. SUFFICES StartsWith(label, Stripped', FALSE)
  BY <1>3 DEF MayBecome, Stripped
<1>7. ASSUME NEW m \in 0..Len(label), Stripped' = SubSeq(label, 1, m)
      PROVE  StartsWith(label, Stripped', FALSE)
  <2> HIDE DEF label
  <2>1. Len(Stripped') = m /\ Len(label) >= m
    BY <1>4, <1>7
  <2>2. SameName(SubSeq(label, 1, m), Stripped')
    BY <1>7 DEF SameName
  <2> QED
    BY <2>1, <2>2 DEF StartsWith
<1>8. CASE TabShared
  <2>1. CASE line' = line
    BY <1>1, <2>1 DEF MayBecome, Stripped
  <2>2. CASE line' = Before \o Replacement(Complete(Text))
    <3> HIDE DEF first, label
    <3>1. Replacement(Complete(Text)) \in Seq(Chars)
      BY <1>4, <1>5
    <3>2. line' = SubSeq(first, 1, n)
      BY <1>1, <1>5, <2>2, <3>1
    <3>3. PICK m \in 0..n : Strip(SubSeq(first, 1, n), {Blank}) = SubSeq(first, 1, m)
      BY <1>4, <1>5, StripOfBeginning
    <3>4. Stripped' = SubSeq(label, 1, m)
      BY <1>5, <3>2, <3>3 DEF Stripped
    <3>5. m \in 0..Len(label)
      BY <1>4, <1>5, <3>3
    <3> QED
      BY <1>7, <3>4, <3>5
  <2> QED
    BY <1>8, <2>1, <2>2 DEF TabShared
<1>9. CASE TabSingle
  <2>1. label = first
    BY <1>2, <1>9, CompleteIs DEF TabSingle, TypeInv
  <2>2. Replacement(Complete(Text)) = first
    <3>1. \A c \in Complete(Text) : labels[c] = first
      BY <1>2, <1>9, CompleteIs DEF TabSingle, TypeInv
    <3>2. PICK k \in 0..Len(first) :
              /\ Replacement(Complete(Text)) = SubSeq(first, 1, k)
              /\ k = Len(first)
      BY <1>2, <3>1, ReplacementIs DEF TypeInv
    <3> HIDE DEF first
    <3> QED
      BY <1>4, <3>2
  <2>3. line' = Append(Before \o first, Blank)
    BY <1>9, <2>2 DEF TabSingle
  <2> HIDE DEF first, label
  <2>4. <<>> \in String /\ \A j \in DOMAIN <<>> : <<>>[j] = Blank
    BY DEF String
  <2>5. Stripped' = first
    BY <1>1, <1>4, <2>3, <2>4, StripAround DEF Stripped
  <2>6. Stripped' = SubSeq(label, 1, Len(label)) /\ Len(label) \in 0..Len(label)
    BY <1>4, <2>1, <2>5
  <2> QED
    BY <1>7, <2>6
<1> QED
  BY <1>8, <1>9

\* Tab never completes away from an entry that was still possible, as long as
\* no label is the beginning of another one.
THEOREM TabIsKind == Spec => TabKeepsEntries
<1>1. Spec => []TypeInv
  BY InitType, NextType, PTL DEF Spec
<1>2. TypeInv /\ [Next]_vars =>
          [(TabShared \/ TabSingle) /\ Text = line /\ NoneBeginsAnother =>
               \A i \in DOMAIN labels : MayBecome(labels[i]) => MayBecome(labels[i])']_vars
  BY TabKeeps
<1> QED
  BY <1>1, <1>2, PTL DEF Spec, TabKeepsEntries

-----------------------------------------------------------------------------
(* FlattenSeq puts sequences together one by one.                          *)

\* It is what its recursion says.
LEMMA FlattenIs ==
    ASSUME NEW C, NEW u \in Seq(Seq(C)), u # <<>>
    PROVE  \E f : /\ FlattenSeq(u) = f[Len(u)]
                  /\ f[1] = u[1]
                  /\ \A i \in 2..Len(u) : f[i] = f[i - 1] \o u[i]
<1> DEFINE Body(f) == [i \in 1..Len(u) |-> IF i = 1 THEN u[i] ELSE f[i - 1] \o u[i]]
           Upto(f, k) == \A i \in 1..k : f[i] = IF i = 1 THEN u[i] ELSE f[i - 1] \o u[i]
           T == {k \in 1..Len(u) : ~ \E f : Upto(f, k)}
<1>1. Len(u) \in Nat \ {0}
  OBVIOUS
<1>2. T = {}
  <2> SUFFICES ASSUME T # {}
               PROVE  FALSE
    OBVIOUS
  <2>1. Min(T) \in T /\ \A k \in T : Min(T) <= k
    <3>1. T \in SUBSET Nat
      OBVIOUS
    <3> HIDE DEF T
    <3> QED
      BY <3>1, LeastMember
  <2>2. PICK k \in 1..Len(u) : k = Min(T) /\ ~ \E f : Upto(f, k)
    BY <2>1
  <2>3. CASE k = 1
    <3>1. Upto([i \in {1} |-> u[i]], 1)
      OBVIOUS
    <3> QED
      BY <2>2, <2>3, <3>1
  <2>4. CASE k # 1
    <3>0. k \in 1..Len(u)
      BY <2>2
    <3>1. k - 1 \in 1..Len(u) /\ ~(k <= k - 1)
      BY ONLY <1>1, <3>0, <2>4
    <3>2. k - 1 \notin T
      <4> HIDE DEF T
      <4> QED
        BY <2>1, <2>2, <3>1
    <3>5. PICK f : Upto(f, k - 1)
      BY <3>1, <3>2
    <3> DEFINE h == [i \in 1..k |-> IF i = k THEN f[k - 1] \o u[k] ELSE f[i]]
    <3>3. \A i \in 1..k : h[i] = IF i = k THEN f[k - 1] \o u[k] ELSE f[i]
      OBVIOUS
    <3> HIDE DEF h
    <3>4. ASSUME NEW i \in 1..k
          PROVE  h[i] = IF i = 1 THEN u[i] ELSE h[i - 1] \o u[i]
      <4>1. CASE i = k
        <5>1. k - 1 \in 1..k /\ k - 1 # k
          BY <3>1
        <5>2. h[k - 1] = f[k - 1]
          BY <5>1, <3>3
        <5> QED
          BY <2>4, <3>3, <4>1, <5>2
      <4>2. CASE i # k
        <5>1. i \in 1..k - 1 /\ (i # 1 => i - 1 \in 1..k /\ i - 1 # k)
          BY <3>1, <4>2
        <5> QED
          BY <3>3, <3>5, <4>2, <5>1
      <4> QED
        BY <4>1, <4>2
    <3> QED
      BY <2>2, <3>4
  <2> QED
    BY <2>3, <2>4
<1>3. PICK f : Upto(f, Len(u))
  <2>1. Len(u) \in 1..Len(u)
    BY ONLY <1>1
  <2>2. Len(u) \notin T
    <3> HIDE DEF T
    <3> QED
      BY <1>2
  <2> QED
    BY <2>1, <2>2
<1>4. Body([i \in 1..Len(u) |-> f[i]]) = [i \in 1..Len(u) |-> f[i]]
  BY <1>1, <1>3
<1>5. \E g : g = Body(g)
  BY <1>4
<1>6. FlattenSeq(u) = (CHOOSE g : g = Body(g))[Len(u)]
  BY <1>1 DEF FlattenSeq
<1> DEFINE c == CHOOSE g : g = Body(g)
<1>7. c = Body(c)
  BY <1>5
<1> HIDE DEF c
<1>8. c[1] = u[1] /\ \A i \in 2..Len(u) : c[i] = c[i - 1] \o u[i]
  <2>1. \A i \in 1..Len(u) : Body(c)[i] = IF i = 1 THEN u[i] ELSE c[i - 1] \o u[i]
    OBVIOUS
  <2> HIDE DEF Body
  <2>2. \A i \in 1..Len(u) : c[i] = IF i = 1 THEN u[i] ELSE c[i - 1] \o u[i]
    BY <1>7, <2>1
  <2>3. 1 \in 1..Len(u) /\ \A i \in 2..Len(u) : i \in 1..Len(u) /\ i # 1
    BY ONLY <1>1
  <2> QED
    BY ONLY <2>2, <2>3
<1> QED
  BY <1>6, <1>8 DEF c

\* A set of natural numbers none of which is the least one is empty: a proof by
\* induction, stated about the set of the numbers that would be exceptions.
LEMMA NoLeast ==
    ASSUME NEW T \in SUBSET Nat, \A k \in T : \E j \in T : j < k
    PROVE  T = {}
<1> SUFFICES ASSUME T # {}
             PROVE  FALSE
  OBVIOUS
<1>1. Min(T) \in T /\ \A k \in T : Min(T) <= k
  BY LeastMember
<1>2. PICK j \in T : j < Min(T)
  BY <1>1
<1>3. j \in Nat /\ Min(T) \in Nat /\ Min(T) <= j
  BY <1>1
<1> QED
  BY <1>2, <1>3

LEMMA JoinedInAnyOrder ==
    ASSUME NEW C, NEW a \in Seq(C), NEW b \in Seq(C), NEW c \in Seq(C)
    PROVE  (a \o b) \o c = a \o (b \o c)
OBVIOUS

\* One sequence put together with the others.
LEMMA FlattenCons ==
    ASSUME NEW C, NEW x \in Seq(C), NEW t \in Seq(Seq(C))
    PROVE  /\ FlattenSeq(t) \in Seq(C)
           /\ FlattenSeq(<<x>> \o t) = x \o FlattenSeq(t)
<1> DEFINE u == <<x>> \o t
<1>1. /\ u \in Seq(Seq(C)) /\ u # <<>>
      /\ Len(u) = Len(t) + 1 /\ Len(t) \in Nat
      /\ u[1] = x /\ \A i \in 1..Len(t) : u[i + 1] = t[i]
  OBVIOUS
<1> HIDE DEF u
<1>2. PICK f : /\ FlattenSeq(u) = f[Len(u)]
               /\ f[1] = u[1]
               /\ \A i \in 2..Len(u) : f[i] = f[i - 1] \o u[i]
  BY <1>1, FlattenIs
<1>3. \A a, b \in Seq(C) : (x \o a) \o b = x \o (a \o b)
  BY JoinedInAnyOrder
<1>4. CASE t = <<>>
  <2>1. FlattenSeq(t) = <<>>
    BY <1>4 DEF FlattenSeq
  <2>2. Len(u) = 1
    BY <1>1, <1>4
  <2> QED
    BY <1>1, <1>2, <2>1, <2>2 DEF u
<1>5. CASE t # <<>>
  <2>1. PICK g : /\ FlattenSeq(t) = g[Len(t)]
                 /\ g[1] = t[1]
                 /\ \A i \in 2..Len(t) : g[i] = g[i - 1] \o t[i]
    BY <1>5, FlattenIs
  <2>2. Len(t) \in Nat \ {0} /\ \A i \in 1..Len(t) : t[i] \in Seq(C)
    BY <1>5
  <2> DEFINE T == {i \in 1..Len(t) : ~(g[i] \in Seq(C) /\ f[i + 1] = x \o g[i])}
  <2>3. ASSUME NEW i \in T
        PROVE  \E j \in T : j < i
    <3>1. i \in 1..Len(t) /\ ~(g[i] \in Seq(C) /\ f[i + 1] = x \o g[i])
      OBVIOUS
    <3>2. i + 1 \in 2..Len(u) /\ i + 1 - 1 = i
      BY ONLY <1>1, <3>1
    <3>3. f[i + 1] = f[i] \o t[i]
      <4>1. u[i + 1] = t[i]
        BY ONLY <1>1, <3>1
      <4>2. \A j \in 2..Len(u) : j = i + 1 => f[j] = f[i] \o u[j]
        <5>1. \A j \in 2..Len(u) : f[j] = f[j - 1] \o u[j]
          BY <1>2
        <5>2. \A j \in 2..Len(u) : j = i + 1 => j - 1 = i
          BY ONLY <1>1, <3>1
        <5> QED
          BY ONLY <5>1, <5>2
      <4> QED
        BY ONLY <3>2, <4>1, <4>2
    <3>4. CASE i = 1
      <4>1. f[2] = x \o t[1] /\ g[1] = t[1] /\ t[1] \in Seq(C)
        BY <1>1, <1>2, <2>1, <2>2, <3>1, <3>3, <3>4
      <4> QED
        BY <3>1, <3>4, <4>1
    <3>5. CASE i # 1
      <4>1. i \in 2..Len(t) /\ i - 1 \in 1..Len(t) /\ i - 1 + 1 = i /\ i - 1 < i
        BY ONLY <2>2, <3>1, <3>5
      <4>2. g[i] = g[i - 1] \o t[i] /\ t[i] \in Seq(C)
        BY <2>1, <2>2, <3>1, <4>1
      <4>3. ~(g[i - 1] \in Seq(C) /\ f[i] = x \o g[i - 1])
        <5> SUFFICES ASSUME g[i - 1] \in Seq(C), f[i] = x \o g[i - 1]
                     PROVE  FALSE
          OBVIOUS
        <5>1. g[i - 1] \o t[i] \in Seq(C)
          BY ONLY <4>2, g[i - 1] \in Seq(C)
        <5>2. (x \o g[i - 1]) \o t[i] = x \o (g[i - 1] \o t[i])
          BY <1>3, <4>2
        <5> QED
          BY ONLY <3>1, <3>3, <4>2, <5>1, <5>2, f[i] = x \o g[i - 1]
      <4> QED
        BY <4>1, <4>3
    <3> QED
      BY <3>4, <3>5
  <2>4. T = {}
    <3>1. T \in SUBSET Nat
      OBVIOUS
    <3> HIDE DEF T
    <3> QED
      BY <2>3, <3>1, NoLeast
  <2>5. Len(t) \in 1..Len(t) /\ Len(t) \notin T
    <3> HIDE DEF T
    <3> QED
      BY <2>2, <2>4
  <2>6. g[Len(t)] \in Seq(C) /\ f[Len(t) + 1] = x \o g[Len(t)]
    BY <2>5
  <2> QED
    BY <1>1, <1>2, <2>1, <2>6 DEF u
<1> QED
  BY <1>4, <1>5

\* The first place of the pattern from i on, with the pattern there.
LEMMA FoundIs ==
    ASSUME NEW C, NEW s \in Seq(C), NEW p \in Seq(C), p # <<>>,
           NEW i \in 1..Len(s) + 1, Found(s, p, i) # {}
    PROVE  LET m == Min(Found(s, p, i))
           IN  /\ m \in i..Len(s)
               /\ \A j \in Found(s, p, i) : m <= j
               /\ m + Len(p) \in i + 1..Len(s) + 1
               /\ SubSeq(s, m, m + Len(p) - 1) = p
<1>1. Found(s, p, i) \in SUBSET Nat
  BY DEF Found
<1> DEFINE m == Min(Found(s, p, i))
<1>2. m \in Found(s, p, i) /\ \A j \in Found(s, p, i) : m <= j
  BY <1>1, LeastMember
<1>3. m \in i..Len(s) /\ IsPrefix(p, SubSeq(s, m, Len(s)))
  BY <1>2 DEF Found
<1> HIDE DEF m
<1>4. Len(s) \in Nat /\ Len(p) \in Nat \ {0} /\ i \in Nat \ {0}
  OBVIOUS
<1>5. Len(SubSeq(s, m, Len(s))) = Len(s) - m + 1
  BY <1>3
<1>6. m + Len(p) \in i + 1..Len(s) + 1
  BY <1>3, <1>4, <1>5 DEF IsPrefix
<1>7. SubSeq(s, m, m + Len(p) - 1) = p
  <2> DEFINE r == SubSeq(s, m, Len(s))
  <2>1. p = SubSeq(p, 1, Len(p))
    OBVIOUS
  <2>2. SubSeq(r, 1, Len(p)) = p
    BY <1>3, <2>1 DEF IsPrefix
  <2>3. SubSeq(r, 1, Len(p)) = SubSeq(s, m, m + Len(p) - 1)
    BY <1>3, <1>4, <1>6
  <2> QED
    BY <2>2, <2>3
<1> QED
  BY <1>2, <1>3, <1>6, <1>7 DEF m

\* The items from i on, from those behind the next pattern.
SplitFrom(s, p, items, i) ==
    IF i > Len(s) THEN <<>>
    ELSE IF Found(s, p, i) = {} THEN <<SubSeq(s, i, Len(s))>>
    ELSE <<SubSeq(s, i, Min(Found(s, p, i)) - 1)>>
             \o items[Min(Found(s, p, i)) + Len(p)]

\* stringsplit() is what its recursion says: there is a function that satisfies
\* it, for the least part of the string without one could be extended.
LEMMA SplitIs ==
    ASSUME NEW C, NEW s \in Seq(C), NEW p \in Seq(C), p # <<>>
    PROVE  \E items : /\ StringSplit(s, p) = items[1]
                      /\ \A i \in 1..Len(s) + 1 : items[i] = SplitFrom(s, p, items, i)
<1> DEFINE n == Len(s) + 1
           Behind(f, k) == \A i \in n - k..n : f[i] = SplitFrom(s, p, f, i)
           T == {k \in 0..n - 1 : ~ \E f : Behind(f, k)}
           Body(f) == [i \in 1..n |-> SplitFrom(s, p, f, i)]
<1>1. n \in Nat \ {0}
  OBVIOUS
<1>2. ASSUME NEW i \in 1..n, i <= Len(s), Found(s, p, i) # {}
      PROVE  Min(Found(s, p, i)) + Len(p) \in i + 1..n
  BY <1>2, FoundIs
<1>3. ASSUME NEW f, NEW g, NEW i \in 1..n, \A j \in i + 1..n : f[j] = g[j]
      PROVE  SplitFrom(s, p, f, i) = SplitFrom(s, p, g, i)
  <2>1. CASE i <= Len(s) /\ Found(s, p, i) # {}
    BY <1>2, <1>3, <2>1 DEF SplitFrom
  <2>2. CASE ~(i <= Len(s) /\ Found(s, p, i) # {})
    BY <1>1, <2>2 DEF SplitFrom
  <2> QED
    BY <2>1, <2>2
<1> HIDE DEF n
<1>4. ASSUME NEW k \in T
      PROVE  \E j \in T : j < k
  <2>1. k \in 0..n - 1 /\ ~ \E f : Behind(f, k)
    OBVIOUS
  <2>2. n - k \in 1..n
    BY ONLY <1>1, <2>1
  <2>3. ASSUME NEW f, \A i \in n - k + 1..n : f[i] = SplitFrom(s, p, f, i)
        PROVE  FALSE
    <3> DEFINE h == [i \in 1..n |-> IF i = n - k THEN SplitFrom(s, p, f, i) ELSE f[i]]
    <3>1. \A i \in 1..n : h[i] = IF i = n - k THEN SplitFrom(s, p, f, i) ELSE f[i]
      OBVIOUS
    <3> HIDE DEF h
    <3>2. ASSUME NEW i \in n - k..n
          PROVE  h[i] = SplitFrom(s, p, h, i)
      <4>1. i \in 1..n /\ \A j \in i + 1..n : j \in 1..n /\ j # n - k
        BY ONLY <1>1, <2>1, i \in n - k..n
      <4>2. \A j \in i + 1..n : h[j] = f[j]
        BY <3>1, <4>1
      <4>3. SplitFrom(s, p, h, i) = SplitFrom(s, p, f, i)
        BY <1>3, <4>1, <4>2
      <4>4. CASE i = n - k
        BY <3>1, <4>1, <4>3, <4>4
      <4>5. CASE i # n - k
        <5>1. i \in n - k + 1..n
          BY ONLY <1>1, <2>1, <4>5, i \in n - k..n
        <5> QED
          BY <2>3, <3>1, <4>1, <4>3, <4>5, <5>1
      <4> QED
        BY <4>4, <4>5
    <3> QED
      BY <2>1, <3>2
  <2>4. k # 0
    <3>1. ASSUME k = 0
          PROVE  \A i \in n - k + 1..n : FALSE
      BY ONLY <1>1, <3>1
    <3> QED
      BY <2>3, <3>1
  <2>5. k - 1 \in 0..n - 1 /\ k - 1 < k /\ n - (k - 1) = n - k + 1
    BY ONLY <1>1, <2>1, <2>4
  <2>6. ~ \E f : Behind(f, k - 1)
    BY <2>3, <2>5
  <2> QED
    BY <2>5, <2>6
<1>5. T = {}
  <2>1. T \in SUBSET Nat
    BY <1>1
  <2> HIDE DEF T
  <2> QED
    BY <1>4, <2>1, NoLeast
<1>6. PICK f : Behind(f, n - 1)
  <2>1. n - 1 \in 0..n - 1
    BY ONLY <1>1
  <2>2. n - 1 \notin T
    <3> HIDE DEF T
    <3> QED
      BY <1>5
  <2> QED
    BY <2>1, <2>2
<1>7. \A i \in 1..n : f[i] = SplitFrom(s, p, f, i)
  <2>1. n - (n - 1) = 1
    BY ONLY <1>1
  <2> QED
    BY <1>6, <2>1
<1>8. \E g : g = Body(g)
  <2> DEFINE g == [i \in 1..n |-> f[i]]
  <2>1. \A i \in 1..n : \A j \in i + 1..n : g[j] = f[j]
    BY <1>1
  <2>2. \A i \in 1..n : SplitFrom(s, p, g, i) = f[i]
    <3> HIDE DEF g
    <3> QED
      BY <1>3, <1>7, <2>1
  <2>3. Body(g) = g
    BY <2>2
  <2> QED
    BY <2>3
<1>9. StringSplit(s, p) = (CHOOSE g : g = Body(g))[1]
  BY DEF StringSplit, SplitFrom, n
<1> DEFINE c == CHOOSE g : g = Body(g)
<1>10. c = Body(c)
  BY <1>8
<1> HIDE DEF c
<1>11. \A i \in 1..n : c[i] = SplitFrom(s, p, c, i)
  <2>1. \A i \in 1..n : Body(c)[i] = SplitFrom(s, p, c, i)
    OBVIOUS
  <2> HIDE DEF Body
  <2> QED
    BY <1>10, <2>1
<1> QED
  BY <1>9, <1>11 DEF c, n

LEMMA FunctionIsSeq ==
    ASSUME NEW D, NEW n \in Nat, NEW v \in [1..n -> D]
    PROVE  v \in Seq(D) /\ Len(v) = n
OBVIOUS

\* Pieces of a sequence.
LEMMA PieceIs ==
    ASSUME NEW C, NEW s \in Seq(C), NEW a \in 1..Len(s) + 1, NEW b \in a - 1..Len(s)
    PROVE  /\ SubSeq(s, a, b) \in Seq(C)
           /\ Len(SubSeq(s, a, b)) = b - a + 1
           /\ \A i \in 1..b - a + 1 : SubSeq(s, a, b)[i] = s[a + i - 1]
OBVIOUS

LEMMA ConcatenationIs ==
    ASSUME NEW C, NEW a \in Seq(C), NEW b \in Seq(C)
    PROVE  /\ a \o b \in Seq(C)
           /\ Len(a \o b) = Len(a) + Len(b)
           /\ \A i \in 1..Len(a) + Len(b) :
                  (a \o b)[i] = IF i <= Len(a) THEN a[i] ELSE b[i - Len(a)]
OBVIOUS

LEMMA SameSequence ==
    ASSUME NEW C, NEW a \in Seq(C), NEW b \in Seq(C), Len(a) = Len(b),
           \A i \in 1..Len(a) : a[i] = b[i]
    PROVE  a = b
OBVIOUS

LEMMA PiecesJoin ==
    ASSUME NEW C, NEW s \in Seq(C), NEW a \in 1..Len(s) + 1, NEW b \in a..Len(s) + 1
    PROVE  SubSeq(s, a, Len(s)) = SubSeq(s, a, b - 1) \o SubSeq(s, b, Len(s))
<1> DEFINE w == SubSeq(s, a, Len(s))
           x == SubSeq(s, a, b - 1)
           y == SubSeq(s, b, Len(s))
           z == x \o y
<1>1. Len(s) \in Nat /\ a \in 1..Len(s) + 1 /\ b \in a..Len(s) + 1
  OBVIOUS
<1>2. /\ Len(s) \in a - 1..Len(s) /\ b - 1 \in a - 1..Len(s)
      /\ b \in 1..Len(s) + 1 /\ Len(s) \in b - 1..Len(s)
  BY ONLY <1>1
<1>3. /\ w \in Seq(C) /\ Len(w) = Len(s) - a + 1
      /\ \A i \in 1..Len(s) - a + 1 : w[i] = s[a + i - 1]
  BY <1>2, PieceIs
<1>4. /\ x \in Seq(C) /\ Len(x) = b - 1 - a + 1
      /\ \A i \in 1..b - 1 - a + 1 : x[i] = s[a + i - 1]
  BY <1>2, PieceIs
<1>5. /\ y \in Seq(C) /\ Len(y) = Len(s) - b + 1
      /\ \A i \in 1..Len(s) - b + 1 : y[i] = s[b + i - 1]
  BY <1>2, PieceIs
<1> HIDE DEF w, x, y
<1>6. /\ z \in Seq(C) /\ Len(z) = Len(x) + Len(y)
      /\ \A i \in 1..Len(x) + Len(y) : z[i] = IF i <= Len(x) THEN x[i] ELSE y[i - Len(x)]
  BY <1>4, <1>5, ConcatenationIs
<1> HIDE DEF z
<1>7. Len(z) = Len(w)
  BY ONLY <1>1, <1>3, <1>4, <1>5, <1>6
<1>8. ASSUME NEW i \in 1..Len(w)
      PROVE  w[i] = z[i]
  <2>1. i \in 1..Len(s) - a + 1 /\ i \in 1..Len(x) + Len(y)
    BY ONLY <1>1, <1>3, <1>4, <1>5, i \in 1..Len(w)
  <2>2. CASE i <= Len(x)
    <3>1. i \in 1..b - 1 - a + 1
      BY ONLY <1>1, <1>4, <2>1, <2>2
    <3> QED
      BY ONLY <1>3, <1>4, <1>6, <2>1, <2>2, <3>1
  <2>3. CASE ~(i <= Len(x))
    <3>1. i - Len(x) \in 1..Len(s) - b + 1 /\ b + (i - Len(x)) - 1 = a + i - 1
      BY ONLY <1>1, <1>4, <1>5, <2>1, <2>3
    <3> QED
      BY ONLY <1>3, <1>5, <1>6, <2>1, <2>3, <3>1
  <2> QED
    BY <2>2, <2>3
<1>9. w = z
  BY <1>3, <1>6, <1>7, <1>8, SameSequence
<1> QED
  BY <1>9 DEF w, x, y, z

LEMMA PieceOfPiece ==
    ASSUME NEW C, NEW s \in Seq(C), NEW a \in 1..Len(s) + 1, NEW b \in a - 1..Len(s)
    PROVE  \A i \in 1..b - a + 2 : \A j \in i - 1..b - a + 1 :
               SubSeq(SubSeq(s, a, b), i, j) = SubSeq(s, a + i - 1, a + j - 1)
<1> SUFFICES ASSUME NEW i \in 1..b - a + 2, NEW j \in i - 1..b - a + 1
             PROVE  SubSeq(SubSeq(s, a, b), i, j) = SubSeq(s, a + i - 1, a + j - 1)
  OBVIOUS
<1> DEFINE x == SubSeq(s, a, b)
           y == SubSeq(x, i, j)
           z == SubSeq(s, a + i - 1, a + j - 1)
<1>1. /\ Len(s) \in Nat /\ a \in 1..Len(s) + 1 /\ b \in a - 1..Len(s)
      /\ i \in 1..b - a + 2 /\ j \in i - 1..b - a + 1
  OBVIOUS
<1>2. /\ x \in Seq(C) /\ Len(x) = b - a + 1
      /\ \A m \in 1..b - a + 1 : x[m] = s[a + m - 1]
  BY PieceIs
<1> HIDE DEF x
<1>3. /\ i \in 1..Len(x) + 1 /\ j \in i - 1..Len(x)
      /\ a + i - 1 \in 1..Len(s) + 1 /\ a + j - 1 \in a + i - 1 - 1..Len(s)
  BY ONLY <1>1, <1>2
<1>4. /\ y \in Seq(C) /\ Len(y) = j - i + 1
      /\ \A m \in 1..j - i + 1 : y[m] = x[i + m - 1]
  BY <1>2, <1>3, PieceIs
<1>5. /\ z \in Seq(C) /\ Len(z) = a + j - 1 - (a + i - 1) + 1
      /\ \A m \in 1..a + j - 1 - (a + i - 1) + 1 : z[m] = s[a + i - 1 + m - 1]
  <2>1. ASSUME NEW first \in 1..Len(s) + 1, NEW last \in first - 1..Len(s)
        PROVE  /\ SubSeq(s, first, last) \in Seq(C)
               /\ Len(SubSeq(s, first, last)) = last - first + 1
               /\ \A m \in 1..last - first + 1 : SubSeq(s, first, last)[m] = s[first + m - 1]
    BY PieceIs
  <2> QED
    BY <1>3, <2>1
<1> HIDE DEF y, z
<1>6. Len(y) = Len(z)
  BY ONLY <1>1, <1>4, <1>5
<1>7. ASSUME NEW m \in 1..Len(y)
      PROVE  y[m] = z[m]
  <2>1. /\ m \in 1..j - i + 1 /\ m \in 1..a + j - 1 - (a + i - 1) + 1
        /\ i + m - 1 \in 1..b - a + 1
        /\ a + (i + m - 1) - 1 = a + i - 1 + m - 1
    BY ONLY <1>1, <1>4, m \in 1..Len(y)
  <2> QED
    BY ONLY <1>2, <1>4, <1>5, <2>1
<1>8. y = z
  BY <1>4, <1>5, <1>6, <1>7, SameSequence
<1> QED
  BY <1>8 DEF x, y, z

\* A beginning of a piece in the middle is one of the end that starts there.
LEMMA BeginningOfPiece ==
    ASSUME NEW C, NEW s \in Seq(C), NEW i \in 1..Len(s) + 1, NEW e \in i - 1..Len(s),
           NEW k \in 1..e - i + 1, NEW l \in 1..e - i - k + 2
    PROVE  /\ Len(SubSeq(SubSeq(s, i, e), k, e - i + 1)) = e - i - k + 2
           /\ Len(SubSeq(s, i + k - 1, Len(s))) = Len(s) - i - k + 2
           /\ SubSeq(SubSeq(SubSeq(s, i, e), k, e - i + 1), 1, l)
                  = SubSeq(SubSeq(s, i + k - 1, Len(s)), 1, l)
<1> DEFINE x == SubSeq(s, i, e)
           y == SubSeq(x, k, e - i + 1)
           z == SubSeq(s, i + k - 1, Len(s))
<1>1. /\ Len(s) \in Nat /\ i \in 1..Len(s) + 1 /\ e \in i - 1..Len(s)
      /\ k \in 1..e - i + 1 /\ l \in 1..e - i - k + 2
  OBVIOUS
<1>2. /\ x \in Seq(C) /\ Len(x) = e - i + 1
      /\ \A m \in 1..e - i + 1 : x[m] = s[i + m - 1]
  BY PieceIs
<1> HIDE DEF x
<1>3. k \in 1..Len(x) + 1 /\ e - i + 1 \in k - 1..Len(x)
  BY ONLY <1>1, <1>2
<1>4. /\ y \in Seq(C) /\ Len(y) = e - i + 1 - k + 1
      /\ \A m \in 1..e - i + 1 - k + 1 : y[m] = x[k + m - 1]
  BY <1>2, <1>3, PieceIs
<1>5. i + k - 1 \in 1..Len(s) + 1 /\ Len(s) \in i + k - 1 - 1..Len(s)
  BY ONLY <1>1
<1>6. /\ z \in Seq(C) /\ Len(z) = Len(s) - (i + k - 1) + 1
      /\ \A m \in 1..Len(s) - (i + k - 1) + 1 : z[m] = s[i + k - 1 + m - 1]
  BY <1>5, PieceIs
<1> HIDE DEF y, z
<1>7. l \in 0..Len(y) /\ l \in 0..Len(z) /\ l \in Nat
  BY ONLY <1>1, <1>4, <1>6
<1>8. ASSUME NEW m \in 1..l
      PROVE  y[m] = z[m]
  <2>1. /\ m \in 1..e - i + 1 - k + 1 /\ k + m - 1 \in 1..e - i + 1
        /\ m \in 1..Len(s) - (i + k - 1) + 1
        /\ i + (k + m - 1) - 1 = i + k - 1 + m - 1
    BY ONLY <1>1, m \in 1..l
  <2> QED
    BY ONLY <1>2, <1>4, <1>6, <2>1
<1>9. SubSeq(y, 1, l) = SubSeq(z, 1, l)
  BY ONLY <1>4, <1>6, <1>7, <1>8
<1> QED
  BY <1>1, <1>4, <1>6, <1>9 DEF x, y, z

\* Items with the pattern behind each of them, and a text without the pattern.
Joined(items, p) == FlattenSeq([k \in DOMAIN items |-> items[k] \o p])

Lacks(x, p) == \A i \in DOMAIN x : ~ IsPrefix(p, SubSeq(x, i, Len(x)))

LEMMA JoinedCons ==
    ASSUME NEW C, NEW p \in Seq(C)
    PROVE  \A x \in Seq(C) : \A t \in Seq(Seq(C)) :
               Joined(<<x>> \o t, p) = (x \o p) \o Joined(t, p)
<1> SUFFICES ASSUME NEW x \in Seq(C), NEW t \in Seq(Seq(C))
             PROVE  Joined(<<x>> \o t, p) = (x \o p) \o Joined(t, p)
  OBVIOUS
<1> DEFINE u == <<x>> \o t
           v == [k \in DOMAIN t |-> t[k] \o p]
           w == [k \in DOMAIN u |-> u[k] \o p]
<1>1. /\ u \in Seq(Seq(C)) /\ Len(u) = Len(t) + 1 /\ Len(t) \in Nat
      /\ u[1] = x /\ \A i \in 2..Len(u) : u[i] = t[i - 1]
  OBVIOUS
<1>2. x \o p \in Seq(C) /\ \A k \in DOMAIN t : t[k] \o p \in Seq(C)
  OBVIOUS
<1>3. v \in Seq(Seq(C)) /\ Len(v) = Len(t) /\ \A k \in 1..Len(t) : v[k] = t[k] \o p
  <2>1. v \in [1..Len(t) -> Seq(C)] /\ \A k \in 1..Len(t) : v[k] = t[k] \o p
    BY <1>2
  <2> HIDE DEF v
  <2> QED
    BY <1>1, <2>1, FunctionIsSeq
<1>4. w \in Seq(Seq(C)) /\ Len(w) = Len(u) /\ \A k \in 1..Len(u) : w[k] = u[k] \o p
  <2> HIDE DEF u
  <2>1. \A k \in DOMAIN u : u[k] \o p \in Seq(C)
    BY <1>1
  <2> QED
    BY <1>1, <2>1
<1> HIDE DEF u, v, w
<1>5. w = <<x \o p>> \o v
  <2> DEFINE r == <<x \o p>> \o v
  <2>1. /\ r \in Seq(Seq(C)) /\ Len(r) = Len(v) + 1 /\ r[1] = x \o p
        /\ \A i \in 2..Len(r) : r[i] = v[i - 1]
    BY <1>2, <1>3
  <2> HIDE DEF r
  <2>2. ASSUME NEW i \in 1..Len(r)
        PROVE  w[i] = r[i]
    <3>1. i = 1 \/ (i \in 2..Len(r) /\ i - 1 \in 1..Len(t))
      BY ONLY <1>1, <1>3, <2>1, i \in 1..Len(r)
    <3>2. i \in 1..Len(u) /\ Len(r) = Len(u)
      BY <1>1, <1>3, <2>1
    <3>3. CASE i = 1
      BY ONLY <1>1, <1>4, <2>1, <3>2, <3>3
    <3>4. CASE i \in 2..Len(r) /\ i - 1 \in 1..Len(t)
      <4>1. w[i] = u[i] \o p /\ u[i] = t[i - 1]
        BY ONLY <1>1, <1>4, <3>2, <3>4
      <4>2. r[i] = v[i - 1] /\ v[i - 1] = t[i - 1] \o p
        BY ONLY <1>3, <2>1, <3>4
      <4> QED
        BY ONLY <4>1, <4>2
    <3> QED
      BY ONLY <3>1, <3>3, <3>4
  <2>3. Len(w) = Len(r)
    BY ONLY <1>1, <1>3, <1>4, <2>1
  <2>4. w = r
    BY ONLY <1>4, <2>1, <2>2, <2>3
  <2> QED
    BY <2>4 DEF r
<1>6. /\ FlattenSeq(v) \in Seq(C)
      /\ FlattenSeq(<<x \o p>> \o v) = (x \o p) \o FlattenSeq(v)
  BY <1>2, <1>3, FlattenCons
<1> QED
  BY <1>5, <1>6 DEF Joined, u, v, w

\* A piece of a text in which no place of the pattern is found lacks it.
LEMMA PieceLacks ==
    ASSUME NEW C, NEW s \in Seq(C), NEW p \in Seq(C), NEW i \in 1..Len(s) + 1,
           NEW e \in i - 1..Len(s), \A j \in i..e : j \notin Found(s, p, i), p # <<>>
    PROVE  SubSeq(s, i, e) \in Seq(C) /\ Lacks(SubSeq(s, i, e), p)
<1> DEFINE x == SubSeq(s, i, e)
<1>1. x \in Seq(C) /\ Len(x) = e - i + 1
  BY PieceIs
<1>2. ASSUME NEW k \in DOMAIN x, IsPrefix(p, SubSeq(x, k, Len(x)))
      PROVE  FALSE
  <2> DEFINE j == i + k - 1
             y == SubSeq(x, k, e - i + 1)
             z == SubSeq(s, j, Len(s))
  <2>1. /\ Len(s) \in Nat /\ i \in 1..Len(s) + 1 /\ e \in i - 1..Len(s)
        /\ k \in 1..e - i + 1
    BY <1>1
  <2>2. j \in i..e /\ j \in i..Len(s)
    BY ONLY <2>1
  <2>3. /\ Len(p) \in Nat \ {0} /\ SubSeq(p, 1, Len(p)) = p
        /\ Len(p) <= Len(y) /\ SubSeq(y, 1, Len(p)) = p
    BY <1>1, <1>2 DEF IsPrefix
  <2>4. Len(y) = e - i - k + 2 /\ Len(z) = Len(s) - i - k + 2
    <3>1. 1 \in 1..e - i - k + 2
      BY ONLY <2>1
    <3> QED
      BY <2>1, <3>1, BeginningOfPiece
  <2>5. Len(p) \in 1..e - i - k + 2 /\ Len(p) <= Len(z)
    <3> HIDE DEF y, z
    <3> QED
      BY ONLY <2>1, <2>3, <2>4
  <2>6. SubSeq(y, 1, Len(p)) = SubSeq(z, 1, Len(p))
    BY <2>1, <2>5, BeginningOfPiece
  <2>7. IsPrefix(p, z)
    <3> HIDE DEF y, z
    <3> QED
      BY <2>3, <2>5, <2>6 DEF IsPrefix
  <2> QED
    BY <2>2, <2>7 DEF Found
<1> QED
  BY <1>1, <1>2 DEF Lacks

\* The items, a pattern behind each of them, are the text, with a pattern
\* behind it at most; and no item contains the pattern.
LEMMA SplitJoins ==
    ASSUME NEW C, NEW s \in Seq(C), NEW p \in Seq(C), p # <<>>
    PROVE  LET items == StringSplit(s, p)
           IN  /\ items \in Seq(Seq(C))
               /\ Joined(items, p) \in {s, s \o p}
               /\ \A k \in DOMAIN items : Lacks(items[k], p)
<1> DEFINE n == Len(s) + 1
           Rest(i) == SubSeq(s, i, Len(s))
           Good(a, i) == /\ a \in Seq(Seq(C))
                         /\ Joined(a, p) \in {Rest(i), Rest(i) \o p}
                         /\ \A k \in DOMAIN a : Lacks(a[k], p)
<1>1. PICK f : /\ StringSplit(s, p) = f[1]
               /\ \A i \in 1..n : f[i] = SplitFrom(s, p, f, i)
  BY SplitIs
<1> DEFINE T == {k \in 0..n - 1 : ~ Good(f[n - k], n - k)}
<1>2. n \in Nat \ {0} /\ \A i \in 1..n : Rest(i) \in Seq(C)
  OBVIOUS
<1>3. \A x \in Seq(C) : \A t \in Seq(Seq(C)) :
           Joined(<<x>> \o t, p) = (x \o p) \o Joined(t, p)
  BY JoinedCons
<1>4. Joined(<<>>, p) = <<>>
  BY DEF Joined, FlattenSeq
<1>5. \A x \in Seq(C) : Joined(<<x>>, p) = x \o p
  <2> SUFFICES ASSUME NEW x \in Seq(C)
               PROVE  Joined(<<x>>, p) = x \o p
    OBVIOUS
  <2>1. Joined(<<x>> \o <<>>, p) = (x \o p) \o <<>>
    <3>1. <<>> \in Seq(Seq(C))
      OBVIOUS
    <3>2. \A t \in Seq(Seq(C)) : Joined(<<x>> \o t, p) = (x \o p) \o Joined(t, p)
      BY ONLY <1>3
    <3> QED
      BY ONLY <1>4, <3>1, <3>2
  <2>2. <<x>> \o <<>> = <<x>> /\ (x \o p) \o <<>> = x \o p
    OBVIOUS
  <2> QED
    BY <2>1, <2>2
<1>6. ASSUME NEW i \in 1..n, \A j \in i + 1..n : Good(f[j], j)
      PROVE  Good(f[i], i)
  <2>0. f[i] = SplitFrom(s, p, f, i)
    BY <1>1
  <2>1. CASE i > Len(s)
    <3>1. f[i] = <<>>
      BY <2>0, <2>1 DEF SplitFrom
    <3>2. Rest(i) = <<>>
      BY <2>1
    <3> QED
      BY <1>4, <3>1, <3>2
  <2>2. CASE i <= Len(s) /\ Found(s, p, i) = {}
    <3>1. f[i] = <<Rest(i)>>
      <4>1. ~(i > Len(s))
        BY <2>2
      <4> QED
        BY <2>0, <2>2, <4>1 DEF SplitFrom
    <3>2. Rest(i) \in Seq(C) /\ Lacks(Rest(i), p)
      BY <2>2, PieceLacks
    <3> HIDE DEF Rest
    <3>3. <<Rest(i)>> \in Seq(Seq(C)) /\ \A k \in DOMAIN <<Rest(i)>> : <<Rest(i)>>[k] = Rest(i)
      BY <3>2
    <3>4. Joined(<<Rest(i)>>, p) = Rest(i) \o p
      BY <1>5, <3>2
    <3> QED
      BY <3>1, <3>2, <3>3, <3>4
  <2>3. CASE i <= Len(s) /\ Found(s, p, i) # {}
    <3> DEFINE m == Min(Found(s, p, i))
               x == SubSeq(s, i, m - 1)
               t == f[m + Len(p)]
    <3>1. /\ m \in i..Len(s)
          /\ \A j \in Found(s, p, i) : m <= j
          /\ m + Len(p) \in i + 1..n
          /\ SubSeq(s, m, m + Len(p) - 1) = p
      BY <2>3, FoundIs
    <3>2. f[i] = <<x>> \o t
      <4>1. ~(i > Len(s))
        BY <2>3
      <4> QED
        BY <2>0, <2>3, <4>1 DEF SplitFrom
    <3> HIDE DEF m
    <3>3. Good(t, m + Len(p))
      BY <1>6, <3>1
    <3>4. x \in Seq(C) /\ Lacks(x, p)
      <4>1. m - 1 \in i - 1..Len(s) /\ \A j \in i..m - 1 : ~(m <= j)
        BY ONLY <3>1, i \in 1..n, <1>2
      <4> QED
        BY <3>1, <4>1, PieceLacks
    <3>5. x \o p \o Rest(m + Len(p)) = Rest(i)
      <4>0. /\ Len(s) \in Nat /\ n = Len(s) + 1 /\ Len(p) \in Nat
            /\ m \in i..Len(s) + 1 /\ m \in 1..Len(s) + 1
            /\ m + Len(p) \in m..Len(s) + 1 /\ m + Len(p) \in 1..n
        BY <3>1
      <4>1. Rest(i) = x \o Rest(m)
        BY <4>0, PiecesJoin
      <4>2. Rest(m) = p \o Rest(m + Len(p))
        <5>1. PICK b \in m..Len(s) + 1 : b = m + Len(p)
          BY <4>0
        <5>2. Rest(m) = SubSeq(s, m, b - 1) \o Rest(b)
          BY <4>0, PiecesJoin
        <5>3. SubSeq(s, m, b - 1) = p
          BY ONLY <3>1, <5>1
        <5> QED
          BY ONLY <5>1, <5>2, <5>3
      <4>3. Rest(m + Len(p)) \in Seq(C)
        BY <1>2, <4>0
      <4> HIDE DEF x, Rest
      <4>4. \A b \in Seq(C) : (x \o p) \o b = x \o (p \o b)
        BY <3>4, JoinedInAnyOrder
      <4> QED
        BY <4>1, <4>2, <4>3, <4>4
    <3>6. Joined(f[i], p) = (x \o p) \o Joined(t, p)
      <4>1. \A u \in Seq(Seq(C)) : Joined(<<x>> \o u, p) = (x \o p) \o Joined(u, p)
        BY ONLY <1>3, <3>4
      <4> QED
        BY <3>2, <3>3, <4>1
    <3>7. Joined(f[i], p) \in {Rest(i), Rest(i) \o p}
      <4>1. CASE Joined(t, p) = Rest(m + Len(p))
        BY <3>5, <3>6, <4>1
      <4>2. CASE Joined(t, p) = Rest(m + Len(p)) \o p
        <5>1. x \o p \in Seq(C) /\ Rest(m + Len(p)) \in Seq(C)
          BY <1>2, <3>1, <3>4
        <5>2. (x \o p) \o (Rest(m + Len(p)) \o p) = ((x \o p) \o Rest(m + Len(p))) \o p
          <6>1. \A a, b \in Seq(C) : (a \o b) \o p = a \o (b \o p)
            BY JoinedInAnyOrder
          <6> HIDE DEF x, Rest
          <6> QED
            BY ONLY <5>1, <6>1
        <5> QED
          BY <3>5, <3>6, <4>2, <5>2
      <4> QED
        BY <3>3, <4>1, <4>2
    <3>8. f[i] \in Seq(Seq(C)) /\ \A k \in DOMAIN f[i] : Lacks(f[i][k], p)
      <4>1. t \in Seq(Seq(C)) /\ \A k \in DOMAIN t : Lacks(t[k], p)
        BY <3>3
      <4> HIDE DEF t, x
      <4>2. \A k \in DOMAIN (<<x>> \o t) : (<<x>> \o t)[k] = x \/ \E j \in DOMAIN t : (<<x>> \o t)[k] = t[j]
        BY <3>4, <4>1
      <4> QED
        BY <3>2, <3>4, <4>1, <4>2
    <3> QED
      BY <3>7, <3>8
  <2> QED
    BY <2>1, <2>2, <2>3
<1> HIDE DEF n, Good
<1>7. ASSUME NEW k \in T
      PROVE  \E j \in T : j < k
  <2>1. k \in 0..n - 1 /\ ~ Good(f[n - k], n - k)
    OBVIOUS
  <2>2. n - k \in 1..n
    BY ONLY <1>2, <2>1
  <2>3. PICK i \in n - k + 1..n : ~ Good(f[i], i)
    BY <1>6, <2>1, <2>2
  <2>4. n - i \in 0..n - 1 /\ n - i < k /\ n - (n - i) = i
    BY ONLY <1>2, <2>1, <2>3
  <2> QED
    BY <2>3, <2>4
<1>8. n - 1 \notin T
  <2>1. T \in SUBSET Nat
    BY <1>2
  <2> HIDE DEF T
  <2> QED
    BY <1>7, <2>1, NoLeast
<1>9. Good(f[1], 1)
  <2>1. n - 1 \in 0..n - 1 /\ n - (n - 1) = 1
    BY ONLY <1>2
  <2> QED
    BY <1>8, <2>1
<1>10. Rest(1) = s
  OBVIOUS
<1> QED
  BY <1>1, <1>9, <1>10 DEF Good

\* One end stripped.
LEMMA StriplIs ==
    ASSUME NEW C, NEW s \in Seq(C), NEW b \in DOMAIN s, s[b] \notin White,
           \A i \in DOMAIN s : i < b => s[i] \in White
    PROVE  Stripl(s) = SubSeq(s, b, Len(s))
<1> DEFINE kept == {i \in DOMAIN s : s[i] \notin White}
<1>1. /\ kept \in SUBSET Nat /\ b \in kept /\ b \in Nat
      /\ \A i \in kept : i \in Nat /\ ~(i < b)
  OBVIOUS
<1>2. Stripl(s) = SubSeq(s, Min(kept), Len(s))
  BY <1>1 DEF Stripl
<1> HIDE DEF kept
<1>3. Min(kept) \in kept /\ \A j \in kept : Min(kept) <= j
  BY <1>1, LeastMember
<1>4. Min(kept) \in Nat /\ Min(kept) <= b /\ ~(Min(kept) < b)
  BY <1>1, <1>3
<1>5. Min(kept) = b
  BY ONLY <1>1, <1>4
<1> QED
  BY <1>2, <1>4

LEMMA StriprIs ==
    ASSUME NEW C, NEW s \in Seq(C), NEW e \in DOMAIN s, s[e] \notin White,
           \A i \in DOMAIN s : i > e => s[i] \in White
    PROVE  Stripr(s) = SubSeq(s, 1, e)
<1> DEFINE kept == {i \in DOMAIN s : s[i] \notin White}
<1>1. /\ kept \in SUBSET Nat /\ e \in kept /\ e \in Nat
      /\ \A i \in kept : i \in Nat /\ ~(i > e) /\ i <= e
  OBVIOUS
<1>2. Stripr(s) = SubSeq(s, 1, Max(kept))
  BY <1>1 DEF Stripr
<1> HIDE DEF kept
<1>3. Max(kept) \in kept /\ \A j \in kept : Max(kept) >= j
  BY <1>1, GreatestMember
<1>4. Max(kept) \in Nat /\ Max(kept) <= e /\ Max(kept) >= e
  BY <1>1, <1>3
<1>5. Max(kept) = e
  BY ONLY <1>1, <1>4
<1> QED
  BY <1>2, <1>4

\* Both ends stripped, in either order.
LEMMA StripsAgree ==
    ASSUME NEW C, NEW s \in Seq(C)
    PROVE  /\ Stripl(Stripr(s)) = Strip(s, White)
           /\ Stripr(Stripl(s)) = Strip(s, White)
<1>1. CASE /\ \A i \in DOMAIN s : s[i] \in White
           /\ Strip(s, White) = <<>>
  <2>1. Stripl(s) = <<>> /\ Stripr(s) = <<>>
    BY <1>1 DEF Stripl, Stripr
  <2>2. Stripl(<<>>) = <<>> /\ Stripr(<<>>) = <<>>
    BY DEF Stripl, Stripr
  <2> QED
    BY <1>1, <2>1, <2>2
<1>2. ASSUME NEW b \in DOMAIN s, NEW e \in DOMAIN s, b <= e,
             s[b] \notin White, s[e] \notin White,
             \A i \in DOMAIN s : i < b \/ i > e => s[i] \in White,
             Strip(s, White) = SubSeq(s, b, e)
      PROVE  /\ Stripl(Stripr(s)) = Strip(s, White)
             /\ Stripr(Stripl(s)) = Strip(s, White)
  <2> DEFINE l == SubSeq(s, b, Len(s))
             r == SubSeq(s, 1, e)
  <2>1. Len(s) \in Nat /\ b \in 1..Len(s) /\ e \in 1..Len(s) /\ b <= e
    BY <1>2
  <2>2. Stripl(s) = l /\ Stripr(s) = r
    BY <1>2, StriplIs, StriprIs
  <2>3. /\ b \in 1..Len(s) + 1 /\ Len(s) \in b - 1..Len(s)
        /\ 1 \in 1..Len(s) + 1 /\ e \in 1 - 1..Len(s)
    BY ONLY <2>1
  <2>4. /\ l \in Seq(C) /\ Len(l) = Len(s) - b + 1
        /\ \A i \in 1..Len(s) - b + 1 : l[i] = s[b + i - 1]
    BY <2>3, PieceIs
  <2>5. /\ r \in Seq(C) /\ Len(r) = e - 1 + 1
        /\ \A i \in 1..e - 1 + 1 : r[i] = s[1 + i - 1]
    BY <2>3, PieceIs
  <2>6. SubSeq(l, 1, e - b + 1) = SubSeq(s, b, e) /\ SubSeq(r, b, Len(r)) = SubSeq(s, b, e)
    <3>1. \A i \in 1..Len(s) - b + 2 : \A j \in i - 1..Len(s) - b + 1 :
              SubSeq(l, i, j) = SubSeq(s, b + i - 1, b + j - 1)
      <4>1. ASSUME NEW first \in 1..Len(s) + 1, NEW last \in first - 1..Len(s)
            PROVE  \A i \in 1..last - first + 2 : \A j \in i - 1..last - first + 1 :
                       SubSeq(SubSeq(s, first, last), i, j)
                           = SubSeq(s, first + i - 1, first + j - 1)
        BY PieceOfPiece
      <4> QED
        BY ONLY <2>3, <4>1
    <3>2. \A i \in 1..e - 1 + 2 : \A j \in i - 1..e - 1 + 1 :
              SubSeq(r, i, j) = SubSeq(s, 1 + i - 1, 1 + j - 1)
      BY <2>3, PieceOfPiece
    <3> HIDE DEF l, r
    <3>3. /\ 1 \in 1..Len(s) - b + 2 /\ e - b + 1 \in 1 - 1..Len(s) - b + 1
          /\ b + 1 - 1 = b /\ b + (e - b + 1) - 1 = e
          /\ b \in 1..e - 1 + 2 /\ Len(r) \in b - 1..e - 1 + 1
          /\ 1 + b - 1 = b /\ 1 + Len(r) - 1 = e
      BY ONLY <2>1, <2>5
    <3>4. SubSeq(l, 1, e - b + 1) = SubSeq(s, b + 1 - 1, b + (e - b + 1) - 1)
      BY ONLY <3>1, <3>3
    <3>5. SubSeq(r, b, Len(r)) = SubSeq(s, 1 + b - 1, 1 + Len(r) - 1)
      BY ONLY <3>2, <3>3
    <3> QED
      BY ONLY <3>3, <3>4, <3>5
  <2> HIDE DEF l, r
  <2>7. Stripl(r) = SubSeq(r, b, Len(r))
    <3>1. b \in DOMAIN r /\ r[b] = s[b] /\ \A i \in DOMAIN r : i \in DOMAIN s /\ r[i] = s[i]
      BY ONLY <2>1, <2>5
    <3> QED
      BY <1>2, <2>5, <3>1, StriplIs
  <2>8. Stripr(l) = SubSeq(l, 1, e - b + 1)
    <3>1. /\ e - b + 1 \in 1..Len(s) - b + 1 /\ b + (e - b + 1) - 1 = e
          /\ \A i \in 1..Len(s) - b + 1 : b + i - 1 \in 1..Len(s) /\ (i > e - b + 1 => b + i - 1 > e)
      BY ONLY <2>1
    <3>2. e - b + 1 \in DOMAIN l /\ l[e - b + 1] = s[e]
      BY ONLY <2>4, <3>1
    <3>3. \A i \in DOMAIN l : i > e - b + 1 => l[i] \in White
      <4>1. \A i \in DOMAIN l : i \in 1..Len(s) - b + 1 /\ l[i] = s[b + i - 1]
        BY ONLY <2>4
      <4>2. \A j \in 1..Len(s) : j > e => s[j] \in White
        BY <1>2
      <4> QED
        BY ONLY <3>1, <4>1, <4>2
    <3> QED
      BY <1>2, <2>4, <3>2, <3>3, StriprIs
  <2> QED
    BY <1>2, <2>2, <2>6, <2>7, <2>8
<1> QED
  BY <1>1, <1>2, StripIs

\* getRest() gives back what is behind a beginning.
LEMMA RestIsBehind ==
    ASSUME NEW C, NEW s \in Seq(C), NEW p \in Seq(C), StartsWith(s, p, TRUE)
    PROVE  p \o GetRest(s, p) = s
<1>1. /\ Len(s) \in Nat /\ Len(p) \in Nat /\ Len(p) <= Len(s)
      /\ SubSeq(s, 1, Len(p)) = p
  BY DEF StartsWith
<1>2. 1 \in 1..Len(s) + 1 /\ Len(p) + 1 \in 1..Len(s) + 1 /\ Len(p) + 1 - 1 = Len(p)
  BY ONLY <1>1
<1> DEFINE b == Len(p) + 1
<1>3. SubSeq(s, 1, Len(s)) = SubSeq(s, 1, b - 1) \o SubSeq(s, b, Len(s))
  <2>1. b \in 1..Len(s) + 1 /\ 1 \in 1..Len(s) + 1
    BY <1>2
  <2> HIDE DEF b
  <2> QED
    BY <2>1, PiecesJoin
<1>4. SubSeq(s, 1, Len(s)) = s
  OBVIOUS
<1> QED
  <2>1. b - 1 = Len(p)
    BY <1>2
  <2>2. SubSeq(s, 1, b - 1) = p
    BY ONLY <1>1, <2>1
  <2> QED
    BY ONLY <1>3, <1>4, <2>2 DEF GetRest

\* Every line, of whatever characters and whatever length, comes back from the
\* helpers of stringutil.cc.
THEOREM NothingIsLost == Spec => []SplitLosesNothing
<1>1. ASSUME NEW pattern \in UNION {[1..n -> Chars] : n \in 1..2}
      PROVE  pattern \in String /\ pattern # <<>>
  <2>1. PICK n \in 1..2 : pattern \in [1..n -> Chars]
    OBVIOUS
  <2>2. pattern \in String /\ Len(pattern) = n
    BY <2>1, FunctionIsSeq DEF String
  <2> QED
    BY <2>1, <2>2
<1>2. ASSUME NEW pattern \in String, pattern # <<>>, line \in String
      PROVE  LET items == StringSplit(line, pattern)
                 joined == FlattenSeq([k \in DOMAIN items |-> items[k] \o pattern])
             IN  /\ items \in Seq(String)
                 /\ joined \in {line, line \o pattern}
                 /\ \A item \in ToSet(items) :
                        /\ \A i \in DOMAIN item :
                               ~ IsPrefix(pattern, SubSeq(item, i, Len(item)))
                        /\ Stripl(Stripr(item)) = Strip(item, White)
                        /\ Stripr(Stripl(item)) = Strip(item, White)
  <2> DEFINE items == StringSplit(line, pattern)
  <2>1. /\ items \in Seq(String)
        /\ Joined(items, pattern) \in {line, line \o pattern}
        /\ \A k \in DOMAIN items : Lacks(items[k], pattern)
    BY <1>2, SplitJoins DEF String
  <2> HIDE DEF items
  <2>2. ASSUME NEW item \in ToSet(items)
        PROVE  item \in Seq(Chars) /\ Lacks(item, pattern)
    BY <2>1 DEF ToSet, String
  <2>3. ASSUME NEW item \in ToSet(items)
        PROVE  /\ Stripl(Stripr(item)) = Strip(item, White)
               /\ Stripr(Stripl(item)) = Strip(item, White)
    BY <2>2, StripsAgree
  <2> QED
    BY <2>1, <2>2, <2>3 DEF items, Joined, Lacks
<1>3. ASSUME NEW pattern \in String, line \in String, StartsWith(line, pattern, TRUE)
      PROVE  pattern \o GetRest(line, pattern) = line
  BY <1>3, RestIsBehind DEF String
<1>4. TypeInv => SplitLosesNothing
  <2> SUFFICES ASSUME line \in String
               PROVE  SplitLosesNothing
    BY DEF TypeInv
  <2> QED
    BY <1>1, <1>2, <1>3 DEF SplitLosesNothing
<1> QED
  BY <1>4, InitType, NextType, PTL DEF Spec
=============================================================================
