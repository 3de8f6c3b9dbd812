-------------------------- MODULE PxeParserProofs --------------------------
(***************************************************************************)
(* Proofs about PxeParser for files of every length, and every set of      *)
(* labels, kernels and append lines.                                       *)
(***************************************************************************)
EXTENDS PxeParser, FiniteSetTheorems, WellFoundedInduction, TLAPS

-----------------------------------------------------------------------------
(* How the code reads the lines f of a file: Starts, Section and LastValue   *)
(* as operators on the file, with the tabs it does not see.                *)

StartsOf(f) ==
    {i \in DOMAIN f : /\ f[i].word = "label"
                      /\ \/ f[i].sep = "space"
                         \/ \A j \in 1..(i - 1) : f[j].word # "label"}

SectionOf(f, i) ==
    {j \in (i + 1)..Len(f) : \A k \in (i + 1)..j : k \notin StartsOf(f)}

GivenIn(f, i, w) ==
    {j \in SectionOf(f, i) : f[j].word = w /\ f[j].sep = "space"}

ValueIn(f, i, w, default) ==
    IF GivenIn(f, i, w) = {} THEN default ELSE f[Max(GivenIn(f, i, w))].value

\* The entry e says what the section that starts at line i says.
Describes(f, e, i) ==
    /\ e.valid
    /\ e.label = f[i].value
    /\ e.kernel = ValueIn(f, i, "kernel", NoKernel)
    /\ e.append = ValueIn(f, i, "append", EmptyAppend)
    /\ GetInitrd(e) = InitrdIn(e.append)

\* The sections start at the n lines s[1] < ... < s[n].
Heads(f, n, s) ==
    /\ n \in Nat
    /\ s \in [1..n -> DOMAIN f]
    /\ \A j, k \in 1..n : j < k => s[j] < s[k]
    /\ StartsOf(f) = {s[k] : k \in 1..n}

-----------------------------------------------------------------------------
(* The inductive invariant.                                                *)

\* Before the first label.
GlobalInv(f, st, es, cur) ==
    st = "global" => /\ \A j \in DOMAIN f : f[j].word # "label"
                     /\ es = <<>>
                     /\ cur = NoEntry

\* The n sections are in the entries, the last one in the current entry until
\* the file ends, which has not been asked for an initrd.
EntryInv(f, st, es, cur, fin, n, s) ==
    /\ Len(es) = IF st = "entry" /\ ~fin THEN n - 1 ELSE n
    /\ \A k \in DOMAIN es : Describes(f, es[k], s[k])
    /\ st = "entry" => /\ n > 0
                       /\ Describes(f, cur, s[n])
                       /\ cur.initrd = NoInitrd /\ ~cur.initrdParsed

Told(f, st, es, cur, fin) ==
    /\ GlobalInv(f, st, es, cur)
    /\ \E n \in 0..Len(f) : \E s \in [1..n -> DOMAIN f] :
           Heads(f, n, s) /\ EntryInv(f, st, es, cur, fin, n, s)

SectionInv == Told(fed, state, entries, current, finished)

ParserInv == TypeOK /\ SectionInv

-----------------------------------------------------------------------------
(* Greatest and least members.                                             *)

\* A member that no other exceeds is the greatest one.
LEMMA MaxIs ==
    ASSUME NEW S \in SUBSET Nat, NEW m \in S, \A j \in S : j <= m
    PROVE  Max(S) = m
<1>1. m \in S /\ \A y \in S : m >= y
  OBVIOUS
<1>2. \A x \in S : (\A y \in S : x >= y) => x = m
  OBVIOUS
<1> QED
  BY <1>1, <1>2 DEF Max

\* A member that exceeds no other is the least one.
LEMMA MinIs ==
    ASSUME NEW S \in SUBSET Nat, NEW m \in S, \A j \in S : m <= j
    PROVE  Min(S) = m
<1>1. m \in S /\ \A y \in S : m =< y
  OBVIOUS
<1>2. \A x \in S : (\A y \in S : x =< y) => x = m
  OBVIOUS
<1> QED
  BY <1>1, <1>2 DEF Min

\* Every non-empty set of natural numbers has a least member.
LEMMA LeastMember ==
    ASSUME NEW S \in SUBSET Nat, S # {}
    PROVE  \E n \in S : \A m \in S : n <= m
<1> DEFINE R == {p \in Nat \X Nat : p[1] < p[2]}
<1>1. IsWellFoundedOn(OpToRel(<,Nat), Nat)
  BY NatLessThanWellFounded
<1>2. IsWellFoundedOn(R, Nat)
  BY <1>1 DEF OpToRel
<1>3. PICK n \in S : \A m \in S : ~(<<m, n>> \in R)
  <2> HIDE DEF R
  <2> QED
    BY <1>2, WFMin
<1>4. ASSUME NEW m \in S
      PROVE  n <= m
  <2>1. <<m, n>> \in Nat \X Nat
    OBVIOUS
  <2>2. ~(m < n)
    BY <2>1, <1>3
  <2> QED
    BY <2>2
<1> QED
  BY <1>4

\* Every non-empty set of natural numbers with a bound has a greatest member.
LEMMA MaxIsThere ==
    ASSUME NEW S \in SUBSET Nat, S # {}, NEW b \in Nat, \A j \in S : j <= b
    PROVE  Max(S) \in S
<1> DEFINE T == {c \in Nat : \A j \in S : j <= c}
<1>1. T \in SUBSET Nat /\ b \in T
  OBVIOUS
<1>2. PICK m \in T : \A c \in T : m <= c
  BY <1>1, LeastMember
<1>3. m \in S
  <2>1. SUFFICES ASSUME m \notin S
                 PROVE  FALSE
    OBVIOUS
  <2>2. \A j \in S : j < m
    BY <2>1, <1>2
  <2>3. m \in Nat /\ \A j \in S : j \in Nat /\ j < m
    BY <2>2, <1>2
  <2>4. m > 0
    <3>1. PICK x \in S : TRUE
      OBVIOUS
    <3> QED
      BY <3>1, <2>3
  <2>5. m - 1 \in Nat /\ \A j \in S : j <= m - 1
    BY <2>3, <2>4
  <2>6. m - 1 \in T /\ ~(m <= m - 1)
    BY <2>3, <2>5
  <2> QED
    BY <2>6, <1>2
<1> QED
  BY <1>2, <1>3, MaxIs

-----------------------------------------------------------------------------
(* One more line.                                                          *)

\* The file g is the file f with one more line.
Grows(f, g) ==
    /\ Len(f) \in Nat /\ Len(g) = Len(f) + 1
    /\ DOMAIN f = 1..Len(f) /\ DOMAIN g = 1..Len(g)
    /\ \A j \in DOMAIN f : g[j] = f[j]

\* That is what Append() does.
LEMMA AppendGrows ==
    ASSUME NEW S, NEW f \in Seq(S), NEW l \in S
    PROVE  /\ Grows(f, Append(f, l))
           /\ Append(f, l)[Len(Append(f, l))] = l
BY DEF Grows

\* Whether a line starts a section depends on the lines before it only.
LEMMA StartsStay ==
    ASSUME NEW f, NEW g, Grows(f, g)
    PROVE  /\ \A i \in DOMAIN f : i \in StartsOf(f) <=> i \in StartsOf(g)
           /\ StartsOf(f) = StartsOf(g) \ {Len(g)}
           /\ StartsOf(f) \subseteq 1..Len(f)
<1>1. \A i \in DOMAIN f : \A j \in 1..(i - 1) : g[j] = f[j]
  BY DEF Grows
<1>2. \A i \in DOMAIN f : i \in StartsOf(f) <=> i \in StartsOf(g)
  BY <1>1 DEF Grows, StartsOf
<1>3. StartsOf(f) \subseteq DOMAIN f /\ StartsOf(g) \subseteq DOMAIN g
  BY DEF StartsOf
<1>4. DOMAIN f = DOMAIN g \ {Len(g)}
  BY DEF Grows
<1> QED
  BY <1>2, <1>3, <1>4 DEF Grows

\* A line is part of the section it follows, and ends it if it starts another
\* one.
LEMMA SectionsGrow ==
    ASSUME NEW f, NEW g, Grows(f, g), NEW i \in DOMAIN f
    PROVE  /\ \A j \in DOMAIN f : j \in SectionOf(g, i) <=> j \in SectionOf(f, i)
           /\ SectionOf(f, i) \subseteq DOMAIN f
           /\ SectionOf(g, i) \subseteq DOMAIN g
           /\ Len(g) \in SectionOf(g, i) <=>
                  /\ Len(g) \notin StartsOf(g)
                  /\ \A k \in StartsOf(f) : k <= i
<1>1. \A k \in DOMAIN f : k \in StartsOf(f) <=> k \in StartsOf(g)
  BY StartsStay
<1>2. StartsOf(f) \subseteq 1..Len(f)
  BY StartsStay
<1>3. i \in 1..Len(f) /\ Len(f) \in Nat /\ Len(g) = Len(f) + 1
  BY DEF Grows
<1>4. \A j \in DOMAIN f : j \in SectionOf(g, i) <=> j \in SectionOf(f, i)
  BY <1>1, <1>3 DEF SectionOf, Grows
<1>5. Len(g) \in SectionOf(g, i) <=>
          \A k \in (i + 1)..Len(g) : k \notin StartsOf(g)
  BY <1>3 DEF SectionOf
<1>6. (\A k \in (i + 1)..Len(g) : k \notin StartsOf(g)) <=>
          /\ Len(g) \notin StartsOf(g)
          /\ \A k \in (i + 1)..Len(f) : k \notin StartsOf(f)
  BY <1>1, <1>3 DEF Grows
<1>7. (\A k \in (i + 1)..Len(f) : k \notin StartsOf(f)) <=>
          \A k \in StartsOf(f) : k <= i
  BY <1>2, <1>3
<1> QED
  BY <1>3, <1>4, <1>5, <1>6, <1>7 DEF SectionOf, Grows

\* The line adds to what its section gives if it has the word, and a space.
LEMMA GivenGrows ==
    ASSUME NEW f, NEW g, Grows(f, g), NEW i \in DOMAIN f, NEW w
    PROVE  /\ GivenIn(g, i, w) \ {Len(g)} = GivenIn(f, i, w)
           /\ GivenIn(f, i, w) \subseteq 1..Len(f)
           /\ Len(g) \in GivenIn(g, i, w) <=>
                  /\ Len(g) \in SectionOf(g, i)
                  /\ g[Len(g)].word = w /\ g[Len(g)].sep = "space"
<1>1. /\ \A j \in DOMAIN f : j \in SectionOf(g, i) <=> j \in SectionOf(f, i)
      /\ SectionOf(f, i) \subseteq DOMAIN f
      /\ SectionOf(g, i) \subseteq DOMAIN g
  BY SectionsGrow
<1>2. DOMAIN g \ {Len(g)} = DOMAIN f /\ DOMAIN f = 1..Len(f)
  BY DEF Grows
<1>3. \A j \in DOMAIN f : g[j] = f[j]
  BY DEF Grows
<1>4. GivenIn(g, i, w) \ {Len(g)} = GivenIn(f, i, w)
  BY <1>1, <1>2, <1>3 DEF GivenIn
<1> QED
  BY <1>1, <1>2, <1>4 DEF GivenIn

\* Without such a line the value stays what it was.
LEMMA ValueStays ==
    ASSUME NEW f, NEW g, Grows(f, g), NEW i \in DOMAIN f, NEW w, NEW default,
           Len(g) \notin GivenIn(g, i, w)
    PROVE  ValueIn(g, i, w, default) = ValueIn(f, i, w, default)
<1> DEFINE G == GivenIn(f, i, w)
<1>1. GivenIn(g, i, w) = G /\ G \subseteq 1..Len(f)
  BY GivenGrows
<1>2. Len(f) \in Nat
  BY DEF Grows
<1>3. CASE G = {}
  BY <1>1, <1>3 DEF ValueIn
<1>4. CASE G # {}
  <2>1. G \in SUBSET Nat /\ \A j \in G : j <= Len(f)
    BY <1>1, <1>2
  <2>2. Max(G) \in G
    BY <2>1, <1>2, <1>4, MaxIsThere
  <2>3. g[Max(G)] = f[Max(G)]
    BY <2>2, <1>1 DEF Grows
  <2> QED
    BY <2>3, <1>1, <1>4 DEF ValueIn
<1> QED
  BY <1>3, <1>4

\* With such a line the value is that of the line.
LEMMA ValueIsNew ==
    ASSUME NEW f, NEW g, Grows(f, g), NEW i \in DOMAIN f, NEW w, NEW default,
           Len(g) \in GivenIn(g, i, w)
    PROVE  ValueIn(g, i, w, default) = g[Len(g)].value
<1> DEFINE G == GivenIn(g, i, w)
<1>1. G \ {Len(g)} = GivenIn(f, i, w) /\ GivenIn(f, i, w) \subseteq 1..Len(f)
  BY GivenGrows
<1>2. Len(f) \in Nat /\ Len(g) = Len(f) + 1
  BY DEF Grows
<1>3. G \in SUBSET Nat /\ \A j \in G : j <= Len(g)
  BY <1>1, <1>2
<1>4. Max(G) = Len(g)
  BY <1>3, MaxIs
<1> QED
  BY <1>4 DEF ValueIn

-----------------------------------------------------------------------------
(* Types.                                                                  *)

\* Entries stay entries, and what a line holds has the type its word calls for.
LEMMA EntryTypes ==
    /\ NoEntry \in Entry
    /\ \A l \in Labels : NewEntry(l) \in Entry
    /\ \A e \in Entry : /\ AfterGetInitrd(e) \in Entry
                        /\ \A k \in Kernels : SetKernel(e, k) \in Entry
                        /\ \A a \in AppendLine : SetAppend(e, a) \in Entry
<1>1. EmptyAppend \in AppendLine
  BY EntryAssumption DEF EmptyAppend, AppendLine
<1>2. NoEntry \in Entry
  BY <1>1 DEF NoEntry, Entry
<1>3. \A l \in Labels : NewEntry(l) \in Entry
  BY <1>2 DEF NewEntry, Entry
<1>4. ASSUME NEW e \in Entry
      PROVE  AfterGetInitrd(e) \in Entry
  <2>1. e.append \in AppendLine /\ e.initrd \in Initrds \union {NoInitrd}
    BY DEF Entry
  <2>2. e.append.initrd \in Initrds \union {NoInitrd, NoParameter}
    BY <2>1 DEF AppendLine
  <2>3. GetInitrd(e) \in Initrds \union {NoInitrd}
    BY <2>1, <2>2 DEF GetInitrd
  <2> QED
    BY <2>3 DEF AfterGetInitrd, Entry
<1>5. ASSUME NEW e \in Entry, NEW k \in Kernels
      PROVE  SetKernel(e, k) \in Entry
  BY DEF SetKernel, Entry
<1>6. ASSUME NEW e \in Entry, NEW a \in AppendLine
      PROVE  SetAppend(e, a) \in Entry
  BY DEF SetAppend, Entry
<1> QED
  BY <1>2, <1>3, <1>4, <1>5, <1>6

\* What stands behind a word is what the word calls for.
LEMMA LineTypes ==
    ASSUME NEW line \in Lines
    PROVE  /\ line.word = "say" => line.value \in Texts
           /\ line.word = "label" => line.value \in Labels
           /\ line.word = "kernel" => line.value \in Kernels
           /\ line.word = "append" => line.value \in AppendLine
           /\ line.sep \in Separators
BY DEF Lines, Line, Separators

\* The type invariant is inductive.
LEMMA StepTypes ==
    ASSUME TypeOK, [Next]_vars
    PROVE  TypeOK'
<1> /\ fed \in Seq(Lines) /\ Len(fed) <= MaxLines
    /\ state \in {"global", "entry"}
    /\ message \in Seq(Texts) /\ entries \in Seq(Entry)
    /\ current \in Entry /\ finished \in BOOLEAN
  BY DEF TypeOK
<1>1. ASSUME NEW line \in Lines, NextLine(line),
             \/ FeedSay(line) \/ FeedFirstLabel(line) \/ FeedNextLabel(line)
             \/ FeedKernel(line) \/ FeedAppend(line) \/ FeedSkipped(line)
      PROVE  TypeOK'
  <2>1. fed' \in Seq(Lines) /\ Len(fed') <= MaxLines /\ finished' \in BOOLEAN
    <3>1. /\ fed \in Seq(Lines) /\ Len(fed) < MaxLines
          /\ fed' = Append(fed, line) /\ finished' = FALSE
      BY <1>1 DEF NextLine
    <3>2. Len(fed') = Len(fed) + 1 /\ Len(fed) \in Nat /\ fed' \in Seq(Lines)
      BY ONLY <3>1, <1>1
    <3>3. Len(fed') <= MaxLines
      BY ONLY <3>1, <3>2, ParserAssumption
    <3> QED
      BY ONLY <3>1, <3>2, <3>3
  <2>2. /\ line.word = "say" => line.value \in Texts
        /\ line.word = "label" => line.value \in Labels
        /\ line.word = "kernel" => line.value \in Kernels
        /\ line.word = "append" => line.value \in AppendLine
    BY <1>1, LineTypes
  <2>3. CASE FeedSay(line)
    BY <2>1, <2>2, <2>3 DEF TypeOK, FeedSay, AddMessage
  <2>4. CASE FeedFirstLabel(line)
    BY <2>1, <2>2, <2>4, EntryTypes DEF TypeOK, FeedFirstLabel
  <2>5. CASE FeedNextLabel(line)
    <3>1. AfterGetInitrd(current) \in Entry /\ current' \in Entry
      BY <2>2, <2>5, EntryTypes DEF FeedNextLabel
    <3> QED
      BY <2>1, <2>5, <3>1 DEF TypeOK, FeedNextLabel, AddEntry
  <2>6. CASE FeedKernel(line)
    BY <2>1, <2>2, <2>6, EntryTypes DEF TypeOK, FeedKernel
  <2>7. CASE FeedAppend(line)
    BY <2>1, <2>2, <2>7, EntryTypes DEF TypeOK, FeedAppend
  <2>8. CASE FeedSkipped(line)
    BY <2>1, <2>8 DEF TypeOK, FeedSkipped
  <2> QED
    BY <1>1, <2>3, <2>4, <2>5, <2>6, <2>7, <2>8
<1>2. CASE FinishParsing
  <2>1. entries' \in Seq(Entry)
    <3>1. entries' = entries \/ entries' = Append(entries, current)
      BY <1>2 DEF FinishParsing, AddEntry
    <3>2. entries \in Seq(Entry) /\ current \in Entry
      OBVIOUS
    <3> QED
      BY ONLY <3>1, <3>2
  <2> QED
    BY <1>2, <2>1 DEF TypeOK, FinishParsing
<1>3. CASE UNCHANGED vars
  BY <1>3 DEF TypeOK, vars
<1> QED
  BY <1>1, <1>2, <1>3 DEF Next, FeedLine, Parsed

-----------------------------------------------------------------------------
(* Sections and one more line.                                             *)

\* A section that the line adds nothing to is described by the same entry.
LEMMA DescribedStill ==
    ASSUME NEW f, NEW g, Grows(f, g), NEW i \in DOMAIN f, NEW e,
           Describes(f, e, i),
           Len(g) \notin GivenIn(g, i, "kernel"),
           Len(g) \notin GivenIn(g, i, "append")
    PROVE  Describes(g, e, i)
<1>1. g[i] = f[i]
  BY DEF Grows
<1>2. ValueIn(g, i, "kernel", NoKernel) = ValueIn(f, i, "kernel", NoKernel)
  BY ValueStays
<1>3. ValueIn(g, i, "append", EmptyAppend) = ValueIn(f, i, "append", EmptyAppend)
  BY ValueStays
<1> QED
  BY <1>1, <1>2, <1>3 DEF Describes

\* A line that starts no section leaves the starts where they are.
LEMMA HeadsStay ==
    ASSUME NEW f, NEW g, Grows(f, g), NEW n, NEW s, Heads(f, n, s),
           Len(g) \notin StartsOf(g)
    PROVE  Heads(g, n, s)
<1>1. StartsOf(g) = StartsOf(f)
  BY StartsStay
<1>2. DOMAIN f \subseteq DOMAIN g
  BY DEF Grows
<1> QED
  BY <1>1, <1>2 DEF Heads

\* One more start.
OneMore(n, s, i) == [k \in 1..(n + 1) |-> IF k = n + 1 THEN i ELSE s[k]]

\* A line that starts a section is the last start.
LEMMA HeadsGrow ==
    ASSUME NEW f, NEW g, Grows(f, g), NEW n, NEW s, Heads(f, n, s),
           Len(g) \in StartsOf(g)
    PROVE  Heads(g, n + 1, OneMore(n, s, Len(g)))
<1> DEFINE t == OneMore(n, s, Len(g))
<1>1. n \in Nat /\ s \in [1..n -> DOMAIN f]
  BY DEF Heads
<1>2. DOMAIN f = 1..Len(f) /\ DOMAIN g = 1..Len(g) /\ Len(g) = Len(f) + 1
      /\ Len(f) \in Nat
  BY DEF Grows
<1>3. t[n + 1] = Len(g) /\ \A k \in 1..n : t[k] = s[k]
  BY <1>1 DEF OneMore
<1>4. t \in [1..(n + 1) -> DOMAIN g]
  BY <1>1, <1>2 DEF OneMore
<1>5. \A j, k \in 1..(n + 1) : j < k => t[j] < t[k]
  <2>1. SUFFICES ASSUME NEW j \in 1..(n + 1), NEW k \in 1..(n + 1), j < k
                 PROVE  t[j] < t[k]
    OBVIOUS
  <2>2. j \in 1..n /\ t[j] = s[j] /\ s[j] \in 1..Len(f)
    BY <1>1, <1>2, <1>3, <2>1
  <2>3. CASE k = n + 1
    BY <2>2, <2>3, <1>2, <1>3
  <2>4. CASE k \in 1..n
    BY <2>2, <2>4, <1>3, <2>1 DEF Heads
  <2> QED
    BY <2>3, <2>4, <1>1
<1>6. StartsOf(g) = StartsOf(f) \union {Len(g)}
  BY StartsStay
<1>7. StartsOf(g) = {t[k] : k \in 1..(n + 1)}
  <2>1. StartsOf(f) = {s[k] : k \in 1..n}
    BY DEF Heads
  <2>2. {t[k] : k \in 1..(n + 1)} = {s[k] : k \in 1..n} \union {Len(g)}
    <3> HIDE DEF t
    <3>1. 1..(n + 1) = (1..n) \union {n + 1}
      BY <1>1
    <3> QED
      BY <3>1, <1>3
  <2> QED
    BY <2>1, <2>2, <1>6
<1>8. n + 1 \in Nat
  BY <1>1
<1> QED
  BY <1>4, <1>5, <1>7, <1>8 DEF Heads

\* What a start is.
LEMMA HeadIs ==
    ASSUME NEW f, NEW n, NEW s, Heads(f, n, s), NEW k \in 1..n
    PROVE  /\ s[k] \in DOMAIN f /\ s[k] \in StartsOf(f)
           /\ f[s[k]].word = "label"
<1>1. s[k] \in StartsOf(f)
  BY DEF Heads
<1> QED
  BY <1>1 DEF Heads, StartsOf

\* A line adds nothing to a section that another one follows.
LEMMA OldSections ==
    ASSUME NEW f, NEW g, Grows(f, g), NEW n, NEW s, Heads(f, n, s),
           NEW k \in 1..n, k < n \/ Len(g) \in StartsOf(g), NEW w
    PROVE  Len(g) \notin GivenIn(g, s[k], w)
<1>1. s[k] \in DOMAIN f
  BY HeadIs
<1>2. Len(g) \in SectionOf(g, s[k]) =>
          /\ Len(g) \notin StartsOf(g)
          /\ \A i \in StartsOf(f) : i <= s[k]
  BY <1>1, SectionsGrow
<1>3. ASSUME k < n
      PROVE  \E i \in StartsOf(f) : ~(i <= s[k])
  <2>1. n \in 1..n /\ n \in Nat
    BY <1>3 DEF Heads
  <2>2. s[k] < s[n] /\ s[n] \in StartsOf(f)
    BY <2>1, <1>3 DEF Heads
  <2>3. s[k] \in Nat /\ s[n] \in Nat
    BY <2>1, HeadIs, StartsStay DEF Grows
  <2> QED
    BY <2>2, <2>3
<1> QED
  BY <1>1, <1>2, <1>3, GivenGrows

\* A line that starts no section is part of the last one.
LEMMA LastSection ==
    ASSUME NEW f, NEW g, Grows(f, g), NEW n, NEW s, Heads(f, n, s), n > 0,
           Len(g) \notin StartsOf(g)
    PROVE  /\ n \in 1..n
           /\ \A w : Len(g) \in GivenIn(g, s[n], w) <=>
                         g[Len(g)].word = w /\ g[Len(g)].sep = "space"
<1>1. n \in 1..n /\ n \in Nat
  BY DEF Heads
<1>2. s[n] \in DOMAIN f
  BY <1>1, HeadIs
<1>3. \A i \in StartsOf(f) : i <= s[n]
  <2>1. SUFFICES ASSUME NEW k \in 1..n
                 PROVE  s[k] <= s[n]
    BY DEF Heads
  <2>2. s[k] \in Nat /\ s[n] \in Nat
    BY <1>1, HeadIs DEF Grows
  <2>3. k < n => s[k] < s[n]
    BY <1>1 DEF Heads
  <2> QED
    BY <2>2, <2>3, <1>1
<1>4. Len(g) \in SectionOf(g, s[n])
  BY <1>2, <1>3, SectionsGrow
<1> QED
  BY <1>1, <1>2, <1>4, GivenGrows

\* A new section is described by a new entry.
LEMMA NewSection ==
    ASSUME NEW f, NEW g, Grows(f, g)
    PROVE  Describes(g, NewEntry(g[Len(g)].value), Len(g))
<1>1. SectionOf(g, Len(g)) = {}
  BY DEF SectionOf, Grows
<1>2. \A w : GivenIn(g, Len(g), w) = {}
  BY <1>1 DEF GivenIn
<1>3. /\ ValueIn(g, Len(g), "kernel", NoKernel) = NoKernel
      /\ ValueIn(g, Len(g), "append", EmptyAppend) = EmptyAppend
  BY <1>2 DEF ValueIn
<1> QED
  BY <1>3 DEF Describes, NewEntry, NoEntry, EmptyAppend, GetInitrd, InitrdIn

\* Asking an entry for its initrd does not change what it describes.
LEMMA AskedIsTheSame ==
    ASSUME NEW e \in Entry, NEW f, NEW i, Describes(f, e, i)
    PROVE  Describes(f, AfterGetInitrd(e), i)
<1> DEFINE a == AfterGetInitrd(e)
<1>1. /\ a.valid = e.valid /\ a.label = e.label /\ a.kernel = e.kernel
      /\ a.append = e.append /\ a.initrd = GetInitrd(e) /\ a.initrdParsed
  BY DEF AfterGetInitrd, Entry
<1>2. GetInitrd(a) = GetInitrd(e)
  BY <1>1 DEF GetInitrd
<1>3. Describes(f, a, i)
  <2> HIDE DEF a
  <2> QED
    BY <1>1, <1>2 DEF Describes
<1> QED
  BY <1>3

-----------------------------------------------------------------------------
(* The invariant is inductive.                                             *)

\* The invariant from its parts.
LEMMA ToldBy ==
    ASSUME NEW f, NEW st, NEW es, NEW cur, NEW fin, NEW n, NEW s,
           GlobalInv(f, st, es, cur), Heads(f, n, s), Len(f) \in Nat,
           DOMAIN f = 1..Len(f), EntryInv(f, st, es, cur, fin, n, s)
    PROVE  Told(f, st, es, cur, fin)
<1>1. n \in Nat /\ s \in [1..n -> DOMAIN f]
  BY DEF Heads
<1>2. n <= Len(f)
  <2>1. \A k \in 1..n : s[k] >= k
    <3> DEFINE T == {k \in 1..n : s[k] < k}
    <3>1. SUFFICES ASSUME T # {}
                   PROVE  FALSE
      BY <1>1
    <3>2. PICK k \in T : \A j \in T : k <= j
      <4>1. T \in SUBSET Nat
        OBVIOUS
      <4> HIDE DEF T
      <4> QED
        BY <3>1, <4>1, LeastMember
    <3>3. k \in 1..n /\ s[k] < k /\ s[k] \in 1..Len(f)
      BY <3>2, <1>1
    <3>4. k - 1 \in 1..n /\ k - 1 < k
      BY <3>3, <1>1
    <3>5. s[k - 1] < s[k] /\ s[k - 1] \in 1..Len(f)
      BY <3>3, <3>4, <1>1 DEF Heads
    <3>6. k - 1 \in T /\ ~(k <= k - 1)
      BY <3>3, <3>4, <3>5
    <3> QED
      BY <3>6, <3>2
  <2>2. CASE n = 0
    BY <2>2
  <2>3. CASE n > 0
    <3>1. n \in 1..n
      BY <2>3, <1>1
    <3> QED
      BY <3>1, <2>1, <1>1
  <2> QED
    BY <2>2, <2>3, <1>1
<1> QED
  BY <1>1, <1>2 DEF Told

\* The invariant holds of the empty file.
LEMMA InitInv ==
    Init => ParserInv
<1> SUFFICES ASSUME Init
             PROVE  ParserInv
  OBVIOUS
<1>1. TypeOK
  <2>1. fed \in Seq(Lines) /\ Len(fed) = 0
    BY DEF Init
  <2>2. Len(fed) <= MaxLines
    BY <2>1, ParserAssumption
  <2>3. <<>> \in Seq(Texts) /\ <<>> \in Seq(Entry) /\ NoEntry \in Entry
    BY EntryTypes
  <2>4. /\ state = "global" /\ message = <<>> /\ entries = <<>>
        /\ current = NoEntry /\ finished = FALSE
    BY DEF Init
  <2> QED
    BY <2>1, <2>2, <2>3, <2>4 DEF TypeOK
<1>2. SectionInv
  <2>1. DOMAIN fed = {} /\ DOMAIN fed = 1..Len(fed) /\ Len(fed) = 0 /\ Len(entries) = 0 /\ DOMAIN entries = {}
    BY DEF Init
  <2>2. StartsOf(fed) = {}
    BY <2>1 DEF StartsOf
  <2> DEFINE s == [k \in 1..0 |-> 0]
  <2>3. s \in [1..0 -> DOMAIN fed]
    OBVIOUS
  <2>4. Heads(fed, 0, s)
    BY <2>2, <2>3 DEF Heads
  <2>5. EntryInv(fed, state, entries, current, finished, 0, s)
    BY <2>1 DEF EntryInv, Init
  <2>6. GlobalInv(fed, state, entries, current)
    BY <2>1 DEF GlobalInv, Init
  <2> HIDE DEF s
  <2> QED
    BY <2>1, <2>4, <2>5, <2>6, ToldBy DEF SectionInv
<1> QED
  BY <1>1, <1>2 DEF ParserInv

\* The lines that add nothing to any section but the last leave the entries as
\* they are.
LEMMA EntriesKept ==
    ASSUME NEW f, NEW g, Grows(f, g), NEW n, NEW s, Heads(f, n, s), NEW es,
           \A k \in DOMAIN es : Describes(f, es[k], s[k]),
           \A k \in DOMAIN es : k \in 1..n,
           \/ \A k \in DOMAIN es : k < n
           \/ Len(g) \in StartsOf(g)
    PROVE  \A k \in DOMAIN es : Describes(g, es[k], s[k])
<1>1. SUFFICES ASSUME NEW k \in DOMAIN es
               PROVE  Describes(g, es[k], s[k])
  OBVIOUS
<1>2. k \in 1..n /\ s[k] \in DOMAIN f
  BY HeadIs
<1>3. \A w : Len(g) \notin GivenIn(g, s[k], w)
  BY <1>2, OldSections
<1> QED
  BY <1>2, <1>3, DescribedStill

\* Before the first label there is nothing.
LEMMA GlobalStep ==
    ASSUME NEW f, NEW g, Grows(f, g), NEW n, NEW s, Heads(f, n, s), NEW es,
           NEW cur, NEW fin,
           GlobalInv(f, "global", es, cur),
           EntryInv(f, "global", es, cur, fin, n, s),
           g[Len(g)].word # "label"
    PROVE  Told(g, "global", es, cur, FALSE)
<1>1. \A j \in DOMAIN g : g[j].word # "label"
  BY DEF GlobalInv, Grows
<1>2. Len(g) \notin StartsOf(g)
  BY <1>1 DEF StartsOf
<1>3. Heads(g, n, s)
  BY <1>2, HeadsStay
<1>4. GlobalInv(g, "global", es, cur)
  BY <1>1 DEF GlobalInv
<1>5. es = <<>> /\ Len(es) = n
  BY DEF GlobalInv, EntryInv
<1>6. DOMAIN es = {}
  BY <1>5
<1>7. EntryInv(g, "global", es, cur, FALSE, n, s)
  BY <1>5, <1>6 DEF EntryInv
<1>8. Len(g) \in Nat /\ DOMAIN g = 1..Len(g)
  BY DEF Grows
<1> QED
  BY <1>3, <1>4, <1>7, <1>8, ToldBy

\* The first label starts the first section.
LEMMA FirstLabelStep ==
    ASSUME NEW f, NEW g, Grows(f, g), NEW n, NEW s, Heads(f, n, s), NEW es,
           NEW cur, NEW fin,
           GlobalInv(f, "global", es, cur),
           EntryInv(f, "global", es, cur, fin, n, s),
           g[Len(g)].word = "label"
    PROVE  Told(g, "entry", es, NewEntry(g[Len(g)].value), FALSE)
<1>1. Len(g) \in Nat /\ DOMAIN g = 1..Len(g) /\ Len(g) \in DOMAIN g
      /\ Len(g) = Len(f) + 1 /\ DOMAIN f = 1..Len(f) /\ Len(f) \in Nat
  BY DEF Grows
<1>2. \A j \in 1..(Len(g) - 1) : g[j].word # "label"
  BY <1>1 DEF GlobalInv, Grows
<1>3. Len(g) \in StartsOf(g)
  BY <1>1, <1>2 DEF StartsOf
<1>4. es = <<>> /\ Len(es) = n
  BY DEF GlobalInv, EntryInv
<1>5. DOMAIN es = {} /\ n = 0
  BY <1>4
<1> DEFINE t == OneMore(n, s, Len(g))
<1>6. Heads(g, n + 1, t)
  BY <1>3, HeadsGrow
<1>7. t[n + 1] = Len(g)
  BY <1>5 DEF OneMore
<1>8. Describes(g, NewEntry(g[Len(g)].value), Len(g))
  BY NewSection
<1>9. NewEntry(g[Len(g)].value).initrd = NoInitrd
      /\ ~NewEntry(g[Len(g)].value).initrdParsed
  BY DEF NewEntry, NoEntry
<1>10. EntryInv(g, "entry", es, NewEntry(g[Len(g)].value), FALSE, n + 1, t)
  <2> HIDE DEF t
  <2> QED
    BY <1>4, <1>5, <1>7, <1>8, <1>9 DEF EntryInv
<1>11. GlobalInv(g, "entry", es, NewEntry(g[Len(g)].value))
  BY DEF GlobalInv
<1> QED
  BY <1>1, <1>6, <1>10, <1>11, ToldBy

\* Another label puts the entry into the list and starts the next section.
LEMMA NextLabelStep ==
    ASSUME NEW f, NEW g, Grows(f, g), NEW n, NEW s, Heads(f, n, s),
           NEW es \in Seq(Entry), NEW cur \in Entry,
           EntryInv(f, "entry", es, cur, FALSE, n, s),
           g[Len(g)].word = "label", g[Len(g)].sep = "space"
    PROVE  Told(g, "entry", Append(es, AfterGetInitrd(cur)),
                NewEntry(g[Len(g)].value), FALSE)
<1> DEFINE t  == OneMore(n, s, Len(g))
           e  == NewEntry(g[Len(g)].value)
           a  == AfterGetInitrd(cur)
           ts == Append(es, a)
<1>1. Len(g) \in Nat /\ DOMAIN g = 1..Len(g) /\ Len(g) \in DOMAIN g
  BY DEF Grows
<1>2. Len(g) \in StartsOf(g)
  BY <1>1 DEF StartsOf
<1>3. Heads(g, n + 1, t)
  BY <1>2, HeadsGrow
<1>4. n \in Nat /\ n > 0 /\ n \in 1..n /\ Len(es) = n - 1 /\ DOMAIN es = 1..(n - 1)
  <2>1. Len(es) = n - 1 /\ n > 0
    BY DEF EntryInv
  <2>2. n \in Nat
    BY DEF Heads
  <2> QED
    BY <2>1, <2>2
<1>5. t[n + 1] = Len(g) /\ \A k \in 1..n : t[k] = s[k]
  BY <1>4 DEF OneMore
<1>6. Describes(g, e, Len(g)) /\ e.initrd = NoInitrd /\ ~e.initrdParsed
  BY NewSection DEF NewEntry, NoEntry
<1>7. \A k \in DOMAIN es : Describes(g, es[k], s[k])
  <2>1. \A k \in DOMAIN es : k \in 1..n
    BY <1>4
  <2>2. \A k \in DOMAIN es : Describes(f, es[k], s[k])
    BY DEF EntryInv
  <2> QED
    BY <1>2, <2>1, <2>2, EntriesKept
<1>8. Describes(g, a, s[n])
  <2>1. Describes(f, cur, s[n])
    BY DEF EntryInv
  <2>2. Describes(f, a, s[n])
    BY <2>1, AskedIsTheSame
  <2>3. s[n] \in DOMAIN f
    BY <1>4, HeadIs
  <2>4. \A w : Len(g) \notin GivenIn(g, s[n], w)
    BY <1>2, <1>4, OldSections
  <2> QED
    BY <2>2, <2>3, <2>4, DescribedStill
<1>9. /\ Len(ts) = n /\ DOMAIN ts = 1..n
      /\ ts[n] = a
      /\ \A k \in 1..(n - 1) : ts[k] = es[k]
  BY <1>4
<1>10. EntryInv(g, "entry", ts, e, FALSE, n + 1, t)
  <2> HIDE DEF t, e, a, ts
  <2>1. Len(ts) = (n + 1) - 1 /\ n + 1 > 0
    BY <1>4, <1>9
  <2>2. \A k \in DOMAIN ts : Describes(g, ts[k], t[k])
    <3>1. SUFFICES ASSUME NEW k \in 1..n
                   PROVE  Describes(g, ts[k], t[k])
      BY <1>9
    <3>2. CASE k = n
      BY <3>2, <1>4, <1>5, <1>8, <1>9
    <3>3. CASE k \in 1..(n - 1)
      BY <3>3, <1>4, <1>5, <1>7, <1>9
    <3> QED
      BY <3>2, <3>3, <1>4
  <2> QED
    BY <2>1, <2>2, <1>5, <1>6 DEF EntryInv
<1>11. GlobalInv(g, "entry", ts, e)
  BY DEF GlobalInv
<1> QED
  BY <1>1, <1>3, <1>10, <1>11, ToldBy

\* Any other line inside an entry is about the last section or about none.
LEMMA EntryStep ==
    ASSUME NEW f, NEW g, Grows(f, g), NEW n, NEW s, Heads(f, n, s),
           NEW es \in Seq(Entry), NEW cur, NEW new,
           EntryInv(f, "entry", es, cur, FALSE, n, s),
           g[Len(g)].word = "label" => g[Len(g)].sep # "space",
           Describes(f, cur, s[n]) /\ Len(g) \notin StartsOf(g) =>
               /\ Describes(g, new, s[n])
               /\ new.initrd = NoInitrd /\ ~new.initrdParsed
    PROVE  Told(g, "entry", es, new, FALSE)
<1>1. Len(g) \in Nat /\ DOMAIN g = 1..Len(g)
      /\ Len(g) = Len(f) + 1 /\ DOMAIN f = 1..Len(f) /\ Len(f) \in Nat
  BY DEF Grows
<1>2. n \in Nat /\ n > 0 /\ n \in 1..n /\ Len(es) = n - 1 /\ DOMAIN es = 1..(n - 1)
  <2>1. Len(es) = n - 1 /\ n > 0
    BY DEF EntryInv
  <2>2. n \in Nat
    BY DEF Heads
  <2> QED
    BY <2>1, <2>2
<1>3. Len(g) \notin StartsOf(g)
  <2>1. s[n] \in 1..(Len(g) - 1) /\ g[s[n]].word = "label"
    BY <1>1, <1>2, HeadIs DEF Grows
  <2> QED
    BY <2>1 DEF StartsOf
<1>4. Heads(g, n, s)
  BY <1>3, HeadsStay
<1>5. \A k \in DOMAIN es : Describes(g, es[k], s[k])
  <2>1. \A k \in DOMAIN es : k \in 1..n /\ k < n
    BY <1>2
  <2>2. \A k \in DOMAIN es : Describes(f, es[k], s[k])
    BY DEF EntryInv
  <2> QED
    BY <2>1, <2>2, EntriesKept
<1>6. Describes(g, new, s[n]) /\ new.initrd = NoInitrd /\ ~new.initrdParsed
  BY <1>3 DEF EntryInv
<1>7. EntryInv(g, "entry", es, new, FALSE, n, s)
  BY <1>2, <1>5, <1>6 DEF EntryInv
<1>8. GlobalInv(g, "entry", es, new)
  BY DEF GlobalInv
<1> QED
  BY <1>1, <1>4, <1>7, <1>8, ToldBy

\* Every step keeps what the lines so far have told.
LEMMA StepTold ==
    ASSUME TypeOK, SectionInv, [Next]_vars
    PROVE  SectionInv'
<1>1. /\ fed \in Seq(Lines) /\ entries \in Seq(Entry) /\ current \in Entry
      /\ state \in {"global", "entry"} /\ finished \in BOOLEAN
  BY DEF TypeOK
<1>2. GlobalInv(fed, state, entries, current)
  BY DEF SectionInv, Told
<1>3. PICK n, s : /\ Heads(fed, n, s)
                  /\ EntryInv(fed, state, entries, current, finished, n, s)
  BY DEF SectionInv, Told
<1>4. ASSUME NEW line \in Lines, NextLine(line),
             \/ FeedSay(line) \/ FeedFirstLabel(line) \/ FeedNextLabel(line)
             \/ FeedKernel(line) \/ FeedAppend(line) \/ FeedSkipped(line)
      PROVE  Told(fed', state', entries', current', FALSE)
  <2> DEFINE g == fed'
  <2>1. /\ ~finished /\ fed' = Append(fed, line)
    BY <1>4 DEF NextLine
  <2>2. Grows(fed, g) /\ g[Len(g)] = line
    BY <1>1, <1>4, <2>1, AppendGrows
  <2> HIDE DEF g
  <2>3. EntryInv(fed, state, entries, current, FALSE, n, s)
    BY <1>1, <1>3, <2>1 DEF EntryInv
  <2>4. CASE FeedSay(line)
    <3>1. /\ state = "global" /\ state' = "global" /\ entries' = entries
          /\ current' = current /\ line.word # "label"
      BY <2>4 DEF FeedSay
    <3> QED
      BY <3>1, <1>2, <1>3, <2>2, GlobalStep DEF g
  <2>5. CASE FeedFirstLabel(line)
    <3>1. /\ state = "global" /\ state' = "entry" /\ entries' = entries
          /\ current' = NewEntry(g[Len(g)].value) /\ line.word = "label"
      BY <2>5, <2>2 DEF FeedFirstLabel
    <3> QED
      BY <3>1, <1>2, <1>3, <2>2, FirstLabelStep DEF g
  <2>6. CASE FeedNextLabel(line)
    <3>1. /\ state = "entry" /\ state' = "entry"
          /\ entries' = Append(entries, AfterGetInitrd(current))
          /\ current' = NewEntry(g[Len(g)].value)
          /\ line.word = "label" /\ line.sep = "space"
      BY <2>6, <2>2 DEF FeedNextLabel, AddEntry
    <3> QED
      BY <3>1, <1>1, <1>3, <2>2, <2>3, NextLabelStep DEF g
  <2>7. ASSUME state = "entry", state' = "entry", entries' = entries,
               line.word = "label" => line.sep # "space",
               Describes(fed, current, s[n]) /\ Len(g) \notin StartsOf(g) =>
                   /\ Describes(g, current', s[n])
                   /\ current'.initrd = NoInitrd /\ ~current'.initrdParsed
        PROVE  Told(g, state', entries', current', FALSE)
    BY <2>7, <1>1, <1>3, <2>2, <2>3, EntryStep
  <2>8. ASSUME state = "entry", Len(g) \notin StartsOf(g)
        PROVE  /\ s[n] \in DOMAIN fed
               /\ current.initrd = NoInitrd /\ ~current.initrdParsed
               /\ \A w : Len(g) \in GivenIn(g, s[n], w) <=>
                             line.word = w /\ line.sep = "space"
    <3>1. n > 0 /\ current.initrd = NoInitrd /\ ~current.initrdParsed
      BY <2>3, <2>8 DEF EntryInv
    <3>2. /\ n \in 1..n
          /\ \A w : Len(g) \in GivenIn(g, s[n], w) <=>
                        g[Len(g)].word = w /\ g[Len(g)].sep = "space"
      BY <3>1, <1>3, <2>2, <2>8, LastSection
    <3>3. s[n] \in DOMAIN fed
      BY <3>2, <1>3, HeadIs
    <3> QED
      BY <3>1, <3>2, <3>3, <2>2
  <2>9. CASE FeedKernel(line)
    <3>1. /\ state = "entry" /\ state' = "entry" /\ entries' = entries
          /\ current' = SetKernel(current, line.value)
          /\ line.word = "kernel" /\ line.sep = "space"
      BY <2>9 DEF FeedKernel
    <3>2. ASSUME Describes(fed, current, s[n]), Len(g) \notin StartsOf(g)
          PROVE  /\ Describes(g, current', s[n])
                 /\ current'.initrd = NoInitrd /\ ~current'.initrdParsed
      <4>1. /\ s[n] \in DOMAIN fed
            /\ current.initrd = NoInitrd /\ ~current.initrdParsed
            /\ Len(g) \in GivenIn(g, s[n], "kernel")
            /\ Len(g) \notin GivenIn(g, s[n], "append")
        BY <3>1, <3>2, <2>8
      <4>2. ValueIn(g, s[n], "kernel", NoKernel) = line.value
        BY <4>1, <2>2, ValueIsNew
      <4>3. ValueIn(g, s[n], "append", EmptyAppend) = ValueIn(fed, s[n], "append", EmptyAppend)
        BY <4>1, <2>2, ValueStays
      <4>4. g[s[n]] = fed[s[n]]
        BY <4>1, <2>2 DEF Grows
      <4>5. /\ current'.valid = current.valid /\ current'.label = current.label
            /\ current'.kernel = line.value /\ current'.append = current.append
            /\ current'.initrd = current.initrd
            /\ current'.initrdParsed = current.initrdParsed
        BY <3>1, <1>1 DEF SetKernel, Entry
      <4>6. GetInitrd(current') = GetInitrd(current)
        BY <4>5 DEF GetInitrd
      <4> QED
        BY <4>1, <4>2, <4>3, <4>4, <4>5, <4>6, <3>2 DEF Describes
    <3> QED
      BY <3>1, <3>2, <2>7 DEF g
  <2>10. CASE FeedAppend(line)
    <3>1. /\ state = "entry" /\ state' = "entry" /\ entries' = entries
          /\ current' = SetAppend(current, line.value)
          /\ line.word = "append" /\ line.sep = "space"
      BY <2>10 DEF FeedAppend
    <3>2. ASSUME Describes(fed, current, s[n]), Len(g) \notin StartsOf(g)
          PROVE  /\ Describes(g, current', s[n])
                 /\ current'.initrd = NoInitrd /\ ~current'.initrdParsed
      <4>1. /\ s[n] \in DOMAIN fed
            /\ current.initrd = NoInitrd /\ ~current.initrdParsed
            /\ Len(g) \in GivenIn(g, s[n], "append")
            /\ Len(g) \notin GivenIn(g, s[n], "kernel")
        BY <3>1, <3>2, <2>8
      <4>2. ValueIn(g, s[n], "append", EmptyAppend) = line.value
        BY <4>1, <2>2, ValueIsNew
      <4>3. ValueIn(g, s[n], "kernel", NoKernel) = ValueIn(fed, s[n], "kernel", NoKernel)
        BY <4>1, <2>2, ValueStays
      <4>4. g[s[n]] = fed[s[n]]
        BY <4>1, <2>2 DEF Grows
      <4>5. /\ current'.valid = current.valid /\ current'.label = current.label
            /\ current'.kernel = current.kernel /\ current'.append = line.value
            /\ current'.initrd = current.initrd /\ ~current'.initrdParsed
        BY <3>1, <1>1 DEF SetAppend, Entry
      <4>6. GetInitrd(current') = InitrdIn(current'.append)
        BY <4>1, <4>5 DEF GetInitrd, InitrdIn
      <4> QED
        BY <4>1, <4>2, <4>3, <4>4, <4>5, <4>6, <3>2 DEF Describes
    <3> QED
      BY <3>1, <3>2, <2>7 DEF g
  <2>11. CASE FeedSkipped(line)
    <3>1. /\ ~Understood(line) /\ state' = state /\ entries' = entries
          /\ current' = current
      BY <2>11 DEF FeedSkipped
    <3>2. CASE state = "global"
      <4>1. line.word # "label"
        BY <3>1, <3>2 DEF Understood
      <4> QED
        BY <4>1, <3>1, <3>2, <1>2, <1>3, <2>2, GlobalStep DEF g
    <3>3. CASE state = "entry"
      <4>1. line.word \in {"label", "kernel", "append"} => line.sep # "space"
        BY <3>1, <3>3 DEF Understood
      <4>2. ASSUME Describes(fed, current, s[n]), Len(g) \notin StartsOf(g)
            PROVE  /\ Describes(g, current', s[n])
                   /\ current'.initrd = NoInitrd /\ ~current'.initrdParsed
        <5>1. /\ s[n] \in DOMAIN fed
              /\ current.initrd = NoInitrd /\ ~current.initrdParsed
              /\ Len(g) \notin GivenIn(g, s[n], "append")
              /\ Len(g) \notin GivenIn(g, s[n], "kernel")
          BY <3>3, <4>1, <4>2, <2>8
        <5> QED
          BY <5>1, <3>1, <4>2, <2>2, DescribedStill
      <4> QED
        BY <3>1, <3>3, <4>1, <4>2, <2>7 DEF g
    <3> QED
      BY <3>2, <3>3, <1>1
  <2> QED
    BY <1>4, <2>4, <2>5, <2>6, <2>9, <2>10, <2>11
<1>5. CASE FeedLine
  <2>1. PICK line \in Lines :
            /\ NextLine(line)
            /\ \/ FeedSay(line) \/ FeedFirstLabel(line) \/ FeedNextLabel(line)
               \/ FeedKernel(line) \/ FeedAppend(line) \/ FeedSkipped(line)
    BY <1>5 DEF FeedLine
  <2>2. finished' = FALSE
    BY <2>1 DEF NextLine
  <2>3. Told(fed', state', entries', current', FALSE)
    BY <2>1, <1>4
  <2> QED
    BY <2>2, <2>3 DEF SectionInv
<1>6. CASE FinishParsing
  <2>1. /\ ~finished /\ finished' = TRUE /\ fed' = fed /\ state' = state
        /\ current' = current
        /\ IF current.valid THEN entries' = Append(entries, current)
                            ELSE entries' = entries
    BY <1>6 DEF FinishParsing, AddEntry
  <2>2. Len(fed) \in Nat /\ DOMAIN fed = 1..Len(fed)
    BY <1>1
  <2>3. CASE state = "global"
    <3>1. entries = <<>> /\ current = NoEntry /\ ~current.valid
      BY <2>3, <1>2 DEF GlobalInv, NoEntry
    <3>2. EntryInv(fed, state, entries, current, TRUE, n, s)
      BY <2>3, <1>3 DEF EntryInv
    <3> QED
      BY <3>1, <3>2, <2>1, <2>2, <1>2, <1>3, ToldBy DEF SectionInv
  <2>4. CASE state = "entry"
    <3>1. /\ Len(entries) = n - 1 /\ n > 0
          /\ \A k \in DOMAIN entries : Describes(fed, entries[k], s[k])
          /\ Describes(fed, current, s[n])
          /\ current.initrd = NoInitrd /\ ~current.initrdParsed
      BY <2>1, <2>4, <1>3 DEF EntryInv
    <3>2. entries' = Append(entries, current)
      BY <3>1, <2>1 DEF Describes
    <3>3. n \in Nat
      BY <1>3 DEF Heads
    <3>4. /\ Len(entries') = n /\ DOMAIN entries' = 1..n
          /\ entries'[n] = current
          /\ \A k \in 1..(n - 1) : entries'[k] = entries[k]
          /\ DOMAIN entries = 1..(n - 1)
      BY ONLY <3>1, <3>2, <3>3, <1>1
    <3>5. \A k \in DOMAIN entries' : Describes(fed, entries'[k], s[k])
      <4>1. SUFFICES ASSUME NEW k \in 1..n
                     PROVE  Describes(fed, entries'[k], s[k])
        BY <3>4
      <4>2. CASE k = n
        BY <4>2, <3>1, <3>4
      <4>3. CASE k \in 1..(n - 1)
        BY <4>3, <3>1, <3>4
      <4> QED
        BY <4>2, <4>3, <3>3
    <3>6. EntryInv(fed, state, entries', current, TRUE, n, s)
      BY <2>4, <3>1, <3>4, <3>5 DEF EntryInv
    <3>7. GlobalInv(fed, state, entries', current)
      BY <2>4 DEF GlobalInv
    <3> QED
      BY <3>6, <3>7, <2>1, <2>2, <1>3, ToldBy DEF SectionInv
  <2> QED
    BY <2>3, <2>4, <1>1
<1>7. CASE UNCHANGED vars
  BY <1>7 DEF vars, SectionInv
<1> QED
  BY <1>5, <1>6, <1>7 DEF Next, Parsed

\* The invariant holds in every state of every behaviour.
LEMMA InvHolds ==
    Spec => []ParserInv
<1>1. ParserInv /\ [Next]_vars => ParserInv'
  BY StepTypes, StepTold DEF ParserInv
<1> QED
  BY InitInv, <1>1, PTL DEF Spec

-----------------------------------------------------------------------------
(* The properties.                                                         *)

\* Without the tabs the code reads the file as PxeParser means it.
LEMMA FileMeans ==
    ASSUME fed \in Seq(Lines), TabsOnlyUpToFirstLabel
    PROVE  /\ Starts = StartsOf(fed)
           /\ \A i \in Starts, w \in {"kernel", "append"} : \A default :
                  LastValue(i, w, default) = ValueIn(fed, i, w, default)
<1>0. DOMAIN fed = 1..Len(fed) /\ Len(fed) \in Nat
  OBVIOUS
<1>1. Starts = StartsOf(fed)
  <2>1. ASSUME NEW i \in Starts, NEW j \in 1..(i - 1), fed[j].word = "label"
        PROVE  fed[i].sep = "space"
    <3>1. j \in Starts /\ i \in (j + 1)..Len(fed) /\ fed[i].word = "label"
      BY <2>1, <1>0 DEF Starts
    <3> QED
      BY <3>1 DEF TabsOnlyUpToFirstLabel
  <2> QED
    BY <2>1 DEF Starts, StartsOf
<1>2. \A i : Section(i) = SectionOf(fed, i)
  BY <1>1 DEF Section, SectionOf
<1>3. ASSUME NEW i \in Starts, NEW w \in {"kernel", "append"}
      PROVE  {j \in Section(i) : fed[j].word = w} = GivenIn(fed, i, w)
  <2>1. \A j \in Section(i) : fed[j].word = "say" \/ fed[j].sep = "space"
    BY DEF TabsOnlyUpToFirstLabel, Section
  <2> QED
    BY <2>1, <1>2 DEF GivenIn
<1> QED
  BY <1>1, <1>2, <1>3 DEF LastValue, ValueIn

\* The k-th start is the one with k starts up to it.
LEMMA RankOfHead ==
    ASSUME NEW f, NEW n, NEW s, Heads(f, n, s), Len(f) \in Nat,
           DOMAIN f = 1..Len(f), NEW k \in 0..n
    PROVE  Cardinality({s[j] : j \in 1..k}) = k
<1> DEFINE S == {s[j] : j \in 1..k}
           t == [j \in 1..k |-> s[j]]
<1>1. n \in Nat /\ k \in Nat /\ \A j \in 1..k : j \in 1..n /\ s[j] \in Nat
  BY DEF Heads
<1>2. \A i, j \in 1..k : i # j => s[i] # s[j]
  <2>1. \A i, j \in 1..k : i < j => s[i] < s[j]
    BY <1>1 DEF Heads
  <2>2. \A i, j \in 1..k : i # j => i < j \/ j < i
    BY <1>1
  <2> QED
    BY <2>1, <2>2, <1>1
<1>3. t \in Bijection(1..k, S)
  BY <1>2 DEF Bijection, Injection, Surjection, IsInjective
<1>4. ExistsBijection(1..k, S)
  BY <1>3 DEF ExistsBijection
<1> QED
  BY <1>1, <1>4, FS_CountingElements

\* The n-th section of a file starts at s[n].
LEMMA SectionIs ==
    ASSUME NEW n, NEW s, Heads(fed, n, s), fed \in Seq(Lines),
           TabsOnlyUpToFirstLabel, NEW k \in 1..n
    PROVE  /\ SectionAt(k) = s[k] /\ s[k] \in Starts
           /\ Cardinality(Starts) = n
<1>1. Len(fed) \in Nat /\ DOMAIN fed = 1..Len(fed)
  OBVIOUS
<1>2. Starts = {s[j] : j \in 1..n}
  BY FileMeans DEF Heads
<1>3. n \in Nat /\ n \in 0..n /\ \A j \in 1..n : s[j] \in Nat
  BY <1>1 DEF Heads
<1>4. ASSUME NEW i \in 1..n
      PROVE  Cardinality({j \in Starts : j <= s[i]}) = i
  <2>1. \A j \in 1..n : s[j] <= s[i] <=> j \in 1..i
    <3>1. \A j \in 1..n : /\ j < i => s[j] < s[i]
                          /\ i < j => s[i] < s[j]
      BY DEF Heads
    <3> QED
      BY <3>1, <1>3
  <2>2. {j \in Starts : j <= s[i]} = {s[j] : j \in 1..i}
    BY <1>2, <1>3, <2>1
  <2>3. i \in 0..n
    BY <1>3
  <2> QED
    BY <1>1, <2>2, <2>3, RankOfHead
<1>5. \A i \in Starts : Cardinality({j \in Starts : j <= i}) = k => i = s[k]
  BY <1>2, <1>4
<1>6. s[k] \in Starts /\ Cardinality({j \in Starts : j <= s[k]}) = k
  BY <1>2, <1>4
<1>7. SectionAt(k) = s[k]
  BY <1>5, <1>6 DEF SectionAt
<1>8. Cardinality(Starts) = n
  BY <1>1, <1>2, <1>3, RankOfHead
<1> QED
  BY <1>6, <1>7, <1>8

\* What the invariant says of a file that is parsed.
LEMMA WhenFinished ==
    ASSUME ParserInv, finished
    PROVE  /\ fed \in Seq(Lines) /\ entries \in Seq(Entry)
           /\ \E n, s : /\ Heads(fed, n, s)
                        /\ Len(entries) = n
                        /\ \A k \in DOMAIN entries : Describes(fed, entries[k], s[k])
<1>1. fed \in Seq(Lines) /\ entries \in Seq(Entry)
  BY DEF ParserInv, TypeOK
<1>2. PICK n, s : /\ Heads(fed, n, s)
                  /\ EntryInv(fed, state, entries, current, finished, n, s)
  BY DEF ParserInv, SectionInv, Told
<1> QED
  BY <1>1, <1>2 DEF EntryInv

\* Every variable of the parser has its type, for files of every length.
THEOREM TypeCorrect ==
    Spec => []TypeOK
<1>1. ParserInv => TypeOK
  BY DEF ParserInv
<1> QED
  BY InvHolds, <1>1, PTL

\* The parsed configuration of a file that has tabs up to the first label only
\* has one entry for each section of the file, in the order of the file, with
\* its last kernel and its last append line (feedLine(), finishParsing()).
THEOREM EntriesAreTheSections ==
    Spec => []EntriesAreSections
<1>1. ASSUME ParserInv, finished, TabsOnlyUpToFirstLabel
      PROVE  /\ Len(entries) = Cardinality(Starts)
             /\ \A n \in DOMAIN entries :
                    LET i == SectionAt(n) IN
                    /\ entries[n].valid
                    /\ GetEntryNames[n] = fed[i].value
                    /\ entries[n].kernel = LastValue(i, "kernel", NoKernel)
                    /\ entries[n].append = LastValue(i, "append", EmptyAppend)
  <2>1. fed \in Seq(Lines) /\ entries \in Seq(Entry)
    BY <1>1, WhenFinished
  <2>2. PICK n, s : /\ Heads(fed, n, s)
                    /\ Len(entries) = n
                    /\ \A k \in DOMAIN entries : Describes(fed, entries[k], s[k])
    BY <1>1, WhenFinished
  <2>3. n \in Nat /\ DOMAIN entries = 1..n
    BY <2>1, <2>2
  <2>4. Len(entries) = Cardinality(Starts)
    <3>1. CASE n = 0
      <4>1. Starts = {}
        BY <3>1, <2>1, <2>2, <1>1, FileMeans DEF Heads
      <4> QED
        BY <4>1, <3>1, <2>2, FS_EmptySet
    <3>2. CASE n > 0
      <4>1. n \in 1..n
        BY <3>2, <2>3
      <4> QED
        BY <4>1, <2>1, <2>2, <1>1, SectionIs
    <3> QED
      BY <3>1, <3>2, <2>3
  <2>5. ASSUME NEW k \in DOMAIN entries
        PROVE  LET i == SectionAt(k) IN
               /\ entries[k].valid
               /\ GetEntryNames[k] = fed[i].value
               /\ entries[k].kernel = LastValue(i, "kernel", NoKernel)
               /\ entries[k].append = LastValue(i, "append", EmptyAppend)
    <3>1. SectionAt(k) = s[k] /\ s[k] \in Starts
      BY <2>1, <2>2, <2>3, <1>1, SectionIs
    <3>2. Describes(fed, entries[k], s[k])
      BY <2>2
    <3> QED
      BY <3>1, <3>2, <2>1, <1>1, FileMeans DEF Describes, GetEntryNames
  <2> QED
    BY <2>4, <2>5
<1>2. ParserInv => EntriesAreSections
  BY <1>1 DEF EntriesAreSections
<1> QED
  BY InvHolds, <1>2, PTL

\* The initrd that an entry answers, cached or not, is the one of the append
\* line it ended up with (getInitrd(), setAppend()).
THEOREM CacheIsRight ==
    Spec => []CachedInitrdsAreRight
<1>1. ASSUME ParserInv, finished, NEW k \in DOMAIN entries
      PROVE  GetInitrd(entries[k]) = InitrdIn(entries[k].append)
  BY <1>1, WhenFinished DEF Describes
<1>2. ParserInv => CachedInitrdsAreRight
  BY <1>1 DEF CachedInitrdsAreRight
<1> QED
  BY InvHolds, <1>2, PTL

\* In such a file looking up a label finds the first section with it, whatever
\* the case (getEntry()).
THEOREM FirstIsFound ==
    Spec => []LookupFindsFirst
<1>1. ASSUME ParserInv, finished, TabsOnlyUpToFirstLabel,
             NEW l \in Labels, NEW e \in GetEntry(entries, l)
      PROVE  IF \E i \in Starts : Fold[fed[i].value] = Fold[l]
             THEN LET i == Min({j \in Starts : Fold[fed[j].value] = Fold[l]}) IN
                  /\ e.label = fed[i].value
                  /\ e.kernel = LastValue(i, "kernel", NoKernel)
             ELSE ~e.valid
  <2>1. fed \in Seq(Lines) /\ entries \in Seq(Entry)
    BY <1>1, WhenFinished
  <2>2. PICK n, s : /\ Heads(fed, n, s)
                    /\ Len(entries) = n
                    /\ \A k \in DOMAIN entries : Describes(fed, entries[k], s[k])
    BY <1>1, WhenFinished
  <2>3. n \in Nat /\ DOMAIN entries = 1..n /\ DOMAIN fed = 1..Len(fed) /\ Len(fed) \in Nat
    BY <2>1, <2>2
  <2> DEFINE M == Matches(entries, l)
             T == {j \in Starts : Fold[fed[j].value] = Fold[l]}
  <2>4. \A k \in 1..n : entries[k].label = fed[s[k]].value
    BY <2>2, <2>3 DEF Describes
  <2>5. M \subseteq 1..n /\ \A k \in 1..n : k \in M <=> Fold[fed[s[k]].value] = Fold[l]
    BY <2>3, <2>4 DEF Matches
  <2>6. Starts = {s[k] : k \in 1..n}
    BY <1>1, <2>1, <2>2, FileMeans DEF Heads
  <2>7. T = {s[k] : k \in M}
    BY <2>5, <2>6
  <2>8. CASE M = {}
    <3>1. ~\E i \in Starts : Fold[fed[i].value] = Fold[l]
      BY <2>7, <2>8
    <3>2. e = NoEntry
      BY <1>1, <2>8 DEF GetEntry
    <3> QED
      BY <3>1, <3>2 DEF NoEntry
  <2>9. CASE M # {}
    <3>1. PICK k \in M : e = entries[k] /\ \A j \in M : k <= j
      BY <1>1, <2>9 DEF GetEntry
    <3>2. k \in 1..n /\ s[k] \in T
      BY <2>5, <2>7, <3>1
    <3>3. T \in SUBSET Nat /\ \A j \in T : s[k] <= j
      <4>1. \A j \in 1..n : s[j] \in Nat
        BY <2>2, <2>3 DEF Heads
      <4>2. \A j \in M : s[k] <= s[j]
        <5>1. SUFFICES ASSUME NEW j \in M
                       PROVE  s[k] <= s[j]
          OBVIOUS
        <5>2. j \in 1..n /\ k <= j
          BY <3>1, <2>5
        <5>3. k < j => s[k] < s[j]
          BY <5>2, <3>2, <2>2 DEF Heads
        <5> QED
          BY <5>2, <5>3, <3>2, <4>1, <2>3
      <4> QED
        BY <4>1, <4>2, <2>5, <2>7
    <3>4. Min(T) = s[k]
      <4> HIDE DEF T
      <4> QED
        BY <3>2, <3>3, MinIs
    <3>5. \E i \in Starts : Fold[fed[i].value] = Fold[l]
      BY <3>2
    <3>6. Describes(fed, entries[k], s[k])
      BY <3>2, <2>2, <2>3
    <3> QED
      BY <3>1, <3>2, <3>4, <3>5, <3>6, <2>1, <1>1, FileMeans DEF Describes
  <2> QED
    BY <2>8, <2>9
<1>2. ParserInv => LookupFindsFirst
  BY <1>1 DEF LookupFindsFirst
<1> QED
  BY InvHolds, <1>2, PTL
=============================================================================
