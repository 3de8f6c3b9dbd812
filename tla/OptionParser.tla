---------------------------- MODULE OptionParser ----------------------------
(***************************************************************************)
(* OptionParser::parse() (src/ext/libbw/optionparser.cc), one action per   *)
(* call of getopt_long(), and what PxeKexec::parseCmdLine() makes of the   *)
(* arguments that are left.  getopt_long() is either the one in            *)
(* src/ext/libbw/ext/getopt, which stops at the first argument, or the C   *)
(* library's, which passes arguments over and moves them behind the        *)
(* options: libbw brings its own for systems that have none.               *)
(***************************************************************************)
EXTENDS CommandLine

CONSTANTS
    Items,       \* what the user may say
    Endings,     \* ... at the end of the command line only
    MaxItems,    \* in one command line, at most
    NoHost       \* no argument: the server is looked for

ASSUME OptionParserAssumption == MaxItems \in Nat \ {0}

Libraries == {"bundled", "libc"}

VARIABLES
    library,     \* whose getopt_long() it is
    line,        \* what is said, and how it is written
    argv,        \* its words
    optind,      \* the word to look at next
    place,       \* what is left of a word with several letters
    skipped,     \* arguments that were passed over (C library only)
    values,      \* the value of each option
    args,        \* OptionParser::m_args
    parsed,      \* what parse() returned
    host,        \* PxeKexec::m_pxeHost
    pc           \* "getopt_long", "invalid", "evaluate", "go" or "thrown"

vars == <<library, line, argv, optind, place, skipped, values, args, parsed,
          host, pc>>

Init ==
    /\ library \in Libraries
    /\ LET Written(S) == UNION {{[item |-> i, words |-> w] : w \in Spellings(i)} :
                                   i \in S}
       IN  \/ line \in BoundedSeq(Written(Items), MaxItems)
           \/ \E l \in BoundedSeq(Written(Items), MaxItems - 1) :
                  \E last \in Written(Endings) : line = Append(l, last)
    /\ argv = FlattenSeq([k \in DOMAIN line |-> line[k].words])
    /\ optind = 1 /\ place = <<>> /\ skipped = <<>>
    /\ values = [o \in DOMAIN Options |-> Unset] /\ args = <<>>
    /\ parsed = FALSE /\ host = NoHost
    /\ pc = "getopt_long"

-----------------------------------------------------------------------------
(***************************************************************************)
(* One call of getopt_long()                                               *)
(***************************************************************************)
LooksLikeOption(word) == Len(word) > 1 /\ word[1] = "-"

\* The word the call looks at: the one under way or, behind the arguments the
\* C library passes over, the next one that looks like an option.
Current ==
    IF place # <<>> THEN optind
    ELSE LET options == {i \in optind..Len(argv) : LooksLikeOption(argv[i])}
         IN  IF library = "libc" /\ options # {} THEN Min(options) ELSE optind

AtOption ==
    /\ pc = "getopt_long"
    /\ \/ place # <<>>
       \/ Current \in DOMAIN argv /\ LooksLikeOption(argv[Current])

IsLong(word) == word[1] = "-" /\ word[2] = "-"

Passed == skipped \o SubSeq(argv, optind, Current - 1)

\* An option was found: findOption() finds it too, and its value is stored.
Take(o, arg, next, rest) ==
    /\ values' = [values EXCEPT ![o] = Value(o, arg)]
    /\ optind' = next /\ place' = rest
    /\ skipped' = Passed
    /\ UNCHANGED <<library, line, argv, args, parsed, host, pc>>

\* getopt_long() returns ? or :, which is no option: "Invalid option" and out
\* of the loop.
Refuse(next, rest) ==
    /\ pc' = "invalid"
    /\ optind' = next /\ place' = rest
    /\ skipped' = Passed
    /\ UNCHANGED <<library, line, argv, values, args, parsed, host>>

\* The letters of a word behind its "-", as far as they were not taken.
Letters == IF place # <<>> THEN place ELSE Tail(argv[Current])

AtLetter == AtOption /\ (place # <<>> \/ ~IsLong(argv[Current]))

Lettered(c) == {o \in DOMAIN Options : Options[o].letter = c}

\* Mutated form: the next word after every letter.
AfterLetterAlways == Current + 1

\* The word behind a letter without argument: the same one or the next.
AfterLetter == IF Len(Letters) = 1 THEN Current + 1 ELSE Current

ShortFlag ==
    /\ AtLetter
    /\ \E o \in Lettered(Head(Letters)) :
           /\ Options[o].type = "flag"
           /\ Take(o, <<>>, AfterLetter, Tail(Letters))

\* The argument is the rest of the word or, if there is none, the next word,
\* whatever it looks like.
ShortWithArgument ==
    /\ AtLetter
    /\ \E o \in Lettered(Head(Letters)) :
           /\ Options[o].type # "flag"
           /\ IF Len(Letters) > 1
                  THEN Take(o, Tail(Letters), Current + 1, <<>>)
              ELSE IF Current < Len(argv)
                  THEN Take(o, argv[Current + 1], Current + 2, <<>>)
              ELSE Refuse(Current + 1, <<>>)

\* A "-" among the letters of a word.
AtDash == AtLetter /\ Head(Letters) = "-" /\ Lettered("-") = {}

\* The word stays what is looked at next, unless this was its last letter.
ShortUnknown ==
    /\ AtLetter /\ Lettered(Head(Letters)) = {}
    /\ ~(AtDash /\ library = "bundled")
    /\ Refuse(AfterLetter, Tail(Letters))

AtName == AtOption /\ ~AtLetter /\ Len(argv[Current]) > 2

Equals == SelectInSeq(argv[Current], LAMBDA c : c = "=")

Name == IF Equals = 0 THEN SubSeq(argv[Current], 3, Len(argv[Current]))
                      ELSE SubSeq(argv[Current], 3, Equals - 1)

\* Mutated form: the first option that begins like that, even if another one
\* has exactly that name.
NamedFirst ==
    LET begins == {o \in DOMAIN Options : IsPrefix(Name, Options[o].name)}
    IN  IF begins = {} THEN {} ELSE {Min(begins)}

\* The option with the name or, if there is none, the one that begins like
\* that; of several the first one, and for the C library none.
Named ==
    LET exact  == {o \in DOMAIN Options : Options[o].name = Name}
        begins == {o \in DOMAIN Options : IsPrefix(Name, Options[o].name)}
    IN  IF exact # {} THEN exact
        ELSE IF begins = {} \/ (library = "libc" /\ Cardinality(begins) > 1)
        THEN {}
        ELSE {Min(begins)}

LongFlag ==
    /\ AtName
    /\ \E o \in Named :
           /\ Options[o].type = "flag"
           /\ IF Equals > 0 /\ library = "libc"
              THEN Refuse(Current + 1, <<>>)
              ELSE Take(o, <<>>, Current + 1, <<>>)

LongWithArgument ==
    /\ AtName
    /\ \E o \in Named :
           /\ Options[o].type # "flag"
           /\ IF Equals > 0
                  THEN Take(o, SubSeq(argv[Current], Equals + 1,
                                      Len(argv[Current])), Current + 1, <<>>)
              ELSE IF Current < Len(argv)
                  THEN Take(o, argv[Current + 1], Current + 2, <<>>)
              ELSE Refuse(Current + 1, <<>>)

LongUnknown ==
    /\ AtName /\ Named = {}
    /\ Refuse(Current + 1, <<>>)

-----------------------------------------------------------------------------
(***************************************************************************)
(* The end of the loop, and what follows it                                *)
(***************************************************************************)
\* Mutated form: "--" is an argument itself.
SaveArgumentsDashes ==
    /\ pc = "getopt_long"
    /\ \/ AtDash /\ library = "bundled"
       \/ ~AtLetter /\ ~AtName
    /\ args' = Passed \o SubSeq(argv, Current, Len(argv))
    /\ parsed' = TRUE /\ pc' = "evaluate"
    /\ UNCHANGED <<library, line, argv, optind, place, skipped, values, host>>

\* getopt_long() returns -1: no word is left that looks like an option, "--",
\* or, with the bundled one, a "-" among the letters.  What is left, and what
\* was passed over, are arguments.
SaveArguments ==
    /\ pc = "getopt_long"
    /\ LET dashes == AtOption /\ ~AtLetter /\ ~AtName
           from   == IF dashes THEN Current + 1 ELSE Current
       IN  /\ \/ ~AtOption \/ dashes
              \/ AtDash /\ library = "bundled"
           /\ args' = Passed \o SubSeq(argv, from, Len(argv))
    /\ parsed' = TRUE /\ pc' = "evaluate"
    /\ UNCHANGED <<library, line, argv, optind, place, skipped, values, host>>

\* The same behind an invalid option, where the words that were passed over
\* are not put back.
SaveArgumentsInvalid ==
    /\ pc = "invalid"
    /\ args' = SubSeq(argv, optind, Len(argv))
    /\ parsed' = TRUE /\ pc' = "evaluate"
    /\ UNCHANGED <<library, line, argv, optind, place, skipped, values, host>>

\* The value of the option with that long name; an empty one without it.
GetValue(name) ==
    LET o == SelectInSeq(Options, LAMBDA option : option.name = name)
    IN  IF o = 0 THEN Unset ELSE values[o]

\* parseCmdLine(): at most one argument, the host.
Evaluate ==
    /\ pc = "evaluate"
    /\ IF ~parsed \/ Len(args) > 1
       THEN pc' = "thrown" /\ host' = host
       ELSE pc' = "go" /\ host' = IF args = <<>> THEN NoHost ELSE args[1]
    /\ UNCHANGED <<library, line, argv, optind, place, skipped, values, args,
                   parsed>>

\* Nothing is left to happen.
Terminated ==
    /\ pc \in {"go", "thrown"}
    /\ UNCHANGED vars

Next == \/ ShortFlag \/ ShortWithArgument \/ ShortUnknown
        \/ LongFlag \/ LongWithArgument \/ LongUnknown
        \/ SaveArguments \/ SaveArgumentsInvalid
        \/ Evaluate \/ Terminated

Spec == Init /\ [][Next]_vars

-----------------------------------------------------------------------------
(***************************************************************************)
(* Properties                                                              *)
(***************************************************************************)
\* Every variable has its type; the scan stays on the command line.
TypeOK ==
    /\ library \in Libraries
    /\ argv = FlattenSeq([k \in DOMAIN line |-> line[k].words])
    /\ optind \in 1..Len(argv) + 1
    /\ place # <<>> => optind \in DOMAIN argv
    /\ Len(skipped) < optind
    /\ \A o \in DOMAIN Options : values[o] \in OptionValue(o)
    /\ Len(args) <= Len(argv)
    /\ parsed \in BOOLEAN
    /\ host = NoHost \/ host \in Range(argv)
    /\ pc \in {"getopt_long", "invalid", "evaluate", "go", "thrown"}

\* The first thing said that ends the options: something the library does not
\* understand, or an argument where it does not pass arguments over.
Stops(k) ==
    \/ line[k].item.kind = "end"
    \/ line[k].item.kind = "odd" /\ library \in line[k].item.refusing
    \/ line[k].item.kind = "argument" /\ library = "bundled"

Stop == SelectInSeq([k \in DOMAIN line |-> Stops(k)], LAMBDA stops : stops)

Understood == Stop = 0 \/ line[Stop].item.kind # "odd"

\* However it is written, every option in front of the first word that is not
\* understood has the value that was meant, no other option has one, and
\* nothing behind that word is an option (parse(), getValue()).
OptionsAsMeant ==
    LET heard == SubSeq(line, 1, IF Stop = 0 THEN Len(line) ELSE Stop)
        meaning == Meaning(FlattenSeq([k \in DOMAIN heard |->
                                          Settings(heard[k].item, library)]))
    IN  pc = "go" => \A o \in DOMAIN Options :
                         GetValue(Options[o].name) = meaning[o]

\* When all is understood the arguments are the words that are no options, in
\* their order, and the program goes on with the only one as its host.
ArgumentsAsMeant ==
    LET WordsOf(k) == CASE Stop # 0 /\ k > Stop -> line[k].words
                        [] line[k].item.kind \in {"argument", "end"} ->
                               line[k].item.words
                        [] OTHER -> <<>>
        meant == FlattenSeq([k \in DOMAIN line |-> WordsOf(k)])
    IN  pc \in {"go", "thrown"} /\ Understood
            => /\ args = meant
               /\ (pc = "go") = (Len(meant) <= 1)
               /\ host # NoHost => meant = <<host>>
=============================================================================
