---------------------------- MODULE CommandLine ----------------------------
(***************************************************************************)
(* What a user means by a command line, and the ways there are to write    *)
(* it: the convention the option parser is compared with.  A word is a     *)
(* sequence of characters.                                                 *)
(***************************************************************************)
EXTENDS Integers, SequencesExt

CONSTANTS
    Options,      \* the options the program has, in the order of addOption()
    Unset         \* an option that was not given: OT_INVALID

OptionTypes == {"flag", "string", "integer"}

\* An option: its long name, its letter and its type.
Option == [name : Seq(STRING) \ {<<>>}, letter : STRING, type : OptionTypes]

ASSUME CommandLineAssumption ==
    /\ Options \in Seq(Option)
    /\ \A i, j \in DOMAIN Options :
           i # j => /\ Options[i].letter # Options[j].letter
                    /\ Options[i].name # Options[j].name

Digits == <<"0", "1">>

\* atoi(): the number in front, 0 if there is none.
Atoi(word) ==
    LET IsDigit(i) == \E d \in DOMAIN Digits : word[i] = Digits[d]
        ends == {n \in 0..Len(word) : \A i \in 1..n : IsDigit(i)}
        number[n \in 0..Len(word)] ==
            IF n = 0 THEN 0
            ELSE 10 * number[n - 1]
                 + (CHOOSE d \in 0..Len(Digits) - 1 : Digits[d + 1] = word[n])
    IN  number[Max(ends)]

\* What an OptionValue holds for an option: nothing, or a value of its type.
OptionValue(o) ==
    {Unset} \union CASE Options[o].type = "flag"    -> {TRUE}
                      [] Options[o].type = "integer" -> Nat
                      [] OTHER                       -> Seq(STRING)

\* What an option is worth with an argument (a flag has none).
Value(o, arg) == CASE Options[o].type = "flag"    -> TRUE
                   [] Options[o].type = "integer" -> Atoi(arg)
                   [] OTHER                       -> arg

-----------------------------------------------------------------------------
(***************************************************************************)
(* A thing said is one of                                                  *)
(*   options   settings [o, arg], all but the last one flags;              *)
(*   argument  a word that is not an option;                               *)
(*   end       "--" and then arguments, whatever they look like;           *)
(*   odd       words that set before and that the getopt_long()s in        *)
(*             refusing do not understand behind that; others set more.    *)
(***************************************************************************)
Setting(o, arg) == [o |-> o, arg |-> arg]
Say(settings)   == [kind |-> "options", settings |-> settings]
Argument(word)  == [kind |-> "argument", words |-> <<word>>]
End(words)      == [kind |-> "end", words |-> words]
Odd(words, refusing, before, more) ==
    [kind |-> "odd", words |-> words, refusing |-> refusing,
     before |-> before, more |-> more]

\* An option's name, and what is left of it when no other begins like that.
Abbreviations(o) ==
    {n \in Prefixes(Options[o].name) \ {<<>>} :
        \/ n = Options[o].name
        \/ \A p \in DOMAIN Options \ {o} : ~IsPrefix(n, Options[p].name)}

\* -f, or -fg for two flags; an argument follows at once or as the next word.
Short(settings) ==
    LET letters == [k \in DOMAIN settings |-> Options[settings[k].o].letter]
        word    == <<"-">> \o letters
        arg     == Last(settings).arg
    IN  IF Options[Last(settings).o].type = "flag"
        THEN {<<word>>}
        ELSE {<<word, arg>>} \union IF arg = <<>> THEN {} ELSE {<<word \o arg>>}

\* --name, --name=argument or --name argument.
Long(setting) ==
    UNION {LET word == <<"-", "-">> \o name
           IN  IF Options[setting.o].type = "flag"
               THEN {<<word>>}
               ELSE {<<word, setting.arg>>, <<word \o <<"=">> \o setting.arg>>} :
               name \in Abbreviations(setting.o)}

Spellings(item) ==
    CASE item.kind = "options" ->
             Short(item.settings) \union
             IF Len(item.settings) = 1 THEN Long(item.settings[1]) ELSE {}
      [] item.kind = "end" -> {<< <<"-", "-">> >> \o item.words}
      [] OTHER -> {item.words}

\* What a thing said sets options to, for one getopt_long().
Settings(item, library) ==
    CASE item.kind = "options" -> item.settings
      [] item.kind = "odd"     -> item.before \o
                                  IF library \in item.refusing THEN <<>>
                                                               ELSE item.more
      [] OTHER                 -> <<>>

\* The values of all options after some settings: the last one counts.
Meaning(settings) ==
    LET of(o) == {k \in DOMAIN settings : settings[k].o = o}
    IN  [o \in DOMAIN Options |->
            IF of(o) = {} THEN Unset ELSE Value(o, settings[Max(of(o))].arg)]
=============================================================================
