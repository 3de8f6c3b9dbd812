--------------------------- MODULE MCOptionParser ---------------------------
(* A small instance of OptionParser: two flags that begin alike (one is an *)
(* abbreviation of nothing else), a string and a number.                   *)
EXTENDS OptionParser

MCOptions == <<[name |-> <<"f", "o">>, letter |-> "f", type |-> "flag"],
               [name |-> <<"f">>,      letter |-> "F", type |-> "flag"],
               [name |-> <<"l", "a">>, letter |-> "l", type |-> "string"],
               [name |-> <<"n">>,      letter |-> "n", type |-> "integer"]>>

Flag(o) == Setting(o, <<>>)

MCItems ==
    {Say(<<Flag(1)>>), Say(<<Flag(2)>>), Say(<<Flag(1), Flag(2)>>),
     Say(<<Setting(3, <<"x">>)>>), Say(<<Setting(3, <<"-", "f">>)>>),
     Say(<<Setting(3, <<>>)>>),
     Say(<<Flag(2), Setting(4, <<"1", "0", "x">>)>>),
     Argument(<<"x">>), Argument(<<>>), Argument(<<"-">>),
     Odd(<< <<"-", "x", "f">> >>, Libraries, <<>>, <<>>),
     Odd(<< <<"-", "-", "x">> >>, Libraries, <<>>, <<>>),
     Odd(<< <<"-", "f", "-", "f">> >>, Libraries, <<Flag(1)>>, <<>>),
     Odd(<< <<"-", "-", "f", "=", "x">> >>, {"libc"}, <<>>, <<Flag(2)>>)}

MCEndings ==
    {End(<<>>), End(<< <<"-", "f">> >>), End(<< <<"-", "-">>, <<"x">> >>),
     Odd(<< <<"-", "f", "l">> >>, Libraries, <<Flag(1)>>, <<>>),
     Odd(<< <<"-", "-", "l">> >>, Libraries, <<>>, <<>>)}
=============================================================================
