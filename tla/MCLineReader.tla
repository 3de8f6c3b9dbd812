---------------------------- MODULE MCLineReader ----------------------------
(* A small instance of LineReader: labels that share beginnings, differ in *)
(* case only, begin another one, contain a blank and mean quit.            *)
EXTENDS LineReader

MCChars == {"a", "A", "b", " "}

MCLower == [c \in MCChars |-> IF c = "A" THEN "a" ELSE c]

MCNames == {<<"a", "b">>, <<"A", "b", "a">>, <<"a", "b", "a">>, <<"a", " ", "b">>,
            <<"b">>}

MCQuits == {<<"b">>}
=============================================================================
