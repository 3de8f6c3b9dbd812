--------------------------- MODULE MCConfigSearch ---------------------------
(* Small instances of ConfigSearch: all ten names of the code, and every   *)
(* server that has at most three of them.                                  *)
EXTENDS ConfigSearch

MCServers == {names \in SUBSET ClientNames : Cardinality(names) <= 3}
=============================================================================
