---------------------------- MODULE MCTempFiles ----------------------------
(* Small instances of TempFiles: two or three runs, one of them without an *)
(* initrd, and one file of somebody else for each kind.                    *)
EXTENDS TempFiles, TLC

CONSTANTS r1, r2, r3

MCForeign == {<<"kernel", 1>>, <<"initrd", 0>>}
=============================================================================
