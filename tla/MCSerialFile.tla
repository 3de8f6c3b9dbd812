---------------------------- MODULE MCSerialFile ----------------------------
(* A small instance of SerialFile: two processes; one baudrate is known    *)
(* to the program and one is not.                                          *)
EXTENDS SerialFile, TLC

MCBaudrates == {115200, 14400}

MCSymmetry == Permutations(Procs)
=============================================================================
