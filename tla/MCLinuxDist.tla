---------------------------- MODULE MCLinuxDist ----------------------------
(* A small instance of LinuxDist: all versions of up to three characters   *)
(* 0, 1, "." and a, and the ones at the borders of the whitelist.          *)
EXTENDS LinuxDist

MCVersions ==
    BoundedSeq({48, 49, 46, 97}, 3) \union
    {V11, V11_0, V9_04, V5_3, V5_0,
     <<56, 46, 49, 48>>,                          \* 8.10
     <<57, 46, 52>>, <<57, 46, 48, 51>>,          \* 9.4, 9.03
     <<49, 48, 46, 51>>, <<49, 48, 46, 48, 52>>,  \* 10.3, 10.04
     <<49, 49, 46, 48, 46, 49>>,                  \* 11.0.1
     <<53, 46, 50>>, <<53>>, <<53, 46, 48, 46, 49>>,  \* 5.2, 5, 5.0.1
     <<108, 101, 110, 110, 121, 47, 115, 105, 100>>}  \* lenny/sid

MCGarbage == {<<>>, <<57, 57>>, <<97>>}
=============================================================================
