-------------------------- MODULE MCNetworkHelper --------------------------
(* A small instance of NetworkHelper: a loopback and two other interfaces, *)
(* one of which may have a second address, two servers, and files that     *)
(* name none, one or two of them.  The bytes of the addresses are of both  *)
(* signs.                                                                  *)
EXTENDS NetworkHelper

CONSTANTS lo, eth0, eth1, s1, s2

MCHwAddress == [name \in {lo, eth0, eth1} |->
    CASE name = lo   -> <<0, 0, 0, 0, 0, 0>>
      [] name = eth0 -> <<2, 127, 128, 255, 10, 161>>
      [] OTHER       -> <<175, 254, 0, 0, 1, 1>>]

MCAddress == [name \in {lo, eth0, eth1} |->
    CASE name = lo   -> <<127, 0, 0, 1>>
      [] name = eth0 -> <<192, 168, 1, 254>>
      [] OTHER       -> <<10, 128, 255, 3>>]

MCListings == {<<>>, <<lo>>, <<lo, eth0>>, <<lo, eth0, eth1>>,
               <<eth1, lo, eth0>>, <<lo, eth0, eth0, eth1>>}

MCInfoFiles == {<<>>, <<OtherLine>>, <<s1>>, <<OtherLine, s2>>}

MCLeaseFiles == {<<>>, <<s1>>, <<OtherLine, s2, s1>>}
=============================================================================
