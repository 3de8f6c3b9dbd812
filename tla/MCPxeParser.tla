---------------------------- MODULE MCPxeParser ----------------------------
(* Small instances of PxeParser: two labels that differ in case only and   *)
(* another one, two kernels, append lines with an initrd, an empty one and *)
(* none.                                                                   *)
EXTENDS PxeParser

MCLabels == {"linux", "LINUX", "rescue"}

MCFold == [l \in MCLabels |-> IF l = "LINUX" THEN "linux" ELSE l]
=============================================================================
