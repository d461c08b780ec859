--------------------------- MODULE MCInstanceIds ----------------------------
(***************************************************************************)
(* InstanceIds for TLC.                                                    *)
(***************************************************************************)
EXTENDS InstanceIds

CONSTANTS t1, t2
=============================================================================
