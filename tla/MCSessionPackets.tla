-------------------------- MODULE MCSessionPackets --------------------------
(***************************************************************************)
(* SessionPackets for TLC.                                                 *)
(***************************************************************************)
EXTENDS SessionPackets
=============================================================================
