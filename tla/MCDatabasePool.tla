--------------------------- MODULE MCDatabasePool ---------------------------
(***************************************************************************)
(* DatabasePool for TLC.                                                   *)
(***************************************************************************)
EXTENDS DatabasePool

CONSTANTS c1, c2, c3
=============================================================================
