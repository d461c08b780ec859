------------------------ MODULE MCDatabaseConnection ------------------------
(***************************************************************************)
(* DatabaseConnection for TLC: two transactions of two and of one          *)
(* statements, an empty one, and one statement with autocommit.            *)
(***************************************************************************)
EXTENDS DatabaseConnection

CONSTANTS t1, t2, empty, single

MCOperations == {t1, t2, empty, single}
MCAutocommit == {single}
MCNumStatements ==
  [o \in MCOperations |-> CASE o = t1 -> 2 [] o = empty -> 0 [] OTHER -> 1]
=============================================================================
