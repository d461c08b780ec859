--------------------------- MODULE MCSessionQueue ---------------------------
(***************************************************************************)
(* SessionQueue for TLC: player accounts p1 (which may log in twice), p2   *)
(* (premium) and p3 and a game master gm.                                  *)
(***************************************************************************)
EXTENDS SessionQueue

CONSTANTS p1, p2, p3, gm, s1, s1b, s2, s3, g

MCAccountOf == s1 :> p1 @@ s1b :> p1 @@ s2 :> p2 @@ s3 :> p3 @@ g :> gm

\* A realm whose limit stays as it is, and one where it is switched on and
\* off and where who was disconnected comes back without waiting.
MCSettings ==
  {[sessions |-> {s1, s1b, s3, g}, limits |-> {1}, tolerance |-> FALSE],
   [sessions |-> {s1, s1b, s2, s3}, limits |-> {0, 1}, tolerance |-> TRUE]}
=============================================================================
