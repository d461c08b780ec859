---------------------------- MODULE MCMapUpdater ----------------------------
(***************************************************************************)
(* MapUpdater for TLC: a continent and an instanced map with two           *)
(* instances.                                                              *)
(***************************************************************************)
EXTENDS MapUpdater

CONSTANTS continent, dungeon, i1, i2

MCBaseMaps == {continent, dungeon}
MCInstanced == {dungeon}
MCInstances == {i1, i2}
MCInstanceOf == [i \in MCInstances |-> dungeon]
=============================================================================
