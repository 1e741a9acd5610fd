---------------------------- MODULE MCWatcher ----------------------------
(***************************************************************************)
(* Watcher is small as it is: the configurations set how many units, files, *)
(* truncations and refused calls there are.                                *)
(***************************************************************************)
EXTENDS Watcher, TLC
=============================================================================
