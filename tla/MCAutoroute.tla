---------------------------- MODULE MCAutoroute ----------------------------
(***************************************************************************)
(* Instances of Autoroute for TLC.                                         *)
(***************************************************************************)
EXTENDS Autoroute
=============================================================================
