---------------------------- MODULE MCBoardSync ----------------------------
(***************************************************************************)
(* Instances of BoardSync for TLC.                                         *)
(***************************************************************************)
EXTENDS BoardSync

CONSTANTS sch, pcb  \* the model values of the two files
=============================================================================
