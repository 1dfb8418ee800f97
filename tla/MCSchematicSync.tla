-------------------------- MODULE MCSchematicSync --------------------------
(***************************************************************************)
(* Instances of SchematicSync for TLC.                                     *)
(***************************************************************************)
EXTENDS SchematicSync

CONSTANTS root, beside, below  \* the model values of three sheets
=============================================================================
