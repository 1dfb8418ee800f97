-------------------------- MODULE MCHoleClearance --------------------------
(***************************************************************************)
(* Instances of HoleClearance for TLC: a ground and a power zone, with a   *)
(* pad of the ground net, one of the power net and an NPTH.                *)
(***************************************************************************)
EXTENDS HoleClearance, TLC

CONSTANTS ground, power, groundPad, powerPad, npth, none

MCNet == ground :> "gnd" @@ power :> "vcc" @@ groundPad :> "gnd" @@ powerPad :> "vcc" @@ npth :> none

\* Both zones on one layer.
MCLayer == ground :> "F.Cu" @@ power :> "F.Cu"

\* A layer each.
MCLayers == ground :> "F.Cu" @@ power :> "B.Cu"
=============================================================================
