---------------------------- MODULE MCRouteBoard ----------------------------
(***************************************************************************)
(* Instances of RouteBoard for TLC.                                        *)
(***************************************************************************)
EXTENDS RouteBoard

CONSTANTS sch, pcb  \* the model values of the two files

=============================================================================
