--------------------------- MODULE MCFabrication ---------------------------
(***************************************************************************)
(* Instances of Fabrication for TLC.                                       *)
(***************************************************************************)
EXTENDS Fabrication

Finding(rule, severity, where) == [rule |-> rule, severity |-> severity, where |-> where]

\* Errors in two places, and an unconnected item without a severity or one the
\* user excluded.
SomeFindings ==
  {Finding("clearance", "error", 1), Finding("clearance", "error", 2),
   Finding("unconnected", "unset", 1), Finding("unconnected", "exclusion", 1)}

SomeFilters ==
  {[least |-> "warning", without |-> {}], [least |-> "exclusion", without |-> {}],
   [least |-> "exclusion", without |-> {"clearance"}]}
=============================================================================
