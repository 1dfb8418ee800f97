--------------------------- MODULE HoleClearance ---------------------------
(***************************************************************************)
(* refill_zones and enforce_hole_clearance (bridge/ipc.py): after a refill *)
(* the server puts a copper keepout around every hole of another net, once *)
(* for each copper zone and in batches, and refills again.  Each request   *)
(* may fail, with or without effect, and the pass ends there; between two  *)
(* requests the human may change the board.                                *)
(*                                                                         *)
(* The geometry is left out: a keepout is the zone it was made for and the *)
(* hole it is around, and it acts on every zone of that zone's layer.      *)
(***************************************************************************)
EXTENDS Integers, FiniteSets

CONSTANTS
  Zones, Holes,    \* copper zones; pads with a hole and vias
  Net,             \* the net of a zone or hole, NoNet for an NPTH
  NoNet,
  Layer,           \* the layer of a zone
  BatchSize,       \* _ENFORCE_HOLE_CLEARANCE_BATCH_SIZE
  World,           \* what happens around a pass (see AllOfTheWorld)
  MaxPasses        \* bound: passes

ASSUME NetAssumption == Zones \cap Holes = {} /\ DOMAIN Net = Zones \cup Holes
ASSUME LayerAssumption == DOMAIN Layer = Zones
ASSUME BatchAssumption == BatchSize \in Nat \ {0} /\ MaxPasses \in Nat

\* edit: tools (between passes) and the human (at any time) create and delete
\* zones, pads and vias; failures: requests fail.
AllOfTheWorld == {"edit", "failures"}

VARIABLES
  zones, holes,  \* what is on the board
  keepouts,      \* how many keepouts of the server there are for a zone and a hole
  cut,           \* per zone, the holes that its last fill keeps away from
  step,          \* idle, fill, remove, listZones, listHoles, create, refill or done
  listed,        \* the zones that the pass has found
  plan,          \* the keepouts that it has still to create
  created,       \* whether the pass has created any
  alone,         \* ghost: nobody else has touched the board during the pass
  passes

board == <<zones, holes, keepouts, cut>>
pass == <<listed, plan, created>>
vars == <<board, pass, step, alone, passes>>

----------------------------------------------------------------------------

\* A hole of another net, or of none.
Foreign(zone, hole) == Net[hole] = NoNet \/ Net[hole] # Net[zone]

Layermates(zone) == {other \in Zones : Layer[other] = Layer[zone]}

\* What KiCad keeps the fill of a zone away from: the keepouts on its layer.
KeptOut(zone) == {hole \in Holes : \E other \in Layermates(zone) : keepouts[other, hole] > 0}

----------------------------------------------------------------------------
(* A pass                                                                  *)

At(here) == step = here
Rest == UNCHANGED <<alone, passes>>

\* A request that fails ends the pass, and may have been served all the same.
Request(effect, next) ==
  \/ effect /\ step' = next
  \/ "failures" \in World /\ effect /\ step' = "idle"
  \/ "failures" \in World /\ UNCHANGED board /\ step' = "idle"

\* The tools that fill call refill_zones first, and enforce at once after it.
Begin ==
  /\ At("idle") \/ At("done")
  /\ passes < MaxPasses
  /\ passes' = passes + 1
  /\ step' = "fill"
  /\ alone' = TRUE
  /\ UNCHANGED <<board, pass>>

FillAll ==
  /\ cut' = [zone \in Zones |-> IF zone \in zones THEN KeptOut(zone) ELSE {}]
  /\ UNCHANGED <<zones, holes, keepouts>>

Fill == At("fill") /\ Request(FillAll, "remove") /\ UNCHANGED pass /\ Rest

\* Faulty: only the keepouts of zones that still exist are removed.
RemoveOfZones ==
  /\ keepouts' = [pair \in Zones \X Holes |->
                    IF pair[1] \in zones THEN 0 ELSE keepouts[pair]]
  /\ UNCHANGED <<zones, holes, cut>>

\* The keepouts of earlier passes are known by the prefix of their names.
RemoveAll ==
  /\ keepouts' = [pair \in Zones \X Holes |-> 0]
  /\ UNCHANGED <<zones, holes, cut>>

RemoveStale == At("remove") /\ Request(RemoveAll, "listZones") /\ UNCHANGED pass /\ Rest

ListZones ==
  /\ At("listZones")
  /\ \/ step' = IF zones = {} THEN "done" ELSE "listHoles"
     \/ "failures" \in World /\ step' = "idle"
  /\ listed' = zones
  /\ UNCHANGED <<board, plan, created>> /\ Rest

\* The pads with their holes, and the vias.
ListHoles ==
  /\ At("listHoles")
  /\ \/ step' = "create"
     \/ "failures" \in World /\ step' = "idle"
  /\ plan' = {pair \in listed \X holes : Foreign(pair[1], pair[2])}
  /\ created' = (plan' # {})
  /\ UNCHANGED <<board, listed>> /\ Rest

Put(batch) ==
  /\ keepouts' = [pair \in Zones \X Holes |->
                    IF pair \in batch THEN keepouts[pair] + 1 ELSE keepouts[pair]]
  /\ UNCHANGED <<zones, holes, cut>>

\* Batches are of one zone, and the last ones may be short.  The source sends
\* the pads of a zone, then its vias, zone after zone: one of the orders here.
Batches ==
  {batch \in SUBSET plan : /\ Cardinality(batch) \in 1..BatchSize
                           /\ \A p, q \in batch : p[1] = q[1]}

CreateBatch ==
  /\ At("create")
  /\ \E batch \in Batches : Request(Put(batch), "create") /\ plan' = plan \ batch
  /\ UNCHANGED <<listed, created>> /\ Rest

\* Faulty: what does not fill a batch is left.
CreatedFullBatches ==
  /\ At("create")
  /\ Cardinality(plan) < BatchSize
  /\ step' = IF created THEN "refill" ELSE "done"
  /\ UNCHANGED <<board, pass>> /\ Rest

Created ==
  /\ At("create")
  /\ plan = {}
  /\ step' = IF created THEN "refill" ELSE "done"
  /\ UNCHANGED <<board, pass>> /\ Rest

Refill == At("refill") /\ Request(FillAll, "done") /\ UNCHANGED pass /\ Rest

PassStep ==
  \/ Begin \/ Fill \/ RemoveStale \/ ListZones \/ ListHoles \/ CreateBatch \/ Created
  \/ Refill

----------------------------------------------------------------------------

\* The result of a pass lasts until the next edit.
Edited ==
  /\ "edit" \in World
  /\ alone' = FALSE
  /\ step' = IF At("done") THEN "idle" ELSE step
  /\ UNCHANGED <<keepouts, pass, passes>>

EditHoles ==
  /\ \E hole \in Holes :
       holes' = IF hole \in holes THEN holes \ {hole} ELSE holes \cup {hole}
  /\ Edited
  /\ UNCHANGED <<zones, cut>>

\* A new zone has no fill yet.
EditZones ==
  /\ \E zone \in Zones :
       /\ zones' = IF zone \in zones THEN zones \ {zone} ELSE zones \cup {zone}
       /\ cut' = [cut EXCEPT ![zone] = {}]
  /\ Edited
  /\ UNCHANGED holes

----------------------------------------------------------------------------

Init ==
  /\ zones \in SUBSET Zones
  /\ holes \in SUBSET Holes
  /\ keepouts = [pair \in Zones \X Holes |-> 0]
  /\ cut = [zone \in Zones |-> {}]
  /\ step = "idle"
  /\ listed = {} /\ plan = {} /\ created = FALSE
  /\ alone = FALSE
  /\ passes = 0

Next == PassStep \/ EditHoles \/ EditZones

Spec == Init /\ [][Next]_vars

----------------------------------------------------------------------------
(* Properties                                                              *)

Succeeded == At("done") /\ alone

\* enforce_hole_clearance is idempotent: after a pass that succeeds there is
\* exactly one keepout for each zone and each foreign hole, and no other,
\* wherever earlier passes have failed.
KeepoutsExact ==
  Succeeded =>
    \A zone \in Zones, hole \in Holes :
      keepouts[zone, hole] =
        IF zone \in zones /\ hole \in holes /\ Foreign(zone, hole) THEN 1 ELSE 0

\* F-D3-01: after such a pass every fill keeps away from every foreign hole.
ForeignHolesClear ==
  Succeeded =>
    \A zone \in zones, hole \in holes : Foreign(zone, hole) => hole \in cut[zone]
=============================================================================
