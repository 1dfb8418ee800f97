---------------------------- MODULE CopperTools ----------------------------
(***************************************************************************)
(* The tools of tools/pcb.py that decide by geometry: add_zone, get_tracks *)
(* and the two ways of deleting copper, and the stitching of orphan pads   *)
(* in route_board.  Each reads the board in one request and changes it in  *)
(* a later one; in between the human may edit it, and a request may fail,  *)
(* with or without effect.                                                 *)
(*                                                                         *)
(* Guards, backups, fills and snapshots are those of BoardSync, and the    *)
(* saving of stitching vias that of RouteBoard: here a board is its copper *)
(* on a grid.  Widths do not count, as in the source.                      *)
(***************************************************************************)
EXTENDS Geometry

CONSTANTS
  Nets, NoNet,
  Pads,          \* records [at, layer, net]; a pad with a hole is on ThroughLayer
  Boards,        \* the boards to begin with, records [items, zones]
  Shapes,        \* what add_zone is given: [bbox |-> a box] or [polygon |-> an outline]
  MaxCorners,    \* the limit of _validate_zone_geometry
  Filters,       \* of get_tracks and delete_tracks_bulk (see Matches)
  Points,        \* where delete_track and delete_via are pointed at
  Reports,       \* the positions of unconnected items that the DRC may list
  Places,        \* where the human may take an item
  StitchRadius,  \* _STITCH_RADIUS_MM
  Tolerance,     \* _DELETE_TOLERANCE_MM
  World,         \* what else happens (see AllOfTheWorld)
  MaxZones,      \* bound: zones
  MaxEdits,      \* bound: edits of the human
  MaxCalls       \* bound: calls

\* editor: the human moves and deletes copper; failures: requests fail.
AllOfTheWorld == {"editor", "failures"}

ThroughLayer == "*.Cu"
Layers == {"F.Cu", "B.Cu"}

VARIABLES
  items,   \* tracks, arcs and vias: [id, net, layer, path], a via on ThroughLayer
  zones,   \* copper zones: [net, layer, outline]
  call,    \* the call in progress or last made (see NewCall)
  reply,   \* what it has answered
  before,  \* ghost: the items when the call read the board
  alone,   \* ghost: nobody else has touched the board since the call began
  nextId, edits, calls

board == <<items, zones, nextId>>
vars == <<board, call, reply, before, alone, edits, calls>>

\* ids: what the call is to delete; pads: where it has still to put a via;
\* told: the ids of the items listed, rejected: the orphan pads reported.
NewCall(asked) == [asked |-> asked, step |-> "idle", ids |-> {}, pads |-> {}, told |-> {},
                   rejected |-> {}]

----------------------------------------------------------------------------
(* Copper                                                                  *)

IsVia(item) == Len(item.path) = 1

\* _copper_distance_mm: a via is a point, a track a leg, an arc two.
Legs(path) ==
  IF Len(path) = 1
    THEN {<<path[1], path[1]>>}
    ELSE {<<path[i], path[i + 1]>> : i \in 1..Len(path) - 1}

Reaches(item, at, radius) ==
  \E leg \in Legs(item.path) : WithinOf(at, leg[1], leg[2], radius)

\* _copper_in_bbox: an arc counts by its chord.
CopperInBox(item, box) == SegmentIntersectsBox(item.path[1], item.path[Len(item.path)], box)

\* _copper_on_layer, and the same test of a pad: what goes through is on all.
OnLayer(thing, layer) == thing.layer \in {layer, ThroughLayer}

\* A filter is of at most a net, a box and a layer, with vias or without.
Matches(item, filter) ==
  /\ \A net \in filter.net : item.net = net
  /\ \A box \in filter.box : CopperInBox(item, box)
  /\ \A layer \in filter.layer : OnLayer(item, layer)
  /\ filter.vias \/ ~IsVia(item)

\* _match_copper: the only item within the tolerance, or none.
MatchCopper(near) ==
  LET within == {item \in items : /\ item.net = near.net /\ IsVia(item) = near.via
                                  /\ Reaches(item, near.at, Tolerance)}
  IN IF Cardinality(within) = 1 THEN within ELSE {}

IsCopper(item) ==
  /\ item \in [id : Nat, net : Nets \cup {NoNet}, layer : Layers \cup {ThroughLayer},
               path : Seq(Point) \ {<<>>}]
  /\ IsVia(item) <=> item.layer = ThroughLayer

\* Everything is on the grid, and items are told apart by their ids.
ASSUME CopperAssumption ==
  /\ NoNet \notin Nets /\ IsFiniteSet(Pads)
  /\ \A pad \in Pads : /\ pad.net \in Nets \cup {NoNet} /\ pad.at \in Point
                       /\ pad.layer \in Layers \cup {ThroughLayer}
  /\ \A start \in Boards :
       /\ IsFiniteSet(start.items)
       /\ \A item \in start.items : IsCopper(item) /\ item.id \in 1..Cardinality(start.items)
       /\ \A one, other \in start.items : one.id = other.id => one = other
       /\ start.zones # {}   \* or route_board stitches nothing
       /\ \A zone \in start.zones : zone.outline \in Seq(Point)
  /\ \A shape \in Shapes : IF "bbox" \in DOMAIN shape THEN shape.bbox \in Box
                                                     ELSE shape.polygon \in Seq(Point)
  /\ \A filter \in Filters : filter.box \subseteq Box
  /\ Points \subseteq Point /\ \A path \in Places : path \in Seq(Point) /\ path # <<>>
  /\ MaxCorners \in Nat /\ StitchRadius \in Nat /\ Tolerance \in Nat
  /\ MaxZones \in Nat /\ MaxEdits \in Nat /\ MaxCalls \in Nat

----------------------------------------------------------------------------
(* Calls                                                                   *)

At(step) == call.step = step

Begin ==
  /\ At("idle") /\ calls < MaxCalls
  /\ calls' = calls + 1
  /\ before' = items
  /\ alone' = TRUE
  /\ UNCHANGED edits

Underway == UNCHANGED <<before, alone, edits, calls>>

Answer(result) == reply' = result

\* A request of a call changes the board, or fails and may have done so.
Request(current, effect, last) ==
  \/ effect /\ last
  \/ /\ "failures" \in World
     /\ effect \/ UNCHANGED board
     /\ Answer("FAILED") /\ call' = [current EXCEPT !.step = "idle"]

----------------------------------------------------------------------------
(* add_zone                                                                *)

\* The box <<left, top, right, bottom>> as an outline.
Corners(box) ==
  <<<<box[1], box[2]>>, <<box[3], box[2]>>, <<box[3], box[4]>>, <<box[1], box[4]>>>>

Upright(box) == box[1] <= box[3] /\ box[2] <= box[4]

Outline(shape) == IF "bbox" \in DOMAIN shape THEN Corners(shape.bbox) ELSE shape.polygon

ValidShape(shape) ==
  IF "bbox" \in DOMAIN shape
    THEN Upright(shape.bbox)
    ELSE Len(shape.polygon) \in 3..MaxCorners /\ PolygonIsSimple(shape.polygon)

CreateZone(net, layer, outline) ==
  /\ zones' = zones \cup {[net |-> net, layer |-> layer, outline |-> outline]}
  /\ UNCHANGED <<items, nextId>>

AddZone(net, layer, shape) ==
  LET asked == [tool |-> "add_zone", shape |-> shape]
  IN /\ Begin
     /\ Cardinality(zones) < MaxZones
     /\ IF ~ValidShape(shape)
          THEN /\ UNCHANGED board
               /\ Answer("INVALID_ZONE_GEOMETRY") /\ call' = NewCall(asked)
          ELSE Request(NewCall(asked), CreateZone(net, layer, Outline(shape)),
                       Answer("OK") /\ call' = NewCall(asked))

----------------------------------------------------------------------------
(* Listing and deleting                                                    *)

Listed(filter) == {item \in items : Matches(item, filter)}
IdsOf(S) == {item.id : item \in S}

\* A filter must have something, and its box must be upright.
ValidFilter(filter) ==
  /\ filter.net \cup filter.box \cup filter.layer # {}
  /\ \A box \in filter.box : Upright(box)

\* get_tracks, and delete_tracks_bulk with dry_run.
GetTracks(filter) ==
  LET asked == [tool |-> "get_tracks", filter |-> filter]
  IN /\ Begin
     /\ UNCHANGED board
     /\ IF ValidFilter(filter)
          THEN /\ Answer("OK")
               /\ call' = [NewCall(asked) EXCEPT !.told = IdsOf(Listed(filter))]
          ELSE Answer("INVALID_PARAMS") /\ call' = NewCall(asked)

\* What the first half of a deletion has found is deleted by the second half.
Delete(asked, found) ==
  /\ call' = [NewCall(asked) EXCEPT !.step = "remove", !.ids = IdsOf(found),
                                    !.told = IdsOf(found)]
  /\ Answer("NONE")

DeleteBulk(filter) ==
  LET asked == [tool |-> "delete_tracks_bulk", filter |-> filter]
  IN /\ Begin
     /\ UNCHANGED board
     /\ IF ValidFilter(filter)
          THEN Delete(asked, Listed(filter))
          ELSE Answer("INVALID_PARAMS") /\ call' = NewCall(asked)

\* delete_track and delete_via, pointed at an item of a net.
DeleteNear(net, via, at) ==
  LET asked == [tool |-> "delete_near", net |-> net, via |-> via, at |-> at]
  IN /\ Begin
     /\ UNCHANGED board
     /\ IF MatchCopper(asked) # {}
          THEN Delete(asked, MatchCopper(asked))
          ELSE Answer("INVALID_PARAMS") /\ call' = NewCall(asked)

\* delete_track and delete_via with an id of get_tracks.
DeleteById(id, via) ==
  LET asked == [tool |-> "delete_by_id", id |-> id, via |-> via]
      found == {item \in items : item.id = id /\ IsVia(item) = via}
  IN /\ Begin
     /\ UNCHANGED board
     /\ IF found # {}
          THEN Delete(asked, found)
          ELSE Answer("TRACK_ID_STALE") /\ call' = NewCall(asked)

RemoveItems(ids) ==
  /\ items' = {item \in items : item.id \notin ids}
  /\ UNCHANGED <<zones, nextId>>

\* remove_by_kiid, remove_many_by_kiid.  The answer of a bulk deletion counts
\* what was listed (call.told), not what was still there.
Remove ==
  /\ At("remove")
  /\ Request(call, RemoveItems(call.ids),
             /\ Answer(IF \/ call.asked.tool = "delete_tracks_bulk"
                          \/ call.ids \cap IdsOf(items) # {}
                         THEN "OK" ELSE "TRACK_ID_STALE")
             /\ call' = [call EXCEPT !.step = "idle"])
  /\ Underway

----------------------------------------------------------------------------
(* Stitching                                                               *)

Opposite(layer) ==
  CASE layer = "F.Cu" -> {"B.Cu"} [] layer = "B.Cu" -> {"F.Cu"} [] OTHER -> {}

\* _match_orphan_pad: the only pad at the position, or none.
MatchPad(at) ==
  LET there == {pad \in Pads : pad.at = at}
  IN IF Cardinality(there) = 1 THEN there ELSE {}

\* Each pad counts once, however often the report lists it.
Orphans(report) == {pad \in UNION {MatchPad(at) : at \in report} : pad.net # NoNet}

OwnZones(pad) == {zone \in zones : zone.net = pad.net}

\* _opposite_layer_blocked: foreign copper on the layer the via would reach.
Blocked(pad, layer) ==
  \/ \E item \in items : /\ item.net # pad.net /\ OnLayer(item, layer)
                         /\ Reaches(item, pad.at, StitchRadius)
  \/ \E other \in Pads : /\ other.net # pad.net /\ OnLayer(other, layer)
                         /\ WithinOf(pad.at, other.at, other.at, StitchRadius)

\* _evaluate_stitch_candidates
Candidate(pad) ==
  /\ \E zone \in OwnZones(pad) : PointInPolygon(pad.at, zone.outline)
  /\ \E layer \in Opposite(pad.layer) :
       /\ \E zone \in OwnZones(pad) : zone.layer = layer
       /\ ~Blocked(pad, layer)

\* route_board after its DRC: all candidates are chosen before any via is there.
Evaluate(report) ==
  LET orphans == Orphans(report)
      candidates == {pad \in orphans : Candidate(pad)}
  IN /\ Begin
     /\ call' = [NewCall([tool |-> "route_board", report |-> report])
                   EXCEPT !.step = IF candidates = {} THEN "idle" ELSE "stitch",
                          !.pads = candidates, !.rejected = orphans \ candidates]
     /\ Answer(IF candidates = {} THEN "OK" ELSE "NONE")
     /\ UNCHANGED board

AddVia(pad) ==
  /\ items' = items \cup
       {[id |-> nextId, net |-> pad.net, layer |-> ThroughLayer, path |-> <<pad.at>>]}
  /\ nextId' = nextId + 1
  /\ UNCHANGED zones

StitchVia ==
  /\ At("stitch")
  /\ \E pad \in call.pads :
       LET rest == call.pads \ {pad}
       IN Request(call, AddVia(pad),
                  /\ Answer(IF rest = {} THEN "OK" ELSE "NONE")
                  /\ call' = [call EXCEPT !.step = IF rest = {} THEN "idle" ELSE "stitch",
                                          !.pads = rest, !.told = @ \cup {nextId}])
  /\ Underway

----------------------------------------------------------------------------
(* The human                                                               *)

Edit(edited) ==
  /\ "editor" \in World /\ edits < MaxEdits
  /\ edits' = edits + 1
  /\ items' = edited
  /\ alone' = FALSE
  /\ UNCHANGED <<zones, nextId, call, reply, before, calls>>

DeleteItem == \E item \in items : Edit(items \ {item})

MoveItem ==
  \E item \in items, path \in Places :
    IsVia(item) = (Len(path) = 1) /\ Edit((items \ {item}) \cup {[item EXCEPT !.path = path]})

----------------------------------------------------------------------------

Init ==
  /\ \E start \in Boards :
       /\ items = start.items /\ zones = start.zones
       /\ nextId = Cardinality(start.items) + 1
  /\ call = NewCall([tool |-> "none"]) /\ reply = "NONE"
  /\ before = {} /\ alone = TRUE
  /\ edits = 0 /\ calls = 0

Next ==
  \/ \E net \in Nets, layer \in Layers, shape \in Shapes : AddZone(net, layer, shape)
  \/ \E filter \in Filters : GetTracks(filter) \/ DeleteBulk(filter)
  \/ \E net \in Nets, via \in BOOLEAN, at \in Points : DeleteNear(net, via, at)
  \/ \E id \in 1..nextId - 1, via \in BOOLEAN : DeleteById(id, via)
  \/ Remove
  \/ \E report \in Reports : Evaluate(report)
  \/ StitchVia
  \/ DeleteItem \/ MoveItem

Spec == Init /\ [][Next]_vars

----------------------------------------------------------------------------
(* Properties                                                              *)

\* INVALID_ZONE_GEOMETRY says what it means: add_zone refuses a box that is
\* upside down and an outline that has too few or too many corners or is not
\* simple, and nothing else.  It does not look at the sides of a triangle,
\* which may be flat.
OutlinesAreSimple ==
  (call.asked.tool = "add_zone" /\ reply # "FAILED") =>
    LET shape == call.asked.shape
        good == IF "bbox" \in DOMAIN shape
                  THEN Upright(shape.bbox)
                  ELSE /\ Len(shape.polygon) \in 3..MaxCorners
                       /\ Len(shape.polygon) = 3 \/ Simple(shape.polygon)
    IN reply = IF good THEN "OK" ELSE "INVALID_ZONE_GEOMETRY"

\* The items of S that a call is about, by its parameters.
Meant(asked, S) ==
  CASE asked.tool \in {"get_tracks", "delete_tracks_bulk"} ->
         {item \in S :
            /\ asked.filter.net \subseteq {item.net}
            /\ \A box \in asked.filter.box :
                 Overlaps(item.path[1], item.path[Len(item.path)], box)
            /\ IsVia(item) \/ asked.filter.layer \subseteq {item.layer}
            /\ IsVia(item) => asked.filter.vias}
    [] asked.tool = "delete_near" ->
         {item \in S :
            /\ item.net = asked.net /\ IsVia(item) = asked.via
            /\ \E leg \in Legs(item.path) : Near(asked.at, leg[1], leg[2], Tolerance)}
    [] asked.tool = "delete_by_id" ->
         {item \in S : item.id = asked.id /\ IsVia(item) = asked.via}
    [] OTHER -> {}

\* A call has found exactly what its parameters mean on the board it read, and
\* is refused if it points at several items or at none.
FoundIsMeant ==
  LET meant == IdsOf(Meant(call.asked, before))
  IN call.asked.tool \notin {"none", "add_zone", "route_board"} =>
       CASE reply = "INVALID_PARAMS" ->
              call.asked.tool = "delete_near" => Cardinality(meant) # 1
         [] OTHER ->
              call.told = meant /\ (call.asked.tool = "delete_near" => Cardinality(meant) = 1)

\* get_tracks tells exactly what it is asked for, and a deletion removes that
\* and nothing else, whatever else is moved or deleted between its reading and
\* its remove_items: "NUNCA elige 'el mas cercano'" (_match_copper).
DeletionsAreExact ==
  [][/\ FoundIsMeant'
     /\ At("remove") /\ call'.step = "idle" =>
          LET rest == {item \in items : item.id \notin IdsOf(Meant(call.asked, before))}
          IN items' = rest \/ (items' = items /\ reply' # "OK")]_vars

\* Where stitching makes sense: the pad is inside a zone of its net, there is a
\* zone of its net on the other side, and no foreign copper there near by.
Stitchable(pad) ==
  \E layer \in {"F.Cu", "B.Cu"} \ {pad.layer} :
    /\ pad.layer # ThroughLayer
    /\ \E zone \in zones : zone.net = pad.net /\ Inside(pad.at, zone.outline)
    /\ \E zone \in zones : zone.net = pad.net /\ zone.layer = layer
    /\ \A item \in before :
         (item.net # pad.net /\ item.layer \in {layer, ThroughLayer}) =>
           \A leg \in Legs(item.path) : ~Near(pad.at, leg[1], leg[2], StitchRadius)
    /\ \A other \in Pads :
         (other.net # pad.net /\ other.layer \in {layer, ThroughLayer}) =>
           ~Near(pad.at, other.at, other.at, StitchRadius)

\* ADR-0012, F-D5-01: when nobody interferes, every orphan that the DRC lists
\* gets one via of its net if it is stitchable, and is reported if it is not;
\* nothing else is added.  A pad on an outline may go either way; positions
\* with no pad, or with two, are passed over.
StitchIsSound ==
  (call.asked.tool = "route_board" /\ reply = "OK" /\ alone) =>
    LET orphans == {pad \in Pads : /\ pad.at \in call.asked.report /\ pad.net # NoNet
                                   /\ \A other \in Pads : other.at = pad.at => other = pad}
        vias == items \ before
        Of(pad) == {via \in vias : via.net = pad.net /\ via.path = <<pad.at>>}
        onEdge == {pad \in orphans : \E zone \in zones : /\ zone.net = pad.net
                                                         /\ OnOutline(pad.at, zone.outline)}
    IN /\ before \subseteq items /\ call.rejected \subseteq orphans
       /\ Cardinality(vias) + Cardinality(call.rejected) = Cardinality(orphans)
       /\ \A pad \in orphans : Cardinality(Of(pad)) = IF pad \in call.rejected THEN 0 ELSE 1
       /\ \A pad \in orphans \ onEdge : (pad \in call.rejected) <=> ~Stitchable(pad)
=============================================================================
