--------------------------- MODULE MCCopperTools ---------------------------
(***************************************************************************)
(* Instances of CopperTools for TLC: a board of 4 mm on a grid of 0.5 mm.  *)
(***************************************************************************)
EXTENDS CopperTools

CONSTANTS gnd, sig, none

Item(id, net, layer, path) == [id |-> id, net |-> net, layer |-> layer, path |-> path]
Pad(at, layer, net) == [at |-> at, layer |-> layer, net |-> net]
Zone(net, layer, outline) == [net |-> net, layer |-> layer, outline |-> outline]

\* Pads on each side, one with a hole, one at the stitching radius from a
\* foreign pad, two at one place, and one without a net.
SomePads ==
  {Pad(<<4, 2>>, "F.Cu", gnd), Pad(<<1, 3>>, "F.Cu", gnd), Pad(<<2, 5>>, "B.Cu", gnd),
   Pad(<<6, 3>>, ThroughLayer, gnd), Pad(<<4, 7>>, "F.Cu", gnd), Pad(<<6, 7>>, "B.Cu", sig),
   Pad(<<7, 4>>, "F.Cu", gnd), Pad(<<7, 4>>, "B.Cu", gnd), Pad(<<1, 6>>, "F.Cu", none)}

\* Tracks beside each other, an arc and vias, with a ground zone on the one side
\* and a signal zone on the other.
SomeBoards ==
  {[items |-> {Item(1, gnd, "F.Cu", <<<<0, 0>>, <<8, 8>>>>),
               Item(2, gnd, "F.Cu", <<<<2, 3>>, <<6, 7>>>>),
               Item(3, sig, "B.Cu", <<<<4, 5>>, <<8, 5>>>>)},
    zones |-> {Zone(gnd, "B.Cu", <<<<0, 0>>, <<8, 0>>, <<4, 4>>>>),
               Zone(sig, "F.Cu", <<<<0, 0>>, <<4, 4>>, <<0, 8>>>>)}],
   [items |-> {Item(1, sig, "F.Cu", <<<<0, 4>>, <<1, 2>>, <<4, 0>>>>),
               Item(2, gnd, ThroughLayer, <<<<4, 4>>>>),
               Item(3, sig, ThroughLayer, <<<<5, 4>>>>)},
    zones |-> {Zone(gnd, "F.Cu", <<<<0, 0>>, <<8, 0>>, <<8, 8>>, <<4, 4>>, <<0, 8>>>>),
               Zone(sig, "B.Cu", <<<<0, 0>>, <<8, 0>>, <<8, 8>>>>)}]}

\* Every triangle and quadrilateral over the corners and the middle of the
\* board, from one corner on, and a pentagon.
SomePoints == {<<0, 0>>, <<8, 0>>, <<8, 8>>, <<0, 8>>, <<4, 4>>}
SomePolygons ==
  {<<<<0, 0>>, a, b>> : a, b \in SomePoints} \cup
  {<<<<0, 0>>, a, b, c>> : a, b, c \in SomePoints} \cup
  {<<<<0, 0>>, <<8, 0>>, <<8, 8>>, <<4, 4>>, <<0, 8>>>>}

\* Boxes that a track runs through, that hold an end, that lie off either end of
\* a track's line, and one upside down.
SomeBoxes ==
  {<<3, 4, 5, 6>>, <<0, 6, 8, 8>>, <<0, 0, 1, 1>>, <<7, 8, 8, 8>>, <<5, 5, 3, 3>>}
SomeShapes == {[bbox |-> b] : b \in SomeBoxes} \cup {[polygon |-> p] : p \in SomePolygons}

Filter(net, box, layer, vias) == [net |-> net, box |-> box, layer |-> layer, vias |-> vias]
SomeFilters ==
  {Filter({}, {}, {}, TRUE), Filter({gnd}, {}, {"F.Cu"}, FALSE), Filter({}, {}, {"B.Cu"}, TRUE)}
    \cup {Filter({}, {b}, {}, TRUE) : b \in SomeBoxes}

SomePlaces == {<<<<2, 7>>>>, <<<<2, 2>>, <<8, 2>>>>}
SomeTargets == {<<5, 5>>, <<1, 2>>, <<7, 8>>}

\* The orphans of a report are up to two of the pads, or a spot without a pad.
SomeReports ==
  {{a, b} : a, b \in {pad.at : pad \in SomePads} \ {<<6, 7>>}} \cup {{<<4, 4>>}}
=============================================================================
