------------------------------ MODULE Geometry ------------------------------
(***************************************************************************)
(* The plane geometry of the copper tools (tools/pcb_geometry.py and the   *)
(* helpers of tools/pcb.py), on a grid: a point is a pair of integers, a   *)
(* box <<left, top, right, bottom>>, an outline a sequence of points.      *)
(* Quotients are compared by cross-multiplication, so the algorithms are   *)
(* those of the source without its rounding.                               *)
(***************************************************************************)
EXTENDS Integers, Sequences, FiniteSets

Point == Int \X Int
Box == Int \X Int \X Int \X Int

Lesser(m, n) == IF m < n THEN m ELSE n
Greater(m, n) == IF m < n THEN n ELSE m
Square(n) == n * n

\* The vectors from a to b and from a to c: their cross and dot products.
Cross(a, b, c) == (b[1] - a[1]) * (c[2] - a[2]) - (b[2] - a[2]) * (c[1] - a[1])
Dot(a, b, c) == (b[1] - a[1]) * (c[1] - a[1]) + (b[2] - a[2]) * (c[2] - a[2])

----------------------------------------------------------------------------
(* Outlines                                                                *)

Orientation(a, b, c) ==
  CASE Cross(a, b, c) = 0 -> 0 [] Cross(a, b, c) > 0 -> 1 [] OTHER -> 2

OnSegment(a, b, c) ==
  \A k \in 1..2 : Lesser(a[k], b[k]) <= c[k] /\ c[k] <= Greater(a[k], b[k])

\* _segments_intersect: the segments ab and cd cross or touch.
SegmentsIntersect(a, b, c, d) ==
  \/ /\ Orientation(a, b, c) # Orientation(a, b, d)
     /\ Orientation(c, d, a) # Orientation(c, d, b)
  \/ Orientation(a, b, c) = 0 /\ OnSegment(a, b, c)
  \/ Orientation(a, b, d) = 0 /\ OnSegment(a, b, d)
  \/ Orientation(c, d, a) = 0 /\ OnSegment(c, d, a)
  \/ Orientation(c, d, b) = 0 /\ OnSegment(c, d, b)

\* The end of the side that begins at corner i.
Following(outline, i) == outline[(i % Len(outline)) + 1]

\* Faulty: the side that closes the outline is no neighbour of the first.
SharesCornerOpen(outline, i, j) == j = i + 1

\* Sides i < j that share a corner, the closing one and the first included.
SharesCorner(outline, i, j) == j = i + 1 \/ (i = 1 /\ j = Len(outline))

\* _polygon_is_simple
PolygonIsSimple(outline) ==
  /\ Len(outline) >= 3
  /\ \A i, j \in 1..Len(outline) :
       i < j /\ ~SharesCorner(outline, i, j) =>
         ~SegmentsIntersect(outline[i], Following(outline, i),
                            outline[j], Following(outline, j))

\* Does the ray from p to the right cross the side from a to b?
RayCrosses(p, a, b) ==
  /\ (a[2] > p[2]) # (b[2] > p[2])
  /\ LET up == b[2] - a[2]
         left == (p[1] - a[1]) * up
         right == (p[2] - a[2]) * (b[1] - a[1])
     IN IF up > 0 THEN left < right ELSE left > right

Odd(n) == n % 2 = 1

\* Faulty: the side that closes the outline is forgotten.
PointInPolygonOpen(p, outline) ==
  Odd(Cardinality({i \in 1..Len(outline) - 1 :
                     RayCrosses(p, outline[i], Following(outline, i))}))

\* _point_in_polygon
PointInPolygon(p, outline) ==
  Odd(Cardinality({i \in 1..Len(outline) :
                     RayCrosses(p, outline[i], Following(outline, i))}))

----------------------------------------------------------------------------
(* Segments, points and boxes                                              *)

InBox(p, box) == /\ box[1] <= p[1] /\ p[1] <= box[3]
                 /\ box[2] <= p[2] /\ p[2] <= box[4]

\* Faulty: only the ends count.
SegmentInBoxByEnds(a, b, box) == InBox(a, box) \/ InBox(b, box)

\* _segment_intersects_bbox (Liang-Barsky): where the segment enters the four
\* half-planes of the box it must not have left any of them, nor have ended.
SegmentIntersectsBox(a, b, box) ==
  LET dx == b[1] - a[1]
      dy == b[2] - a[2]
      p == <<-dx, dx, -dy, dy>>
      q == <<a[1] - box[1], box[3] - a[1], a[2] - box[2], box[4] - a[2]>>
      enters == {k \in 1..4 : p[k] < 0}
      leaves == {k \in 1..4 : p[k] > 0}
  IN \/ InBox(a, box) \/ InBox(b, box)
     \/ /\ \A k \in 1..4 : p[k] = 0 => q[k] >= 0
        /\ \A k \in enters : q[k] >= p[k]                     \* q/p <= 1
        /\ \A k \in leaves : q[k] >= 0                        \* q/p >= 0
        /\ \A k \in enters, m \in leaves : q[k] * p[m] >= q[m] * p[k]

\* _dist_point_segment, against a radius: the nearest point of ab is the
\* projection of p, held between its ends.
WithinOf(p, a, b, radius) ==
  LET length2 == Dot(a, b, b)
      t == Lesser(Greater(Dot(a, b, p), 0), length2)
      Gap(k) == (p[k] - a[k]) * length2 - t * (b[k] - a[k])
  IN IF a = b
       THEN Square(p[1] - a[1]) + Square(p[2] - a[2]) <= Square(radius)
       ELSE Square(Gap(1)) + Square(Gap(2)) <= Square(radius * length2)

----------------------------------------------------------------------------
(* What the algorithms are to compute, by other means                      *)

Minus(a, b) == <<a[1] - b[1], a[2] - b[2]>>
Det(u, v) == u[1] * v[2] - u[2] * v[1]

Between(a, b, p) == Cross(a, b, p) = 0 /\ Dot(p, a, b) <= 0

\* ab and cd have a point in common: the parameters of the lines' crossing are
\* in the unit interval, or, of parallels, an end of one is on the other.
Meet(a, b, c, d) ==
  LET det == Det(Minus(b, a), Minus(d, c))
      OfUnit(n) == Lesser(0, det) <= n /\ n <= Greater(0, det)
  IN IF det # 0
       THEN OfUnit(Det(Minus(c, a), Minus(d, c))) /\ OfUnit(Det(Minus(c, a), Minus(b, a)))
       ELSE \/ Between(a, b, c) \/ Between(a, b, d)
            \/ Between(c, d, a) \/ Between(c, d, b)

\* Neighbouring sides have their corner in common and nothing else, other
\* sides nothing at all.
Simple(outline) ==
  LET n == Len(outline)
      Side(i) == <<outline[i], Following(outline, i)>>
  IN /\ \A i \in 1..n :
          LET a == Side(i)[1]
              b == Side(i)[2]
              c == Side((i % n) + 1)[2]
          IN a # b /\ ~(Cross(a, b, c) = 0 /\ Dot(b, a, c) > 0)
     /\ \A i, j \in 1..n :
          (j - i) % n \notin {0, 1, n - 1} =>
            ~Meet(Side(i)[1], Side(i)[2], Side(j)[1], Side(j)[2])

OnOutline(p, outline) ==
  \E i \in 1..Len(outline) : Between(outline[i], Following(outline, i), p)

\* Off the outline: the line from p along the second axis crosses it odd times.
Inside(p, outline) ==
  Odd(Cardinality({i \in 1..Len(outline) :
        LET a == outline[i]
            b == Following(outline, i)
        IN \/ a[1] <= p[1] /\ p[1] < b[1] /\ Cross(a, b, p) < 0
           \/ b[1] <= p[1] /\ p[1] < a[1] /\ Cross(a, b, p) > 0}))

\* No line parallel to an axis, or to the segment, has ab on one side of it and
\* the box on the other.
Overlaps(a, b, box) ==
  LET corners == {box[1], box[3]} \X {box[2], box[4]}
  IN /\ \A k \in 1..2 : Lesser(a[k], b[k]) <= box[k + 2] /\ box[k] <= Greater(a[k], b[k])
     /\ \E c, d \in corners : Cross(a, b, c) <= 0 /\ Cross(a, b, d) >= 0

\* p is in the disc around an end of ab, or in the strip along it.
Near(p, a, b, radius) ==
  \/ \E e \in {a, b} : Dot(e, p, p) <= Square(radius)
  \/ /\ 0 < Dot(a, b, p) /\ Dot(a, b, p) < Dot(a, b, b)
     /\ Square(Cross(a, b, p)) <= Square(radius) * Dot(a, b, b)
=============================================================================
