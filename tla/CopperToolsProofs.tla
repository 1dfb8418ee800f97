------------------------- MODULE CopperToolsProofs -------------------------
(***************************************************************************)
(* Proofs about CopperTools, for all boards, outlines, boxes and reports:  *)
(* the geometry of tools/pcb_geometry.py computes what it is meant to, a   *)
(* zone is refused for its outline only, a deletion is of exactly what was *)
(* asked for, and stitching puts one via in each pad that can have one.    *)
(***************************************************************************)
EXTENDS CopperTools, FiniteSetTheorems, NaturalsInduction, WellFoundedInduction, TLAPS

----------------------------------------------------------------------------
(* Segments that cross or touch                                            *)

\* A point has two whole coordinates.
LEMMA PointIs ==
  ASSUME NEW a \in Point
  PROVE  a[1] \in Int /\ a[2] \in Int
BY DEF Point

\* c is in the box around ab and on its line, or the angle acb is flat.
LEMMA OnSegmentIsBetween ==
  ASSUME NEW a \in Point, NEW b \in Point, NEW c \in Point, Cross(a, b, c) = 0
  PROVE  OnSegment(a, b, c) <=> Between(a, b, c)
<1> DEFINE A1 == a[1] - c[1]
           A2 == a[2] - c[2]
           B1 == b[1] - c[1]
           B2 == b[2] - c[2]
<1>1. /\ a[1] \in Int /\ a[2] \in Int /\ b[1] \in Int /\ b[2] \in Int
      /\ c[1] \in Int /\ c[2] \in Int
  BY DEF Point
<1>2. A1 \in Int /\ A2 \in Int /\ B1 \in Int /\ B2 \in Int
  BY <1>1
<1>3. Cross(a, b, c) = A1 * B2 - A2 * B1 /\ Dot(c, a, b) = A1 * B1 + A2 * B2
  BY <1>1 DEF Cross, Dot
<1>4. OnSegment(a, b, c) <=> A1 * B1 <= 0 /\ A2 * B2 <= 0
  <2>1. ASSUME NEW x \in Int, NEW y \in Int, NEW z \in Int
        PROVE  (Lesser(x, y) <= z /\ z <= Greater(x, y)) <=> (x - z) * (y - z) <= 0
    BY DEF Lesser, Greater
  <2>2. OnSegment(a, b, c) <=>
          /\ Lesser(a[1], b[1]) <= c[1] /\ c[1] <= Greater(a[1], b[1])
          /\ Lesser(a[2], b[2]) <= c[2] /\ c[2] <= Greater(a[2], b[2])
    BY DEF OnSegment
  <2> QED BY <1>1, <2>1, <2>2
<1>5. (A1 * B1 <= 0 /\ A2 * B2 <= 0) <=> A1 * B1 + A2 * B2 <= 0
  <2> HIDE DEF A1, A2, B1, B2
  <2>1. A1 * B2 = A2 * B1
    BY <1>2, <1>3
  <2> QED BY <1>2, <2>1
<1> QED BY <1>3, <1>4, <1>5 DEF Between


\* The four orientations of _segments_intersect in terms of the parameters of
\* the crossing.
LEMMA CrossesAreDets ==
  ASSUME NEW a \in Point, NEW b \in Point, NEW c \in Point, NEW d \in Point,
         NEW det, det = Det(Minus(b, a), Minus(d, c)),
         NEW s, s = Det(Minus(c, a), Minus(d, c)),
         NEW t, t = Det(Minus(c, a), Minus(b, a))
  PROVE  /\ det \in Int /\ s \in Int /\ t \in Int
         /\ Cross(a, b, c) = -t /\ Cross(a, b, d) = det - t
         /\ Cross(c, d, a) = s /\ Cross(c, d, b) = s - det
<1>1. /\ a[1] \in Int /\ a[2] \in Int /\ b[1] \in Int /\ b[2] \in Int
      /\ c[1] \in Int /\ c[2] \in Int /\ d[1] \in Int /\ d[2] \in Int
  BY PointIs
<1>2. /\ det = (b[1] - a[1]) * (d[2] - c[2]) - (b[2] - a[2]) * (d[1] - c[1])
      /\ s = (c[1] - a[1]) * (d[2] - c[2]) - (c[2] - a[2]) * (d[1] - c[1])
      /\ t = (c[1] - a[1]) * (b[2] - a[2]) - (c[2] - a[2]) * (b[1] - a[1])
  BY DEF Det, Minus
<1> QED BY <1>1, <1>2 DEF Cross

\* The ends of a segment are not both on one side of a line through a point of it.
LEMMA BetweenDivides ==
  ASSUME NEW a \in Point, NEW b \in Point, NEW p \in Point, NEW q \in Point,
         Between(a, b, p)
  PROVE  Cross(p, q, a) * Cross(p, q, b) <= 0
<1>1. /\ a[1] \in Int /\ a[2] \in Int /\ b[1] \in Int /\ b[2] \in Int
      /\ p[1] \in Int /\ p[2] \in Int /\ q[1] \in Int /\ q[2] \in Int
  BY PointIs
<1>2. ASSUME NEW a1 \in Int, NEW a2 \in Int, NEW b1 \in Int, NEW b2 \in Int,
             NEW v1 \in Int, NEW v2 \in Int,
             a1 * b2 = a2 * b1, a1 * b1 + a2 * b2 <= 0
      PROVE  (v1 * a2 - v2 * a1) * (v1 * b2 - v2 * b1) <= 0
  <2>1. (v1 * a2 - v2 * a1) * (v1 * b2 - v2 * b1)
          = (v1 * v1) * (a2 * b2) + (v2 * v2) * (a1 * b1) - v1 * v2 * (a1 * b2 + a2 * b1)
    OBVIOUS
  <2>2. a1 * b1 <= 0 /\ a2 * b2 <= 0
    BY <1>2
  <2>3. (a1 * b2) * (a2 * b1) = (a1 * b1) * (a2 * b2)
    OBVIOUS
  <2> QED BY <1>2, <2>1, <2>2, <2>3
<1> DEFINE a1 == a[1] - p[1]
           a2 == a[2] - p[2]
           b1 == b[1] - p[1]
           b2 == b[2] - p[2]
           v1 == q[1] - p[1]
           v2 == q[2] - p[2]
<1>3. /\ Cross(p, q, a) = v1 * a2 - v2 * a1 /\ Cross(p, q, b) = v1 * b2 - v2 * b1
      /\ Dot(p, a, b) = a1 * b1 + a2 * b2 /\ Cross(a, b, p) = a1 * b2 - a2 * b1
  BY <1>1 DEF Cross, Dot
<1>4. a1 \in Int /\ a2 \in Int /\ b1 \in Int /\ b2 \in Int /\ v1 \in Int /\ v2 \in Int
  BY <1>1
<1>5. a1 * b2 - a2 * b1 = 0 /\ a1 * b1 + a2 * b2 <= 0
  BY <1>3 DEF Between
<1> HIDE DEF a1, a2, b1, b2, v1, v2
<1>6. a1 * b2 = a2 * b1
  BY <1>4, <1>5
<1> QED BY <1>2, <1>3, <1>4, <1>5, <1>6

\* The three orientations are the three signs of the cross product.
LEMMA OrientationIs ==
  ASSUME NEW a \in Point, NEW b \in Point, NEW c \in Point
  PROVE  /\ Cross(a, b, c) \in Int
         /\ Cross(a, b, c) = 0 => Orientation(a, b, c) = 0
         /\ Cross(a, b, c) > 0 => Orientation(a, b, c) = 1
         /\ Cross(a, b, c) < 0 => Orientation(a, b, c) = 2
<1>1. Cross(a, b, c) \in Int
  BY PointIs DEF Cross
<1> QED BY <1>1 DEF Orientation

\* _segments_intersect is right: two segments cross or touch exactly when they
\* have a point in common, degenerate and parallel ones included.
THEOREM SegmentsIntersectIsMeet ==
  ASSUME NEW a \in Point, NEW b \in Point, NEW c \in Point, NEW d \in Point
  PROVE  SegmentsIntersect(a, b, c, d) <=> Meet(a, b, c, d)
<1> DEFINE det == Det(Minus(b, a), Minus(d, c))
           s == Det(Minus(c, a), Minus(d, c))
           t == Det(Minus(c, a), Minus(b, a))
           Touch == \/ Between(a, b, c) \/ Between(a, b, d)
                    \/ Between(c, d, a) \/ Between(c, d, b)
           Apart == /\ Orientation(a, b, c) # Orientation(a, b, d)
                    /\ Orientation(c, d, a) # Orientation(c, d, b)
           OfUnit(n) == Lesser(0, det) <= n /\ n <= Greater(0, det)
<1>0. /\ det = Det(Minus(b, a), Minus(d, c)) /\ s = Det(Minus(c, a), Minus(d, c))
      /\ t = Det(Minus(c, a), Minus(b, a))
  OBVIOUS
<1> HIDE DEF det, s, t
<1>1. /\ det \in Int /\ s \in Int /\ t \in Int
      /\ Cross(a, b, c) = -t /\ Cross(a, b, d) = det - t
      /\ Cross(c, d, a) = s /\ Cross(c, d, b) = s - det
  BY <1>0, CrossesAreDets
<1>2. SegmentsIntersect(a, b, c, d) <=> Apart \/ Touch
  <2>1. ASSUME NEW e \in Point, NEW f \in Point, NEW g \in Point
        PROVE  (Orientation(e, f, g) = 0 /\ OnSegment(e, f, g)) <=> Between(e, f, g)
    <3>1. Orientation(e, f, g) = 0 <=> Cross(e, f, g) = 0
      BY OrientationIs
    <3> QED BY <3>1, OnSegmentIsBetween DEF Between
  <2> QED BY <2>1 DEF SegmentsIntersect
<1>3. Meet(a, b, c, d) <=> IF det # 0 THEN OfUnit(s) /\ OfUnit(t) ELSE Touch
  BY <1>0 DEF Meet
<1>4. CASE det = 0
  <2>1. Cross(a, b, c) = Cross(a, b, d)
    BY <1>1, <1>4
  <2>2. Orientation(a, b, c) = Orientation(a, b, d)
    BY <2>1 DEF Orientation
  <2> QED BY <1>2, <1>3, <1>4, <2>2
<1>5. CASE det # 0
  <2>1. /\ Orientation(a, b, c) # Orientation(a, b, d) <=> OfUnit(t)
        /\ Orientation(c, d, a) # Orientation(c, d, b) <=> OfUnit(s)
    <3>1. /\ Orientation(a, b, c) = (IF -t = 0 THEN 0 ELSE IF -t > 0 THEN 1 ELSE 2)
          /\ Orientation(a, b, d) = (IF det - t = 0 THEN 0 ELSE IF det - t > 0 THEN 1 ELSE 2)
          /\ Orientation(c, d, a) = (IF s = 0 THEN 0 ELSE IF s > 0 THEN 1 ELSE 2)
          /\ Orientation(c, d, b) = (IF s - det = 0 THEN 0 ELSE IF s - det > 0 THEN 1 ELSE 2)
      BY <1>1, OrientationIs
    <3> QED BY <1>1, <1>5, <3>1 DEF Lesser, Greater
  <2>2. Touch => OfUnit(s) /\ OfUnit(t)
    <3>1. ASSUME NEW e \in Point, NEW f \in Point, NEW g \in Point, NEW h \in Point
          PROVE  Cross(e, f, g) = -Cross(f, e, g)
      BY PointIs DEF Cross
    <3>2. /\ Between(a, b, c) => t = 0 /\ s * (s - det) <= 0
          /\ Between(a, b, d) => t = det /\ (-s) * (det - s) <= 0
          /\ Between(c, d, a) => s = 0 /\ (-t) * (det - t) <= 0
          /\ Between(c, d, b) => s = det /\ t * (t - det) <= 0
      <4>1. Between(a, b, c) => t = 0 /\ s * (s - det) <= 0
        BY <1>1, BetweenDivides DEF Between
      <4>2. Between(a, b, d) => t = det /\ (-s) * (det - s) <= 0
        <5>1. Cross(d, c, a) = -s /\ Cross(d, c, b) = det - s
          BY <1>1, <3>1
        <5> QED BY <1>1, <5>1, BetweenDivides DEF Between
      <4>3. Between(c, d, a) => s = 0 /\ (-t) * (det - t) <= 0
        BY <1>1, BetweenDivides DEF Between
      <4>4. Between(c, d, b) => s = det /\ t * (t - det) <= 0
        <5>1. Cross(b, a, c) = t /\ Cross(b, a, d) = t - det
          BY <1>1, <3>1
        <5> QED BY <1>1, <5>1, BetweenDivides DEF Between
      <4> QED BY <4>1, <4>2, <4>3, <4>4
    <3>3. ASSUME NEW n \in Int, n * (n - det) <= 0
          PROVE  OfUnit(n)
      BY <1>1, <3>3 DEF Lesser, Greater
    <3>4. \A n \in {s, t} : (-n) * (det - n) = n * (n - det)
      BY <1>1
    <3>5. OfUnit(0) /\ OfUnit(det)
      BY <1>1 DEF Lesser, Greater
    <3> QED BY <1>1, <3>2, <3>3, <3>4, <3>5
  <2> QED BY <1>2, <1>3, <1>5, <2>1, <2>2
<1> QED BY <1>4, <1>5

----------------------------------------------------------------------------
(* Outlines                                                                *)

\* Two segments of which one has an end on the other intersect, whichever is
\* named first.
LEMMA SegmentsTouch ==
  ASSUME NEW a \in Point, NEW b \in Point, NEW c \in Point, NEW d \in Point,
         Between(a, b, c) \/ Between(a, b, d) \/ Between(c, d, a) \/ Between(c, d, b)
  PROVE  SegmentsIntersect(a, b, c, d) /\ SegmentsIntersect(c, d, a, b)
<1>1. ASSUME NEW e \in Point, NEW f \in Point, NEW g \in Point
      PROVE  Between(e, f, g) => Orientation(e, f, g) = 0 /\ OnSegment(e, f, g)
  BY OrientationIs, OnSegmentIsBetween DEF Between
<1> QED BY <1>1 DEF SegmentsIntersect

\* The end of a side is the beginning of the next one.
LEMMA Sides ==
  ASSUME NEW n \in Nat \ {0}, NEW i \in 1..n
  PROVE  /\ (i % n) + 1 = IF i = n THEN 1 ELSE i + 1
         /\ (i % n) + 1 \in 1..n
<1>1. CASE i = n
  <2>1. n % n = 0
    OBVIOUS
  <2> QED BY <1>1, <2>1
<1>2. CASE i # n
  <2>1. i \in 0..n-1
    BY <1>2
  <2>2. i % n = i
    BY <2>1
  <2> QED BY <1>2, <2>2
<1> QED BY <1>1, <1>2

\* Sides are neighbours, or one and the same, in both numberings.
LEMMA Neighbours ==
  ASSUME NEW n \in Nat, n >= 4, NEW i \in 1..n, NEW j \in 1..n
  PROVE  (j - i) % n \notin {0, 1, n - 1} <=>
           /\ i # j /\ j # i + 1 /\ i # j + 1
           /\ ~(i = 1 /\ j = n) /\ ~(j = 1 /\ i = n)
<1>1. CASE j >= i
  <2>1. j - i \in 0..n-1
    BY <1>1
  <2>2. (j - i) % n = j - i
    BY <2>1
  <2> QED BY <1>1, <2>2
<1>2. CASE j < i
  <2>1. j - i \in 1-n..-1
    BY <1>2
  <2>2. (j - i) % n = j - i + n
    BY <2>1
  <2> QED BY <1>2, <2>2
<1> QED BY <1>1, <1>2

\* Where two sides fold onto each other, the end of one is on the other.
LEMMA SpikeTouches ==
  ASSUME NEW a \in Point, NEW b \in Point, NEW c \in Point,
         Cross(a, b, c) = 0, Dot(b, a, c) > 0
  PROVE  Between(a, b, c) \/ Between(b, c, a)
<1>1. /\ a[1] \in Int /\ a[2] \in Int /\ b[1] \in Int /\ b[2] \in Int
      /\ c[1] \in Int /\ c[2] \in Int
  BY PointIs
<1>2. ASSUME NEW u1 \in Int, NEW u2 \in Int, NEW v1 \in Int, NEW v2 \in Int,
             u1 * v2 = u2 * v1, NEW k, k = u1 * v1 + u2 * v2, k > 0
      PROVE  u1 * u1 + u2 * u2 <= k \/ v1 * v1 + v2 * v2 <= k
  <2>1. (u1 * u1 + u2 * u2) * (v1 * v1 + v2 * v2) = k * k
    BY <1>2
  <2> QED BY <1>2, <2>1
<1> DEFINE u1 == a[1] - b[1]
           u2 == a[2] - b[2]
           v1 == c[1] - b[1]
           v2 == c[2] - b[2]
           k == u1 * v1 + u2 * v2
<1>3. /\ Cross(a, b, c) = u2 * v1 - u1 * v2 /\ Cross(b, c, a) = u2 * v1 - u1 * v2
      /\ Dot(b, a, c) = k
      /\ Dot(c, a, b) = v1 * v1 + v2 * v2 - k /\ Dot(a, b, c) = u1 * u1 + u2 * u2 - k
  BY <1>1 DEF Cross, Dot
<1>4. u1 \in Int /\ u2 \in Int /\ v1 \in Int /\ v2 \in Int /\ k \in Int
  BY <1>1
<1> HIDE DEF u1, u2, v1, v2
<1>5. u1 * v2 = u2 * v1 /\ k > 0
  BY <1>3, <1>4
<1>6. u1 * u1 + u2 * u2 <= k \/ v1 * v1 + v2 * v2 <= k
  BY <1>2, <1>4, <1>5
<1> HIDE DEF k
<1> QED BY <1>3, <1>4, <1>6 DEF Between

\* _polygon_is_simple is right: an outline of four corners or more has no two
\* sides that cross or touch but share no corner exactly when its sides are no
\* points, do not fold back and meet in their corners only.
THEOREM PolygonIsSimpleIsSimple ==
  ASSUME NEW outline \in Seq(Point), Len(outline) >= 4
  PROVE  PolygonIsSimple(outline) <=> Simple(outline)
<1> DEFINE n == Len(outline)
           After(i) == (i % n) + 1
           Far(i, j) == /\ i # j /\ j # i + 1 /\ i # j + 1
                        /\ ~(i = 1 /\ j = n) /\ ~(j = 1 /\ i = n)
           Cut(i, j) == SegmentsIntersect(outline[i], outline[After(i)],
                                          outline[j], outline[After(j)])
<1>0. n \in Nat /\ n >= 4 /\ n = Len(outline) /\ \A i \in 1..n : outline[i] \in Point
  OBVIOUS
<1> HIDE DEF n
<1>2. \A i \in 1..n : After(i) = (IF i = n THEN 1 ELSE i + 1) /\ After(i) \in 1..n
  <2> SUFFICES ASSUME NEW i \in 1..n PROVE After(i) = (IF i = n THEN 1 ELSE i + 1) /\ After(i) \in 1..n
    OBVIOUS
  <2>1. n \in Nat \ {0}
    BY <1>0
  <2> QED BY <2>1, Sides
<1>1. n \in Nat /\ n >= 4 /\ \A i \in 1..n : outline[i] \in Point /\ After(i) \in 1..n
  BY <1>0, <1>2
<1>3. \A i \in 1..n : Following(outline, i) = outline[After(i)]
  BY <1>0 DEF Following
<1>4. \A i, j \in 1..n : Cut(i, j) <=> Cut(j, i)
  BY DEF SegmentsIntersect
<1>5. PolygonIsSimple(outline) <=> \A i, j \in 1..n : Far(i, j) => ~Cut(i, j)
  <2>1. PolygonIsSimple(outline) <=>
          \A i, j \in 1..n : i < j /\ ~SharesCorner(outline, i, j) => ~Cut(i, j)
    <3> HIDE DEF After
    <3> QED BY <1>0, <1>3 DEF PolygonIsSimple
  <2>2. \A i, j \in 1..n : Far(i, j) <=> \/ i < j /\ ~SharesCorner(outline, i, j)
                                         \/ j < i /\ ~SharesCorner(outline, j, i)
    BY <1>0 DEF SharesCorner
  <2> HIDE DEF Far, Cut
  <2> QED BY <1>4, <2>1, <2>2
<1>6. Simple(outline) <=>
        /\ \A i \in 1..n :
             /\ outline[i] # outline[After(i)]
             /\ ~(/\ Cross(outline[i], outline[After(i)], outline[After(After(i))]) = 0
                  /\ Dot(outline[After(i)], outline[i], outline[After(After(i))]) > 0)
        /\ \A i, j \in 1..n : Far(i, j) => ~Cut(i, j)
  <2>1. \A i, j \in 1..n : (j - i) % n \notin {0, 1, n - 1} <=> Far(i, j)
    <3> HIDE DEF After
    <3> SUFFICES ASSUME NEW i \in 1..n, NEW j \in 1..n
                 PROVE  (j - i) % n \notin {0, 1, n - 1} <=> Far(i, j)
      OBVIOUS
    <3> QED BY <1>0, Neighbours
  <2>2. \A i, j \in 1..n :
          Cut(i, j) <=> Meet(outline[i], outline[After(i)], outline[j], outline[After(j)])
    BY <1>1, SegmentsIntersectIsMeet
  <2> HIDE DEF Far, Cut
  <2>3. Simple(outline) <=>
          /\ \A i \in 1..n :
               /\ outline[i] # Following(outline, i)
               /\ ~(/\ Cross(outline[i], Following(outline, i), Following(outline, After(i))) = 0
                    /\ Dot(Following(outline, i), outline[i], Following(outline, After(i))) > 0)
          /\ \A i, j \in 1..n :
               (j - i) % n \notin {0, 1, n - 1} =>
                 ~Meet(outline[i], Following(outline, i), outline[j], Following(outline, j))
    BY <1>0 DEF Simple
  <2> DEFINE Plain(i, b, c) == outline[i] # b /\ ~(Cross(outline[i], b, c) = 0 /\ Dot(b, outline[i], c) > 0)
  <2>4. \A i \in 1..n : Plain(i, Following(outline, i), Following(outline, After(i)))
                          <=> Plain(i, outline[After(i)], outline[After(After(i))])
    <3> HIDE DEF After, Plain
    <3> QED BY <1>1, <1>3
  <2>5. \A i, j \in 1..n :
          Meet(outline[i], Following(outline, i), outline[j], Following(outline, j)) <=> Cut(i, j)
    <3> HIDE DEF After, Cut
    <3> QED BY <1>1, <1>3, <2>2
  <2> HIDE DEF After, Far, Cut
  <2> QED BY <2>1, <2>3, <2>4, <2>5
<1> HIDE DEF After, Cut
<1>7. ASSUME NEW i \in 1..n, \A k, m \in 1..n : Far(k, m) => ~Cut(k, m)
      PROVE  /\ outline[i] # outline[After(i)]
             /\ ~(/\ Cross(outline[i], outline[After(i)], outline[After(After(i))]) = 0
                  /\ Dot(outline[After(i)], outline[i], outline[After(After(i))]) > 0)
  <2>1. PICK h \in 1..n : After(h) = i
    <3>1. i = 1 => After(n) = i
      BY <1>1, <1>2
    <3>2. i # 1 => i - 1 \in 1..n /\ After(i - 1) = i
      BY <1>1, <1>2
    <3> QED BY <1>1, <3>1, <3>2
  <2> DEFINE a == outline[i]
             b == outline[After(i)]
             c == outline[After(After(i))]
             d == outline[After(After(After(i)))]
             z == outline[h]
  <2>2. a \in Point /\ b \in Point /\ c \in Point /\ d \in Point /\ z \in Point
    BY <1>1
  <2>3. Far(h, After(i)) /\ Far(i, After(After(i)))
    <3> DEFINE k == After(i)
               m == After(k)
    <3>1. k \in 1..n /\ m \in 1..n
      BY <1>1
    <3>2. /\ i = (IF h = n THEN 1 ELSE h + 1) /\ k = (IF i = n THEN 1 ELSE i + 1)
          /\ m = (IF k = n THEN 1 ELSE k + 1)
      BY <1>1, <1>2, <2>1
    <3> HIDE DEF k, m
    <3>3. Far(h, k)
      BY <1>0, <3>1, <3>2
    <3>4. Far(i, m)
      BY <1>0, <3>1, <3>2
    <3> QED BY <3>3, <3>4 DEF k, m
  <2>4. ~SegmentsIntersect(z, a, b, c) /\ ~SegmentsIntersect(a, b, c, d)
    BY <1>1, <1>7, <2>1, <2>3 DEF Cut
  <2>5. a # b
    <3>1. Between(z, a, a)
      <4>1. z[1] \in Int /\ z[2] \in Int /\ a[1] \in Int /\ a[2] \in Int
        BY <2>2, PointIs
      <4> HIDE DEF z, a
      <4> QED BY <4>1 DEF Between, Cross, Dot
    <3> QED BY <2>2, <2>4, <3>1, SegmentsTouch
  <2>6. ~(Cross(a, b, c) = 0 /\ Dot(b, a, c) > 0)
    BY <2>2, <2>4, SpikeTouches, SegmentsTouch
  <2> QED BY <2>5, <2>6
<1> QED BY <1>5, <1>6, <1>7

----------------------------------------------------------------------------
(* Distances                                                               *)

\* _dist_point_segment against a radius, by vectors: p is w from a, b is u from a.
DiscsAndStrip(u1, u2, w1, w2, r) ==
  LET L == u1 * u1 + u2 * u2
      d == u1 * w1 + u2 * w2
      c == u1 * w2 - u2 * w1
      t == Lesser(Greater(d, 0), L)
  IN (w1 * L - t * u1) * (w1 * L - t * u1) + (w2 * L - t * u2) * (w2 * L - t * u2)
        <= (r * L) * (r * L)
     <=> \/ w1 * w1 + w2 * w2 <= r * r
         \/ (w1 - u1) * (w1 - u1) + (w2 - u2) * (w2 - u2) <= r * r
         \/ 0 < d /\ d < L /\ c * c <= (r * r) * L

\* The distance to the nearest point of the segment, in terms of the vector u
\* along it and the vector w to the point: before the one end, past the other,
\* or between them.
LEMMA ClampedDistance ==
  ASSUME NEW u1 \in Int, NEW u2 \in Int, NEW w1 \in Int, NEW w2 \in Int, NEW r \in Nat,
         ~(u1 = 0 /\ u2 = 0)
  PROVE  DiscsAndStrip(u1, u2, w1, w2, r)
<1> SUFFICES
      ASSUME NEW L, L = u1 * u1 + u2 * u2,
             NEW d, d = u1 * w1 + u2 * w2,
             NEW c, c = u1 * w2 - u2 * w1,
             NEW t, t = Lesser(Greater(d, 0), L)
      PROVE  (w1 * L - t * u1) * (w1 * L - t * u1) + (w2 * L - t * u2) * (w2 * L - t * u2)
                <= (r * L) * (r * L)
             <=> \/ w1 * w1 + w2 * w2 <= r * r
                 \/ (w1 - u1) * (w1 - u1) + (w2 - u2) * (w2 - u2) <= r * r
                 \/ 0 < d /\ d < L /\ c * c <= (r * r) * L
  BY Zenon DEF DiscsAndStrip
<1> DEFINE W == w1 * w1 + w2 * w2
           X == (w1 - u1) * (w1 - u1) + (w2 - u2) * (w2 - u2)
           G == (w1 * L - t * u1) * (w1 * L - t * u1) + (w2 * L - t * u2) * (w2 * L - t * u2)
           R == r * r
<1>1. /\ L \in Int /\ d \in Int /\ c \in Int /\ W \in Int /\ X \in Int /\ R \in Int
      /\ L > 0 /\ (r * L) * (r * L) = R * (L * L)
  <2>1. L > 0
    OBVIOUS
  <2> QED BY <2>1
<1>2. X = W - 2 * d + L /\ L * W = d * d + c * c
  OBVIOUS
<1>3. ASSUME NEW x \in Int, NEW y \in Int
      PROVE  x * (L * L) <= y * (L * L) <=> x <= y
  <2>1. L * L > 0
    BY <1>1
  <2> HIDE DEF W, X, G, R
  <2>2. \A k \in Int : k > 0 => (x * k <= y * k <=> x <= y)
    OBVIOUS
  <2> QED BY <1>1, <2>1, <2>2
<1>4. CASE d <= 0
  <2>1. t = 0
    BY <1>1, <1>4 DEF Lesser, Greater
  <2>2. G = W * (L * L)
    BY <1>1, <2>1
  <2> HIDE DEF W, X, G, R
  <2>3. G <= R * (L * L) <=> W <= R
    BY <1>1, <1>3, <2>2
  <2>4. X >= W
    BY <1>1, <1>2, <1>4
  <2>5. G <= R * (L * L) <=> W <= R \/ X <= R \/ (0 < d /\ d < L /\ c * c <= R * L)
    BY <1>1, <1>4, <2>3, <2>4
  <2> QED BY <1>1, <2>5 DEF W, X, G, R
<1>5. CASE d >= L
  <2>1. t = L
    BY <1>1, <1>5 DEF Lesser, Greater
  <2>2. \A l \in Int : (w1 * l - l * u1) * (w1 * l - l * u1) + (w2 * l - l * u2) * (w2 * l - l * u2)
                         = ((w1 - u1) * (w1 - u1) + (w2 - u2) * (w2 - u2)) * (l * l)
    OBVIOUS
  <2>5. G = X * (L * L)
    BY <1>1, <2>1, <2>2
  <2> HIDE DEF W, X, G, R
  <2>3. G <= R * (L * L) <=> X <= R
    BY <1>1, <1>3, <2>5
  <2>4. W >= X
    BY <1>1, <1>2, <1>5
  <2>6. G <= R * (L * L) <=> W <= R \/ X <= R \/ (0 < d /\ d < L /\ c * c <= R * L)
    BY <1>1, <1>5, <2>3, <2>4
  <2> QED BY <1>1, <2>6 DEF W, X, G, R
<1>6. CASE 0 < d /\ d < L
  <2>1. t = d
    BY <1>1, <1>6 DEF Lesser, Greater
  <2>2. G = L * (c * c)
    <3>1. (w1 * L - d * u1) * (w1 * L - d * u1) + (w2 * L - d * u2) * (w2 * L - d * u2) = L * (c * c)
      OBVIOUS
    <3> QED BY <2>1, <3>1
  <2>3. c * c \in Int
    OBVIOUS
  <2> HIDE DEF W, X, G, R
  <2>4. G <= R * (L * L) <=> c * c <= R * L
    <3>1. \A x, y \in Int : L * x <= y * (L * L) <=> x <= y * L
      BY <1>1
    <3> QED BY <1>1, <2>2, <2>3, <3>1
  <2>5. W <= R => c * c <= R * L
    <3>1. W <= R => L * W <= L * R
      BY <1>1
    <3>2. d * d >= 0
      BY <1>1
    <3> QED BY <1>1, <1>2, <2>3, <3>1, <3>2
  <2>6. X <= R => c * c <= R * L
    <3>1. L * X = (L - d) * (L - d) + c * c
      BY <1>1, <1>2
    <3>2. X <= R => L * X <= L * R
      BY <1>1
    <3>3. (L - d) * (L - d) >= 0
      BY <1>1
    <3> QED BY <1>1, <2>3, <3>1, <3>2, <3>3
  <2>7. G <= R * (L * L) <=> W <= R \/ X <= R \/ (0 < d /\ d < L /\ c * c <= R * L)
    BY <1>6, <2>4, <2>5, <2>6
  <2> QED BY <1>1, <2>7 DEF W, X, G, R
<1> QED BY <1>1, <1>4, <1>5, <1>6

\* _dist_point_segment, against a radius, is right: a point is within a distance
\* of a segment when it is in the discs around its ends or in the strip along it.
THEOREM WithinOfIsNear ==
  ASSUME NEW p \in Point, NEW a \in Point, NEW b \in Point, NEW radius \in Nat
  PROVE  WithinOf(p, a, b, radius) <=> Near(p, a, b, radius)
<1>1. /\ a[1] \in Int /\ a[2] \in Int /\ b[1] \in Int /\ b[2] \in Int
      /\ p[1] \in Int /\ p[2] \in Int
  BY PointIs
<1>2. a = b <=> a[1] = b[1] /\ a[2] = b[2]
  BY DEF Point
<1> DEFINE u1 == b[1] - a[1]
           u2 == b[2] - a[2]
           w1 == p[1] - a[1]
           w2 == p[2] - a[2]
           L == u1 * u1 + u2 * u2
           d == u1 * w1 + u2 * w2
           c == u1 * w2 - u2 * w1
           t == Lesser(Greater(d, 0), L)
<1>3. /\ Dot(a, b, b) = L /\ Dot(a, b, p) = d /\ Cross(a, b, p) = c
      /\ Dot(a, p, p) = w1 * w1 + w2 * w2
      /\ Dot(b, p, p) = (w1 - u1) * (w1 - u1) + (w2 - u2) * (w2 - u2)
  BY <1>1 DEF Dot, Cross
<1>4. Near(p, a, b, radius) <=>
        \/ w1 * w1 + w2 * w2 <= radius * radius
        \/ (w1 - u1) * (w1 - u1) + (w2 - u2) * (w2 - u2) <= radius * radius
        \/ 0 < d /\ d < L /\ c * c <= (radius * radius) * L
  <2> HIDE DEF L, d, c
  <2>1. \A e \in {a, b} : e = a \/ e = b
    OBVIOUS
  <2> QED BY <1>3, <2>1 DEF Near, Square
<1>5. CASE a = b
  <2>1. WithinOf(p, a, b, radius) <=> w1 * w1 + w2 * w2 <= radius * radius
    BY <1>5 DEF WithinOf, Square
  <2>2. u1 = 0 /\ u2 = 0
    BY <1>1, <1>5
  <2>3. d = 0 /\ (w1 - u1) = w1 /\ (w2 - u2) = w2
    <3>1. w1 \in Int /\ w2 \in Int
      BY <1>1
    <3> HIDE DEF u1, u2, w1, w2
    <3> QED BY <2>2, <3>1
  <2> QED BY <1>4, <2>1, <2>3
<1>6. CASE a # b
  <2>1. WithinOf(p, a, b, radius) <=>
          (w1 * L - t * u1) * (w1 * L - t * u1) + (w2 * L - t * u2) * (w2 * L - t * u2)
            <= (radius * L) * (radius * L)
    BY <1>3, <1>6 DEF WithinOf, Square
  <2>2. u1 \in Int /\ u2 \in Int /\ w1 \in Int /\ w2 \in Int /\ ~(u1 = 0 /\ u2 = 0)
    BY <1>1, <1>2, <1>6
  <2> HIDE DEF u1, u2, w1, w2
  <2>4. DiscsAndStrip(u1, u2, w1, w2, radius)
    BY <2>2, ClampedDistance
  <2>5. (w1 * L - t * u1) * (w1 * L - t * u1) + (w2 * L - t * u2) * (w2 * L - t * u2)
            <= (radius * L) * (radius * L)
         <=> \/ w1 * w1 + w2 * w2 <= radius * radius
             \/ (w1 - u1) * (w1 - u1) + (w2 - u2) * (w2 - u2) <= radius * radius
             \/ 0 < d /\ d < L /\ c * c <= (radius * radius) * L
    BY <2>4, Zenon DEF DiscsAndStrip
  <2> HIDE DEF L, d, c, t
  <2> QED BY <1>4, <2>1, <2>5
<1> QED BY <1>5, <1>6

----------------------------------------------------------------------------
(* Segments and boxes                                                      *)

\* The box and the end of the segment as seen from its beginning.
ClipsIsOverlaps(l, t, r, m, x, y) ==
     \/ (l <= 0 /\ 0 <= r /\ t <= 0 /\ 0 <= m)
     \/ (l <= x /\ x <= r /\ t <= y /\ y <= m)
     \/ /\ x = 0 => -l >= 0 /\ r >= 0
        /\ y = 0 => -t >= 0 /\ m >= 0
        /\ x > 0 => -l >= -x /\ r >= 0 /\ (-l) * x >= r * (-x)
        /\ x < 0 => r >= x /\ -l >= 0 /\ r * (-x) >= (-l) * x
        /\ y > 0 => -t >= -y /\ m >= 0 /\ (-t) * y >= m * (-y)
        /\ y < 0 => m >= y /\ -t >= 0 /\ m * (-y) >= (-t) * y
        /\ x > 0 /\ y > 0 => (-l) * y >= m * (-x) /\ (-t) * x >= r * (-y)
        /\ x > 0 /\ y < 0 => (-l) * (-y) >= (-t) * (-x) /\ m * x >= r * y
        /\ x < 0 /\ y > 0 => r * y >= m * x /\ (-t) * (-x) >= (-l) * (-y)
        /\ x < 0 /\ y < 0 => r * (-y) >= (-t) * x /\ m * (-x) >= (-l) * y
     <=> /\ Lesser(0, x) <= r /\ l <= Greater(0, x)
         /\ Lesser(0, y) <= m /\ t <= Greater(0, y)
         /\ \/ x * t - y * l <= 0 \/ x * t - y * r <= 0
            \/ x * m - y * l <= 0 \/ x * m - y * r <= 0
         /\ \/ x * t - y * l >= 0 \/ x * t - y * r >= 0
            \/ x * m - y * l >= 0 \/ x * m - y * r >= 0

\* Clipping by the four sides in turn, in terms of the box as seen from the
\* first end and of the vector (x, y) to the second.
LEMMA ClippedSegment ==
  ASSUME NEW l \in Int, NEW t \in Int, NEW r \in Int, NEW m \in Int,
         NEW x \in Int, NEW y \in Int, l <= r, t <= m
  PROVE  ClipsIsOverlaps(l, t, r, m, x, y)
<1> USE DEF ClipsIsOverlaps
<1>1. CASE x > 0 /\ y > 0
  BY <1>1 DEF Lesser, Greater
<1>2. CASE x > 0 /\ y < 0
  BY <1>2 DEF Lesser, Greater
<1>3. CASE x < 0 /\ y > 0
  BY <1>3 DEF Lesser, Greater
<1>4. CASE x < 0 /\ y < 0
  BY <1>4 DEF Lesser, Greater
<1>5. CASE x = 0
  BY <1>5 DEF Lesser, Greater
<1>6. CASE y = 0
  BY <1>6 DEF Lesser, Greater
<1> QED BY <1>1, <1>2, <1>3, <1>4, <1>5, <1>6

\* _segment_intersects_bbox is right: a segment has a point in an upright box
\* exactly when no line along an axis or along the segment separates them.
THEOREM SegmentIntersectsBoxIsOverlaps ==
  ASSUME NEW a \in Point, NEW b \in Point, NEW box \in Box,
         box[1] <= box[3], box[2] <= box[4]
  PROVE  SegmentIntersectsBox(a, b, box) <=> Overlaps(a, b, box)
<1> DEFINE l == box[1] - a[1]
           t == box[2] - a[2]
           r == box[3] - a[1]
           m == box[4] - a[2]
           x == b[1] - a[1]
           y == b[2] - a[2]
           p == <<-x, x, -y, y>>
           q == <<-l, r, -t, m>>
<1>1. /\ a[1] \in Int /\ a[2] \in Int /\ b[1] \in Int /\ b[2] \in Int
      /\ box[1] \in Int /\ box[2] \in Int /\ box[3] \in Int /\ box[4] \in Int
  BY PointIs DEF Box
<1>2. /\ l \in Int /\ t \in Int /\ r \in Int /\ m \in Int /\ x \in Int /\ y \in Int
      /\ l <= r /\ t <= m
  BY <1>1
<1>3. ClipsIsOverlaps(l, t, r, m, x, y)
  <2> HIDE DEF l, t, r, m, x, y
  <2> QED BY <1>2, ClippedSegment
<1>4. /\ InBox(a, box) <=> l <= 0 /\ 0 <= r /\ t <= 0 /\ 0 <= m
      /\ InBox(b, box) <=> l <= x /\ x <= r /\ t <= y /\ y <= m
  BY <1>1 DEF InBox
<1>5. SegmentIntersectsBox(a, b, box) <=>
        \/ InBox(a, box) \/ InBox(b, box)
        \/ /\ \A k \in 1..4 : p[k] = 0 => q[k] >= 0
           /\ \A k \in {h \in 1..4 : p[h] < 0} : q[k] >= p[k]
           /\ \A k \in {h \in 1..4 : p[h] > 0} : q[k] >= 0
           /\ \A k \in {h \in 1..4 : p[h] < 0}, n \in {h \in 1..4 : p[h] > 0} :
                q[k] * p[n] >= q[n] * p[k]
  <2>1. q = <<a[1] - box[1], box[3] - a[1], a[2] - box[2], box[4] - a[2]>>
    BY <1>1
  <2> HIDE DEF q
  <2> QED BY <2>1 DEF SegmentIntersectsBox
<1>6. /\ p[1] = -x /\ p[2] = x /\ p[3] = -y /\ p[4] = y
      /\ q[1] = -l /\ q[2] = r /\ q[3] = -t /\ q[4] = m
  OBVIOUS
<1> HIDE DEF p, q, l, t, r, m, x, y
<1>7. /\ (\A k \in 1..4 : p[k] = 0 => q[k] >= 0)
           <=> (x = 0 => -l >= 0 /\ r >= 0) /\ (y = 0 => -t >= 0 /\ m >= 0)
      /\ (\A k \in {h \in 1..4 : p[h] < 0} : q[k] >= p[k])
           <=> /\ x > 0 => -l >= -x
               /\ x < 0 => r >= x
               /\ y > 0 => -t >= -y
               /\ y < 0 => m >= y
      /\ (\A k \in {h \in 1..4 : p[h] > 0} : q[k] >= 0)
           <=> /\ x < 0 => -l >= 0
               /\ x > 0 => r >= 0
               /\ y < 0 => -t >= 0
               /\ y > 0 => m >= 0
  <2>1. \A k \in 1..4 : k = 1 \/ k = 2 \/ k = 3 \/ k = 4
    OBVIOUS
  <2> QED BY <1>2, <1>6, <2>1
<1>8. (\A k \in {h \in 1..4 : p[h] < 0}, n \in {h \in 1..4 : p[h] > 0} : q[k] * p[n] >= q[n] * p[k])
        <=> /\ x > 0 => (-l) * x >= r * (-x)
            /\ x < 0 => r * (-x) >= (-l) * x
            /\ y > 0 => (-t) * y >= m * (-y)
            /\ y < 0 => m * (-y) >= (-t) * y
            /\ x > 0 /\ y > 0 => (-l) * y >= m * (-x) /\ (-t) * x >= r * (-y)
            /\ x > 0 /\ y < 0 => (-l) * (-y) >= (-t) * (-x) /\ m * x >= r * y
            /\ x < 0 /\ y > 0 => r * y >= m * x /\ (-t) * (-x) >= (-l) * (-y)
            /\ x < 0 /\ y < 0 => r * (-y) >= (-t) * x /\ m * (-x) >= (-l) * y
  <2> DEFINE Passes(k, n) == p[k] < 0 /\ p[n] > 0 => q[k] * p[n] >= q[n] * p[k]
  <2>1. (\A k \in {h \in 1..4 : p[h] < 0}, n \in {h \in 1..4 : p[h] > 0} :
           q[k] * p[n] >= q[n] * p[k]) <=> \A k, n \in 1..4 : Passes(k, n)
    OBVIOUS
  <2>2. \A k \in 1..4 : k = 1 \/ k = 2 \/ k = 3 \/ k = 4
    OBVIOUS
  <2>3. (\A k, n \in 1..4 : Passes(k, n)) <=>
          /\ Passes(1, 1) /\ Passes(1, 2) /\ Passes(1, 3) /\ Passes(1, 4)
          /\ Passes(2, 1) /\ Passes(2, 2) /\ Passes(2, 3) /\ Passes(2, 4)
          /\ Passes(3, 1) /\ Passes(3, 2) /\ Passes(3, 3) /\ Passes(3, 4)
          /\ Passes(4, 1) /\ Passes(4, 2) /\ Passes(4, 3) /\ Passes(4, 4)
    <3> HIDE DEF Passes
    <3> QED BY <2>2
  <2>4. \A k \in 1..4 : Passes(k, k)
    BY <1>2, <1>6, <2>2
  <2>5. /\ Passes(1, 2) <=> (x > 0 => (-l) * x >= r * (-x))
        /\ Passes(2, 1) <=> (x < 0 => r * (-x) >= (-l) * x)
        /\ Passes(3, 4) <=> (y > 0 => (-t) * y >= m * (-y))
        /\ Passes(4, 3) <=> (y < 0 => m * (-y) >= (-t) * y)
    BY <1>2, <1>6
  <2>6. /\ Passes(1, 4) <=> (x > 0 /\ y > 0 => (-l) * y >= m * (-x))
        /\ Passes(3, 2) <=> (x > 0 /\ y > 0 => (-t) * x >= r * (-y))
        /\ Passes(1, 3) <=> (x > 0 /\ y < 0 => (-l) * (-y) >= (-t) * (-x))
        /\ Passes(4, 2) <=> (x > 0 /\ y < 0 => m * x >= r * y)
    BY <1>2, <1>6
  <2>7. /\ Passes(2, 4) <=> (x < 0 /\ y > 0 => r * y >= m * x)
        /\ Passes(3, 1) <=> (x < 0 /\ y > 0 => (-t) * (-x) >= (-l) * (-y))
        /\ Passes(2, 3) <=> (x < 0 /\ y < 0 => r * (-y) >= (-t) * x)
        /\ Passes(4, 1) <=> (x < 0 /\ y < 0 => m * (-x) >= (-l) * y)
    BY <1>2, <1>6
  <2> HIDE DEF Passes
  <2> QED BY <2>1, <2>3, <2>4, <2>5, <2>6, <2>7
<1>9. Overlaps(a, b, box) <=>
        /\ Lesser(0, x) <= r /\ l <= Greater(0, x)
        /\ Lesser(0, y) <= m /\ t <= Greater(0, y)
        /\ \/ x * t - y * l <= 0 \/ x * t - y * r <= 0
           \/ x * m - y * l <= 0 \/ x * m - y * r <= 0
        /\ \/ x * t - y * l >= 0 \/ x * t - y * r >= 0
           \/ x * m - y * l >= 0 \/ x * m - y * r >= 0
  <2> DEFINE lt == <<box[1], box[2]>>
             lm == <<box[1], box[4]>>
             rt == <<box[3], box[2]>>
             rm == <<box[3], box[4]>>
  <2>1. {box[1], box[3]} \X {box[2], box[4]} = {lt, lm, rt, rm}
    OBVIOUS
  <2>2. /\ Cross(a, b, lt) = x * t - y * l /\ Cross(a, b, lm) = x * m - y * l
        /\ Cross(a, b, rt) = x * t - y * r /\ Cross(a, b, rm) = x * m - y * r
    BY DEF Cross, x, y, l, t, r, m
  <2>3. /\ (Lesser(a[1], b[1]) <= box[3] /\ box[1] <= Greater(a[1], b[1]))
             <=> (Lesser(0, x) <= r /\ l <= Greater(0, x))
        /\ (Lesser(a[2], b[2]) <= box[4] /\ box[2] <= Greater(a[2], b[2]))
             <=> (Lesser(0, y) <= m /\ t <= Greater(0, y))
    BY <1>1 DEF x, y, l, t, r, m, Lesser, Greater
  <2>4. Overlaps(a, b, box) <=>
          /\ Lesser(a[1], b[1]) <= box[3] /\ box[1] <= Greater(a[1], b[1])
          /\ Lesser(a[2], b[2]) <= box[4] /\ box[2] <= Greater(a[2], b[2])
          /\ \E c, d \in {lt, lm, rt, rm} : Cross(a, b, c) <= 0 /\ Cross(a, b, d) >= 0
    <3> HIDE DEF lt, lm, rt, rm
    <3>1. \A k \in 1..2 : k = 1 \/ k = 2
      OBVIOUS
    <3> QED BY <1>1, <2>1, <3>1 DEF Overlaps
  <2>5. (\E c, d \in {lt, lm, rt, rm} : Cross(a, b, c) <= 0 /\ Cross(a, b, d) >= 0) <=>
          /\ Cross(a, b, lt) <= 0 \/ Cross(a, b, rt) <= 0 \/ Cross(a, b, lm) <= 0 \/ Cross(a, b, rm) <= 0
          /\ Cross(a, b, lt) >= 0 \/ Cross(a, b, rt) >= 0 \/ Cross(a, b, lm) >= 0 \/ Cross(a, b, rm) >= 0
    <3> HIDE DEF lt, lm, rt, rm
    <3> QED OBVIOUS
  <2> HIDE DEF lt, lm, rt, rm
  <2> QED BY <2>2, <2>3, <2>4, <2>5
<1> QED BY <1>2, <1>3, <1>4, <1>5, <1>7, <1>8, <1>9 DEF ClipsIsOverlaps

----------------------------------------------------------------------------
(* Points in outlines                                                      *)

\* Is v right of and beyond p?
Ahead(p, v) == v[1] > p[1] /\ v[2] > p[2]

\* Does the line from p along the second axis cross the side from a to b?
BeamCrosses(p, a, b) ==
  \/ a[1] <= p[1] /\ p[1] < b[1] /\ Cross(a, b, p) < 0
  \/ b[1] <= p[1] /\ p[1] < a[1] /\ Cross(a, b, p) > 0

\* A side that p is not on crosses one of the two lines, but not both, exactly
\* when it leads into the quarter of the plane between them, or out of it.
LEMMA RayOrBeam ==
  ASSUME NEW p \in Point, NEW a \in Point, NEW b \in Point, ~Between(a, b, p)
  PROVE  (RayCrosses(p, a, b) <=> BeamCrosses(p, a, b)) <=> (Ahead(p, a) <=> Ahead(p, b))
<1> DEFINE u1 == a[1] - p[1]
           u2 == a[2] - p[2]
           v1 == b[1] - p[1]
           v2 == b[2] - p[2]
           D == u1 * v2 - u2 * v1
<1>1. /\ a[1] \in Int /\ a[2] \in Int /\ b[1] \in Int /\ b[2] \in Int
      /\ p[1] \in Int /\ p[2] \in Int
  BY PointIs
<1>2. u1 \in Int /\ u2 \in Int /\ v1 \in Int /\ v2 \in Int
  BY <1>1
<1>3. RayCrosses(p, a, b) <=> \/ u2 <= 0 /\ v2 > 0 /\ D > 0
                              \/ v2 <= 0 /\ u2 > 0 /\ D < 0
  <2> DEFINE up == b[2] - a[2]
             left == (p[1] - a[1]) * up
             right == (p[2] - a[2]) * (b[1] - a[1])
  <2>1. right - left = D /\ left \in Int /\ right \in Int /\ D \in Int
    <3>1. left = (-u1) * (v2 - u2) /\ right = (-u2) * (v1 - u1)
      BY <1>1
    <3> HIDE DEF u1, u2, v1, v2, left, right
    <3> QED BY <1>2, <3>1
  <2>2. RayCrosses(p, a, b) <=> /\ ~(u2 > 0 <=> v2 > 0)
                                /\ IF up > 0 THEN left < right ELSE left > right
    <3>1. (a[2] > p[2] <=> u2 > 0) /\ (b[2] > p[2] <=> v2 > 0)
      BY <1>1
    <3> HIDE DEF u2, v2
    <3> QED BY <3>1 DEF RayCrosses
  <2>3. up = v2 - u2
    BY <1>1
  <2> HIDE DEF up, left, right, D, u2, v2
  <2> QED BY <1>2, <2>1, <2>2, <2>3
<1>4. BeamCrosses(p, a, b) <=> \/ u1 <= 0 /\ v1 > 0 /\ D < 0
                               \/ v1 <= 0 /\ u1 > 0 /\ D > 0
  BY <1>1 DEF BeamCrosses, Cross
<1>5. ~(D = 0 /\ u1 * v1 + u2 * v2 <= 0)
  BY <1>1 DEF Between, Cross, Dot
<1>6. (Ahead(p, a) <=> u1 > 0 /\ u2 > 0) /\ (Ahead(p, b) <=> v1 > 0 /\ v2 > 0)
  BY <1>1 DEF Ahead
<1> HIDE DEF u1, u2, v1, v2
<1>9. (((u2 <= 0 /\ v2 > 0 /\ D > 0) \/ (v2 <= 0 /\ u2 > 0 /\ D < 0))
         <=> ((u1 <= 0 /\ v1 > 0 /\ D < 0) \/ (v1 <= 0 /\ u1 > 0 /\ D > 0)))
      <=> ((u1 > 0 /\ u2 > 0) <=> (v1 > 0 /\ v2 > 0))
  <2>1. CASE u1 > 0 /\ u2 > 0
    BY <1>2, <1>5, <2>1
  <2>2. CASE u1 > 0 /\ u2 <= 0
    BY <1>2, <1>5, <2>2
  <2>3. CASE u1 <= 0 /\ u2 > 0
    <3>1. CASE v1 > 0 /\ v2 > 0
      <4>1. D \in Int /\ D < 0
        <5>1. u1 * v2 <= 0 /\ u2 * v1 > 0
          BY <1>2, <2>3, <3>1
        <5> QED BY <1>2, <1>5, <5>1
      <4> HIDE DEF D
      <4> QED BY <1>2, <2>3, <3>1, <4>1
    <3>2. CASE v1 > 0 /\ v2 <= 0
      <4>1. D \in Int
        BY <1>2
      <4> HIDE DEF D
      <4> QED BY <1>2, <2>3, <3>2, <4>1
    <3>3. CASE v1 <= 0 /\ v2 > 0
      BY <1>2, <1>5, <2>3, <3>3
    <3>4. CASE v1 <= 0 /\ v2 <= 0
      BY <1>2, <1>5, <2>3, <3>4
    <3> QED BY <1>2, <3>1, <3>2, <3>3, <3>4
  <2>4. CASE u1 <= 0 /\ u2 <= 0
    <3>1. CASE v1 > 0 /\ v2 > 0
      <4>1. D \in Int /\ D # 0
        <5>1. u1 * v1 <= 0 /\ u2 * v2 <= 0
          BY <1>2, <2>4, <3>1
        <5> QED BY <1>2, <1>5, <5>1
      <4> HIDE DEF D
      <4> QED BY <1>2, <2>4, <3>1, <4>1
    <3>2. CASE v1 > 0 /\ v2 <= 0
      BY <1>2, <1>5, <2>4, <3>2
    <3>3. CASE v1 <= 0 /\ v2 > 0
      BY <1>2, <1>5, <2>4, <3>3
    <3>4. CASE v1 <= 0 /\ v2 <= 0
      BY <1>2, <1>5, <2>4, <3>4
    <3> QED BY <1>2, <3>1, <3>2, <3>3, <3>4
  <2> QED BY <1>2, <2>1, <2>2, <2>3, <2>4
<1> HIDE DEF D
<1> QED BY <1>3, <1>4, <1>6, <1>9

\* A set of natural numbers that is not empty has a least element.
LEMMA LeastNatural ==
  ASSUME NEW T, T \subseteq Nat, T # {}
  PROVE  \E x \in T : \A y \in T : x <= y
<1> DEFINE R == {ss \in Nat \X Nat : ss[1] < ss[2]}
<1>1. IsWellFoundedOn(R, Nat)
  BY NatLessThanWellFounded DEF OpToRel
<1>2. PICK x \in T : \A y \in T : <<y, x>> \notin R
  <2> HIDE DEF R
  <2> QED BY <1>1, WFMin
<1>3. ASSUME NEW y \in T PROVE x <= y
  <2>1. x \in Nat /\ y \in Nat
    OBVIOUS
  <2>2. ~(y < x)
    BY <1>2, <2>1
  <2> QED BY <2>1, <2>2
<1> QED BY <1>3

\* One more element turns an odd number of them into an even one, and back.
LEMMA OddOneMore ==
  ASSUME NEW S, IsFiniteSet(S), NEW x, x \notin S
  PROVE  IsFiniteSet(S \cup {x}) /\ (Odd(Cardinality(S \cup {x})) <=> ~Odd(Cardinality(S)))
<1>1. /\ IsFiniteSet(S \cup {x}) /\ Cardinality(S \cup {x}) = Cardinality(S) + 1
      /\ Cardinality(S) \in Nat
  BY FS_AddElement, FS_CardinalityType
<1>2. \A m \in Nat : (m + 1) % 2 = 1 <=> ~(m % 2 = 1)
  OBVIOUS
<1> QED BY <1>1, <1>2 DEF Odd

\* Where a walk along an outline changes over.
ChangesTo(g, k) == {i \in 1..k : g[i] # g[i + 1]}

\* After k steps one is on the other side when one has changed over odd times.
LEMMA OddChanges ==
  ASSUME NEW n \in Nat, NEW g \in [1..n + 1 -> BOOLEAN], NEW k \in 0..n
  PROVE  /\ IsFiniteSet(ChangesTo(g, k))
         /\ Odd(Cardinality(ChangesTo(g, k))) <=> g[1] # g[k + 1]
<1> DEFINE Right(j) == /\ IsFiniteSet(ChangesTo(g, j))
                       /\ Odd(Cardinality(ChangesTo(g, j))) <=> g[1] # g[j + 1]
           Wrong == {j \in 0..n : ~Right(j)}
<1>1. SUFFICES ASSUME Wrong # {} PROVE FALSE
  OBVIOUS
<1>2. PICK j \in Wrong : \A i \in Wrong : j <= i
  <2>1. Wrong \subseteq Nat
    OBVIOUS
  <2> HIDE DEF Wrong
  <2> QED BY <1>1, <2>1, LeastNatural
<1>3. CASE j = 0
  <2>1. ChangesTo(g, 0) = {}
    BY DEF ChangesTo
  <2>2. ~Odd(0)
    BY DEF Odd
  <2>3. Right(0)
    BY <2>1, <2>2, FS_EmptySet
  <2> QED BY <1>2, <1>3, <2>3
<1>4. CASE j # 0
  <2>1. j - 1 \in 0..n /\ j \in 1..n
    BY <1>4
  <2>2. Right(j - 1)
    BY <1>2, <2>1
  <2>3. (j - 1) + 1 = j
    BY <2>1
  <2>4. /\ IsFiniteSet(ChangesTo(g, j - 1))
        /\ Odd(Cardinality(ChangesTo(g, j - 1))) <=> g[1] # g[j]
    BY <2>2, <2>3
  <2>5. g[1] \in BOOLEAN /\ g[j] \in BOOLEAN /\ g[j + 1] \in BOOLEAN
    BY <2>1
  <2>6. CASE g[j] = g[j + 1]
    <3>1. ChangesTo(g, j) = ChangesTo(g, j - 1)
      BY <2>1, <2>6 DEF ChangesTo
    <3>2. Right(j)
      BY <2>4, <2>6, <3>1
    <3> QED BY <1>2, <3>2
  <2>7. CASE g[j] # g[j + 1]
    <3>1. ChangesTo(g, j) = ChangesTo(g, j - 1) \cup {j} /\ j \notin ChangesTo(g, j - 1)
      BY <2>1, <2>7 DEF ChangesTo
    <3>2. IsFiniteSet(ChangesTo(g, j))
          /\ (Odd(Cardinality(ChangesTo(g, j))) <=> ~Odd(Cardinality(ChangesTo(g, j - 1))))
      BY <2>4, <3>1, OddOneMore
    <3>3. Right(j)
      BY <2>4, <2>5, <2>7, <3>2
    <3> QED BY <1>2, <3>3
  <2> QED BY <2>6, <2>7
<1> QED BY <1>3, <1>4

\* The elements in one of two sets are odd when those of one, but not both, are.
LEMMA OddDifference ==
  ASSUME NEW A, NEW B, IsFiniteSet(A), IsFiniteSet(B)
  PROVE  Odd(Cardinality((A \ B) \cup (B \ A))) <=> ~(Odd(Cardinality(A)) <=> Odd(Cardinality(B)))
<1> DEFINE a == Cardinality(A)
           b == Cardinality(B)
           c == Cardinality(A \cap B)
           onlyA == Cardinality(A \ B)
           onlyB == Cardinality(B \ A)
           either == Cardinality((A \ B) \cup (B \ A))
<1>1. B \cap A = A \cap B /\ (A \ B) \cap (B \ A) = {}
  OBVIOUS
<1>2. /\ IsFiniteSet(A \ B) /\ onlyA = a - c
      /\ IsFiniteSet(B \ A) /\ onlyB = b - c
  BY <1>1, FS_Difference
<1>3. either = onlyA + onlyB - Cardinality({})
  BY <1>1, <1>2, FS_Union
<1>4. a \in Nat /\ b \in Nat /\ c \in Nat /\ Cardinality({}) = 0
  BY FS_Intersection, FS_CardinalityType, FS_EmptySet
<1> HIDE DEF a, b, c, onlyA, onlyB, either
<1>5. either = (a - c) + (b - c)
  BY <1>2, <1>3, <1>4
<1>6. ((a - c) + (b - c)) % 2 = 1 <=> ~(a % 2 = 1 <=> b % 2 = 1)
  BY <1>4
<1> QED BY <1>5, <1>6 DEF Odd, a, b, either

\* _point_in_polygon is right: a point off the outline is inside by the ray to
\* the right exactly when it is inside by a ray along the other axis.
THEOREM PointInPolygonIsInside ==
  ASSUME NEW outline \in Seq(Point), NEW p \in Point, ~OnOutline(p, outline)
  PROVE  PointInPolygon(p, outline) <=> Inside(p, outline)
<1> DEFINE n == Len(outline)
           end(i) == Following(outline, i)
           Ray == {i \in 1..n : RayCrosses(p, outline[i], end(i))}
           Beam == {i \in 1..n : BeamCrosses(p, outline[i], end(i))}
<1>1. n \in Nat /\ IsFiniteSet(1..n) /\ Ray \subseteq 1..n /\ Beam \subseteq 1..n
  BY FS_Interval
<1>2. IsFiniteSet(Ray) /\ IsFiniteSet(Beam)
  BY <1>1, FS_Subset
<1>3. /\ PointInPolygon(p, outline) <=> Odd(Cardinality(Ray))
      /\ Inside(p, outline) <=> Odd(Cardinality(Beam))
  <2>1. Beam = {i \in 1..n : LET a == outline[i]
                                 b == Following(outline, i)
                             IN \/ a[1] <= p[1] /\ p[1] < b[1] /\ Cross(a, b, p) < 0
                                \/ b[1] <= p[1] /\ p[1] < a[1] /\ Cross(a, b, p) > 0}
    BY DEF BeamCrosses
  <2> QED BY <2>1 DEF PointInPolygon, Inside
<1>4. ASSUME NEW i \in 1..n
      PROVE  /\ outline[i] \in Point
             /\ end(i) = IF i = n THEN outline[1] ELSE outline[i + 1]
             /\ end(i) \in Point
             /\ ~Between(outline[i], end(i), p)
  <2>1. n \in Nat \ {0} /\ (i % n) + 1 = (IF i = n THEN 1 ELSE i + 1) /\ (i % n) + 1 \in 1..n
    <3>1. n \in Nat \ {0}
      BY <1>1
    <3> HIDE DEF n
    <3> QED BY <3>1, Sides
  <2>2. end(i) = outline[(i % n) + 1]
    BY DEF Following
  <2> QED BY <2>1, <2>2 DEF OnOutline
<1> HIDE DEF n, end
<1> DEFINE g == [i \in 1..n + 1 |-> Ahead(p, IF i = n + 1 THEN outline[1] ELSE outline[i])]
<1>5. (Ray \ Beam) \cup (Beam \ Ray) = ChangesTo(g, n)
  <2>1. ASSUME NEW i \in 1..n
        PROVE  i \in (Ray \ Beam) \cup (Beam \ Ray) <=> g[i] # g[i + 1]
    <3>1. /\ i \in Ray <=> RayCrosses(p, outline[i], end(i))
          /\ i \in Beam <=> BeamCrosses(p, outline[i], end(i))
      OBVIOUS
    <3>2. (i \in Ray <=> i \in Beam) <=> (Ahead(p, outline[i]) <=> Ahead(p, end(i)))
      BY <1>4, <3>1, RayOrBeam
    <3>3. g[i] = Ahead(p, outline[i]) /\ g[i + 1] = Ahead(p, end(i))
      BY <1>1, <1>4
    <3>4. g[i] \in BOOLEAN /\ g[i + 1] \in BOOLEAN
      BY <3>3 DEF Ahead
    <3> HIDE DEF Ray, Beam, g
    <3> QED BY <3>2, <3>3, <3>4
  <2>2. Ray \subseteq 1..n /\ Beam \subseteq 1..n
    OBVIOUS
  <2> HIDE DEF Ray, Beam, g
  <2> QED BY <2>1, <2>2 DEF ChangesTo
<1>6. ~Odd(Cardinality(ChangesTo(g, n)))
  <2>1. g \in [1..n + 1 -> BOOLEAN]
    BY DEF Ahead
  <2>2. g[n + 1] = g[1]
    BY <1>1
  <2> HIDE DEF g
  <2> QED BY <1>1, <2>1, <2>2, OddChanges
<1> HIDE DEF Ray, Beam, g
<1>7. Odd(Cardinality(Ray)) <=> Odd(Cardinality(Beam))
  BY <1>2, <1>5, <1>6, OddDifference
<1> QED BY <1>3, <1>7

----------------------------------------------------------------------------
(* What the board and the calls are made of                                *)

Fields == {"asked", "step", "ids", "pads", "told", "rejected"}

\* Items are copper, and told apart by their ids, which are spent.
ItemsOK(S, next) ==
  /\ IsFiniteSet(S)
  /\ \A item \in S : IsCopper(item) /\ item.id < next
  /\ \A one, other \in S : one.id = other.id => one = other

BoardOK ==
  /\ nextId \in Nat /\ ItemsOK(items, nextId) /\ ItemsOK(before, nextId)
  /\ \A zone \in zones : zone.outline \in Seq(Point)

Deleting == {"delete_tracks_bulk", "delete_near", "delete_by_id"}
Finding == Deleting \cup {"get_tracks"}

\* A call is a record, and has steps left only if it deletes or stitches.
CallOK ==
  /\ call = [x \in Fields |-> call[x]] /\ call.pads \subseteq Pads
  /\ call.step \in {"idle", "remove", "stitch"}
  /\ call.step = "remove" => call.asked.tool \in Deleting /\ call.ids = call.told /\ reply = "NONE"
  /\ call.step = "stitch" => call.asked.tool = "route_board" /\ reply = "NONE"

CopperTypeOK == BoardOK /\ CallOK

\* A part of a board is a board, also when more ids have been given.
LEMMA ItemsSubset ==
  ASSUME NEW S, NEW n \in Nat, ItemsOK(S, n), NEW T, T \subseteq S, NEW m \in Nat, n <= m
  PROVE  ItemsOK(T, m)
<1>1. IsFiniteSet(T)
  BY FS_Subset DEF ItemsOK
<1>2. \A item \in T : item.id \in Nat
  BY DEF ItemsOK, IsCopper
<1> QED BY <1>1, <1>2 DEF ItemsOK

\* A new item has an id of its own.
LEMMA ItemsAdded ==
  ASSUME NEW S, NEW n \in Nat, ItemsOK(S, n), NEW item, IsCopper(item), item.id < n,
         \A other \in S : other.id # item.id
  PROVE  ItemsOK(S \cup {item}, n)
<1>1. IsFiniteSet(S \cup {item})
  BY FS_AddElement DEF ItemsOK
<1> QED BY <1>1 DEF ItemsOK

\* The fields of a call that has just begun.
LEMMA NewCalls ==
  ASSUME NEW asked
  PROVE  /\ NewCall(asked) = [x \in Fields |-> NewCall(asked)[x]]
         /\ NewCall(asked).asked = asked /\ NewCall(asked).step = "idle"
         /\ NewCall(asked).told = {} /\ NewCall(asked).ids = {}
         /\ NewCall(asked).pads = {} /\ NewCall(asked).rejected = {}
BY DEF NewCall, Fields

\* A call that is over keeps what it told.
LEMMA CallsEnd ==
  ASSUME NEW one, one = [x \in Fields |-> one[x]], NEW other, other = [one EXCEPT !.step = "idle"]
  PROVE  /\ other = [x \in Fields |-> other[x]]
         /\ other.step = "idle" /\ other.asked = one.asked /\ other.told = one.told
         /\ other.pads = one.pads /\ other.rejected = one.rejected
BY DEF Fields

\* A zone is created, or refused for its shape, or the request fails.
LEMMA AddZoneEnds ==
  ASSUME CopperTypeOK, NEW net \in Nets, NEW layer \in Layers, NEW shape \in Shapes,
         AddZone(net, layer, shape)
  PROVE  /\ CopperTypeOK'
         /\ call'.asked.tool = "add_zone" /\ call'.asked.shape = shape /\ call'.step = "idle"
         /\ reply' \in {"FAILED", IF ValidShape(shape) THEN "OK" ELSE "INVALID_ZONE_GEOMETRY"}
<1> DEFINE asked == [tool |-> "add_zone", shape |-> shape]
           zone == [net |-> net, layer |-> layer, outline |-> Outline(shape)]
<1>1. /\ call' = NewCall(asked) \/ call' = [NewCall(asked) EXCEPT !.step = "idle"]
      /\ reply' \in {"FAILED", IF ValidShape(shape) THEN "OK" ELSE "INVALID_ZONE_GEOMETRY"}
      /\ items' = items /\ nextId' = nextId /\ before' = items
      /\ zones' = zones \/ zones' = zones \cup {zone}
  BY DEF AddZone, Begin, Request, Answer, CreateZone, board
<1>2. /\ call' = [x \in Fields |-> call'[x]] /\ call'.asked = asked /\ call'.step = "idle"
      /\ call'.pads = {}
  BY <1>1, NewCalls, CallsEnd
<1>3. Outline(shape) \in Seq(Point)
  <2>1. CASE "bbox" \in DOMAIN shape
    <3>1. shape.bbox \in Box
      BY <2>1, CopperAssumption
    <3>2. /\ shape.bbox[1] \in Int /\ shape.bbox[2] \in Int
          /\ shape.bbox[3] \in Int /\ shape.bbox[4] \in Int
      BY <3>1 DEF Box
    <3> QED BY <2>1, <3>2 DEF Outline, Corners, Point
  <2>2. CASE "bbox" \notin DOMAIN shape
    BY <2>2, CopperAssumption DEF Outline
  <2> QED BY <2>1, <2>2
<1>4. BoardOK'
  BY <1>1, <1>3 DEF CopperTypeOK, BoardOK
<1>5. CallOK'
  BY <1>2 DEF CallOK
<1> QED BY <1>1, <1>2, <1>4, <1>5 DEF CopperTypeOK

\* What the tools that look for items leave: the call of their reading.
LEMMA FindingReads ==
  ASSUME CopperTypeOK, Begin, UNCHANGED board,
         call' = [x \in Fields |-> call'[x]], call'.pads \subseteq Pads,
         call'.step = "idle" \/ reply' = "NONE",
         \/ call'.step = "idle"
         \/ call'.step = "remove" /\ call'.asked.tool \in Deleting /\ call'.ids = call'.told
         \/ call'.step = "stitch" /\ call'.asked.tool = "route_board"
  PROVE  CopperTypeOK'
BY DEF CopperTypeOK, BoardOK, CallOK, Begin, board

----------------------------------------------------------------------------
(* Finding                                                                 *)

\* A track, an arc or a via is within a radius when one of its legs is.
LEMMA ReachesIsNear ==
  ASSUME NEW item, IsCopper(item), NEW at \in Point, NEW radius \in Nat
  PROVE  Reaches(item, at, radius)
           <=> \E leg \in Legs(item.path) : Near(at, leg[1], leg[2], radius)
<1>1. item.path \in Seq(Point)
  BY DEF IsCopper
<1>2. ASSUME NEW leg \in Legs(item.path)
      PROVE  leg[1] \in Point /\ leg[2] \in Point
  <2>1. Len(item.path) \in Nat /\ \A i \in 1..Len(item.path) : item.path[i] \in Point
    BY <1>1
  <2>2. CASE Len(item.path) = 1
    BY <2>1, <2>2 DEF Legs
  <2>3. CASE Len(item.path) # 1
    <3>1. PICK i \in 1..Len(item.path) - 1 : leg = <<item.path[i], item.path[i + 1]>>
      BY <2>3 DEF Legs
    <3>2. i \in 1..Len(item.path) /\ i + 1 \in 1..Len(item.path)
      BY <2>1
    <3> QED BY <2>1, <3>1, <3>2
  <2> QED BY <2>2, <2>3
<1> QED BY <1>2, WithinOfIsNear DEF Reaches

\* An item is in a box when its chord overlaps it.
LEMMA CopperInBoxIsOverlaps ==
  ASSUME NEW item, IsCopper(item), NEW box \in Box, Upright(box)
  PROVE  CopperInBox(item, box) <=> Overlaps(item.path[1], item.path[Len(item.path)], box)
<1>1. item.path \in Seq(Point) /\ item.path # <<>>
  BY DEF IsCopper
<1>2. item.path[1] \in Point /\ item.path[Len(item.path)] \in Point
  BY <1>1
<1> QED BY <1>2, SegmentIntersectsBoxIsOverlaps DEF CopperInBox, Upright

\* get_tracks and delete_tracks_bulk list what the filter means.
LEMMA ListedIsMeant ==
  ASSUME ItemsOK(items, nextId), NEW filter \in Filters, ValidFilter(filter),
         NEW asked, asked.filter = filter, asked.tool \in {"get_tracks", "delete_tracks_bulk"}
  PROVE  Listed(filter) = Meant(asked, items)
<1>1. ASSUME NEW item \in items
      PROVE  Matches(item, filter) <=>
               /\ filter.net \subseteq {item.net}
               /\ \A box \in filter.box :
                    Overlaps(item.path[1], item.path[Len(item.path)], box)
               /\ IsVia(item) \/ filter.layer \subseteq {item.layer}
               /\ IsVia(item) => filter.vias
  <2>1. IsCopper(item)
    BY DEF ItemsOK
  <2>2. \A box \in filter.box :
          CopperInBox(item, box) <=> Overlaps(item.path[1], item.path[Len(item.path)], box)
    <3>1. \A box \in filter.box : box \in Box /\ Upright(box)
      BY CopperAssumption DEF ValidFilter
    <3> QED BY <2>1, <3>1, CopperInBoxIsOverlaps
  <2>3. (\A layer \in filter.layer : OnLayer(item, layer))
          <=> IsVia(item) \/ filter.layer \subseteq {item.layer}
    BY <2>1 DEF IsCopper, OnLayer
  <2>4. (\A net \in filter.net : item.net = net) <=> filter.net \subseteq {item.net}
    OBVIOUS
  <2> QED BY <2>2, <2>3, <2>4 DEF Matches
<1>2. Meant(asked, items) =
        {item \in items : /\ filter.net \subseteq {item.net}
                          /\ \A box \in filter.box :
                               Overlaps(item.path[1], item.path[Len(item.path)], box)
                          /\ IsVia(item) \/ filter.layer \subseteq {item.layer}
                          /\ IsVia(item) => filter.vias}
  BY DEF Meant
<1> QED BY <1>1, <1>2 DEF Listed

\* An item pointed at.
LEMMA WithinIsMeant ==
  ASSUME ItemsOK(items, nextId), NEW asked, asked.tool = "delete_near", asked.at \in Point
  PROVE  {item \in items : /\ item.net = asked.net /\ IsVia(item) = asked.via
                           /\ Reaches(item, asked.at, Tolerance)}
           = Meant(asked, items)
<1>1. \A item \in items :
        Reaches(item, asked.at, Tolerance)
          <=> \E leg \in Legs(item.path) : Near(asked.at, leg[1], leg[2], Tolerance)
  BY CopperAssumption, ReachesIsNear DEF ItemsOK
<1>2. Meant(asked, items) =
        {item \in items : /\ item.net = asked.net /\ IsVia(item) = asked.via
                          /\ \E leg \in Legs(item.path) : Near(asked.at, leg[1], leg[2], Tolerance)}
  BY DEF Meant
<1> QED BY <1>1, <1>2

\* There is one item when there is one id.
LEMMA OneId ==
  ASSUME NEW S, NEW n \in Nat, ItemsOK(S, n)
  PROVE  Cardinality(S) = 1 <=> Cardinality(IdsOf(S)) = 1
<1>1. IdsOf(S) \subseteq 0..n
  BY DEF IdsOf, ItemsOK, IsCopper
<1>2. IsFiniteSet(S) /\ IsFiniteSet(IdsOf(S))
  <2>1. IsFiniteSet(0..n)
    BY FS_Interval
  <2>2. IsFiniteSet(IdsOf(S))
    BY <1>1, <2>1, FS_Subset
  <2> QED BY <2>2 DEF ItemsOK
<1>3. (\E x : S = {x}) <=> (\E x : IdsOf(S) = {x})
  <2>1. ASSUME NEW x, S = {x}
        PROVE  IdsOf(S) = {x.id}
    BY <2>1 DEF IdsOf
  <2>2. ASSUME NEW x, IdsOf(S) = {x}
        PROVE  \E y : S = {y}
    <3>1. PICK y \in S : y.id = x
      BY <2>2 DEF IdsOf
    <3>2. \A z \in S : z.id = x
      BY <2>2 DEF IdsOf
    <3>3. S = {y}
      BY <3>1, <3>2 DEF ItemsOK
    <3> QED BY <3>3
  <2> QED BY <2>1, <2>2
<1> QED BY <1>2, <1>3, FS_Singleton

\* What a call has found when it has read the board.
LEMMA Reads ==
  ASSUME NEW asked, asked.tool \in Finding, before' = items, call'.asked = asked,
         NEW meant, meant = IdsOf(Meant(asked, items)),
         \/ /\ reply' = "INVALID_PARAMS"
            /\ asked.tool = "delete_near" => Cardinality(meant) # 1
         \/ /\ reply' # "INVALID_PARAMS" /\ call'.told = meant
            /\ asked.tool = "delete_near" => Cardinality(meant) = 1
  PROVE  FoundIsMeant'
BY DEF FoundIsMeant

\* The call of a deletion that has found something, and of one that is refused.
LEMMA DeleteCalls ==
  ASSUME NEW asked, asked.tool \in Deleting, NEW found
  PROVE  /\ Delete(asked, found) =>
              /\ call' = [x \in Fields |-> call'[x]] /\ call'.asked = asked
              /\ call'.step = "remove" /\ call'.told = IdsOf(found) /\ call'.pads = {}
              /\ call'.ids = call'.told /\ reply' = "NONE"
         /\ call' = NewCall(asked) =>
              /\ call' = [x \in Fields |-> call'[x]] /\ call'.asked = asked
              /\ call'.step = "idle" /\ call'.told = {} /\ call'.pads = {}
<1>1. Delete(asked, found) =>
        /\ call' = [asked |-> asked, step |-> "remove", ids |-> IdsOf(found), pads |-> {},
                    told |-> IdsOf(found), rejected |-> {}]
        /\ reply' = "NONE"
  BY DEF Delete, NewCall, Answer
<1>2. Delete(asked, found) =>
        /\ call' = [x \in Fields |-> call'[x]] /\ call'.asked = asked
        /\ call'.step = "remove" /\ call'.told = IdsOf(found) /\ call'.pads = {}
        /\ call'.ids = call'.told /\ reply' = "NONE"
  BY <1>1 DEF Fields
<1> QED BY <1>2, NewCalls

\* A list is of what the filter means, or refused with the filter.
LEMMA GetTracksReads ==
  ASSUME CopperTypeOK, NEW filter \in Filters, GetTracks(filter)
  PROVE  CopperTypeOK' /\ FoundIsMeant' /\ call'.asked.tool = "get_tracks"
<1> DEFINE asked == [tool |-> "get_tracks", filter |-> filter]
<1>1. Begin /\ UNCHANGED board /\ before' = items /\ asked.tool = "get_tracks" /\ asked.filter = filter
  BY DEF GetTracks, Begin
<1>2. /\ call' = [x \in Fields |-> call'[x]] /\ call'.asked = asked /\ call'.step = "idle"
      /\ call'.pads = {}
      /\ IF ValidFilter(filter) THEN reply' = "OK" /\ call'.told = IdsOf(Listed(filter))
                                ELSE reply' = "INVALID_PARAMS"
  BY DEF GetTracks, NewCall, Answer, Fields
<1>3. CopperTypeOK'
  BY <1>1, <1>2, FindingReads
<1>4. ValidFilter(filter) => call'.told = IdsOf(Meant(asked, items))
  BY <1>1, <1>2, ListedIsMeant DEF CopperTypeOK, BoardOK
<1> HIDE DEF asked
<1>5. FoundIsMeant'
  BY <1>1, <1>2, <1>4, Reads DEF Finding
<1> QED BY <1>1, <1>2, <1>3, <1>5

\* What a bulk deletion is to delete is what its filter means.
LEMMA DeleteBulkReads ==
  ASSUME CopperTypeOK, NEW filter \in Filters, DeleteBulk(filter)
  PROVE  CopperTypeOK' /\ FoundIsMeant' /\ call'.asked.tool = "delete_tracks_bulk"
<1> DEFINE asked == [tool |-> "delete_tracks_bulk", filter |-> filter]
<1>1. /\ Begin /\ UNCHANGED board /\ before' = items
      /\ asked.tool = "delete_tracks_bulk" /\ asked.filter = filter
  BY DEF DeleteBulk, Begin
<1>2. IF ValidFilter(filter) THEN Delete(asked, Listed(filter))
                             ELSE reply' = "INVALID_PARAMS" /\ call' = NewCall(asked)
  BY DEF DeleteBulk, Answer
<1> HIDE DEF asked
<1>3. asked.tool \in Deleting /\ asked.tool \in Finding
  BY <1>1 DEF Deleting, Finding
<1>4. /\ call' = [x \in Fields |-> call'[x]] /\ call'.asked = asked /\ call'.pads = {}
      /\ IF ValidFilter(filter)
           THEN /\ reply' = "NONE" /\ call'.step = "remove"
                /\ call'.told = IdsOf(Listed(filter)) /\ call'.ids = call'.told
           ELSE reply' = "INVALID_PARAMS" /\ call'.step = "idle"
  BY <1>2, <1>3, DeleteCalls
<1>5. CopperTypeOK'
  BY <1>1, <1>3, <1>4, FindingReads
<1>6. ValidFilter(filter) => Listed(filter) = Meant(asked, items)
  BY <1>1, ListedIsMeant DEF CopperTypeOK, BoardOK
<1>7. FoundIsMeant'
  BY <1>1, <1>3, <1>4, <1>6, Reads
<1> QED BY <1>1, <1>4, <1>5, <1>7

\* A deletion by place goes on only if one item is meant, and to that one.
LEMMA DeleteNearReads ==
  ASSUME CopperTypeOK, NEW net \in Nets, NEW via \in BOOLEAN, NEW at \in Points,
         DeleteNear(net, via, at)
  PROVE  CopperTypeOK' /\ FoundIsMeant' /\ call'.asked.tool = "delete_near"
<1> DEFINE asked == [tool |-> "delete_near", net |-> net, via |-> via, at |-> at]
<1>1. /\ Begin /\ UNCHANGED board /\ before' = items
      /\ asked.tool = "delete_near" /\ asked.at \in Point
  BY CopperAssumption DEF DeleteNear, Begin
<1>2. IF MatchCopper(asked) # {} THEN Delete(asked, MatchCopper(asked))
                                 ELSE reply' = "INVALID_PARAMS" /\ call' = NewCall(asked)
  BY DEF DeleteNear, Answer
<1> HIDE DEF asked
<1>3. asked.tool \in Deleting /\ asked.tool \in Finding
  BY <1>1 DEF Deleting, Finding
<1>4. /\ call' = [x \in Fields |-> call'[x]] /\ call'.asked = asked /\ call'.pads = {}
      /\ IF MatchCopper(asked) # {}
           THEN /\ reply' = "NONE" /\ call'.step = "remove"
                /\ call'.told = IdsOf(MatchCopper(asked)) /\ call'.ids = call'.told
           ELSE reply' = "INVALID_PARAMS" /\ call'.step = "idle"
  BY <1>2, <1>3, DeleteCalls
<1>5. CopperTypeOK'
  BY <1>1, <1>3, <1>4, FindingReads
<1> DEFINE meant == Meant(asked, items)
<1>6. ItemsOK(items, nextId) /\ nextId \in Nat
  BY DEF CopperTypeOK, BoardOK
<1>7. meant \subseteq items
  BY <1>1 DEF Meant
<1>8. ItemsOK(meant, nextId)
  BY <1>6, <1>7, ItemsSubset
<1>9. MatchCopper(asked) = IF Cardinality(meant) = 1 THEN meant ELSE {}
  BY <1>1, <1>6, WithinIsMeant DEF MatchCopper
<1>10. Cardinality(meant) = 1 => meant # {}
  BY FS_EmptySet
<1>11. Cardinality(meant) = 1 <=> Cardinality(IdsOf(meant)) = 1
  BY <1>6, <1>8, OneId
<1>12. FoundIsMeant'
  BY <1>1, <1>3, <1>4, <1>9, <1>10, <1>11, Reads
<1> QED BY <1>1, <1>4, <1>5, <1>12

\* A deletion by id goes on only if the item is of the kind it was called.
LEMMA DeleteByIdReads ==
  ASSUME CopperTypeOK, NEW id \in 1..nextId - 1, NEW via \in BOOLEAN, DeleteById(id, via)
  PROVE  CopperTypeOK' /\ FoundIsMeant' /\ call'.asked.tool = "delete_by_id"
<1> DEFINE asked == [tool |-> "delete_by_id", id |-> id, via |-> via]
           found == {item \in items : item.id = id /\ IsVia(item) = via}
<1>1. /\ Begin /\ UNCHANGED board /\ before' = items
      /\ asked.tool = "delete_by_id" /\ asked.id = id /\ asked.via = via
  BY DEF DeleteById, Begin
<1>2. IF found # {} THEN Delete(asked, found)
                    ELSE reply' = "TRACK_ID_STALE" /\ call' = NewCall(asked)
  BY DEF DeleteById, Answer
<1> HIDE DEF asked
<1>3. asked.tool \in Deleting /\ asked.tool \in Finding
  BY <1>1 DEF Deleting, Finding
<1>4. found = Meant(asked, items)
  BY <1>1 DEF Meant
<1> HIDE DEF found
<1>5. /\ call' = [x \in Fields |-> call'[x]] /\ call'.asked = asked /\ call'.pads = {}
      /\ IF found # {}
           THEN /\ reply' = "NONE" /\ call'.step = "remove"
                /\ call'.told = IdsOf(found) /\ call'.ids = call'.told
           ELSE reply' = "TRACK_ID_STALE" /\ call'.step = "idle" /\ call'.told = {}
  BY <1>2, <1>3, DeleteCalls
<1>6. CopperTypeOK'
  BY <1>1, <1>3, <1>5, FindingReads
<1>7. IdsOf({}) = {}
  BY DEF IdsOf
<1>8. FoundIsMeant'
  BY <1>1, <1>3, <1>4, <1>5, <1>7, Reads
<1> QED BY <1>1, <1>5, <1>6, <1>8

\* A call that goes on has found what it had found.
LEMMA FoundStays ==
  ASSUME FoundIsMeant, before' = before, call'.asked = call.asked, call'.told = call.told,
         reply # "INVALID_PARAMS", reply' # "INVALID_PARAMS"
  PROVE  FoundIsMeant'
BY DEF FoundIsMeant

\* A removal takes away the ids it was given, or fails and may have.
LEMMA RemoveEnds ==
  ASSUME CopperTypeOK, FoundIsMeant, Remove
  PROVE  /\ CopperTypeOK' /\ FoundIsMeant'
         /\ call'.asked = call.asked /\ call.asked.tool \in Deleting /\ call'.step = "idle"
         /\ LET rest == {item \in items : item.id \notin IdsOf(Meant(call.asked, before))}
            IN items' = rest \/ (items' = items /\ reply' # "OK")
<1> DEFINE rest == {item \in items : item.id \notin call.ids}
<1>1. /\ call.asked.tool \in Deleting /\ call.ids = call.told /\ reply = "NONE"
      /\ call = [x \in Fields |-> call[x]]
  BY DEF CopperTypeOK, CallOK, Remove, At
<1>2. /\ reply' \in {"OK", "TRACK_ID_STALE", "FAILED"}
      /\ call' = [call EXCEPT !.step = "idle"]
      /\ items' = rest \/ (items' = items /\ reply' # "OK")
      /\ zones' = zones /\ nextId' = nextId /\ before' = before
  BY DEF Remove, Request, RemoveItems, Answer, Underway, board
<1>3. /\ call' = [x \in Fields |-> call'[x]] /\ call'.step = "idle"
      /\ call'.asked = call.asked /\ call'.told = call.told /\ call'.pads = call.pads
  BY <1>1, <1>2, CallsEnd
<1>4. CopperTypeOK'
  <2>1. ItemsOK(items', nextId)
    BY <1>2, ItemsSubset DEF CopperTypeOK, BoardOK
  <2> QED BY <1>2, <1>3, <2>1 DEF CopperTypeOK, BoardOK, CallOK
<1>5. FoundIsMeant'
  BY <1>1, <1>2, <1>3, FoundStays
<1>6. call.ids = IdsOf(Meant(call.asked, before))
  BY <1>1 DEF FoundIsMeant, Deleting
<1> QED BY <1>1, <1>2, <1>3, <1>4, <1>5, <1>6

\* The orphans of the report are divided into those that get a via and those
\* that are rejected.
LEMMA EvaluateReads ==
  ASSUME CopperTypeOK, NEW report \in Reports, Evaluate(report)
  PROVE  /\ CopperTypeOK'
         /\ call'.asked.tool = "route_board" /\ call'.asked.report = report
         /\ items' = items /\ zones' = zones /\ nextId' = nextId /\ before' = items
         /\ call'.pads = {pad \in Orphans(report) : Candidate(pad)}
         /\ call'.rejected = {pad \in Orphans(report) : ~Candidate(pad)}
         /\ reply' = IF call'.pads = {} THEN "OK" ELSE "NONE"
         /\ call'.step = IF call'.pads = {} THEN "idle" ELSE "stitch"
<1> DEFINE asked == [tool |-> "route_board", report |-> report]
           candidates == {pad \in Orphans(report) : Candidate(pad)}
           rejected == {pad \in Orphans(report) : ~Candidate(pad)}
<1>1. /\ Begin /\ UNCHANGED board
      /\ call' = [NewCall(asked) EXCEPT !.step = IF candidates = {} THEN "idle" ELSE "stitch",
                                        !.pads = candidates,
                                        !.rejected = Orphans(report) \ candidates]
      /\ reply' = IF candidates = {} THEN "OK" ELSE "NONE"
  BY DEF Evaluate, Answer
<1>2. Orphans(report) \ candidates = rejected
  OBVIOUS
<1> HIDE DEF candidates, rejected
<1>3. call' = [asked |-> asked, step |-> IF candidates = {} THEN "idle" ELSE "stitch",
               ids |-> {}, pads |-> candidates, told |-> {}, rejected |-> rejected]
  BY <1>1, <1>2 DEF NewCall
<1>4. /\ call' = [x \in Fields |-> call'[x]] /\ call'.asked = asked
      /\ call'.pads = candidates /\ call'.rejected = rejected
      /\ call'.step = IF candidates = {} THEN "idle" ELSE "stitch"
  BY <1>3 DEF Fields
<1>5. asked.tool = "route_board" /\ asked.report = report /\ candidates \subseteq Pads
  BY DEF candidates, Orphans, MatchPad
<1> HIDE DEF asked
<1>6. CopperTypeOK'
  <2>1. CASE candidates = {}
    BY <1>1, <1>4, <1>5, <2>1, FindingReads
  <2>2. CASE candidates # {}
    BY <1>1, <1>4, <1>5, <2>2, FindingReads
  <2> QED BY <2>1, <2>2
<1> QED BY <1>1, <1>4, <1>5, <1>6 DEF Begin, board, candidates, rejected


\* A via more, and one pad less, or a request that fails.
LEMMA StitchViaEnds ==
  ASSUME CopperTypeOK, StitchVia
  PROVE  /\ CopperTypeOK'
         /\ call.asked.tool = "route_board" /\ call'.asked = call.asked
         /\ call'.rejected = call.rejected /\ zones' = zones /\ before' = before /\ alone' = alone
         /\ reply = "NONE" /\ call'.pads \subseteq call.pads
         /\ \/ reply' = "FAILED"
            \/ \E pad \in call.pads :
                 /\ items' = items \cup {[id |-> nextId, net |-> pad.net, layer |-> ThroughLayer,
                                         path |-> <<pad.at>>]}
                 /\ call'.pads = call.pads \ {pad}
                 /\ reply' = IF call'.pads = {} THEN "OK" ELSE "NONE"
<1>1. /\ call.asked.tool = "route_board" /\ reply = "NONE"
      /\ call = [x \in Fields |-> call[x]] /\ call.pads \subseteq Pads
  BY DEF CopperTypeOK, CallOK, StitchVia, At
<1>2. before' = before /\ alone' = alone
  BY DEF StitchVia, Underway
<1>3. PICK pad \in call.pads :
        LET rest == call.pads \ {pad}
        IN Request(call, AddVia(pad),
                   /\ Answer(IF rest = {} THEN "OK" ELSE "NONE")
                   /\ call' = [call EXCEPT !.step = IF rest = {} THEN "idle" ELSE "stitch",
                                           !.pads = rest, !.told = @ \cup {nextId}])
  BY DEF StitchVia
<1> DEFINE via == [id |-> nextId, net |-> pad.net, layer |-> ThroughLayer, path |-> <<pad.at>>]
           rest == call.pads \ {pad}
           Added == items' = items \cup {via} /\ nextId' = nextId + 1 /\ zones' = zones
           Same == items' = items /\ nextId' = nextId /\ zones' = zones
           Goes == /\ reply' = IF rest = {} THEN "OK" ELSE "NONE"
                   /\ call' = [call EXCEPT !.step = IF rest = {} THEN "idle" ELSE "stitch",
                                           !.pads = rest, !.told = @ \cup {nextId}]
           Fails == reply' = "FAILED" /\ call' = [call EXCEPT !.step = "idle"]
<1>4. (Added /\ Goes) \/ ((Added \/ Same) /\ Fails)
  <2> DEFINE Adds == AddVia(pad)
  <2>1. \/ Adds /\ Goes
        \/ ((Adds \/ UNCHANGED board) /\ Fails)
    BY <1>3, Zenon DEF Request, Answer
  <2>2. (Adds <=> Added) /\ (UNCHANGED board <=> Same)
    BY DEF AddVia, board
  <2> HIDE DEF Goes, Adds, Added, Same, Fails
  <2> QED BY <2>1, <2>2
<1>5. Added \/ Same => BoardOK'
  <2>1. CASE Same
    BY <1>2, <2>1 DEF CopperTypeOK, BoardOK
  <2>2. CASE Added
    <3>1. nextId \in Nat /\ nextId + 1 \in Nat /\ ItemsOK(items, nextId + 1) /\ ItemsOK(before, nextId + 1)
      BY ItemsSubset DEF CopperTypeOK, BoardOK
    <3>2. pad \in Pads
      BY <1>1
    <3>3. IsCopper(via)
      <4>1. pad.at \in Point /\ pad.net \in Nets \cup {NoNet}
        BY <3>2, CopperAssumption
      <4>2. <<pad.at>> \in Seq(Point) /\ <<pad.at>> # <<>> /\ Len(<<pad.at>>) = 1
        BY <4>1
      <4> QED BY <3>1, <4>1, <4>2 DEF IsCopper, IsVia
    <3>4. via.id < nextId + 1 /\ \A other \in items : other.id # via.id
      BY <3>1 DEF CopperTypeOK, BoardOK, ItemsOK, IsCopper
    <3> HIDE DEF via
    <3>5. ItemsOK(items \cup {via}, nextId + 1)
      BY <3>1, <3>3, <3>4, ItemsAdded
    <3> QED BY <1>2, <2>2, <3>1, <3>5 DEF CopperTypeOK, BoardOK
  <2> QED BY <2>1, <2>2
<1>6. CASE Goes
  <2>1. /\ call' = [x \in Fields |-> call'[x]] /\ call'.asked = call.asked
        /\ call'.rejected = call.rejected /\ call'.pads = rest
        /\ call'.step = IF rest = {} THEN "idle" ELSE "stitch"
    <3> HIDE DEF rest
    <3> QED BY <1>1, <1>6 DEF Fields
  <2>2. Added
    BY <1>4, <1>6
  <2>3. rest \subseteq Pads /\ reply' = IF rest = {} THEN "OK" ELSE "NONE"
    BY <1>1, <1>6
  <2> HIDE DEF rest
  <2>4. CallOK'
    BY <1>1, <2>1, <2>3 DEF CallOK
  <2> QED BY <1>1, <1>2, <1>5, <2>1, <2>2, <2>3, <2>4 DEF CopperTypeOK, rest
<1>7. CASE (Added \/ Same) /\ Fails
  <2>1. /\ call' = [x \in Fields |-> call'[x]] /\ call'.asked = call.asked /\ call'.step = "idle"
        /\ call'.rejected = call.rejected /\ call'.pads = call.pads
    BY <1>1, <1>7, CallsEnd
  <2>2. CallOK'
    BY <1>1, <2>1 DEF CallOK
  <2> QED BY <1>1, <1>2, <1>5, <1>7, <2>1, <2>2 DEF CopperTypeOK
<1> QED BY <1>4, <1>6, <1>7

\* The human changes no call, and is noticed.
LEMMA EditsKeep ==
  ASSUME CopperTypeOK, DeleteItem \/ MoveItem
  PROVE  /\ CopperTypeOK' /\ ~alone'
         /\ UNCHANGED <<zones, nextId, call, reply, before>>
<1>1. PICK edited : Edit(edited) /\ ItemsOK(edited, nextId)
  <2>1. nextId \in Nat /\ ItemsOK(items, nextId)
    BY DEF CopperTypeOK, BoardOK
  <2>2. CASE DeleteItem
    <3>1. PICK item \in items : Edit(items \ {item})
      BY <2>2 DEF DeleteItem
    <3> QED BY <2>1, <3>1, ItemsSubset
  <2>3. CASE MoveItem
    <3>1. PICK item \in items, path \in Places :
            /\ IsVia(item) <=> Len(path) = 1
            /\ Edit((items \ {item}) \cup {[item EXCEPT !.path = path]})
      BY <2>3 DEF MoveItem, IsVia
    <3> DEFINE moved == [item EXCEPT !.path = path]
    <3>2. path \in Seq(Point) \ {<<>>}
      BY CopperAssumption
    <3>3. IsCopper(item) /\ item.id < nextId
      BY <2>1 DEF ItemsOK
    <3>4. IsCopper(moved) /\ moved.id = item.id
      BY <3>1, <3>2, <3>3 DEF IsCopper, IsVia
    <3>5. \A other \in items \ {item} : other.id # item.id
      BY <2>1 DEF ItemsOK
    <3> HIDE DEF moved
    <3>6. ItemsOK(items \ {item}, nextId)
      BY <2>1, ItemsSubset
    <3>7. ItemsOK((items \ {item}) \cup {moved}, nextId)
      BY <2>1, <3>3, <3>4, <3>5, <3>6, ItemsAdded
    <3> QED BY <3>1, <3>7 DEF moved
  <2> QED BY <2>2, <2>3
<1>2. UNCHANGED <<zones, nextId, call, reply, before>> /\ ~alone' /\ items' = edited
  BY <1>1 DEF Edit
<1> QED BY <1>1, <1>2 DEF CopperTypeOK, BoardOK, CallOK

----------------------------------------------------------------------------
(* Deletions                                                               *)

FindInv == CopperTypeOK /\ FoundIsMeant

\* The first board has its ids, and no call has read it.
LEMMA FindInvInit == Init => FindInv
<1> SUFFICES ASSUME Init PROVE FindInv
  OBVIOUS
<1>1. PICK start \in Boards : /\ items = start.items /\ zones = start.zones
                              /\ nextId = Cardinality(start.items) + 1
  BY DEF Init
<1>2. Cardinality(start.items) \in Nat
  BY CopperAssumption, FS_CardinalityType
<1>3. ItemsOK(items, nextId)
  BY <1>1, <1>2, CopperAssumption DEF ItemsOK
<1>4. ItemsOK({}, nextId)
  BY FS_EmptySet DEF ItemsOK
<1>5. BoardOK
  BY <1>1, <1>2, <1>3, <1>4, CopperAssumption DEF Init, BoardOK
<1>6. call.asked.tool = "none" /\ call.step = "idle" /\ call = [x \in Fields |-> call[x]] /\ call.pads = {}
  BY NewCalls DEF Init
<1> QED BY <1>5, <1>6 DEF FindInv, CopperTypeOK, CallOK, FoundIsMeant

\* What a call has found is about the board it has read, whatever becomes of
\* the board.
LEMMA FindInvStep == FindInv /\ [Next]_vars => FindInv'
<1> SUFFICES ASSUME FindInv, [Next]_vars PROVE FindInv'
  OBVIOUS
<1> USE DEF FindInv
<1>1. ASSUME NEW net \in Nets, NEW layer \in Layers, NEW shape \in Shapes, AddZone(net, layer, shape)
      PROVE  FindInv'
  <2>1. CopperTypeOK' /\ call'.asked.tool = "add_zone"
    BY <1>1, AddZoneEnds
  <2> QED BY <2>1 DEF FoundIsMeant
<1>2. ASSUME NEW filter \in Filters, GetTracks(filter) \/ DeleteBulk(filter)
      PROVE  FindInv'
  BY <1>2, GetTracksReads, DeleteBulkReads
<1>3. ASSUME NEW net \in Nets, NEW via \in BOOLEAN, NEW at \in Points, DeleteNear(net, via, at)
      PROVE  FindInv'
  BY <1>3, DeleteNearReads
<1>4. ASSUME NEW id \in 1..nextId - 1, NEW via \in BOOLEAN, DeleteById(id, via)
      PROVE  FindInv'
  BY <1>4, DeleteByIdReads
<1>5. CASE Remove
  BY <1>5, RemoveEnds
<1>6. ASSUME NEW report \in Reports, Evaluate(report)
      PROVE  FindInv'
  <2>1. CopperTypeOK' /\ call'.asked.tool = "route_board"
    BY <1>6, EvaluateReads
  <2> QED BY <2>1 DEF FoundIsMeant
<1>7. CASE StitchVia
  <2>1. CopperTypeOK' /\ call'.asked.tool = "route_board"
    BY <1>7, StitchViaEnds
  <2> QED BY <2>1 DEF FoundIsMeant
<1>8. CASE DeleteItem \/ MoveItem
  BY <1>8, EditsKeep DEF FoundIsMeant
<1>9. CASE UNCHANGED vars
  BY <1>9 DEF vars, board, CopperTypeOK, BoardOK, CallOK, FoundIsMeant
<1> QED BY <1>1, <1>2, <1>3, <1>4, <1>5, <1>6, <1>7, <1>8, <1>9 DEF Next

\* The items are copper told apart by its ids, a call is of its tool, and what
\* it has found is what its parameters mean on the board it has read.
THEOREM FindInvariant == Spec => []FindInv
BY FindInvInit, FindInvStep, PTL DEF Spec

\* _match_copper, _copper_in_bbox: get_tracks tells exactly what it is asked
\* for, and a deletion removes that and nothing else, on any board, whatever
\* the human moves or deletes between the reading and the removal.
THEOREM DeletionsExact == Spec => DeletionsAreExact
<1>1. FindInv /\ FindInv' /\ [Next]_vars =>
        [/\ FoundIsMeant'
         /\ At("remove") /\ call'.step = "idle" =>
              LET rest == {item \in items : item.id \notin IdsOf(Meant(call.asked, before))}
              IN items' = rest \/ (items' = items /\ reply' # "OK")]_vars
  <2> SUFFICES ASSUME FindInv, FindInv', Next, At("remove"), call'.step = "idle"
               PROVE  LET rest == {item \in items : item.id \notin IdsOf(Meant(call.asked, before))}
                      IN items' = rest \/ (items' = items /\ reply' # "OK")
    BY DEF FindInv
  <2>1. Remove
    <3>1. call' # call
      BY DEF At
    <3>2. ~Begin /\ ~StitchVia
      BY DEF Begin, StitchVia, At
    <3>3. ~DeleteItem /\ ~MoveItem
      BY <3>1, EditsKeep DEF FindInv
    <3> QED BY <3>2, <3>3 DEF Next, AddZone, GetTracks, DeleteBulk, DeleteNear, DeleteById, Evaluate
  <2> QED BY <2>1, RemoveEnds DEF FindInv
<1> QED BY <1>1, FindInvariant, PTL DEF Spec, DeletionsAreExact

----------------------------------------------------------------------------
(* Zones                                                                   *)

\* add_zone takes the shapes it should.
LEMMA ValidShapeIsGood ==
  ASSUME NEW shape \in Shapes
  PROVE  ValidShape(shape) <=>
           IF "bbox" \in DOMAIN shape
             THEN Upright(shape.bbox)
             ELSE /\ Len(shape.polygon) \in 3..MaxCorners
                  /\ Len(shape.polygon) = 3 \/ Simple(shape.polygon)
<1>1. CASE "bbox" \in DOMAIN shape
  BY <1>1 DEF ValidShape
<1>2. CASE "bbox" \notin DOMAIN shape
  <2> DEFINE outline == shape.polygon
  <2>1. outline \in Seq(Point) /\ MaxCorners \in Nat /\ Len(outline) \in Nat
    BY <1>2, CopperAssumption
  <2> HIDE DEF outline
  <2>2. CASE Len(outline) = 3
    <3>1. \A i, j \in 1..3 : i < j => SharesCorner(outline, i, j)
      BY <2>2 DEF SharesCorner
    <3>2. PolygonIsSimple(outline)
      BY <2>2, <3>1 DEF PolygonIsSimple
    <3> QED BY <1>2, <2>2, <3>2 DEF ValidShape, outline
  <2>3. CASE Len(outline) # 3
    <3> DEFINE n == Len(outline)
    <3>1. n \in 3..MaxCorners => n >= 4
      <4> n \in Nat /\ n # 3 /\ MaxCorners \in Nat
        BY <2>1, <2>3
      <4> HIDE DEF n
      <4> QED OBVIOUS
    <3>2. Len(outline) \in 3..MaxCorners => (PolygonIsSimple(outline) <=> Simple(outline))
      BY <2>1, <3>1, PolygonIsSimpleIsSimple
    <3> QED BY <1>2, <2>3, <3>2 DEF ValidShape, outline
  <2> QED BY <2>2, <2>3
<1> QED BY <1>1, <1>2

ZoneInv ==
  call.asked.tool = "add_zone" =>
    /\ call.asked.shape \in Shapes
    /\ reply # "FAILED" =>
         reply = IF ValidShape(call.asked.shape) THEN "OK" ELSE "INVALID_ZONE_GEOMETRY"

\* Only add_zone answers for a shape.
LEMMA ZoneInvStep == FindInv /\ ZoneInv /\ [Next]_vars => ZoneInv'
<1> SUFFICES ASSUME FindInv, ZoneInv, [Next]_vars PROVE ZoneInv'
  OBVIOUS
<1> USE DEF FindInv
<1>1. ASSUME NEW net \in Nets, NEW layer \in Layers, NEW shape \in Shapes, AddZone(net, layer, shape)
      PROVE  ZoneInv'
  <2>1. /\ call'.asked.tool = "add_zone" /\ call'.asked.shape = shape
        /\ reply' \in {"FAILED", IF ValidShape(shape) THEN "OK" ELSE "INVALID_ZONE_GEOMETRY"}
    BY <1>1, AddZoneEnds
  <2> QED BY <2>1 DEF ZoneInv
<1>2. ASSUME NEW filter \in Filters, GetTracks(filter) \/ DeleteBulk(filter)
      PROVE  ZoneInv'
  <2>1. call'.asked.tool \in {"get_tracks", "delete_tracks_bulk"}
    BY <1>2, GetTracksReads, DeleteBulkReads
  <2> QED BY <2>1 DEF ZoneInv
<1>3. ASSUME NEW net \in Nets, NEW via \in BOOLEAN, NEW at \in Points, DeleteNear(net, via, at)
      PROVE  ZoneInv'
  <2>1. call'.asked.tool = "delete_near"
    BY <1>3, DeleteNearReads
  <2> QED BY <2>1 DEF ZoneInv
<1>4. ASSUME NEW id \in 1..nextId - 1, NEW via \in BOOLEAN, DeleteById(id, via)
      PROVE  ZoneInv'
  <2>1. call'.asked.tool = "delete_by_id"
    BY <1>4, DeleteByIdReads
  <2> QED BY <2>1 DEF ZoneInv
<1>5. CASE Remove
  BY <1>5, RemoveEnds DEF ZoneInv, Deleting
<1>6. ASSUME NEW report \in Reports, Evaluate(report)
      PROVE  ZoneInv'
  <2>1. call'.asked.tool = "route_board"
    BY <1>6, EvaluateReads
  <2> QED BY <2>1 DEF ZoneInv
<1>7. CASE StitchVia
  BY <1>7, StitchViaEnds DEF ZoneInv
<1>8. CASE DeleteItem \/ MoveItem
  BY <1>8, EditsKeep DEF ZoneInv
<1>9. CASE UNCHANGED vars
  BY <1>9 DEF vars, ZoneInv
<1> QED BY <1>1, <1>2, <1>3, <1>4, <1>5, <1>6, <1>7, <1>8, <1>9 DEF Next

\* INVALID_ZONE_GEOMETRY says what it means, for every outline on the grid:
\* add_zone refuses a box that is upside down and an outline with too few or
\* too many corners or that is not simple, triangles excepted, and nothing else.
THEOREM OutlinesSimple == Spec => []OutlinesAreSimple
<1>1. Init => ZoneInv
  BY NewCalls DEF Init, ZoneInv
<1>2. Spec => []ZoneInv
  BY <1>1, ZoneInvStep, FindInvariant, PTL DEF Spec
<1>3. ZoneInv => OutlinesAreSimple
  BY ValidShapeIsGood DEF ZoneInv, OutlinesAreSimple
<1> QED BY <1>2, <1>3, PTL

----------------------------------------------------------------------------
(* Stitching                                                               *)

OrphanPads(report) ==
  {pad \in Pads : /\ pad.at \in report /\ pad.net # NoNet
                  /\ \A other \in Pads : other.at = pad.at => other = pad}

OnEdge(pad) == \E zone \in zones : zone.net = pad.net /\ OnOutline(pad.at, zone.outline)

ViaOf(via, pad) == via.net = pad.net /\ via.path = <<pad.at>>

\* The orphans are the pads with a net that are alone where the report says.
LEMMA OrphansAre == \A report : Orphans(report) = OrphanPads(report)
<1> TAKE report
<1>1. ASSUME NEW at, NEW pad
      PROVE  pad \in MatchPad(at) <=>
               pad \in Pads /\ pad.at = at /\ \A other \in Pads : other.at = at => other = pad
  <2> DEFINE there == {other \in Pads : other.at = at}
  <2>1. IsFiniteSet(there)
    BY CopperAssumption, FS_Subset
  <2>2. Cardinality(there) = 1 <=> \E x : there = {x}
    BY <2>1, FS_Singleton
  <2>3. pad \in MatchPad(at) <=> Cardinality(there) = 1 /\ pad \in there
    BY DEF MatchPad
  <2>4. (\E x : there = {x}) /\ pad \in there <=>
          pad \in Pads /\ pad.at = at /\ \A other \in Pads : other.at = at => other = pad
    OBVIOUS
  <2> HIDE DEF there
  <2> QED BY <2>2, <2>3, <2>4
<1>2. ASSUME NEW pad
      PROVE  pad \in Orphans(report) <=> pad.net # NoNet /\ \E at \in report : pad \in MatchPad(at)
  BY DEF Orphans
<1>3. ASSUME NEW pad
      PROVE  pad \in Orphans(report) <=> pad \in OrphanPads(report)
  BY <1>1, <1>2 DEF OrphanPads
<1> QED BY <1>3

\* On the board that route_board has read, a candidate is a pad for which
\* stitching makes sense.
LEMMA CandidateIsStitchable ==
  ASSUME CopperTypeOK, NEW pad \in Pads, ~OnEdge(pad), before' = items, zones' = zones
  PROVE  Candidate(pad) <=> Stitchable(pad)'
<1> DEFINE In == \E zone \in zones : zone.net = pad.net /\ Inside(pad.at, zone.outline)
           Reached(layer) == \E zone \in zones : zone.net = pad.net /\ zone.layer = layer
           NoItem(layer) ==
             \A item \in items :
               (item.net # pad.net /\ item.layer \in {layer, ThroughLayer}) =>
                 \A leg \in Legs(item.path) : ~Near(pad.at, leg[1], leg[2], StitchRadius)
           NoPad(layer) ==
             \A other \in Pads :
               (other.net # pad.net /\ other.layer \in {layer, ThroughLayer}) =>
                 ~Near(pad.at, other.at, other.at, StitchRadius)
<1>1. pad.at \in Point /\ pad.layer \in {"F.Cu", "B.Cu", "*.Cu"} /\ StitchRadius \in Nat
  BY CopperAssumption DEF Layers, ThroughLayer
<1>2. (\E zone \in OwnZones(pad) : PointInPolygon(pad.at, zone.outline)) <=> In
  <2>1. ASSUME NEW zone \in zones, zone.net = pad.net
        PROVE  PointInPolygon(pad.at, zone.outline) <=> Inside(pad.at, zone.outline)
    <3>1. zone.outline \in Seq(Point) /\ ~OnOutline(pad.at, zone.outline)
      BY <2>1 DEF CopperTypeOK, BoardOK, OnEdge
    <3> QED BY <1>1, <3>1, PointInPolygonIsInside
  <2> QED BY <2>1 DEF OwnZones
<1>3. ASSUME NEW layer
      PROVE  (\E zone \in OwnZones(pad) : zone.layer = layer) <=> Reached(layer)
  BY DEF OwnZones
<1>4. ASSUME NEW layer
      PROVE  ~Blocked(pad, layer) <=> NoItem(layer) /\ NoPad(layer)
  <2>1. \A item \in items :
          Reaches(item, pad.at, StitchRadius)
            <=> \E leg \in Legs(item.path) : Near(pad.at, leg[1], leg[2], StitchRadius)
    BY <1>1, ReachesIsNear DEF CopperTypeOK, BoardOK, ItemsOK
  <2>2. \A other \in Pads :
          WithinOf(pad.at, other.at, other.at, StitchRadius)
            <=> Near(pad.at, other.at, other.at, StitchRadius)
    BY <1>1, WithinOfIsNear, CopperAssumption
  <2> QED BY <2>1, <2>2 DEF Blocked, OnLayer
<1>5. Stitchable(pad)' <=> \E layer \in {"F.Cu", "B.Cu"} \ {pad.layer} :
                             /\ pad.layer # ThroughLayer
                             /\ In /\ Reached(layer) /\ NoItem(layer) /\ NoPad(layer)
  BY DEF Stitchable
<1>6. Candidate(pad) <=> In /\ \E layer \in Opposite(pad.layer) :
                                 Reached(layer) /\ NoItem(layer) /\ NoPad(layer)
  BY <1>2, <1>3, <1>4 DEF Candidate
<1>7. Opposite(pad.layer) = {layer \in {"F.Cu", "B.Cu"} \ {pad.layer} : pad.layer # ThroughLayer}
  BY <1>1 DEF Opposite, ThroughLayer
<1> HIDE DEF In, Reached, NoItem, NoPad
<1> QED BY <1>5, <1>6, <1>7

\* Of the orphans, those that cannot be stitched are rejected, some wait for
\* their via, and each of the others has one, which nothing else shares.
StitchInv ==
  call.asked.tool = "route_board" =>
    LET orphans == OrphanPads(call.asked.report)
        done == (orphans \ call.rejected) \ call.pads
        vias == items \ before
    IN /\ call.pads \subseteq orphans /\ call.rejected \subseteq orphans
       /\ call.pads \cap call.rejected = {}
       /\ reply = "OK" => call.pads = {}
       /\ \A pad \in orphans : ~OnEdge(pad) => (pad \in call.rejected <=> ~Stitchable(pad))
       /\ alone /\ reply # "FAILED" =>
            /\ before \subseteq items
            /\ \A via \in vias : \E pad \in done : ViaOf(via, pad)
            /\ \A pad \in done : \E via \in vias : ViaOf(via, pad)
            /\ \A one, other \in vias : one.path = other.path => one = other

\* Rejected are the orphans that cannot be stitched; no via is made yet.
LEMMA EvaluateDecides ==
  ASSUME CopperTypeOK, NEW report \in Reports, Evaluate(report)
  PROVE  StitchInv'
<1> DEFINE orphans == OrphanPads(report)
<1>1. /\ call'.asked.tool = "route_board" /\ call'.asked.report = report
      /\ items' = items /\ zones' = zones /\ before' = items
      /\ call'.pads = {pad \in orphans : Candidate(pad)}
      /\ call'.rejected = {pad \in orphans : ~Candidate(pad)}
      /\ reply' = IF call'.pads = {} THEN "OK" ELSE "NONE"
  BY EvaluateReads, OrphansAre
<1>2. orphans \subseteq Pads
  BY DEF OrphanPads
<1> HIDE DEF orphans
<1>3. \A pad \in orphans : ~OnEdge(pad)' => (pad \in call'.rejected <=> ~Stitchable(pad)')
  <2> SUFFICES ASSUME NEW pad \in orphans, ~OnEdge(pad)'
               PROVE  pad \in call'.rejected <=> ~Stitchable(pad)'
    OBVIOUS
  <2>1. ~OnEdge(pad)
    BY <1>1 DEF OnEdge
  <2>2. Candidate(pad) <=> Stitchable(pad)'
    BY <1>1, <1>2, <2>1, CandidateIsStitchable
  <2> QED BY <1>1, <2>2
<1>4. (orphans \ call'.rejected) \ call'.pads = {} /\ items' \ before' = {}
  BY <1>1
<1>5. /\ call'.pads \subseteq orphans /\ call'.rejected \subseteq orphans
      /\ call'.pads \cap call'.rejected = {} /\ (reply' = "OK" => call'.pads = {})
  BY <1>1
<1> QED BY <1>1, <1>3, <1>4, <1>5 DEF StitchInv, orphans

\* A via is made for one of the pads that wait, which then is done.
LEMMA StitchViaKeeps ==
  ASSUME CopperTypeOK, StitchInv, StitchVia
  PROVE  StitchInv'
<1> DEFINE orphans == OrphanPads(call.asked.report)
           done == (orphans \ call.rejected) \ call.pads
           vias == items \ before
<1>1. /\ call.asked.tool = "route_board" /\ call'.asked = call.asked /\ call'.rejected = call.rejected
      /\ zones' = zones /\ before' = before /\ alone' = alone /\ reply = "NONE"
      /\ call'.pads \subseteq call.pads
  BY StitchViaEnds
<1>2. \A pad : (OnEdge(pad)' <=> OnEdge(pad)) /\ (Stitchable(pad)' <=> Stitchable(pad))
  BY <1>1 DEF OnEdge, Stitchable
<1>3. /\ call'.pads \subseteq orphans /\ call'.rejected \subseteq orphans
      /\ call'.pads \cap call'.rejected = {}
      /\ \A pad \in orphans : ~OnEdge(pad)' => (pad \in call'.rejected <=> ~Stitchable(pad)')
  BY <1>1, <1>2 DEF StitchInv
<1>4. CASE reply' = "FAILED"
  BY <1>1, <1>3, <1>4 DEF StitchInv
<1>5. CASE reply' # "FAILED"
  <2>1. PICK pad \in call.pads :
          /\ items' = items \cup {[id |-> nextId, net |-> pad.net, layer |-> ThroughLayer,
                                   path |-> <<pad.at>>]}
          /\ call'.pads = call.pads \ {pad}
          /\ reply' = IF call'.pads = {} THEN "OK" ELSE "NONE"
    BY <1>5, StitchViaEnds
  <2> DEFINE via == [id |-> nextId, net |-> pad.net, layer |-> ThroughLayer, path |-> <<pad.at>>]
             newDone == (orphans \ call.rejected) \ call'.pads
             newVias == items' \ before
  <2>2. ViaOf(via, pad) /\ via.path = <<pad.at>> /\ via.id = nextId
    BY DEF ViaOf
  <2>3. items' = items \cup {via}
    BY <2>1
  <2> HIDE DEF via
  <2>4. via \notin before
    BY <2>2 DEF CopperTypeOK, BoardOK, ItemsOK, IsCopper
  <2>5. pad \in orphans /\ pad \notin call.rejected
    BY <1>1 DEF StitchInv
  <2>6. newDone = done \cup {pad} /\ newVias = vias \cup {via} /\ pad \notin done
    BY <2>1, <2>3, <2>4, <2>5
  <2> SUFFICES ASSUME alone
               PROVE  /\ before \subseteq items'
                      /\ \A one \in newVias : \E other \in newDone : ViaOf(one, other)
                      /\ \A other \in newDone : \E one \in newVias : ViaOf(one, other)
                      /\ \A one, other \in newVias : one.path = other.path => one = other
    BY <1>1, <1>3, <2>1 DEF StitchInv
  <2>7. /\ before \subseteq items
        /\ \A one \in vias : \E other \in done : ViaOf(one, other)
        /\ \A other \in done : \E one \in vias : ViaOf(one, other)
        /\ \A one, other \in vias : one.path = other.path => one = other
    BY <1>1 DEF StitchInv
  <2>8. \A one \in vias : one.path # <<pad.at>>
    <3> SUFFICES ASSUME NEW one \in vias, one.path = <<pad.at>>
                 PROVE  FALSE
      OBVIOUS
    <3>1. PICK other \in done : ViaOf(one, other)
      BY <2>7
    <3>2. other.at = pad.at
      <4>1. <<other.at>> = <<pad.at>>
        BY <3>1 DEF ViaOf
      <4> QED BY <4>1
    <3>3. other = pad
      BY <2>5, <3>2 DEF OrphanPads
    <3> QED BY <2>6, <3>3
  <2> HIDE DEF orphans, done, vias, newDone, newVias
  <2> QED BY <2>2, <2>3, <2>6, <2>7, <2>8
<1> QED BY <1>4, <1>5

\* An edit of the human ends what is claimed of the vias.
LEMMA StitchInvStep == FindInv /\ StitchInv /\ [Next]_vars => StitchInv'
<1> SUFFICES ASSUME FindInv, StitchInv, [Next]_vars PROVE StitchInv'
  OBVIOUS
<1> USE DEF FindInv
<1>1. ASSUME NEW net \in Nets, NEW layer \in Layers, NEW shape \in Shapes, AddZone(net, layer, shape)
      PROVE  StitchInv'
  <2>1. call'.asked.tool = "add_zone"
    BY <1>1, AddZoneEnds
  <2> QED BY <2>1 DEF StitchInv
<1>2. ASSUME NEW filter \in Filters, GetTracks(filter) \/ DeleteBulk(filter)
      PROVE  StitchInv'
  <2>1. call'.asked.tool \in {"get_tracks", "delete_tracks_bulk"}
    BY <1>2, GetTracksReads, DeleteBulkReads
  <2> QED BY <2>1 DEF StitchInv
<1>3. ASSUME NEW net \in Nets, NEW via \in BOOLEAN, NEW at \in Points, DeleteNear(net, via, at)
      PROVE  StitchInv'
  <2>1. call'.asked.tool = "delete_near"
    BY <1>3, DeleteNearReads
  <2> QED BY <2>1 DEF StitchInv
<1>4. ASSUME NEW id \in 1..nextId - 1, NEW via \in BOOLEAN, DeleteById(id, via)
      PROVE  StitchInv'
  <2>1. call'.asked.tool = "delete_by_id"
    BY <1>4, DeleteByIdReads
  <2> QED BY <2>1 DEF StitchInv
<1>5. CASE Remove
  <2>1. call'.asked.tool \in Deleting
    BY <1>5, RemoveEnds
  <2> QED BY <2>1 DEF StitchInv, Deleting
<1>6. ASSUME NEW report \in Reports, Evaluate(report)
      PROVE  StitchInv'
  BY <1>6, EvaluateDecides
<1>7. CASE StitchVia
  BY <1>7, StitchViaKeeps
<1>8. CASE DeleteItem \/ MoveItem
  BY <1>8, EditsKeep DEF StitchInv, OnEdge, Stitchable
<1>9. CASE UNCHANGED vars
  BY <1>9 DEF vars, board, StitchInv, OnEdge, Stitchable
<1> QED BY <1>1, <1>2, <1>3, <1>4, <1>5, <1>6, <1>7, <1>8, <1>9 DEF Next

\* As many vias as pads that have one.
LEMMA AsManyVias ==
  ASSUME NEW vias, NEW done, IsFiniteSet(done),
         \A via \in vias : \E pad \in done : ViaOf(via, pad),
         \A pad \in done : \E via \in vias : ViaOf(via, pad),
         \A one, other \in vias : one.path = other.path => one = other,
         \A one, other \in done : one.at = other.at => one = other
  PROVE  Cardinality(vias) = Cardinality(done)
<1> DEFINE f == [via \in vias |-> CHOOSE pad \in done : ViaOf(via, pad)]
<1>1. \A via \in vias : f[via] \in done /\ ViaOf(via, f[via])
  OBVIOUS
<1>2. f \in [vias -> done]
  BY <1>1
<1> HIDE DEF f
<1>3. ASSUME NEW one \in vias, NEW other \in vias, f[one] = f[other]
      PROVE  one = other
  BY <1>1, <1>3 DEF ViaOf
<1>4. ASSUME NEW pad \in done
      PROVE  \E via \in vias : f[via] = pad
  <2>1. PICK via \in vias : ViaOf(via, pad)
    OBVIOUS
  <2>2. <<f[via].at>> = <<pad.at>>
    BY <1>1, <2>1 DEF ViaOf
  <2>3. f[via].at = pad.at
    BY <2>2
  <2> QED BY <1>1, <2>3
<1>5. f \in Injection(vias, done) /\ f \in Surjection(vias, done)
  BY <1>2, <1>3, <1>4 DEF Injection, Surjection, IsInjective
<1> QED BY <1>5, FS_Injection

\* Of a pad that is done there is one via, of a rejected one there is none.
LEMMA StitchInvGivesSound == FindInv /\ StitchInv => StitchIsSound
<1> SUFFICES ASSUME FindInv, StitchInv, call.asked.tool = "route_board", reply = "OK", alone
             PROVE  LET orphans == OrphanPads(call.asked.report)
                        vias == items \ before
                        Of(pad) == {via \in vias : via.net = pad.net /\ via.path = <<pad.at>>}
                        onEdge == {pad \in orphans : \E zone \in zones :
                                      zone.net = pad.net /\ OnOutline(pad.at, zone.outline)}
                    IN /\ before \subseteq items /\ call.rejected \subseteq orphans
                       /\ Cardinality(vias) + Cardinality(call.rejected) = Cardinality(orphans)
                       /\ \A pad \in orphans :
                            Cardinality(Of(pad)) = IF pad \in call.rejected THEN 0 ELSE 1
                       /\ \A pad \in orphans \ onEdge : (pad \in call.rejected) <=> ~Stitchable(pad)
  BY DEF StitchIsSound, OrphanPads
<1> DEFINE orphans == OrphanPads(call.asked.report)
           rejected == call.rejected
           done == orphans \ rejected
           vias == items \ before
           Of(pad) == {via \in vias : via.net = pad.net /\ via.path = <<pad.at>>}
<1>1. /\ rejected \subseteq orphans
      /\ \A pad \in orphans : ~OnEdge(pad) => (pad \in rejected <=> ~Stitchable(pad))
      /\ before \subseteq items
      /\ \A via \in vias : \E pad \in done : ViaOf(via, pad)
      /\ \A pad \in done : \E via \in vias : ViaOf(via, pad)
      /\ \A one, other \in vias : one.path = other.path => one = other
  <2>1. call.pads = {}
    BY DEF StitchInv
  <2>2. (orphans \ rejected) \ call.pads = done
    BY <2>1
  <2> HIDE DEF done
  <2> QED BY <2>2 DEF StitchInv
<1>2. /\ IsFiniteSet(orphans)
      /\ \A one, other \in orphans : one.at = other.at => one = other
  <2>1. orphans \subseteq Pads /\ \A one, other \in orphans : one.at = other.at => one = other
    BY DEF OrphanPads
  <2> QED BY <2>1, CopperAssumption, FS_Subset
<1>3. \A pad : Of(pad) = {via \in vias : ViaOf(via, pad)}
  BY DEF ViaOf
<1> HIDE DEF orphans, vias
<1>4. Cardinality(vias) + Cardinality(rejected) = Cardinality(orphans)
  <2>1. IsFiniteSet(done) /\ Cardinality(done) = Cardinality(orphans) - Cardinality(orphans \cap rejected)
    BY <1>2, FS_Difference
  <2>2. orphans \cap rejected = rejected /\ IsFiniteSet(rejected)
    BY <1>1, <1>2, FS_Subset
  <2>3. \A one, other \in done : one.at = other.at => one = other
    BY <1>2
  <2>4. Cardinality(vias) = Cardinality(done)
    <3> HIDE DEF done
    <3> QED BY <1>1, <2>1, <2>3, AsManyVias
  <2>5. Cardinality(orphans) \in Nat /\ Cardinality(rejected) \in Nat
    BY <1>2, <2>2, FS_CardinalityType
  <2>6. Cardinality(vias) = Cardinality(orphans) - Cardinality(rejected)
    <3> HIDE DEF done
    <3> QED BY <2>1, <2>2, <2>4
  <2> QED BY <2>5, <2>6
<1>5. ASSUME NEW pad \in orphans
      PROVE  Cardinality(Of(pad)) = IF pad \in rejected THEN 0 ELSE 1
  <2>1. ASSUME NEW via \in Of(pad)
        PROVE  pad \in done
    <3>1. via \in vias /\ via.path = <<pad.at>>
      OBVIOUS
    <3>2. PICK other \in done : ViaOf(via, other)
      BY <1>1, <3>1
    <3>3. <<other.at>> = <<pad.at>>
      BY <3>1, <3>2 DEF ViaOf
    <3>4. other.at = pad.at
      BY <3>3
    <3> QED BY <1>2, <3>4
  <2>2. CASE pad \in rejected
    <3>1. Of(pad) = {}
      BY <2>1, <2>2
    <3> HIDE DEF Of
    <3> QED BY <2>2, <3>1, FS_EmptySet
  <2>3. CASE pad \notin rejected
    <3>1. PICK via \in vias : ViaOf(via, pad)
      BY <1>1, <2>3
    <3>2. Of(pad) = {via}
      BY <1>1, <3>1 DEF ViaOf
    <3> HIDE DEF Of
    <3> QED BY <2>3, <3>2, FS_Singleton
  <2> QED BY <2>2, <2>3
<1>6. ASSUME NEW pad \in orphans,
             ~ \E zone \in zones : zone.net = pad.net /\ OnOutline(pad.at, zone.outline)
      PROVE  pad \in rejected <=> ~Stitchable(pad)
  BY <1>1, <1>6 DEF OnEdge
<1> QED BY <1>1, <1>4, <1>5, <1>6 DEF orphans, vias

\* ADR-0012, F-D5-01: whatever the board, its zones, its copper and the report
\* of the DRC, when nobody interferes each orphan that can be stitched gets one
\* via, each that cannot is reported, and nothing else is added.
THEOREM StitchSound == Spec => []StitchIsSound
<1>1. Init => StitchInv
  BY NewCalls DEF Init, StitchInv
<1>2. Spec => []StitchInv
  BY <1>1, StitchInvStep, FindInvariant, PTL DEF Spec
<1> QED BY <1>2, StitchInvGivesSound, FindInvariant, PTL
=============================================================================
